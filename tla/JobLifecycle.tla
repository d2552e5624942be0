----------------------------- MODULE JobLifecycle -----------------------------
(***************************************************************************)
(* What the Job interface promises its clients (internal/dbus/interfaces.go*)
(* 83-95): a job is pending, then running, then has one result, which is   *)
(* final; whoever waits for it hears that result, or gives up.             *)
(***************************************************************************)
CONSTANTS Jobs, Clients, NoJob

VARIABLES
    phase,    \* job -> where it is in its life
    asks,     \* client -> the job it waits for, or NoJob
    answer    \* client -> what it was told

vars == <<phase, asks, answer>>

Results == {"completed", "failed", "cancelled"}

Init ==
    /\ phase = [j \in Jobs |-> "absent"]
    /\ asks = [c \in Clients |-> NoJob]
    /\ answer = [c \in Clients |-> "none"]

Submit(j) ==
    /\ phase[j] = "absent"
    /\ phase' = [phase EXCEPT ![j] = "pending"]
    /\ UNCHANGED <<asks, answer>>

Begin(j) ==
    /\ phase[j] = "pending"
    /\ phase' = [phase EXCEPT ![j] = "running"]
    /\ UNCHANGED <<asks, answer>>

End(j) ==
    /\ \/ /\ phase[j] = "running"
          /\ \E r \in Results : phase' = [phase EXCEPT ![j] = r]
       \/ /\ phase[j] = "pending"
          /\ phase' = [phase EXCEPT ![j] = "cancelled"]
    /\ UNCHANGED <<asks, answer>>

Ask(c) ==
    /\ asks[c] = NoJob
    /\ \E j \in Jobs : /\ phase[j] # "absent"
                       /\ asks' = [asks EXCEPT ![c] = j]
    /\ UNCHANGED <<phase, answer>>

Hear(c) ==
    /\ asks[c] # NoJob
    /\ answer[c] = "none"
    /\ phase[asks[c]] \in Results
    /\ answer' = [answer EXCEPT ![c] =
                     IF phase[asks[c]] = "completed" THEN "success"
                     ELSE "failure"]
    /\ UNCHANGED <<phase, asks>>

Leave(c) ==
    /\ asks[c] # NoJob
    /\ asks' = [asks EXCEPT ![c] = NoJob]
    /\ answer' = [answer EXCEPT ![c] = "none"]
    /\ UNCHANGED phase

Next ==
    \/ \E j \in Jobs : Submit(j) \/ Begin(j) \/ End(j)
    \/ \E c \in Clients : Ask(c) \/ Hear(c) \/ Leave(c)

Spec == Init /\ [][Next]_vars
=============================================================================
