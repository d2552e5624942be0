------------------------ MODULE DBusPackages_proofs ------------------------
(***************************************************************************)
(* Theorems about DBusPackages: the types, that one object serves a path,  *)
(* and that its flag is true, for any number of clients, packages, objects *)
(* and calls.                                                              *)
(***************************************************************************)
EXTENDS DBusPackages, TLAPS

\* Steps in which a client makes an object, or does a job.
Active     == {"new", "status", "flag", "set", "register", "manage"}
Works(c, k) == pkg[c] = k /\ pc[c] \in Active

\* The object of a client has its properties on the bus and is not registered.
Making(c) == pc[c] \in {"status", "flag", "set", "register"} /\ job[c] # "over"

\* The client does a job through the object at the path.
Serving(c) == pc[c] = "manage" \/ job[c] = "over"

Exporting(o, k) == o \in exporting /\ object[o].pkg = k

\* Objects are used only once they are made, under the path of their package.
Made(o, k) == o \in 1..made /\ object[o].pkg = k

OnlyMade ==
    /\ exporting \subseteq 1..made
    /\ \A c \in Clients : pc[c] \in Active => Made(at[c], pkg[c])
    /\ \A c \in Clients : job[c] = "over" => pc[c] \in {"status", "flag", "set"}
    /\ \A k \in Pkgs : /\ registry[k] # None => Made(registry[k], k)
                       /\ methods[k] # None => Made(methods[k], k)
                       /\ props[k] # None => Made(props[k], k)

\* A package that was not crossed has one at work on it.
Alone ==
    \A k \in Pkgs \ crossed :
        /\ \A c, d \in Clients : Works(c, k) /\ Works(d, k) => c = d
        /\ \A c \in Clients, o \in Objects : ~(Works(c, k) /\ Exporting(o, k))
        /\ \A o, r \in Objects : Exporting(o, k) /\ Exporting(r, k) => o = r

\* What the registry and the two faces on the bus are, by what is on its way.
Faces ==
    /\ \A k \in badPaths : methods[k] = None /\ props[k] = None
    /\ \A k \in Pkgs \ (crossed \cup badPaths) :
          /\ \/ \E c \in Clients : Works(c, k) /\ Making(c)
             \/ \E o \in Objects : Exporting(o, k)
             \/ registry[k] = methods[k] /\ methods[k] = props[k]
          /\ \A c \in Clients :
                Works(c, k) => /\ Making(c) => props[k] = at[c] /\ registry[k] = methods[k]
                               /\ Serving(c) => props[k] = at[c]
          /\ \A o \in Objects : Exporting(o, k) => registry[k] = o /\ props[k] = o

IsThere(k)  == Asked \in installed[k]
TrueFlag(k) == shown[props[k]] = IsThere(k) /\ object[props[k]].flag = IsThere(k)

\* How far a client is with the flag, as long as nothing else changes it.
Flags ==
    \A k \in Pkgs \ (crossed \cup unseen) :
        props[k] # None =>
            /\ \/ \E c \in Clients : Works(c, k) /\ pc[c] \in {"status", "flag", "set"}
               \/ TrueFlag(k)
            /\ \A c \in Clients :
                  Works(c, k) => /\ pc[c] \in {"flag", "set"} => answer[c] = IsThere(k)
                                 /\ pc[c] = "set" => object[at[c]].flag = IsThere(k)

ObjectInv == TypeOK /\ OnlyMade /\ Alone /\ Faces /\ Flags

-----------------------------------------------------------------------------
(* Lemmas *)

LEMMA MadeAreObjects == TypeOK => made \in Nat /\ 1..made \subseteq Objects
BY PackagesAssumption DEF TypeOK, Objects, PackagesAssumption

\* A client that leaves works on nothing.
LEMMA Leaving ==
    ASSUME TypeOK, NEW c \in Clients, Leave(c)
    PROVE  /\ pc' = [pc EXCEPT ![c] = "idle"]
           /\ pkg' \in [Clients -> Pkgs] /\ at' \in [Clients -> Objects \cup {None}]
           /\ answer' \in [Clients -> BOOLEAN] /\ pc' \in [Clients -> Steps]
           /\ job' \in [Clients -> {"none", "install", "remove", "over"}]
           /\ \A k \in Pkgs : ~Works(c, k)'
           /\ job'[c] = "none"
           /\ \A d \in Clients \ {c} : /\ pc'[d] = pc[d] /\ pkg'[d] = pkg[d] /\ at'[d] = at[d]
                                       /\ answer'[d] = answer[d] /\ job'[d] = job[d]
<1>1. NoPkg \in Pkgs
  BY PackagesAssumption DEF NoPkg, PackagesAssumption
<1> QED
  BY <1>1 DEF Leave, Goto, TypeOK, Steps, Works, Active, Objects

LEMMA ObjectInit == Init => ObjectInv
<1> SUFFICES ASSUME Init PROVE ObjectInv
  OBVIOUS
<1>1. NoPkg \in Pkgs
  BY PackagesAssumption DEF NoPkg, PackagesAssumption
<1>2. TypeOK
  BY <1>1, PackagesAssumption DEF Init, TypeOK, Steps, PackagesAssumption
<1>3. OnlyMade /\ Alone /\ Faces /\ Flags
  BY DEF Init, OnlyMade, Alone, Faces, Flags, Works, Active, Exporting
<1> QED
  BY <1>2, <1>3 DEF ObjectInv

\* What touches no object and nothing on the bus, and leaves each client that
\* works where it is.
LEMMA IdleSteps ==
    ASSUME ObjectInv, TypeOK',
           UNCHANGED <<badPaths, installed, objectVars, busVars, crossed>>,
           unseen \subseteq unseen',
           \A c \in Clients : \/ /\ pc'[c] = pc[c] /\ pkg'[c] = pkg[c] /\ at'[c] = at[c]
                                 /\ answer'[c] = answer[c] /\ job'[c] = job[c]
                              \/ /\ pc[c] \notin Active /\ pc'[c] \notin Active
                                 /\ job'[c] # "over"
    PROVE  ObjectInv'
<1> USE DEF objectVars, busVars
<1>1. OnlyMade'
  BY DEF ObjectInv, OnlyMade, Made
<1>2. \A c \in Clients, k \in Pkgs : /\ Works(c, k)' <=> Works(c, k)
                                     /\ Works(c, k) => pc'[c] = pc[c] /\ at'[c] = at[c]
                                        /\ answer'[c] = answer[c] /\ job'[c] = job[c]
  BY DEF Works
<1>3. Alone'
  BY <1>2 DEF ObjectInv, Alone, Exporting
<1>4. Faces'
  BY <1>2 DEF ObjectInv, Faces, Exporting, Making, Serving
<1>5. Flags'
  BY <1>2 DEF ObjectInv, Flags, TrueFlag, IsThere
<1> QED
  BY <1>1, <1>3, <1>4, <1>5 DEF ObjectInv

-----------------------------------------------------------------------------
(* Steps of clients that work *)

LEMMA NewStep ==
    ASSUME ObjectInv, NEW c \in Clients, New(c)
    PROVE  ObjectInv'
<1> USE DEF New, Goto, systemVars, objectVars, histVars
<1>1. TypeOK /\ pkg[c] \in Pkgs /\ at[c] \in Objects /\ Made(at[c], pkg[c]) /\ job[c] # "over"
  BY MadeAreObjects DEF ObjectInv, TypeOK, OnlyMade, Active, Made
<1>2. TypeOK'
  BY <1>1 DEF TypeOK, ExportProps, Steps
<1>3. /\ pc'[c] = "status" /\ \A d \in Clients \ {c} : pc'[d] = pc[d]
      /\ \A d \in Clients, k \in Pkgs : Works(d, k)' <=> Works(d, k)
      /\ \A o \in Objects, k \in Pkgs : Exporting(o, k)' <=> Exporting(o, k)
      /\ Works(c, pkg[c])
  BY DEF ObjectInv, TypeOK, Works, Active, Exporting
<1>4. /\ props'[pkg[c]] = IF pkg[c] \in badPaths THEN None ELSE at[c]
      /\ \A k \in Pkgs \ {pkg[c]} : props'[k] = props[k]
  BY <1>1 DEF TypeOK, ExportProps
<1>5. OnlyMade'
  BY <1>1, <1>3, <1>4 DEF ObjectInv, OnlyMade, Made, Active
<1>6. Alone'
  BY <1>3 DEF ObjectInv, Alone
<1>7. Faces'
  BY <1>1, <1>3, <1>4 DEF ObjectInv, Faces, Alone, Making, Serving, Works
<1>8. Flags'
  BY <1>1, <1>3, <1>4 DEF ObjectInv, Flags, Alone, TrueFlag, IsThere, Works
<1> QED
  BY <1>2, <1>5, <1>6, <1>7, <1>8 DEF ObjectInv

LEMMA QueryStep ==
    ASSUME ObjectInv, NEW c \in Clients, Query(c), pkg[c] \in rows, made' = made + 1
    PROVE  ObjectInv'
<1> DEFINE o == made + 1
<1>1. /\ TypeOK /\ pkg[c] \in Pkgs /\ o \in Objects /\ o \in 1..made' /\ o \notin 1..made
      /\ 1..made \subseteq 1..made' /\ made \in Nat /\ pc[c] = "query" /\ job[c] # "over"
  <2>1. TypeOK /\ pkg[c] \in Pkgs /\ pc[c] = "query" /\ job[c] # "over"
    BY DEF Query, ObjectInv, OnlyMade, TypeOK
  <2>2. made \in Nat /\ made < MaxObjects /\ MaxObjects \in Nat
    <3>1. made < MaxObjects
      BY <2>1, MadeAreObjects DEF Query, objectVars
    <3> QED
      BY <2>1, <3>1, MadeAreObjects, PackagesAssumption DEF PackagesAssumption
  <2> QED
    BY <2>1, <2>2 DEF Objects
<1>2. /\ object' = [object EXCEPT ![o] = [pkg |-> pkg[c], flag |-> FALSE]]
      /\ at' = [at EXCEPT ![c] = o]
      /\ pc' = [pc EXCEPT ![c] = "new"]
      /\ Crossing(c, pkg[c])
      /\ UNCHANGED <<shown, pkg, answer, job, badPaths, rows, installed, unseen, calls>>
      /\ UNCHANGED <<registry, methods, props, exporting>>
  BY <1>1 DEF Query, Goto, systemVars, busVars, objectVars
<1>3. TypeOK'
  BY <1>1, <1>2 DEF TypeOK, Steps, Objects, Crossing
<1>4. /\ pc'[c] = "new" /\ at'[c] = o /\ object'[o].pkg = pkg[c]
      /\ \A d \in Clients \ {c} : pc'[d] = pc[d] /\ at'[d] = at[d]
      /\ \A r \in 1..made : object'[r] = object[r]
      /\ \A d \in Clients \ {c}, k \in Pkgs : Works(d, k)' <=> Works(d, k)
      /\ \A k \in Pkgs : Works(c, k)' <=> k = pkg[c]
      /\ \A k \in Pkgs : ~Works(c, k)
  BY <1>1, <1>2 DEF TypeOK, Works, Active
<1>5. \A r \in Objects, k \in Pkgs : Exporting(r, k)' <=> Exporting(r, k)
  BY <1>1, <1>2, <1>4 DEF ObjectInv, OnlyMade, Exporting
<1>6. /\ crossed \subseteq crossed'
      /\ pkg[c] \notin crossed' => /\ \A d \in Clients : ~Works(d, pkg[c])
                                   /\ \A r \in Objects : ~Exporting(r, pkg[c])
  BY <1>1, <1>2 DEF Crossing, Busy, TypeOK, Steps, Works, Active, Exporting
<1>7. OnlyMade'
  BY <1>1, <1>2, <1>4 DEF ObjectInv, OnlyMade, Made, Active
<1>8. Alone'
  BY <1>4, <1>5, <1>6 DEF ObjectInv, Alone
<1>9. Faces'
  BY <1>1, <1>2, <1>4, <1>5, <1>6 DEF ObjectInv, Faces, Making, Serving
<1>10. Flags'
  <2>1. \A k \in Pkgs : props[k] # None => object'[props[k]] = object[props[k]]
    BY <1>4 DEF ObjectInv, OnlyMade, Made
  <2>2. \A d \in Clients \ {c} : pc[d] \in Active => object'[at[d]] = object[at[d]]
    BY <1>4 DEF ObjectInv, OnlyMade, Made
  <2>8. /\ \A k \in Pkgs : IsThere(k)' = IsThere(k)
        /\ UNCHANGED <<props, unseen, answer>>
    BY <1>2 DEF IsThere
  <2> SUFFICES ASSUME NEW k \in Pkgs, k \notin crossed', k \notin unseen, props[k] # None
               PROVE  /\ \/ \E d \in Clients : Works(d, k)' /\ pc'[d] \in {"status", "flag", "set"}
                         \/ TrueFlag(k)'
                      /\ \A d \in Clients :
                            Works(d, k)' => /\ pc'[d] \in {"flag", "set"} => answer[d] = IsThere(k)
                                            /\ pc'[d] = "set" => object'[at'[d]].flag = IsThere(k)
    BY <2>8 DEF Flags
  <2>3. \A d \in Clients : Works(d, k) => d # c /\ Works(d, k)' /\ pc'[d] = pc[d] /\ at'[d] = at[d]
                                         /\ object'[at[d]] = object[at[d]]
    BY <1>4, <2>2 DEF Works
  <2>4. \A d \in Clients : Works(d, k)' => Works(d, k) \/ pc'[d] = "new"
    BY <1>4
  <2>5. /\ \/ \E d \in Clients : Works(d, k) /\ pc[d] \in {"status", "flag", "set"}
           \/ TrueFlag(k)
        /\ \A d \in Clients :
              Works(d, k) => /\ pc[d] \in {"flag", "set"} => answer[d] = IsThere(k)
                             /\ pc[d] = "set" => object[at[d]].flag = IsThere(k)
    BY <1>6 DEF ObjectInv, Flags
  <2>6. TrueFlag(k) => TrueFlag(k)'
    BY <1>2, <2>1 DEF TrueFlag, IsThere
  <2>7. \/ \E d \in Clients : Works(d, k)' /\ pc'[d] \in {"status", "flag", "set"}
        \/ TrueFlag(k)'
    BY <2>3, <2>5, <2>6
  <2> QED
    BY <2>3, <2>4, <2>5, <2>7
<1> QED
  BY <1>3, <1>7, <1>8, <1>9, <1>10 DEF ObjectInv

LEMMA FlagStep ==
    ASSUME ObjectInv, NEW c \in Clients, Flag(c)
    PROVE  ObjectInv'
<1> USE DEF Flag, Goto, systemVars, busVars, histVars, NewFlag
<1>1. TypeOK /\ pkg[c] \in Pkgs /\ at[c] \in Objects /\ Made(at[c], pkg[c]) /\ pc[c] = "flag"
  BY MadeAreObjects DEF ObjectInv, TypeOK, OnlyMade, Active, Made
<1>2. TypeOK'
  BY <1>1 DEF TypeOK, Steps
<1>3. /\ pc'[c] = "set" /\ \A d \in Clients \ {c} : pc'[d] = pc[d]
      /\ \A d \in Clients, k \in Pkgs : Works(d, k)' <=> Works(d, k)
      /\ object'[at[c]].flag = answer[c]
      /\ \A o \in Objects : object'[o].pkg = object[o].pkg
      /\ \A o \in Objects \ {at[c]} : object'[o] = object[o]
  BY <1>1 DEF TypeOK, Works, Active
<1>4. \A o \in Objects, k \in Pkgs : Exporting(o, k)' <=> Exporting(o, k)
  BY <1>3 DEF Exporting
<1>5. OnlyMade'
  <2>1. \A o \in 1..made : o \in Objects
    BY <1>1, PackagesAssumption DEF TypeOK, Objects, PackagesAssumption
  <2> QED
    BY <1>1, <1>3, <2>1 DEF ObjectInv, OnlyMade, Made, Active
<1>6. Alone'
  BY <1>3, <1>4 DEF ObjectInv, Alone
<1>7. Faces'
  BY <1>1, <1>3, <1>4 DEF ObjectInv, Faces, Making, Serving
<1>8. Flags'
  <2> SUFFICES ASSUME NEW k \in Pkgs, k \notin crossed, k \notin unseen, props[k] # None
               PROVE  /\ \/ \E d \in Clients : Works(d, k) /\ pc'[d] \in {"status", "flag", "set"}
                         \/ TrueFlag(k)'
                      /\ \A d \in Clients :
                            Works(d, k) => /\ pc'[d] \in {"flag", "set"} => answer[d] = IsThere(k)
                                           /\ pc'[d] = "set" => object'[at[d]].flag = IsThere(k)
    BY <1>3 DEF Flags, IsThere
  <2>1. CASE k = pkg[c]
    <3>1. Works(c, k) /\ \A d \in Clients : Works(d, k) => d = c
      BY <1>1, <2>1 DEF ObjectInv, Alone, Works, Active
    <3>2. answer[c] = IsThere(k)
      BY <1>1, <3>1 DEF ObjectInv, Flags
    <3> QED
      BY <1>3, <3>1, <3>2
  <2>2. CASE k # pkg[c]
    <3>1. /\ props[k] # at[c]
          /\ \A d \in Clients : Works(d, k) => d # c /\ at[d] # at[c] /\ at[d] \in Objects
      BY <1>1, <2>2, PackagesAssumption
      DEF ObjectInv, OnlyMade, Made, Works, Active, TypeOK, Objects, PackagesAssumption
    <3>2. object'[props[k]] = object[props[k]]
      BY <1>1, <1>3, <3>1 DEF TypeOK
    <3> QED
      BY <1>3, <3>1, <3>2 DEF ObjectInv, Flags, TrueFlag, IsThere
  <2> QED
    BY <2>1, <2>2
<1> QED
  BY <1>2, <1>5, <1>6, <1>7, <1>8 DEF ObjectInv

\* A client whose job is over, or failed, leaves; at most the property of its
\* object changes.
LEMMA Ending ==
    ASSUME ObjectInv, NEW c \in Clients, pc[c] \in Active, Serving(c), Leave(c),
           UNCHANGED <<systemVars, made, object, busVars, crossed, calls>>,
           shown' \in [Objects -> BOOLEAN],
           \A o \in Objects \ {at[c]} : shown'[o] = shown[o],
           unseen \subseteq unseen', unseen' \subseteq Pkgs,
           pkg[c] \notin crossed \cup unseen' /\ props[pkg[c]] # None =>
               /\ shown'[props[pkg[c]]] = IsThere(pkg[c])
               /\ object[props[pkg[c]]].flag = IsThere(pkg[c])
    PROVE  ObjectInv'
<1> USE DEF systemVars, busVars
<1>1. /\ TypeOK /\ pkg[c] \in Pkgs /\ Made(at[c], pkg[c]) /\ at[c] \in Objects
      /\ Works(c, pkg[c])
  BY MadeAreObjects DEF ObjectInv, TypeOK, OnlyMade, Made, Works
<1>2. TypeOK'
  BY <1>1, Leaving DEF TypeOK
<1>3. /\ pc'[c] \notin Active /\ job'[c] # "over" /\ pc'[c] = "idle"
      /\ \A k \in Pkgs : ~Works(c, k)'
      /\ \A d \in Clients \ {c} : /\ pc'[d] = pc[d] /\ pkg'[d] = pkg[d] /\ at'[d] = at[d]
                                  /\ answer'[d] = answer[d] /\ job'[d] = job[d]
      /\ \A d \in Clients \ {c}, k \in Pkgs : Works(d, k)' <=> Works(d, k)
      /\ \A o \in Objects, k \in Pkgs : Exporting(o, k)' <=> Exporting(o, k)
  BY <1>1, Leaving DEF TypeOK, Active, Works, Exporting
<1>4. OnlyMade'
  BY <1>3 DEF ObjectInv, OnlyMade, Made
<1>5. Alone'
  BY <1>3 DEF ObjectInv, Alone
<1>6. Faces'
  <2>1. ~Making(c)
    BY DEF ObjectInv, OnlyMade, Making, Serving
  <2> QED
    BY <1>3, <2>1 DEF ObjectInv, Faces, Making, Serving
<1>7. Flags'
  <2> SUFFICES ASSUME NEW k \in Pkgs, k \notin crossed, k \notin unseen', props[k] # None
               PROVE  /\ \/ \E d \in Clients : Works(d, k)' /\ pc'[d] \in {"status", "flag", "set"}
                         \/ TrueFlag(k)'
                      /\ \A d \in Clients :
                            Works(d, k)' => /\ pc'[d] \in {"flag", "set"} => answer'[d] = IsThere(k)
                                            /\ pc'[d] = "set" => object[at'[d]].flag = IsThere(k)
    BY DEF Flags, IsThere
  <2>1. CASE k = pkg[c]
    <3>1. \A d \in Clients : ~Works(d, k)'
      BY <1>1, <1>3, <2>1 DEF ObjectInv, Alone
    <3>2. TrueFlag(k)'
      BY <2>1 DEF TrueFlag, IsThere
    <3> QED
      BY <3>1, <3>2
  <2>2. CASE k # pkg[c]
    <3>1. props[k] \in Objects /\ props[k] # at[c]
      BY <1>1, <2>2, MadeAreObjects DEF ObjectInv, OnlyMade, Made
    <3>2. TrueFlag(k)' <=> TrueFlag(k)
      BY <3>1 DEF TrueFlag, IsThere
    <3>3. ~Works(c, k)
      BY <2>2 DEF Works
    <3> QED
      BY <1>3, <3>2, <3>3 DEF ObjectInv, Flags
  <2> QED
    BY <2>1, <2>2
<1> QED
  BY <1>2, <1>4, <1>5, <1>6, <1>7 DEF ObjectInv

\* A client that is making an object, or whose job is over, goes on.
LEMMA GoingOn ==
    ASSUME ObjectInv, NEW c \in Clients, TypeOK',
           pc[c] \in {"status", "flag", "set"},
           pc'[c] \in {"status", "flag", "set", "register"},
           job[c] = "over" => pc'[c] # "register",
           \A d \in Clients \ {c} : pc'[d] = pc[d] /\ answer'[d] = answer[d],
           UNCHANGED <<systemVars, made, object, busVars, crossed, pkg, at, job>>,
           \A o \in Objects \ {at[c]} : shown'[o] = shown[o],
           unseen \subseteq unseen',
           pkg[c] \notin crossed \cup unseen' /\ props[pkg[c]] # None =>
               /\ pc'[c] \in {"flag", "set"} => answer'[c] = IsThere(pkg[c])
               /\ pc'[c] = "set" => object[at[c]].flag = IsThere(pkg[c])
               /\ pc'[c] = "register" => /\ shown'[props[pkg[c]]] = IsThere(pkg[c])
                                         /\ object[props[pkg[c]]].flag = IsThere(pkg[c])
    PROVE  ObjectInv'
<1> USE DEF systemVars, busVars
<1>1. /\ TypeOK /\ pkg[c] \in Pkgs /\ Made(at[c], pkg[c]) /\ at[c] \in Objects
      /\ Works(c, pkg[c])
  BY MadeAreObjects DEF ObjectInv, TypeOK, OnlyMade, Made, Works, Active
<1>2. /\ \A d \in Clients, k \in Pkgs : Works(d, k)' <=> Works(d, k)
      /\ \A o \in Objects, k \in Pkgs : Exporting(o, k)' <=> Exporting(o, k)
      /\ \A d \in Clients : Making(d)' <=> Making(d)
      /\ \A d \in Clients : Serving(d)' <=> Serving(d)
  BY DEF Works, Active, Exporting, Making, Serving
<1>3. OnlyMade'
  BY <1>2 DEF ObjectInv, OnlyMade, Made, Active
<1>4. Alone'
  BY <1>2 DEF ObjectInv, Alone
<1>5. Faces'
  BY <1>2 DEF ObjectInv, Faces
<1>6. Flags'
  <2> SUFFICES ASSUME NEW k \in Pkgs, k \notin crossed, k \notin unseen', props[k] # None
               PROVE  /\ \/ \E d \in Clients : Works(d, k)' /\ pc'[d] \in {"status", "flag", "set"}
                         \/ TrueFlag(k)'
                      /\ \A d \in Clients :
                            Works(d, k)' => /\ pc'[d] \in {"flag", "set"} => answer'[d] = IsThere(k)
                                            /\ pc'[d] = "set" => object[at[d]].flag = IsThere(k)
    BY DEF Flags, IsThere
  <2>1. CASE k = pkg[c]
    <3>1. \A d \in Clients : Works(d, k)' => d = c
      BY <1>1, <1>2, <2>1 DEF ObjectInv, Alone
    <3>2. pc'[c] = "register" => TrueFlag(k)'
      BY <2>1 DEF TrueFlag, IsThere
    <3> QED
      BY <1>1, <1>2, <2>1, <3>1, <3>2
  <2>2. CASE k # pkg[c]
    <3>1. props[k] \in Objects /\ props[k] # at[c]
      BY <1>1, <2>2, MadeAreObjects DEF ObjectInv, OnlyMade, Made
    <3>2. TrueFlag(k)' <=> TrueFlag(k)
      BY <3>1 DEF TrueFlag, IsThere
    <3>3. ~Works(c, k)
      BY <2>2 DEF Works
    <3> QED
      BY <1>2, <3>2, <3>3 DEF ObjectInv, Flags
  <2> QED
    BY <2>1, <2>2
<1> QED
  BY <1>3, <1>4, <1>5, <1>6 DEF ObjectInv

\* The object a client looks after is the one whose properties are seen.
LEMMA AtProps ==
    ASSUME ObjectInv, NEW c \in Clients, pc[c] \in Active \ {"new"},
           pkg[c] \notin crossed, props[pkg[c]] # None
    PROVE  at[c] = props[pkg[c]]
<1>1. pkg[c] \in Pkgs \ (crossed \cup badPaths) /\ Works(c, pkg[c])
  BY DEF ObjectInv, TypeOK, Faces, Works
<1>2. Making(c) \/ Serving(c)
  BY DEF Making, Serving, Active
<1> QED
  BY <1>1, <1>2 DEF ObjectInv, Faces

LEMMA StatusStep ==
    ASSUME ObjectInv, NEW c \in Clients, Status(c)
    PROVE  ObjectInv'
<1>1. /\ pc[c] = "status" /\ TypeOK /\ pkg[c] \in Pkgs
      /\ UNCHANGED <<systemVars, objectVars, busVars, calls, crossed>>
  BY DEF Status, ObjectInv, TypeOK
<1>2. CASE /\ answer' = [answer EXCEPT ![c] = Asked \in installed[pkg[c]]]
           /\ Goto(c, "flag")
           /\ UNCHANGED <<pkg, at, job, unseen>>
  <2>1. TypeOK'
    BY <1>1, <1>2 DEF TypeOK, Steps, Goto, systemVars, objectVars, busVars
  <2>2. /\ pc'[c] = "flag" /\ answer'[c] = IsThere(pkg[c])
        /\ \A d \in Clients \ {c} : pc'[d] = pc[d] /\ answer'[d] = answer[d]
    BY <1>1, <1>2 DEF TypeOK, Goto, IsThere
  <2> QED
    BY <1>1, <1>2, <2>1, <2>2, GoingOn DEF objectVars
<1>3. CASE AfterStatus(c) /\ unseen' = unseen \cup {pkg[c]}
  <2>1. CASE job[c] = "over"
    <3>1. Leave(c) /\ Serving(c) /\ unseen' \subseteq Pkgs
      BY <1>1, <1>3, <2>1 DEF AfterStatus, Serving, TypeOK
    <3> QED
      BY <1>1, <1>3, <3>1, Ending DEF objectVars, TypeOK, Active
  <2>2. CASE job[c] # "over"
    <3>1. Goto(c, "register") /\ UNCHANGED <<pkg, at, answer, job>>
      BY <1>3, <2>2 DEF AfterStatus
    <3>2. TypeOK'
      BY <1>1, <1>3, <3>1 DEF TypeOK, Steps, Goto, systemVars, objectVars, busVars
    <3>3. pc'[c] = "register" /\ \A d \in Clients \ {c} : pc'[d] = pc[d]
      BY <1>1, <3>1 DEF TypeOK, Goto
    <3> QED
      BY <1>1, <1>3, <2>2, <3>1, <3>2, <3>3, GoingOn DEF objectVars
  <2> QED
    BY <2>1, <2>2
<1> QED
  BY <1>2, <1>3 DEF Status

LEMMA SetStep ==
    ASSUME ObjectInv, NEW c \in Clients, Set(c)
    PROVE  ObjectInv'
<1>1. /\ pc[c] = "set" /\ TypeOK /\ pkg[c] \in Pkgs /\ at[c] \in Objects
      /\ shown' = [shown EXCEPT ![at[c]] = answer[c]] /\ AfterStatus(c)
      /\ UNCHANGED <<systemVars, made, object, busVars, histVars>>
  BY MadeAreObjects DEF Set, ObjectInv, OnlyMade, Made, TypeOK, Active
<1>2. /\ shown'[at[c]] = answer[c] /\ shown' \in [Objects -> BOOLEAN]
      /\ \A o \in Objects \ {at[c]} : shown'[o] = shown[o]
  BY <1>1 DEF TypeOK
<1>3. ASSUME pkg[c] \notin crossed \cup unseen, props[pkg[c]] # None
      PROVE  /\ shown'[props[pkg[c]]] = IsThere(pkg[c])
             /\ object[props[pkg[c]]].flag = IsThere(pkg[c])
  <2>1. at[c] = props[pkg[c]]
    BY <1>1, <1>3, AtProps DEF Active
  <2>2. answer[c] = IsThere(pkg[c]) /\ object[at[c]].flag = IsThere(pkg[c])
    BY <1>1, <1>3 DEF ObjectInv, Flags, Works, Active
  <2> QED
    BY <1>2, <2>1, <2>2
<1>4. CASE job[c] = "over"
  <2>1. Leave(c) /\ Serving(c) /\ unseen \subseteq Pkgs
    BY <1>1, <1>4 DEF AfterStatus, Serving, TypeOK
  <2> QED
    BY <1>1, <1>2, <1>3, <2>1, Ending DEF Active, histVars
<1>5. CASE job[c] # "over"
  <2>1. Goto(c, "register") /\ UNCHANGED <<pkg, at, answer, job>>
    BY <1>1, <1>5 DEF AfterStatus
  <2>2. TypeOK'
    BY <1>1, <1>2, <2>1 DEF TypeOK, Steps, Goto, systemVars, busVars, histVars
  <2>3. pc'[c] = "register" /\ \A d \in Clients \ {c} : pc'[d] = pc[d]
    BY <1>1, <2>1 DEF TypeOK, Goto
  <2> QED
    BY <1>1, <1>2, <1>3, <1>5, <2>1, <2>2, <2>3, GoingOn DEF histVars
<1> QED
  BY <1>4, <1>5

LEMMA RegisterStep ==
    ASSUME ObjectInv, NEW c \in Clients, Register(c)
    PROVE  ObjectInv'
<1>1. /\ pc[c] = "register" /\ TypeOK /\ pkg[c] \in Pkgs /\ at[c] \in Objects
      /\ Made(at[c], pkg[c]) /\ Works(c, pkg[c]) /\ Making(c)
      /\ registry' = [registry EXCEPT ![pkg[c]] = at[c]]
      /\ exporting' = exporting \cup {at[c]}
      /\ pc' = [pc EXCEPT ![c] = "have"]
      /\ UNCHANGED <<systemVars, objectVars, methods, props, pkg, at, answer, job, histVars>>
  BY MadeAreObjects
  DEF Register, Pending, Goto, ObjectInv, OnlyMade, Made, TypeOK, Active, Works, Making
<1>2. TypeOK'
  BY <1>1 DEF TypeOK, Steps, systemVars, objectVars, histVars
<1>3. /\ pc'[c] = "have" /\ \A d \in Clients \ {c} : pc'[d] = pc[d]
      /\ \A k \in Pkgs : ~Works(c, k)'
      /\ \A d \in Clients \ {c}, k \in Pkgs : Works(d, k)' <=> Works(d, k)
      /\ \A o \in Objects, k \in Pkgs :
            Exporting(o, k)' <=> Exporting(o, k) \/ (o = at[c] /\ k = pkg[c])
  BY <1>1 DEF TypeOK, Works, Active, Exporting, Made, objectVars
<1>4. registry'[pkg[c]] = at[c] /\ \A k \in Pkgs \ {pkg[c]} : registry'[k] = registry[k]
  BY <1>1 DEF TypeOK
<1>5. OnlyMade'
  <2>1. UNCHANGED <<made, object, methods, props, pkg, at, job>>
    BY <1>1 DEF objectVars
  <2>2. exporting' \subseteq 1..made'
    BY <1>1, <2>1 DEF ObjectInv, OnlyMade, Made
  <2>3. \A d \in Clients : pc'[d] \in Active => Made(at[d], pkg[d])
    BY <1>1, <1>3 DEF ObjectInv, OnlyMade, Active
  <2>4. \A k \in Pkgs : registry'[k] # None => Made(registry'[k], k)
    BY <1>1, <1>4 DEF ObjectInv, OnlyMade
  <2>5. \A d \in Clients : job'[d] = "over" => pc'[d] \in {"status", "flag", "set"}
    BY <1>1, <1>3 DEF ObjectInv, OnlyMade
  <2> QED
    BY <2>1, <2>2, <2>3, <2>4, <2>5 DEF ObjectInv, OnlyMade, Made
<1>6. pkg[c] \notin crossed => /\ \A d \in Clients \ {c} : ~Works(d, pkg[c])
                               /\ \A o \in Objects : ~Exporting(o, pkg[c])
  BY <1>1 DEF ObjectInv, Alone
<1>7. Alone'
  BY <1>1, <1>3, <1>6 DEF ObjectInv, Alone, histVars
<1>8. Faces'
  <2>1. ASSUME NEW k \in Pkgs, k \notin crossed, k \notin badPaths
        PROVE  /\ \/ \E d \in Clients : Works(d, k)' /\ Making(d)'
                  \/ \E o \in Objects : Exporting(o, k)'
                  \/ registry'[k] = methods[k] /\ methods[k] = props[k]
               /\ \A d \in Clients :
                     Works(d, k)' => /\ Making(d)' => props[k] = at[d] /\ registry'[k] = methods[k]
                                     /\ Serving(d)' => props[k] = at[d]
               /\ \A o \in Objects : Exporting(o, k)' => registry'[k] = o /\ props[k] = o
    <3>1. CASE k = pkg[c]
      <4>1. props[k] = at[c]
        BY <1>1, <2>1, <3>1 DEF ObjectInv, Faces
      <4> QED
        BY <1>1, <1>3, <1>4, <1>6, <2>1, <3>1, <4>1
    <3>2. CASE k # pkg[c]
      <4>1. ~Works(c, k) /\ ~Exporting(at[c], k)
        BY <1>1, <3>2 DEF Works, Exporting, Made
      <4>2. \A d \in Clients \ {c} : (Making(d)' <=> Making(d)) /\ (Serving(d)' <=> Serving(d))
        BY <1>1, <1>3 DEF Making, Serving
      <4>3. /\ \A d \in Clients : Works(d, k) => d # c /\ Works(d, k)'
            /\ \A d \in Clients : Works(d, k)' => d # c /\ Works(d, k)
            /\ \A o \in Objects : Exporting(o, k)' <=> Exporting(o, k)
        BY <1>3, <3>2, <4>1
      <4> QED
        BY <1>4, <2>1, <3>2, <4>2, <4>3 DEF ObjectInv, Faces
    <3> QED
      BY <3>1, <3>2
  <2> QED
    BY <1>1, <2>1 DEF ObjectInv, Faces, systemVars, histVars
<1>9. Flags'
  BY <1>1, <1>3 DEF ObjectInv, Flags, TrueFlag, IsThere, Works, systemVars, objectVars, histVars
<1> QED
  BY <1>2, <1>5, <1>7, <1>8, <1>9 DEF ObjectInv

LEMMA ExportStep ==
    ASSUME ObjectInv, NEW o \in Objects, Export(o)
    PROVE  ObjectInv'
<1> DEFINE k == object[o].pkg
<1>1. /\ TypeOK /\ o \in exporting /\ k \in Pkgs /\ Made(o, k) /\ Exporting(o, k)
      /\ exporting' = exporting \ {o}
      /\ methods' = [methods EXCEPT ![k] = IF k \in badPaths THEN @ ELSE o]
      /\ UNCHANGED <<badPaths, rows, installed, made, object, shown, registry, props>>
      /\ UNCHANGED <<pc, pkg, at, answer, job, calls, crossed, unseen>>
  BY DEF Export, ObjectInv, OnlyMade, Made, TypeOK, Exporting, systemVars, objectVars,
         clientVars, histVars
<1>2. /\ k \notin badPaths => methods'[k] = o
      /\ k \in badPaths => methods'[k] = methods[k]
      /\ \A x \in Pkgs \ {k} : methods'[x] = methods[x]
  BY <1>1 DEF TypeOK
<1>3. TypeOK'
  BY <1>1 DEF TypeOK
<1>4. /\ \A r \in Objects, x \in Pkgs : Exporting(r, x)' <=> Exporting(r, x) /\ r # o
      /\ \A d \in Clients, x \in Pkgs : Works(d, x)' <=> Works(d, x)
      /\ \A d \in Clients : (Making(d)' <=> Making(d)) /\ (Serving(d)' <=> Serving(d))
  BY <1>1 DEF Exporting, Works, Making, Serving
<1>5. OnlyMade'
  BY <1>1, <1>2 DEF ObjectInv, OnlyMade, Made
<1>6. Alone'
  BY <1>1, <1>4 DEF ObjectInv, Alone
<1>7. Faces'
  <2>1. ASSUME NEW x \in Pkgs, x \notin crossed, x \notin badPaths
        PROVE  /\ \/ \E d \in Clients : Works(d, x)' /\ Making(d)'
                  \/ \E r \in Objects : Exporting(r, x)'
                  \/ registry[x] = methods'[x] /\ methods'[x] = props[x]
               /\ \A d \in Clients :
                     Works(d, x)' => /\ Making(d)' => props[x] = at[d] /\ registry[x] = methods'[x]
                                     /\ Serving(d)' => props[x] = at[d]
               /\ \A r \in Objects : Exporting(r, x)' => registry[x] = r /\ props[x] = r
    <3>1. CASE x = k
      <4>1. /\ registry[x] = o /\ props[x] = o
            /\ \A d \in Clients : ~Works(d, x)
            /\ \A r \in Objects : Exporting(r, x) => r = o
        BY <1>1, <2>1, <3>1 DEF ObjectInv, Faces, Alone
      <4> QED
        BY <1>2, <1>4, <2>1, <3>1, <4>1
    <3>2. CASE x # k
      <4>1. \A r \in Objects : Exporting(r, x)' <=> Exporting(r, x)
        BY <1>4, <3>2 DEF Exporting
      <4> QED
        BY <1>2, <1>4, <2>1, <3>2, <4>1 DEF ObjectInv, Faces
    <3> QED
      BY <3>1, <3>2
  <2>2. \A x \in badPaths : methods'[x] = None /\ props[x] = None
    BY <1>1, <1>2 DEF ObjectInv, Faces, TypeOK
  <2> QED
    BY <1>1, <2>1, <2>2 DEF Faces
<1>8. Flags'
  BY <1>1, <1>4 DEF ObjectInv, Flags, TrueFlag, IsThere
<1> QED
  BY <1>3, <1>5, <1>6, <1>7, <1>8 DEF ObjectInv

LEMMA CallStep ==
    ASSUME ObjectInv, NEW c \in Clients, Call(c), methods[pkg[c]] # None
    PROVE  ObjectInv'
<1> DEFINE k == pkg[c]
<1>1. /\ TypeOK /\ k \in Pkgs /\ pc[c] = "have" /\ Made(methods[k], k) /\ job[c] # "over"
      /\ at' = [at EXCEPT ![c] = methods[k]] /\ pc' = [pc EXCEPT ![c] = "manage"]
      /\ Crossing(c, k)
      /\ UNCHANGED <<badPaths, rows, installed, made, object, shown>>
      /\ UNCHANGED <<registry, methods, props, exporting, pkg, answer, job, calls, unseen>>
  BY DEF Call, Goto, ObjectInv, OnlyMade, TypeOK, systemVars, objectVars, busVars
<1>2. /\ pc'[c] = "manage" /\ at'[c] = methods[k] /\ at'[c] \in Objects
      /\ \A d \in Clients \ {c} : pc'[d] = pc[d] /\ at'[d] = at[d]
      /\ \A d \in Clients \ {c}, x \in Pkgs : Works(d, x)' <=> Works(d, x)
      /\ \A x \in Pkgs : Works(c, x)' <=> x = k
      /\ \A x \in Pkgs : ~Works(c, x)
      /\ \A o \in Objects, x \in Pkgs : Exporting(o, x)' <=> Exporting(o, x)
  BY <1>1, MadeAreObjects DEF TypeOK, Works, Active, Exporting, Made
<1>3. /\ crossed \subseteq crossed' /\ crossed' \subseteq Pkgs
      /\ k \notin crossed' => /\ \A d \in Clients : ~Works(d, k)
                              /\ \A o \in Objects : ~Exporting(o, k)
  BY <1>1 DEF Crossing, Busy, TypeOK, Steps, Works, Active, Exporting
<1>4. TypeOK'
  BY <1>1, <1>2, <1>3 DEF TypeOK, Steps
<1>5. OnlyMade'
  BY <1>1, <1>2 DEF ObjectInv, OnlyMade, Made, Active
<1>6. Alone'
  BY <1>2, <1>3 DEF ObjectInv, Alone
<1>7. Faces'
  <2>1. k \notin crossed' \cup badPaths => methods[k] = props[k]
    BY <1>1, <1>3 DEF ObjectInv, Faces
  <2>2. ~Making(c)' /\ \A d \in Clients \ {c} : (Making(d)' <=> Making(d)) /\ (Serving(d)' <=> Serving(d))
    BY <1>1, <1>2 DEF Making, Serving
  <2>3. \A d \in Clients, x \in Pkgs : Works(d, x) => d # c
    BY <1>2
  <2> QED
    BY <1>1, <1>2, <1>3, <2>1, <2>2, <2>3 DEF ObjectInv, Faces
<1>8. Flags'
  <2>1. \A d \in Clients, x \in Pkgs :
            Works(d, x) => d # c /\ Works(d, x)' /\ pc'[d] = pc[d] /\ at'[d] = at[d]
    BY <1>2
  <2>2. \A d \in Clients, x \in Pkgs : Works(d, x)' => Works(d, x) \/ pc'[d] = "manage"
    BY <1>2
  <2> QED
    BY <1>1, <1>3, <2>1, <2>2 DEF ObjectInv, Flags, TrueFlag, IsThere
<1> QED
  BY <1>4, <1>5, <1>6, <1>7, <1>8 DEF ObjectInv

LEMMA ManageStep ==
    ASSUME ObjectInv, NEW c \in Clients, Manage(c)
    PROVE  ObjectInv'
<1> DEFINE k == pkg[c]
<1>1. /\ TypeOK /\ k \in Pkgs /\ pc[c] = "manage" /\ job[c] # "over" /\ Works(c, k)
      /\ UNCHANGED <<badPaths, rows, objectVars, busVars, histVars>>
  BY DEF Manage, ObjectInv, OnlyMade, TypeOK, Works, Active
<1>2. CASE Leave(c) /\ UNCHANGED installed
  <2>1. ASSUME k \notin crossed \cup unseen, props[k] # None
        PROVE  shown[props[k]] = IsThere(k) /\ object[props[k]].flag = IsThere(k)
    <3>1. \A d \in Clients : Works(d, k) => d = c
      BY <1>1, <2>1 DEF ObjectInv, Alone
    <3> QED
      BY <1>1, <2>1, <3>1 DEF ObjectInv, Flags, TrueFlag
  <2>2. Serving(c) /\ unseen \subseteq Pkgs /\ shown \in [Objects -> BOOLEAN]
    BY <1>1 DEF Serving, TypeOK
  <2> QED
    BY <1>1, <1>2, <2>1, <2>2, Ending DEF Active, systemVars, objectVars, histVars
<1>3. CASE /\ installed' = [installed EXCEPT ![k] = Managed(c)]
           /\ job' = [job EXCEPT ![c] = "over"]
           /\ Goto(c, "status")
           /\ UNCHANGED <<pkg, at, answer>>
  <2>1. /\ pc'[c] = "status" /\ job'[c] = "over"
        /\ \A d \in Clients \ {c} : pc'[d] = pc[d] /\ job'[d] = job[d]
        /\ \A x \in Pkgs \ {k} : installed'[x] = installed[x]
        /\ \A d \in Clients, x \in Pkgs : Works(d, x)' <=> Works(d, x)
        /\ \A o \in Objects, x \in Pkgs : Exporting(o, x)' <=> Exporting(o, x)
        /\ \A d \in Clients : (Making(d)' <=> Making(d)) /\ (Serving(d)' <=> Serving(d))
    BY <1>1, <1>3 DEF TypeOK, Works, Active, Exporting, Making, Serving, Goto, objectVars, busVars
  <2>2. TypeOK'
    <3>1. Managed(c) \in SUBSET Names
      BY <1>1 DEF Managed, TypeOK, Names
    <3>2. /\ installed' \in [Pkgs -> SUBSET Names] /\ pc' \in [Clients -> Steps]
          /\ job' \in [Clients -> {"none", "install", "remove", "over"}]
      BY <1>1, <1>3, <3>1 DEF TypeOK, Goto, Steps
    <3> QED
      BY <1>1, <1>3, <3>2 DEF TypeOK, objectVars, busVars, histVars
  <2>3. OnlyMade'
    BY <1>1, <1>3, <2>1 DEF ObjectInv, OnlyMade, Made, Active, objectVars, busVars
  <2>4. Alone'
    BY <1>1, <2>1 DEF ObjectInv, Alone, histVars
  <2>5. Faces'
    BY <1>1, <1>3, <2>1 DEF ObjectInv, Faces, busVars, histVars
  <2>6. Flags'
    <3> SUFFICES ASSUME NEW x \in Pkgs, x \notin crossed, x \notin unseen, props[x] # None
                 PROVE  /\ \/ \E d \in Clients : Works(d, x)' /\ pc'[d] \in {"status", "flag", "set"}
                           \/ TrueFlag(x)'
                        /\ \A d \in Clients :
                              Works(d, x)' => /\ pc'[d] \in {"flag", "set"} => answer[d] = IsThere(x)'
                                              /\ pc'[d] = "set" => object[at[d]].flag = IsThere(x)'
      BY <1>1, <1>3 DEF Flags, objectVars, busVars, histVars
    <3>1. CASE x = k
      <4>1. \A d \in Clients : Works(d, x)' => d = c
        BY <1>1, <2>1, <3>1 DEF ObjectInv, Alone
      <4> QED
        BY <1>1, <2>1, <3>1, <4>1
    <3>2. CASE x # k
      <4>1. /\ IsThere(x)' = IsThere(x) /\ TrueFlag(x)' = TrueFlag(x)
            /\ \A d \in Clients : Works(d, x) => d # c
        BY <1>1, <2>1, <3>2 DEF IsThere, TrueFlag, Works, objectVars, busVars
      <4> QED
        BY <2>1, <4>1 DEF ObjectInv, Flags
    <3> QED
      BY <3>1, <3>2
  <2> QED
    BY <2>2, <2>3, <2>4, <2>5, <2>6 DEF ObjectInv
<1> QED
  BY <1>2, <1>3 DEF Manage

-----------------------------------------------------------------------------
(* The environment, and every step *)

LEMMA UseManagerStep ==
    ASSUME ObjectInv, NEW k \in Pkgs, UseManager(k)
    PROVE  ObjectInv'
<1>1. /\ TypeOK
      /\ UNCHANGED <<badPaths, rows, made, object, shown, registry, methods, props, exporting>>
      /\ UNCHANGED <<pc, pkg, at, answer, job, crossed>>
      /\ unseen' = unseen \cup {k}
      /\ calls < MaxCalls /\ calls' = calls + 1
      /\ \A x \in Pkgs \ {k} : installed'[x] = installed[x]
  BY DEF UseManager, ObjectInv, TypeOK, objectVars, busVars, clientVars
<1>2. installed' \in [Pkgs -> SUBSET Names]
  BY <1>1 DEF UseManager, TypeOK
<1>3. TypeOK'
  BY <1>1, <1>2, PackagesAssumption DEF TypeOK, PackagesAssumption
<1>4. /\ \A d \in Clients, x \in Pkgs : Works(d, x)' <=> Works(d, x)
      /\ \A o \in Objects, x \in Pkgs : Exporting(o, x)' <=> Exporting(o, x)
      /\ \A d \in Clients : (Making(d)' <=> Making(d)) /\ (Serving(d)' <=> Serving(d))
  BY <1>1 DEF Works, Exporting, Making, Serving
<1>5. OnlyMade' /\ Alone' /\ Faces'
  BY <1>1, <1>4 DEF ObjectInv, OnlyMade, Made, Alone, Faces
<1>6. Flags'
  BY <1>1, <1>4 DEF ObjectInv, Flags, TrueFlag, IsThere
<1> QED
  BY <1>3, <1>5, <1>6 DEF ObjectInv

LEMMA AskStep ==
    ASSUME ObjectInv, NEW c \in Clients, NEW k \in Pkgs, NEW j \in {"install", "remove"},
           Ask(c, k, j)
    PROVE  ObjectInv'
<1>1. TypeOK' /\ UNCHANGED <<badPaths, installed, objectVars, busVars, crossed, unseen>>
  <2>1. calls' \in 0..MaxCalls
    BY PackagesAssumption DEF Ask, ObjectInv, TypeOK, PackagesAssumption
  <2> QED
    BY <2>1 DEF Ask, Goto, ObjectInv, TypeOK, Steps, systemVars, objectVars, busVars
<1>2. \A d \in Clients : \/ /\ pc'[d] = pc[d] /\ pkg'[d] = pkg[d] /\ at'[d] = at[d]
                            /\ answer'[d] = answer[d] /\ job'[d] = job[d]
                         \/ /\ pc[d] \notin Active /\ pc'[d] \notin Active
                            /\ job'[d] # "over"
  BY DEF Ask, Goto, ObjectInv, TypeOK, Active
<1> QED
  BY <1>1, <1>2, IdleSteps

LEMMA LookupStep ==
    ASSUME ObjectInv, NEW c \in Clients, Lookup(c)
    PROVE  ObjectInv'
<1>1. TypeOK' /\ UNCHANGED <<badPaths, installed, objectVars, busVars, crossed, unseen>>
  BY DEF Lookup, Goto, ObjectInv, TypeOK, Steps, systemVars, objectVars, busVars, histVars
<1>2. \A d \in Clients : \/ /\ pc'[d] = pc[d] /\ pkg'[d] = pkg[d] /\ at'[d] = at[d]
                            /\ answer'[d] = answer[d] /\ job'[d] = job[d]
                         \/ /\ pc[d] \notin Active /\ pc'[d] \notin Active
                            /\ job'[d] # "over"
  BY DEF Lookup, Goto, ObjectInv, OnlyMade, TypeOK, Active
<1> QED
  BY <1>1, <1>2, IdleSteps

\* A package that is not there, or an object that is not.
LEMMA InVain ==
    ASSUME ObjectInv, NEW c \in Clients, pc[c] \in {"query", "have"}, Leave(c),
           UNCHANGED <<systemVars, objectVars, busVars, histVars>>
    PROVE  ObjectInv'
<1>1. TypeOK /\ TypeOK'
  BY Leaving DEF ObjectInv, TypeOK, systemVars, objectVars, busVars, histVars
<1>2. \A d \in Clients : \/ /\ pc'[d] = pc[d] /\ pkg'[d] = pkg[d] /\ at'[d] = at[d]
                            /\ answer'[d] = answer[d] /\ job'[d] = job[d]
                         \/ /\ pc[d] \notin Active /\ pc'[d] \notin Active
                            /\ job'[d] # "over"
  BY <1>1, Leaving DEF TypeOK, Active
<1> QED
  BY <1>1, <1>2, IdleSteps DEF systemVars, histVars

LEMMA ObjectNext == ObjectInv /\ [Next]_vars => ObjectInv'
<1> SUFFICES ASSUME ObjectInv, [Next]_vars
             PROVE  ObjectInv'
  OBVIOUS
<1>1. CASE UNCHANGED vars
  <2>1. /\ UNCHANGED <<systemVars, objectVars, busVars, histVars>>
        /\ UNCHANGED <<pc, pkg, at, answer, job>>
    BY <1>1 DEF vars, clientVars
  <2>2. TypeOK'
    BY <2>1 DEF ObjectInv, TypeOK, systemVars, objectVars, busVars, histVars
  <2> QED
    BY <2>1, <2>2, IdleSteps DEF systemVars, histVars
<1>2. ASSUME NEW k \in Pkgs, Refresh(k)
      PROVE  ObjectInv'
  <2>1. /\ rows' \subseteq rows /\ UNCHANGED <<badPaths, installed, objectVars, busVars, histVars>>
        /\ UNCHANGED <<pc, pkg, at, answer, job>>
    BY <1>2 DEF Refresh, clientVars
  <2>2. TypeOK'
    BY <2>1 DEF ObjectInv, TypeOK, objectVars, busVars, histVars
  <2> QED
    BY <2>1, <2>2, IdleSteps DEF histVars
<1>3. ASSUME NEW c \in Clients, Query(c)
      PROVE  ObjectInv'
  <2>1. CASE pkg[c] \in rows
    BY <1>3, <2>1, QueryStep DEF Query
  <2>2. CASE pkg[c] \notin rows
    BY <1>3, <2>2, InVain DEF Query, objectVars, histVars
  <2> QED
    BY <2>1, <2>2
<1>4. ASSUME NEW c \in Clients, Call(c)
      PROVE  ObjectInv'
  <2>1. CASE methods[pkg[c]] # None
    BY <1>4, <2>1, CallStep
  <2>2. CASE methods[pkg[c]] = None
    BY <1>4, <2>2, InVain DEF Call, histVars
  <2> QED
    BY <2>1, <2>2
<1> QED
  BY <1>1, <1>2, <1>3, <1>4, UseManagerStep, AskStep, LookupStep, NewStep, StatusStep,
     FlagStep, SetStep, RegisterStep, ExportStep, ManageStep
  DEF Next, Step

LEMMA ObjectInvariance == Spec => []ObjectInv
BY ObjectInit, ObjectNext, PTL DEF Spec

-----------------------------------------------------------------------------
(* The theorems *)

\* When nothing is on its way for a package, nobody works on it.
LEMMA QuietIsIdle ==
    ASSUME TypeOK, NEW k \in Pkgs, Quiet(k)
    PROVE  (\A c \in Clients : ~Works(c, k)) /\ (\A o \in Objects : ~Exporting(o, k))
BY DEF Quiet, Works, Active, Exporting

\* The registry, the objects and what is on the bus keep their types, for
\* every number of clients, packages and objects.
THEOREM ObjectsAreTyped == Spec => []TypeOK
BY ObjectInvariance, PTL DEF ObjectInv

\* One object is registered, answers calls and shows its properties for a
\* package on which no two calls overlapped, whatever the three times at which
\* it is put there (RegisterPackage, exportPackage, prop.New).
THEOREM OneObjectForAPath == Spec => []OneObject
<1>1. ObjectInv => OneObject
  <2> SUFFICES ASSUME ObjectInv, NEW k \in Pkgs \ crossed, Quiet(k)
               PROVE  IF k \in badPaths THEN methods[k] = None /\ props[k] = None
                      ELSE registry[k] = methods[k] /\ methods[k] = props[k]
    BY DEF OneObject
  <2> QED
    BY QuietIsIdle DEF ObjectInv, Faces
<1> QED
  BY <1>1, ObjectInvariance, PTL

\* The flag of the object a client sees agrees with the package manager,
\* for the name the daemon asks about, after any number of jobs that came one
\* after another (updateInstalledStatus, package.go 127-150).
THEOREM FlagStaysTrue == Spec => []FlagIsTrue
<1>1. ObjectInv => FlagIsTrue
  <2> SUFFICES ASSUME ObjectInv, NEW k \in Pkgs \ (crossed \cup unseen), Quiet(k),
                      props[k] # None
               PROVE  TrueFlag(k)
    BY DEF FlagIsTrue, TrueFlag, IsThere
  <2> QED
    BY QuietIsIdle DEF ObjectInv, Flags
<1> QED
  BY <1>1, ObjectInvariance, PTL
=============================================================================
