------------------------------ MODULE DBusTypes ------------------------------
(***************************************************************************)
(* The value types of the D-Bus service (internal/dbus/types.go): job      *)
(* statuses and the object paths of jobs.  A path is represented by the    *)
(* one element that differs between jobs, a Unicode code point.            *)
(***************************************************************************)
EXTENDS Integers

\* JobStatus, with "absent" for a job that has not been created.
Finished  == {"completed", "failed"}
JobStatus == {"pending", "running", "cancelled"} \cup Finished

\* U+FFFD, what Go's string(rune(n)) yields when n is not a code point.
ReplacementRune == 65533

IsCodePoint(n) == n <= 55295 \/ (57344 <= n /\ n <= 1114111)

\* GetJobObjectPath: the last element is string(rune(id)), a character and
\* not a decimal numeral.
GetJobObjectPath(id) == IF IsCodePoint(id) THEN id ELSE ReplacementRune

\* What the D-Bus library accepts as a path element of one character:
\* [A-Za-z0-9_].
IsValidPathElement(rune) == rune \in 48..57 \cup 65..90 \cup {95} \cup 97..122

\* JobObjectPathToID is unimplemented and answers 0 for every path.
JobObjectPathToID(path) == 0
=============================================================================
