------------------------------- MODULE StopPromise -------------------------------
(***************************************************************************)
(* What containment promises of stopping sessions, through crashes,        *)
(* retries, lost answers and messages delivered twice.  A stop is called   *)
(* for before it is tried; a call is tried a bounded number of times;      *)
(* a session stops only in a try of a call about it, and for good; people  *)
(* are told of a call only after a try, and "terminated" only of a session *)
(* that has stopped.                                                       *)
(***************************************************************************)
EXTENDS Naturals

CONSTANTS
    Calls,      \* the possible calls for a stop
    About,      \* [Calls -> the session a call is about]
    Most,       \* [Calls -> Nat]: how often a call may be tried
    Words       \* what people may be told

VARIABLES
    made,       \* the calls made
    tries,      \* [Calls -> Nat]
    stopped,    \* the sessions that have stopped
    told        \* [Calls -> SUBSET Words]

vars == <<made, tries, stopped, told>>

Init ==
    /\ made = {}
    /\ tries = [c \in Calls |-> 0]
    /\ stopped = {}
    /\ told = [c \in Calls |-> {}]

Make(c) ==
    /\ c \notin made
    /\ made' = made \cup {c}
    /\ UNCHANGED <<tries, stopped, told>>

\* A try may fail, or stop the session without anyone learning of it.
Try(c) ==
    /\ c \in made /\ tries[c] < Most[c]
    /\ tries' = [tries EXCEPT ![c] = @ + 1]
    /\ stopped' \in {stopped, stopped \cup {About[c]}}
    /\ UNCHANGED <<made, told>>

Tell(c, word) ==
    /\ tries[c] > 0
    /\ word = "terminated" => About[c] \in stopped
    /\ told' = [told EXCEPT ![c] = @ \cup {word}]
    /\ UNCHANGED <<made, tries, stopped>>

Next ==
    \E c \in Calls : Make(c) \/ Try(c) \/ \E word \in Words : Tell(c, word)

Spec == Init /\ [][Next]_vars
=============================================================================
