------------------------------- MODULE BurstPromise -------------------------------
(***************************************************************************)
(* What the correlation of sessions promises of an attack it has found,    *)
(* through overlapping runs, retries and lost answers.  A burst is put in  *)
(* the book once, for good, before anything is done about it.  Of the      *)
(* kills that it calls for each is owed from then on or never; one that is *)
(* owed is either given, once, or given up, and what was given up is never *)
(* given later: a kill comes at most once.                                 *)
(***************************************************************************)
EXTENDS Naturals

VARIABLES
    book,       \* the bursts: [burst, sessions, kill]
    owed,       \* the kills still to come: <<burst, session>>
    given       \* how often each of the kills given was given

vars == <<book, owed, given>>

Init ==
    /\ book = {}
    /\ owed = {}
    /\ given = [x \in {} |-> 0]

CalledFor(e) == IF e.kill THEN {e.burst} \X e.sessions ELSE {}

\* Who puts the burst may not learn that it did, and then owes nothing.
Record(e) ==
    /\ \A f \in book : f.burst # e.burst
    /\ book' = book \cup {e}
    /\ owed' \in {owed, owed \cup CalledFor(e)}
    /\ UNCHANGED given

Give(x) ==
    /\ x \notin DOMAIN given
    /\ owed' = owed \ {x}
    /\ given' = [y \in DOMAIN given \cup {x} |-> IF y = x THEN 1 ELSE given[y]]
    /\ UNCHANGED book

GiveUp ==
    /\ owed' \subseteq owed
    /\ UNCHANGED <<book, given>>

Next ==
    \/ \E e \in book' : Record(e)
    \/ \E x \in owed : Give(x)
    \/ GiveUp

Spec == Init /\ [][Next]_vars
=============================================================================
