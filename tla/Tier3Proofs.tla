------------------------------ MODULE Tier3Proofs ------------------------------
(* What every number of prompts, runs, retries and failures leaves true of the  *)
(* Tier 3 Lambda: a burst is recorded and its sessions ordered killed once, a    *)
(* run that is left to finish orders every kill that it has recorded, and no     *)
(* session is ordered killed but for an attack, by default a replay.             *)
EXTENDS Tier3Correlation, SetFacts, TLAPS

USE DEF At, Well, Fault, history

RunFields ==
    {"pc", "tries", "now", "rows", "todo", "finding", "left", "policy", "clean"}

\* The runs are records, and the findings are by runs and attempts that have been.
Shapes ==
    /\ DOMAIN run = Runs
    /\ \A n \in Runs : DOMAIN run[n] = RunFields /\ run[n].tries \in Nat
    /\ IsABag(orders)
    /\ \A f \in table : f.by \in Runs /\ f.try \in Nat /\ f.try <= run[f.by].tries

-----------------------------------------------------------------------------
(* The inductive invariant.  Kills are ordered for what is on record only, and  *)
(* a burst that some run is at work on is that run's own.                      *)

OnRecord(burst) == \E f \in table : f.burst = burst

RecordedOnce == \A f, g \in table : f.burst = g.burst => f = g

OrderedOnce == \A x \in DOMAIN orders : orders[x] = 1 /\ OnRecord(x[1])

WorkIsItsOwn ==
    \A m, n \in Runs :
        At(m, "order") /\ At(n, "order") /\ Current(m).burst = Current(n).burst => m = n

\* What a run is at work on is on record, and what is left of it is not yet ordered.
WorkIsLeft(n) ==
    At(n, "order") =>
        /\ OnRecord(Current(n).burst)
        /\ \A s \in run[n].left : <<Current(n).burst, s>> \notin DOMAIN orders

IInv ==
    /\ Shapes /\ RecordedOnce /\ OrderedOnce /\ WorkIsItsOwn
    /\ \A n \in Runs : WorkIsLeft(n)

\* What a finding claims is done, or its run is still at it.
ClaimIsGood(f) ==
    LET r == run[f.by]
    IN  f.kill /\ r.tries = f.try /\ r.clean /\ r.pc # "due" =>
            \A s \in f.sessions :
                \/ <<f.burst, s>> \in DOMAIN orders
                \/ At(f.by, "order") /\ Current(f.by).burst = f.burst /\ s \in r.left

KInv == IInv /\ \A f \in table : ClaimIsGood(f)

-----------------------------------------------------------------------------
(* Every step of a run is its own.                                             *)

Frame(n) ==
    /\ DOMAIN run' = Runs /\ DOMAIN run'[n] = RunFields
    /\ \A m \in Runs \ {n} : run'[m] = run[m]
    /\ run'[n].tries \in Nat /\ run'[n].tries >= run[n].tries

\* A step that records and orders nothing; what becomes of the claims of its run.
Quiet(n) ==
    /\ Frame(n) /\ UNCHANGED <<table, orders>>
    /\ run'[n].pc # "order"
    /\ \/ run'[n].pc = "due" \/ run'[n].tries > run[n].tries \/ ~run'[n].clean
       \/ /\ run[n].pc \notin {"due", "order"} /\ (run'[n].clean => run[n].clean)
          /\ run'[n].tries = run[n].tries

LEMMA QuietStep ==
    ASSUME KInv, NEW n \in Runs, Quiet(n)
    PROVE  KInv'
<1>1. \A m \in Runs : At(m, "order")' => m # n /\ run'[m] = run[m]
  BY DEF Quiet, Frame
<1>2. Shapes'
  BY DEF Quiet, Frame, KInv, IInv, Shapes
<1>3. (RecordedOnce /\ OrderedOnce)'
  BY DEF Quiet, KInv, IInv, RecordedOnce, OrderedOnce, OnRecord
<1>4. WorkIsItsOwn'
  BY <1>1 DEF KInv, IInv, WorkIsItsOwn, Current
<1>5. \A m \in Runs : WorkIsLeft(m)'
  BY <1>1 DEF Quiet, KInv, IInv, WorkIsLeft, OnRecord, Current
<1>6. ASSUME NEW f \in table'
      PROVE  ClaimIsGood(f)'
  <2>1. f \in table /\ f.by \in Runs /\ f.try \in Nat /\ f.try <= run[f.by].tries
    BY DEF Quiet, KInv, IInv, Shapes
  <2>2. CASE f.by # n
    BY <2>1, <2>2 DEF Quiet, Frame, KInv, ClaimIsGood, Current
  <2>3. CASE f.by = n
    <3>. SUFFICES ASSUME f.kill, run'[n].tries = f.try, run'[n].clean, run'[n].pc # "due",
                         NEW s \in f.sessions
                  PROVE  <<f.burst, s>> \in DOMAIN orders'
      BY <2>3 DEF ClaimIsGood
    <3>1. run[n].tries = f.try /\ run[n].clean /\ run[n].pc \notin {"due", "order"}
      <4>1. run[n].tries \in Nat /\ ~(run'[n].tries > run[n].tries)
        BY <2>1, <2>3 DEF KInv, IInv, Shapes
      <4>2. run'[n].clean
        OBVIOUS
      <4>. QED
        BY <4>1, <4>2 DEF Quiet
    <3>. QED
      BY <2>1, <2>3, <3>1 DEF Quiet, KInv, ClaimIsGood
  <2>. QED
    BY <2>2, <2>3
<1>. QED
  BY <1>2, <1>3, <1>4, <1>5, <1>6 DEF KInv, IInv

(* A finding is put on record: its burst was on no record, so that nothing of it   *)
(* has been ordered and no run is at work on it.                                   *)
Writes(n) ==
    /\ Frame(n) /\ table' = table \cup {Entry(n)} /\ orders' = orders
    /\ ~Recorded(Current(n)) /\ run[n].pc = "put" /\ run'[n].tries = run[n].tries
    /\ \/ /\ run'[n].pc = "order" /\ run'[n].finding = run[n].finding /\ Fatal(n)
          /\ run'[n].left = Current(n).sessions /\ (run'[n].clean => run[n].clean)
       \/ /\ run'[n].pc # "order"
          /\ \/ ~run'[n].clean
             \/ ~Fatal(n) /\ (run'[n].clean => run[n].clean)

LEMMA EntryFacts ==
    ASSUME NEW n
    PROVE  /\ Entry(n).burst = Current(n).burst /\ Entry(n).sessions = Current(n).sessions
           /\ Entry(n).kill = Fatal(n) /\ Entry(n).by = n /\ Entry(n).try = run[n].tries
BY DEF Entry

LEMMA WritesStep ==
    ASSUME KInv, NEW n \in Runs, Writes(n)
    PROVE  KInv'
<1>. DEFINE burst == Current(n).burst
<1>1. /\ \A f \in table : f.burst # burst
      /\ \A x \in DOMAIN orders : x[1] # burst
      /\ \A m \in Runs : At(m, "order") => Current(m).burst # burst
  BY DEF Writes, Recorded, KInv, IInv, OrderedOnce, OnRecord, WorkIsLeft
<1>2. /\ Entry(n) \in table' /\ table \subseteq table'
      /\ \A f \in table' : f \in table \/ f = Entry(n)
  BY DEF Writes
<1>3. \A m \in Runs : At(m, "order")' =>
          \/ m = n /\ Current(n)' = Current(n) /\ run'[n].left = Current(n).sessions
          \/ m # n /\ At(m, "order") /\ Current(m)' = Current(m) /\ run'[m] = run[m]
  BY DEF Writes, Frame, Current
<1>4. Shapes'
  BY <1>2, EntryFacts DEF Writes, Frame, KInv, IInv, Shapes
<1>5. RecordedOnce'
  BY <1>1, <1>2, EntryFacts DEF KInv, IInv, RecordedOnce
<1>6. \A b : OnRecord(b) => OnRecord(b)'
  BY <1>2 DEF OnRecord
<1>7. OrderedOnce'
  BY <1>6 DEF Writes, KInv, IInv, OrderedOnce
<1>8. WorkIsItsOwn'
  BY <1>1, <1>3 DEF KInv, IInv, WorkIsItsOwn
<1>9. \E f \in table' : f.burst = burst
  BY <1>2, EntryFacts
<1>10. ASSUME NEW m \in Runs, At(m, "order")'
       PROVE  WorkIsLeft(m)'
  <2>1. CASE m = n /\ Current(n)' = Current(n)
    BY <1>1, <1>9, <2>1 DEF WorkIsLeft, OnRecord, Writes
  <2>2. CASE m # n /\ At(m, "order") /\ Current(m)' = Current(m) /\ run'[m] = run[m]
    BY <1>6, <2>2 DEF WorkIsLeft, Writes, KInv, IInv
  <2>. QED
    BY <1>3, <1>10, <2>1, <2>2
<1>11. ASSUME NEW f, f = Entry(n)
       PROVE  ClaimIsGood(f)'
  <2>1. f.by = n /\ f.burst = burst /\ f.sessions = Current(n).sessions /\ f.kill = Fatal(n)
    BY <1>11, EntryFacts
  <2>. SUFFICES ASSUME Fatal(n), run'[n].clean, NEW s \in Current(n).sessions
                PROVE  At(n, "order")' /\ Current(n)'.burst = burst /\ s \in run'[n].left
    BY <2>1 DEF ClaimIsGood
  <2>2. run'[n].clean /\ Fatal(n)
    OBVIOUS
  <2>. QED
    BY <2>2 DEF Writes, Current
<1>12. ASSUME NEW f \in table
       PROVE  ClaimIsGood(f)'
  <2>1. ClaimIsGood(f) /\ f.by \in Runs
    BY DEF KInv, IInv, Shapes
  <2>2. CASE f.by # n
    BY <2>1, <2>2 DEF Writes, Frame, ClaimIsGood, Current
  <2>3. CASE f.by = n
    <3>. SUFFICES ASSUME f.kill, run'[n].tries = f.try, run'[n].clean, NEW s \in f.sessions
                  PROVE  <<f.burst, s>> \in DOMAIN orders'
      BY <2>3 DEF ClaimIsGood
    <3>1. run'[n].clean
      OBVIOUS
    <3>2. run[n].clean /\ run[n].tries = f.try /\ run[n].pc = "put"
      BY <3>1 DEF Writes
    <3>. QED
      BY <2>1, <2>3, <3>2 DEF Writes, ClaimIsGood
  <2>. QED
    BY <2>2, <2>3
<1>. QED
  BY <1>2, <1>4, <1>5, <1>7, <1>8, <1>10, <1>11, <1>12 DEF KInv, IInv, WorkIsLeft

(* A session of the burst at hand is ordered killed, or the order is refused.      *)
Works(n, s) ==
    LET x == <<Current(n).burst, s>>
    IN  /\ Frame(n) /\ table' = table /\ run[n].pc = "order" /\ s \in run[n].left
        /\ run'[n].tries = run[n].tries
        /\ \/ /\ run'[n].pc = "order" /\ run'[n].finding = run[n].finding
              /\ run'[n].left = run[n].left \ {s}
           \/ run'[n].pc = "check" /\ run[n].left \ {s} = {}
        /\ \/ orders' = orders (+) SetToBag({x}) /\ (run'[n].clean => run[n].clean)
           \/ orders' = orders /\ ~run'[n].clean

LEMMA OneMoreIs ==
    ASSUME NEW B, IsABag(B), NEW x, x \notin DOMAIN B
    PROVE  B (+) SetToBag({x}) = [y \in DOMAIN B \cup {x} |-> IF y = x THEN 1 ELSE B[y]]
<1>. DEFINE C == B (+) SetToBag({x})
<1>1. DOMAIN SetToBag({x}) = {x} /\ SetToBag({x})[x] = 1
  BY DEF SetToBag
<1>2. \A y \in DOMAIN B : B[y] \in Nat /\ B[y] + 0 = B[y]
  BY DEF IsABag
<1>3. C = [y \in DOMAIN B \cup {x} |->
              (IF y \in DOMAIN B THEN B[y] ELSE 0) + (IF y \in {x} THEN SetToBag({x})[y] ELSE 0)]
  BY <1>1 DEF (+)
<1>4. C = [y \in DOMAIN B \cup {x} |-> IF y = x THEN 1 ELSE B[y]]
  <2>. HIDE DEF C
  <2>. QED
    BY <1>1, <1>2, <1>3
<1>. QED
  BY <1>4 DEF C

LEMMA OneMoreFacts ==
    ASSUME NEW B, IsABag(B), NEW x, x \notin DOMAIN B
    PROVE  LET C == B (+) SetToBag({x})
           IN  /\ IsABag(C) /\ DOMAIN C = DOMAIN B \cup {x} /\ C[x] = 1
               /\ \A y \in DOMAIN B : C[y] = B[y]
<1>. DEFINE C == B (+) SetToBag({x})
<1>1. C = [y \in DOMAIN B \cup {x} |-> IF y = x THEN 1 ELSE B[y]]
  BY OneMoreIs
<1>. HIDE DEF C
<1>2. IsABag(C) /\ DOMAIN C = DOMAIN B \cup {x} /\ C[x] = 1 /\ \A y \in DOMAIN B : C[y] = B[y]
  BY <1>1 DEF IsABag
<1>. QED
  BY <1>2 DEF C

LEMMA WorksStep ==
    ASSUME KInv, NEW n \in Runs, NEW s, Works(n, s)
    PROVE  KInv'
<1>. DEFINE x == <<Current(n).burst, s>>
<1>1. /\ At(n, "order") /\ x \notin DOMAIN orders /\ OnRecord(x[1]) /\ IsABag(orders)
      /\ table' = table
  BY DEF Works, KInv, IInv, WorkIsLeft, Shapes
<1>2. /\ DOMAIN orders \subseteq DOMAIN orders' /\ DOMAIN orders' \subseteq DOMAIN orders \cup {x}
      /\ IsABag(orders') /\ (x \in DOMAIN orders' => orders'[x] = 1)
      /\ \A y \in DOMAIN orders : orders'[y] = orders[y]
      /\ x \in DOMAIN orders' \/ ~run'[n].clean
  <2>. DEFINE C == orders (+) SetToBag({x})
  <2>1. CASE orders' = C
    <3>1. IsABag(C) /\ DOMAIN C = DOMAIN orders \cup {x} /\ C[x] = 1
          /\ \A y \in DOMAIN orders : C[y] = orders[y]
      BY <1>1, OneMoreFacts, Zenon
    <3>. HIDE DEF C, x
    <3>. QED
      BY <2>1, <3>1
  <2>2. CASE orders' = orders /\ ~run'[n].clean
    BY <1>1, <2>2
  <2>. QED
    BY <2>1, <2>2 DEF Works
<1>3. \A m \in Runs : At(m, "order")' =>
          \/ m = n /\ Current(n)' = Current(n) /\ run'[n].left = run[n].left \ {s}
          \/ m # n /\ At(m, "order") /\ Current(m)' = Current(m) /\ run'[m] = run[m]
  BY DEF Works, Frame, Current
<1>4. Shapes'
  BY <1>2 DEF Works, Frame, KInv, IInv, Shapes
<1>5. \A b : OnRecord(b) => OnRecord(b)'
  BY <1>1 DEF OnRecord
<1>6. RecordedOnce'
  BY <1>1 DEF KInv, IInv, RecordedOnce
<1>7. OrderedOnce'
  BY <1>1, <1>2, <1>5 DEF KInv, IInv, OrderedOnce
<1>8. WorkIsItsOwn'
  BY <1>1, <1>3 DEF KInv, IInv, WorkIsItsOwn
<1>9. ASSUME NEW m \in Runs, At(m, "order")'
      PROVE  WorkIsLeft(m)'
  <2>1. CASE m = n /\ Current(n)' = Current(n) /\ run'[n].left = run[n].left \ {s}
    BY <1>1, <1>2, <1>5, <2>1 DEF WorkIsLeft, KInv, IInv
  <2>2. CASE m # n /\ At(m, "order") /\ Current(m)' = Current(m) /\ run'[m] = run[m]
    <3>1. Current(m).burst # Current(n).burst
      BY <1>1, <2>2 DEF KInv, IInv, WorkIsItsOwn
    <3>. QED
      BY <1>2, <1>5, <2>2, <3>1 DEF WorkIsLeft, KInv, IInv
  <2>. QED
    BY <1>3, <1>9, <2>1, <2>2
<1>10. ASSUME NEW f \in table
       PROVE  ClaimIsGood(f)'
  <2>1. ClaimIsGood(f) /\ f.by \in Runs
    BY DEF KInv, IInv, Shapes
  <2>2. CASE f.by # n
    BY <1>2, <2>1, <2>2 DEF Works, Frame, ClaimIsGood, Current
  <2>3. CASE f.by = n
    <3>. SUFFICES ASSUME f.kill, run'[n].tries = f.try, run'[n].clean, NEW t \in f.sessions
                  PROVE  \/ <<f.burst, t>> \in DOMAIN orders'
                         \/ At(n, "order")' /\ Current(n)'.burst = f.burst /\ t \in run'[n].left
      BY <2>3 DEF ClaimIsGood
    <3>1. run'[n].clean
      OBVIOUS
    <3>2. run[n].clean /\ run[n].tries = f.try /\ run[n].pc = "order"
      BY <3>1 DEF Works
    <3>3. \/ <<f.burst, t>> \in DOMAIN orders
          \/ Current(n).burst = f.burst /\ t \in run[n].left
      BY <2>1, <2>3, <3>2 DEF ClaimIsGood
    <3>4. x \in DOMAIN orders'
      BY <1>2, <3>1
    <3>. QED
      BY <1>2, <3>3, <3>4 DEF Works, Current
  <2>. QED
    BY <2>2, <2>3
<1>. QED
  BY <1>1, <1>4, <1>6, <1>7, <1>8, <1>9, <1>10 DEF KInv, IInv, WorkIsLeft

-----------------------------------------------------------------------------
(* The steps, one by one.                                                          *)

LEMMA Next1Facts ==
    ASSUME NEW n, NEW f, DOMAIN run[n] = RunFields
    PROVE  /\ DOMAIN Next1(n, f) = RunFields /\ Next1(n, f).pc = "check"
           /\ Next1(n, f).tries = run[n].tries /\ Next1(n, f).clean = run[n].clean
BY DEF Next1, RunFields

LEMMA ScanQuiet ==
    ASSUME KInv, NEW n \in Runs, Scan(n)
    PROVE  Quiet(n)
BY DEF Scan, Idle, RunFields, Quiet, Frame, KInv, IInv, Shapes

LEMMA AnalyseQuiet ==
    ASSUME KInv, NEW n \in Runs, NEW policy, Analyse(n, policy)
    PROVE  Quiet(n)
<1>1. DOMAIN run = Runs /\ DOMAIN run[n] = RunFields /\ run[n].tries \in Nat
  BY DEF KInv, IInv, Shapes
<1>2. PICK pc \in {"done", "check"} : \E todo :
          \/ run' = [run EXCEPT ![n].pc = pc, ![n].policy = policy, ![n].rows = {}]
          \/ run' = [run EXCEPT ![n].pc = pc, ![n].policy = policy, ![n].rows = {},
                                ![n].todo = todo]
  BY DEF Analyse
<1>3. /\ DOMAIN run' = Runs /\ DOMAIN run'[n] = RunFields
      /\ \A m \in Runs \ {n} : run'[m] = run[m]
      /\ run'[n].pc = pc /\ run'[n].tries = run[n].tries /\ (run'[n].clean => run[n].clean)
  BY <1>1, <1>2 DEF RunFields
<1>4. run[n].pc = "analyse" /\ UNCHANGED <<table, orders>>
  BY DEF Analyse
<1>. QED
  BY <1>1, <1>2, <1>3, <1>4 DEF Quiet, Frame

LEMMA CheckQuiet ==
    ASSUME KInv, NEW n \in Runs, Check(n)
    PROVE  Quiet(n)
<1>1. DOMAIN run = Runs /\ DOMAIN run[n] = RunFields /\ run[n].tries \in Nat
  BY DEF KInv, IInv, Shapes
<1>2. run[n].pc = "check" /\ UNCHANGED <<table, orders>>
  BY DEF Check
<1>3. \E f : \/ run' = [run EXCEPT ![n].pc = "done"]
             \/ run' = [run EXCEPT ![n] = Next1(n, f)]
             \/ run' = [run EXCEPT ![n].pc = "put", ![n].finding = {f}]
  BY DEF Check
<1>4. /\ DOMAIN run' = Runs /\ DOMAIN run'[n] = RunFields
      /\ \A m \in Runs \ {n} : run'[m] = run[m]
      /\ run'[n].pc # "order" /\ run'[n].tries = run[n].tries /\ (run'[n].clean => run[n].clean)
  BY <1>1, <1>3, Next1Facts DEF RunFields
<1>. QED
  BY <1>1, <1>2, <1>4 DEF Quiet, Frame

LEMMA DieQuiet ==
    ASSUME KInv, NEW n \in Runs, Die(n)
    PROVE  Quiet(n)
BY DEF Die, Idle, RunFields, Quiet, Frame, KInv, IInv, Shapes

LEMMA PutKeeps ==
    ASSUME KInv, NEW n \in Runs, Put(n)
    PROVE  Quiet(n) \/ Writes(n)
<1>. DEFINE f == Current(n)
            next == Next1(n, f)
<1>1. /\ DOMAIN run = Runs /\ DOMAIN run[n] = RunFields /\ run[n].tries \in Nat
      /\ run[n].pc = "put" /\ orders' = orders
  BY DEF KInv, IInv, Shapes, Put
<1>2. /\ DOMAIN next = RunFields /\ next.pc = "check"
      /\ next.tries = run[n].tries /\ next.clean = run[n].clean
  BY <1>1, Next1Facts
<1>. HIDE DEF next
<1>3. CASE run' = [run EXCEPT ![n] = next] /\ table' = table
  BY <1>1, <1>2, <1>3 DEF Quiet, Frame
<1>4. CASE /\ run' = [run EXCEPT ![n] = next] /\ table' = table \cup {Entry(n)}
           /\ ~Recorded(f) /\ ~Fatal(n)
  BY <1>1, <1>2, <1>4 DEF Writes, Frame
<1>5. CASE /\ run' = [run EXCEPT ![n] = [@ EXCEPT !.pc = "order", !.left = f.sessions]]
           /\ table' = table \cup {Entry(n)} /\ ~Recorded(f) /\ Fatal(n)
  <2>1. /\ DOMAIN run' = Runs /\ DOMAIN run'[n] = RunFields
        /\ \A m \in Runs \ {n} : run'[m] = run[m]
        /\ run'[n].pc = "order" /\ run'[n].left = f.sessions
        /\ run'[n].tries = run[n].tries /\ (run'[n].clean => run[n].clean)
        /\ run'[n].finding = run[n].finding
    BY <1>1, <1>5 DEF RunFields
  <2>. QED
    BY <1>1, <1>5, <2>1 DEF Writes, Frame
<1>6. Fatal(n) \in BOOLEAN
  BY DEF Fatal, Kills
<1>. QED
  BY <1>3, <1>4, <1>5, <1>6 DEF Put, next

LEMMA PutAgainKeeps ==
    ASSUME KInv, NEW n \in Runs, PutAgain(n)
    PROVE  Writes(n)
<1>. DEFINE next == Next1(n, Current(n))
<1>1. /\ DOMAIN run = Runs /\ DOMAIN run[n] = RunFields /\ run[n].tries \in Nat
  BY DEF KInv, IInv, Shapes
<1>2. DOMAIN next = RunFields /\ next.pc = "check" /\ next.tries = run[n].tries
  BY <1>1, Next1Facts
<1>3. /\ run[n].pc = "put" /\ ~Recorded(Current(n)) /\ table' = table \cup {Entry(n)}
      /\ orders' = orders /\ run' = [run EXCEPT ![n] = [next EXCEPT !.clean = FALSE]]
  BY DEF PutAgain
<1>. HIDE DEF next
<1>4. /\ DOMAIN run' = Runs /\ DOMAIN run'[n] = RunFields
      /\ \A m \in Runs \ {n} : run'[m] = run[m]
      /\ run'[n].pc = "check" /\ run'[n].tries = run[n].tries /\ ~run'[n].clean
  BY <1>1, <1>2, <1>3 DEF RunFields
<1>. QED
  BY <1>1, <1>3, <1>4 DEF Writes, Frame

LEMMA OrderedFacts ==
    ASSUME KInv, NEW n \in Runs, NEW s, NEW clean \in BOOLEAN, Ordered(n, s, clean)
    PROVE  /\ Frame(n) /\ run'[n].tries = run[n].tries
           /\ \/ /\ run'[n].pc = run[n].pc /\ run'[n].finding = run[n].finding
                 /\ run'[n].left = run[n].left \ {s}
              \/ run'[n].pc = "check" /\ run[n].left \ {s} = {}
           /\ run'[n].clean => run[n].clean /\ clean
<1>. DEFINE left == run[n].left \ {s}
            after == IF left = {} THEN Next1(n, Current(n)) ELSE run[n]
<1>1. /\ DOMAIN run = Runs /\ DOMAIN run[n] = RunFields /\ run[n].tries \in Nat
  BY DEF KInv, IInv, Shapes
<1>2. /\ DOMAIN after = RunFields /\ after.tries = run[n].tries /\ after.clean = run[n].clean
      /\ \/ after.pc = run[n].pc /\ after.finding = run[n].finding
         \/ after.pc = "check" /\ left = {}
  BY <1>1, Next1Facts
<1>3. run' = [run EXCEPT ![n] = [after EXCEPT !.left = left, !.clean = @ /\ clean]]
  BY DEF Ordered
<1>. HIDE DEF after
<1>4. /\ DOMAIN run' = Runs /\ DOMAIN run'[n] = RunFields
      /\ \A m \in Runs \ {n} : run'[m] = run[m]
      /\ run'[n].pc = after.pc /\ run'[n].tries = after.tries
      /\ run'[n].finding = after.finding /\ run'[n].left = left
      /\ run'[n].clean = (after.clean /\ clean)
  BY <1>1, <1>2, <1>3 DEF RunFields
<1>5. run'[n].clean => run[n].clean /\ clean
  BY <1>2, <1>4
<1>. HIDE DEF left
<1>6. \/ run'[n].pc = run[n].pc /\ run'[n].finding = run[n].finding /\ run'[n].left = left
      \/ run'[n].pc = "check" /\ left = {}
  BY <1>2, <1>4
<1>7. Frame(n) /\ run'[n].tries = run[n].tries
  BY <1>1, <1>2, <1>4 DEF Frame
<1>. QED
  BY <1>5, <1>6, <1>7 DEF left

LEMMA OrderKeeps ==
    ASSUME KInv, NEW n \in Runs, Order(n) \/ OrderRefused(n)
    PROVE  \E s : Works(n, s)
<1>1. CASE Order(n)
  <2>1. PICK s \in Sessions : /\ First(n, s) /\ Ordered(n, s, TRUE)
                             /\ orders' = orders (+) SetToBag({<<Current(n).burst, s>>})
    BY <1>1 DEF Order
  <2>. QED
    BY <1>1, <2>1, OrderedFacts DEF Works, First, Order
<1>2. CASE OrderRefused(n)
  <2>1. PICK s \in Sessions : First(n, s) /\ Ordered(n, s, FALSE)
    BY <1>2 DEF OrderRefused
  <2>. QED
    BY <1>2, <2>1, OrderedFacts DEF Works, First, OrderRefused
<1>. QED
  BY <1>1, <1>2

LEMMA RunStep ==
    ASSUME KInv, NEW n \in Runs, Step(n) \/ Failure(n)
    PROVE  KInv'
BY ScanQuiet, AnalyseQuiet, CheckQuiet, DieQuiet, PutKeeps, PutAgainKeeps, OrderKeeps,
   QuietStep, WritesStep, WorksStep
DEF Step, Failure

\* Prompts, Tier 2 and the clock do not touch what Tier 3 has done.
LEMMA WorldStep ==
    ASSUME KInv, UNCHANGED <<run, table, orders>>
    PROVE  KInv'
<1>1. \A n \in Runs : Current(n)' = Current(n)
  BY DEF Current
<1>2. (Shapes /\ RecordedOnce /\ OrderedOnce)'
  BY DEF KInv, IInv, Shapes, RecordedOnce, OrderedOnce, OnRecord
<1>3. WorkIsItsOwn'
  BY <1>1 DEF KInv, IInv, WorkIsItsOwn
<1>4. \A n \in Runs : WorkIsLeft(n)'
  BY <1>1 DEF KInv, IInv, WorkIsLeft, OnRecord
<1>5. ASSUME NEW f \in table
      PROVE  ClaimIsGood(f)'
  BY <1>1 DEF KInv, IInv, Shapes, ClaimIsGood
<1>. QED
  BY <1>2, <1>3, <1>4, <1>5 DEF KInv, IInv

LEMMA SpecKInv == Spec => []KInv
<1>1. Init => KInv
  BY DEF Init, Idle, RunFields, EmptyBag, SetToBag, IsABag, KInv, IInv, Shapes, RecordedOnce,
     OrderedOnce, WorkIsItsOwn, WorkIsLeft
<1>2. KInv /\ [Next]_vars => KInv'
  BY RunStep, WorldStep DEF Next, Tick, Ingest, Judge, vars
<1>. QED
  BY <1>1, <1>2, PTL DEF Spec

(* However runs overlap, are delivered twice or are retried, a burst is on record  *)
(* once and no session of it is ordered killed a second time: the conditional put  *)
(* of _write_finding comes before every order of _invoke_enforcement.                *)
THEOREM BurstsAreActedOnOnce == Spec => []BurstIsActedOnOnce
<1>1. KInv => BurstIsActedOnOnce
  BY DEF KInv, IInv, RecordedOnce, OrderedOnce, BurstIsActedOnOnce, BagToSet
<1>. QED
  BY SpecKInv, <1>1, PTL

(* A finding that claims a kill was followed by an order for each of its sessions,  *)
(* unless the run that recorded it had a call fail or died.                         *)
THEOREM RecordedKillsAreOrdered == Spec => []RecordedKillIsOrdered
<1>1. KInv => RecordedKillIsOrdered
  BY DEF KInv, ClaimIsGood, RecordedKillIsOrdered, BagIn, BagToSet
<1>. QED
  BY SpecKInv, <1>1, PTL

-----------------------------------------------------------------------------
(* Step by step the runs keep the promise of BurstPromise.                         *)

AllKills == UNION {KillsOf(n) : n \in Runs}

\* Of the kills still owed none is owed by two runs, so what one run has done with
\* is done with.
LEMMA KillsLeave ==
    ASSUME KInv, NEW n \in Runs, Frame(n), NEW gone, gone \subseteq KillsOf(n),
           KillsOf(n)' = KillsOf(n) \ gone
    PROVE  AllKills' = AllKills \ gone
<1>1. ASSUME NEW m \in Runs, m # n
      PROVE  KillsOf(m)' = KillsOf(m) /\ KillsOf(m) \cap gone = {}
  <2>1. KillsOf(m)' = KillsOf(m)
    BY <1>1 DEF Frame, KillsOf, Current
  <2>2. \A x \in KillsOf(m) : At(m, "order") /\ x[1] = Current(m).burst
    BY DEF KillsOf
  <2>3. \A x \in gone : At(n, "order") /\ x[1] = Current(n).burst
    BY DEF KillsOf
  <2>. QED
    BY <1>1, <2>1, <2>2, <2>3 DEF KInv, IInv, WorkIsItsOwn
<1>. HIDE DEF KillsOf
<1>2. AllKills = KillsOf(n) \cup UNION {KillsOf(m) : m \in Runs \ {n}}
  BY DEF AllKills
<1>3. AllKills' = KillsOf(n)' \cup UNION {KillsOf(m) : m \in Runs \ {n}}
  BY <1>1 DEF AllKills
<1>. QED
  BY <1>1, <1>2, <1>3

LEMMA QuietMaps ==
    ASSUME KInv, NEW n \in Runs, Quiet(n)
    PROVE  Promise!GiveUp
<1>1. KillsOf(n)' = KillsOf(n) \ KillsOf(n)
  BY DEF Quiet, KillsOf
<1>2. AllKills' \subseteq AllKills
  BY <1>1, KillsLeave DEF Quiet
<1>3. Book' = Book /\ orders' = orders
  BY DEF Quiet, Book
<1>. QED
  BY <1>2, <1>3 DEF Promise!GiveUp, AllKills

LEMMA WritesMaps ==
    ASSUME KInv, NEW n \in Runs, Writes(n)
    PROVE  \E e \in Book' : Promise!Record(e)
<1>. DEFINE e == [burst |-> Entry(n).burst, sessions |-> Entry(n).sessions, kill |-> Entry(n).kill]
<1>1. /\ e.burst = Current(n).burst /\ e.sessions = Current(n).sessions /\ e.kill = Fatal(n)
  BY EntryFacts
<1>2. Book' = Book \cup {e} /\ orders' = orders
  BY DEF Writes, Book
<1>3. \A f \in Book : f.burst # e.burst
  BY <1>1 DEF Writes, Recorded, Book
<1>4. KillsOf(n) = {}
  BY DEF Writes, KillsOf
<1>5. KillsOf(n)' = {} \/ KillsOf(n)' = Promise!CalledFor(e)
  <2>1. CASE run'[n].pc = "order"
    <3>1. Fatal(n) /\ run'[n].left = Current(n).sessions /\ Current(n)' = Current(n)
      BY <2>1 DEF Writes, Current
    <3>2. KillsOf(n)' = {Current(n).burst} \X Current(n).sessions
      BY <2>1, <3>1 DEF KillsOf
    <3>. HIDE DEF e
    <3>. QED
      BY <1>1, <3>1, <3>2 DEF Promise!CalledFor
  <2>2. CASE run'[n].pc # "order"
    BY <2>2 DEF KillsOf
  <2>. QED
    BY <2>1, <2>2
<1>6. \A m \in Runs \ {n} : KillsOf(m)' = KillsOf(m)
  BY DEF Writes, Frame, KillsOf, Current
<1>7. AllKills' = AllKills \cup KillsOf(n)'
  <2>. HIDE DEF KillsOf
  <2>1. AllKills' = KillsOf(n)' \cup UNION {KillsOf(m) : m \in Runs \ {n}}
    BY <1>6 DEF AllKills
  <2>2. AllKills = KillsOf(n) \cup UNION {KillsOf(m) : m \in Runs \ {n}}
    BY DEF AllKills
  <2>. QED
    BY <1>4, <2>1, <2>2
<1>. HIDE DEF e, KillsOf
<1>8. AllKills' \in {AllKills, AllKills \cup Promise!CalledFor(e)}
  BY <1>5, <1>7
<1>9. Promise!Record(e)
  BY <1>2, <1>3, <1>8 DEF Promise!Record, AllKills
<1>. QED
  BY <1>2, <1>9

LEMMA WorksMaps ==
    ASSUME KInv, NEW n \in Runs, NEW s, Works(n, s)
    PROVE  Promise!Next
<1>. DEFINE x == <<Current(n).burst, s>>
<1>1. x \in KillsOf(n) /\ KillsOf(n)' = KillsOf(n) \ {x}
  <2>1. KillsOf(n) = {Current(n).burst} \X run[n].left /\ s \in run[n].left
    BY DEF Works, KillsOf
  <2>2. CASE run'[n].pc = "order" /\ run'[n].finding = run[n].finding
             /\ run'[n].left = run[n].left \ {s}
    <3>1. KillsOf(n)' = {Current(n).burst} \X (run[n].left \ {s})
      BY <2>2 DEF KillsOf, Current
    <3>. QED
      BY <2>1, <3>1
  <2>3. CASE run'[n].pc = "check" /\ run[n].left \ {s} = {}
    <3>1. KillsOf(n)' = {}
      BY <2>3 DEF KillsOf
    <3>. QED
      BY <2>1, <2>3, <3>1
  <2>. QED
    BY <2>1, <2>2, <2>3 DEF Works
<1>2. Frame(n) /\ Book' = Book
      /\ (orders' = orders (+) SetToBag({x}) \/ orders' = orders)
      /\ IsABag(orders) /\ x \notin DOMAIN orders
  BY DEF Works, Book, KInv, IInv, Shapes, WorkIsLeft
<1>. HIDE DEF x, KillsOf
<1>3. AllKills' = AllKills \ {x}
  <2>1. {x} \subseteq KillsOf(n)
    BY <1>1
  <2>. QED
    BY <1>1, <1>2, <2>1, KillsLeave
<1>4. CASE orders' = orders (+) SetToBag({x})
  <2>1. orders' = [y \in DOMAIN orders \cup {x} |-> IF y = x THEN 1 ELSE orders[y]]
    <3>1. IsABag(orders) /\ x \notin DOMAIN orders
      BY <1>2
    <3>2. orders (+) SetToBag({x})
            = [y \in DOMAIN orders \cup {x} |-> IF y = x THEN 1 ELSE orders[y]]
      BY <3>1, OneMoreIs
    <3>. QED
      BY <1>4, <3>2
  <2>2. Promise!Give(x)
    BY <1>2, <1>3, <2>1 DEF Promise!Give, AllKills
  <2>. QED
    BY <1>1, <2>2 DEF Promise!Next
<1>5. CASE orders' = orders
  BY <1>2, <1>3, <1>5 DEF Promise!Next, Promise!GiveUp, AllKills
<1>. QED
  BY <1>2, <1>4, <1>5

LEMMA PromiseStep ==
    ASSUME KInv, [Next]_vars
    PROVE  [Promise!Next]_Promise!vars
<1>1. CASE UNCHANGED <<run, table, orders>>
  <2>1. \A n \in Runs : KillsOf(n)' = KillsOf(n)
    BY <1>1 DEF KillsOf, Current
  <2>2. Book' = Book /\ orders' = orders
    BY <1>1 DEF Book
  <2>. QED
    BY <2>1, <2>2 DEF Promise!vars
<1>2. ASSUME NEW n \in Runs, Step(n) \/ Failure(n)
      PROVE  Promise!Next
  <2>1. Quiet(n) \/ Writes(n) \/ \E s : Works(n, s)
    BY <1>2, ScanQuiet, AnalyseQuiet, CheckQuiet, DieQuiet, PutKeeps, PutAgainKeeps, OrderKeeps
    DEF Step, Failure
  <2>. QED
    BY <2>1, QuietMaps, WritesMaps, WorksMaps DEF Promise!Next
<1>. QED
  BY <1>1, <1>2 DEF Next, Tick, Ingest, Judge, vars

(* The runs implement BurstPromise: an entry is put once and for good, a kill is   *)
(* ordered only after the put that calls for it and by the run that put it, and no *)
(* retry and no other run orders a kill that a run has given up.  That no two runs *)
(* owe one kill (WorkIsItsOwn) is what makes "given" and "given up" exclude each   *)
(* other.                                                                          *)
THEOREM RunsKeepThePromise == Spec => KillsKeepThePromise
<1>1. Init => Promise!Init
  <2>. SUFFICES ASSUME Init
                PROVE  Promise!Init
    OBVIOUS
  <2>1. orders = [x \in {} |-> 0]
    BY DEF Init, EmptyBag, SetToBag
  <2>2. \A n \in Runs : KillsOf(n) = {}
    BY DEF Init, Idle, KillsOf
  <2>3. Book = {}
    BY DEF Init, Book
  <2>. QED
    BY <2>1, <2>2, <2>3 DEF Promise!Init
<1>2. KInv /\ [Next]_vars => [Promise!Next]_Promise!vars
  BY PromiseStep
<1>. QED
  BY SpecKInv, <1>1, <1>2, PTL DEF Spec, KillsKeepThePromise, Promise!Spec

-----------------------------------------------------------------------------
(* Who is killed: what a run scanned is what was said, a finding that may kill is  *)
(* about an attack, and what is ordered killed is what such a finding names.       *)

HINTS == CRITICAL_SIGNATURE_HINTS \cup {"prompt", "jailbreak"}

IsRowOf(r, p) ==
    /\ r.id = p /\ r.session = Session[p] /\ ingested[p] # 0
    /\ r.text = scene.said[p].text /\ r.signatures = scene.said[p].signatures
    /\ r.category # "" => p \in judged /\ r.category = scene.said[p].category

RowsAreSaid(rows) == \A r \in rows : \E p \in Prompts : IsRowOf(r, p)

Critical(sessions) == \E p \in Prompts : /\ Session[p] \in sessions
                                        /\ Says(p, HINTS, CRITICAL_CATEGORIES)

Replayed(sessions) == \E p \in Prompts : \A s \in sessions : Sent(s, scene.said[p].text)

\* What makes a finding fit to kill: an attack in it, and at 95 and more a replay.
Sound(f) == f.fatal =>
    /\ f.confidence \in Nat
    /\ MethodEligible(f) => Critical(f.sessions)
    /\ f.confidence >= 95 => Replayed(f.sessions)

\* A session keeps the first of its rows, so that a finding drops no session.
LEMMA FirstsCover ==
    ASSUME NEW rows, \A r \in rows : r.id \in Nat
    PROVE  /\ FirstOfSessions(rows) \subseteq rows
           /\ SessionsOf(FirstOfSessions(rows)) = SessionsOf(rows)
<1>1. FirstOfSessions(rows) \subseteq rows
  BY DEF FirstOfSessions
<1>2. ASSUME NEW r \in rows
      PROVE  \E s \in FirstOfSessions(rows) : s.session = r.session
  <2>. DEFINE ids == {s.id : s \in {t \in rows : t.session = r.session}}
  <2>1. ids \in SUBSET Nat /\ ids # {}
    OBVIOUS
  <2>2. PICK n \in ids : \A m \in ids : n <= m
    <3>. HIDE DEF ids
    <3>. QED
      BY <2>1, LeastNatural
  <2>3. PICK s \in rows : s.session = r.session /\ s.id = n
    BY <2>2
  <2>4. \A t \in rows : t.session = s.session => s.id <= t.id
    BY <2>2, <2>3
  <2>. QED
    BY <2>3, <2>4 DEF FirstOfSessions
<1>. QED
  BY <1>1, <1>2 DEF SessionsOf

LEMMA RowSays ==
    ASSUME NEW r, NEW p \in Prompts, IsRowOf(r, p)
    PROVE  /\ CategoryOf(r) \in CRITICAL_CATEGORIES => Says(p, HINTS, CRITICAL_CATEGORIES)
           /\ r.signatures \cap CRITICAL_SIGNATURE_HINTS # {} =>
                  Says(p, HINTS, CRITICAL_CATEGORIES)
<1>1. ASSUME r.signatures \cap HINTS # {}
      PROVE  Says(p, HINTS, CRITICAL_CATEGORIES)
  BY <1>1 DEF Says, IsRowOf
<1>2. CASE r.category \notin {"", "safe"}
  BY <1>1, <1>2 DEF CategoryOf, IsRowOf, Says, HINTS
<1>3. CASE r.category \in {"", "safe"} /\ r.signatures \cap HINTS # {}
  BY <1>1, <1>3
<1>4. CASE r.category \in {"", "safe"} /\ r.signatures \cap HINTS = {}
  BY <1>4 DEF CategoryOf, HINTS, CRITICAL_SIGNATURE_HINTS, CRITICAL_CATEGORIES
<1>. QED
  BY <1>2, <1>3, <1>4

\* A group's category is that of a row of it, or none.
Named(c, group) ==
    c \notin CRITICAL_CATEGORIES \/ \E r \in group : CategoryOf(r) = c

LEMMA MajorityNames ==
    ASSUME NEW group, NEW nothing \in {"unknown", "session_risk"},
           NEW c \in Majority(group, nothing)
    PROVE  Named(c, group)
BY DEF Majority, Named, CRITICAL_CATEGORIES

LEMMA GroupIsCritical ==
    ASSUME Prompts \subseteq Nat, NEW group, RowsAreSaid(group), NEW c, Named(c, group),
           IsCritical(FirstOfSessions(group), c)
    PROVE  Critical(SessionsOf(group))
<1>1. \A r \in group : r.id \in Nat
  BY DEF RowsAreSaid, IsRowOf
<1>2. FirstOfSessions(group) \subseteq group
  BY <1>1, FirstsCover
<1>3. PICK r \in group : \/ CategoryOf(r) \in CRITICAL_CATEGORIES
                         \/ r.signatures \cap CRITICAL_SIGNATURE_HINTS # {}
  BY <1>2 DEF Named, IsCritical, CriticalSignature
<1>4. PICK p \in Prompts : IsRowOf(r, p)
  BY DEF RowsAreSaid
<1>5. Says(p, HINTS, CRITICAL_CATEGORIES) /\ Session[p] \in SessionsOf(group)
  BY <1>3, <1>4, RowSays DEF IsRowOf, SessionsOf
<1>. QED
  BY <1>5 DEF Critical

LEMMA GroupIsReplayed ==
    ASSUME NEW group, RowsAreSaid(group), NEW q \in group,
           \A r \in group : r.text = q.text
    PROVE  Replayed(SessionsOf(group))
<1>1. PICK p \in Prompts : IsRowOf(q, p)
  BY DEF RowsAreSaid
<1>2. ASSUME NEW s \in SessionsOf(group)
      PROVE  Sent(s, scene.said[p].text)
  <2>1. PICK r \in group : r.session = s
    BY <1>2 DEF SessionsOf
  <2>2. PICK o \in Prompts : IsRowOf(r, o)
    BY DEF RowsAreSaid
  <2>. QED
    BY <1>1, <2>1, <2>2 DEF IsRowOf, Sent
<1>. QED
  BY <1>2 DEF Replayed

LEMMA ConfidenceFacts ==
    ASSUME NEW rows, NEW risks, NEW c
    PROVE  /\ Confidence("exact_hash", rows, risks, c) \in {95, 70}
           /\ Confidence("simhash", rows, risks, c) \in {90, 86, 78}
           /\ Confidence("normalized_pattern_burst", rows, risks, c) \in {90, 76}
           /\ Confidence("embedding", rows, risks, c) \in {93, 91}
BY DEF Confidence

LEMMA FindingIsSound ==
    ASSUME Prompts \subseteq Nat, NEW group, RowsAreSaid(group), NEW c, Named(c, group),
           NEW risks, NEW method, method # "category_burst", method # "session_risk_burst",
           method \in DOMAIN Rank,
           method = "exact_hash" => \E q \in group : \A r \in group : r.text = q.text
    PROVE  Sound(Finding(method, c, group, risks))
<1>. DEFINE rows == FirstOfSessions(group)
            f == Finding(method, c, group, risks)
<1>1. /\ f.method = method /\ f.category = c /\ f.sessions = SessionsOf(rows)
      /\ f.confidence = Confidence(method, rows, risks, c)
      /\ f.fatal = KillDecision(method, rows, c, f.confidence, risks)
  BY DEF Finding
<1>2. f.sessions = SessionsOf(group)
  BY <1>1, FirstsCover DEF RowsAreSaid, IsRowOf
<1>3. method \in {"exact_hash", "simhash", "normalized_pattern_burst", "embedding"}
  BY DEF Rank
<1>4. f.confidence \in Nat /\ (f.confidence >= 95 => method = "exact_hash")
  BY <1>1, <1>3, ConfidenceFacts
<1>. HIDE DEF f
<1>5. ASSUME f.fatal, MethodEligible(f)
      PROVE  IsCritical(rows, c)
  <2>1. CASE method = "normalized_pattern_burst"
    BY <1>1, <1>5, <2>1 DEF MethodEligible, IsCritical
  <2>2. CASE method # "normalized_pattern_burst"
    BY <1>1, <1>3, <1>5, <2>2 DEF KillDecision
  <2>. QED
    BY <2>1, <2>2
<1>6. ASSUME f.fatal, MethodEligible(f)
      PROVE  Critical(f.sessions)
  BY <1>2, <1>5, <1>6, GroupIsCritical
<1>7. ASSUME f.confidence >= 95
      PROVE  Replayed(f.sessions)
  BY <1>2, <1>4, <1>7, GroupIsReplayed
<1>. QED
  BY <1>4, <1>6, <1>7 DEF Sound, f

LEMMA FindingsAreSound ==
    ASSUME Prompts \subseteq Nat, NEW rows, RowsAreSaid(rows), NEW risks,
           NEW f \in Findings(rows, risks)
    PROVE  Sound(f)
<1>1. ASSUME NEW group, group \subseteq rows
      PROVE  RowsAreSaid(group)
  BY <1>1 DEF RowsAreSaid
<1>2. CASE f \in ExactHashFindings(rows, risks)
  <2>1. PICK q \in rows : \E c \in Majority({r \in rows : r.text = q.text}, "unknown") :
           f = Finding("exact_hash", c, {r \in rows : r.text = q.text}, risks)
    BY <1>2 DEF ExactHashFindings, FindingsOf, Spread
  <2>. QED
    BY <1>1, <2>1, MajorityNames, FindingIsSound DEF Rank
<1>3. CASE f \in SimhashFindings(rows, risks)
  <2>1. PICK group : /\ group \subseteq rows
                     /\ \E c \in Majority(group, "unknown") :
                           f = Finding("simhash", c, group, risks)
    BY <1>3 DEF SimhashFindings, FindingsOf, Spread
  <2>. QED
    BY <1>1, <2>1, MajorityNames, FindingIsSound DEF Rank
<1>4. CASE f \in NormalizedPatternFindings(rows, risks)
  <2>1. PICK group : /\ group \subseteq rows
                     /\ \E c \in Majority(group, "unknown") :
                           f = Finding("normalized_pattern_burst", c, group, risks)
    BY <1>4 DEF NormalizedPatternFindings, Spread
  <2>. QED
    BY <1>1, <2>1, MajorityNames, FindingIsSound DEF Rank
<1>5. CASE f \in CategoryBurstFindings(rows, risks)
  <2>1. PICK c, group : f = Finding("category_burst", c, group, risks)
    BY <1>5 DEF CategoryBurstFindings
  <2>. QED
    BY <2>1 DEF Finding, KillDecision, Sound
<1>6. CASE f \in SessionRiskFindings(rows, risks)
  <2>1. PICK c, group : f = Finding("session_risk_burst", c, group, risks)
    BY <1>6 DEF SessionRiskFindings, FindingsOf
  <2>. QED
    BY <2>1 DEF Finding, KillDecision, Sound
<1>7. CASE f \in EmbeddingFindings(rows, risks)
  <2>1. PICK q, group :
           /\ q \in group /\ group \subseteq rows
           /\ f = Finding("embedding", CategoryOf(q), group, risks)
    BY <1>7 DEF EmbeddingFindings
  <2>2. Named(CategoryOf(q), group)
    BY <2>1 DEF Named
  <2>. QED
    BY <1>1, <2>1, <2>2, FindingIsSound DEF Rank
<1>. QED
  BY <1>2, <1>3, <1>4, <1>5, <1>6, <1>7 DEF Findings

-----------------------------------------------------------------------------
(* What a finding is made of: its score stays on its scale.                        *)

RowsAreTyped(rows) ==
    /\ IsFiniteSet(rows)
    /\ \A r \in rows : r.id \in Nat /\ r.session \in Sessions /\ r.risk \in Nat /\ r.repeated \in Nat

RisksAreTyped(risks) ==
    \A s \in Sessions : risks[s].score \in Nat /\ risks[s].repeated \in Nat

LEMMA SessionsCount ==
    ASSUME NEW rows, RowsAreTyped(rows)
    PROVE  /\ SessionsOf(rows) \subseteq Sessions
           /\ IsFiniteSet(SessionsOf(rows)) /\ Cardinality(SessionsOf(rows)) \in Nat
<1>. DEFINE f == [r \in rows |-> r.session]
<1>1. SessionsOf(rows) = {f[r] : r \in rows}
  BY DEF SessionsOf
<1>. HIDE DEF f
<1>2. IsFiniteSet(SessionsOf(rows))
  BY <1>1, FiniteImage DEF RowsAreTyped
<1>. QED
  BY <1>2, FS_CardinalityType DEF RowsAreTyped, SessionsOf

LEMMA RiskTyped ==
    ASSUME NEW rows, RowsAreTyped(rows), rows # {}, NEW risks, RisksAreTyped(risks)
    PROVE  MaxRisk(rows, risks) \in Nat /\ Repeated(rows, risks) \in Nat
<1>1. \A r \in rows : RiskOf(r, risks) \in Nat
  BY MaxOfTwo DEF RowsAreTyped, RisksAreTyped, RiskOf
<1>2. MaxRisk(rows, risks) \in Nat
  <2>. DEFINE f == [r \in rows |-> RiskOf(r, risks)]
              S == {f[r] : r \in rows}
  <2>1. MaxRisk(rows, risks) = Max(S)
    BY DEF MaxRisk
  <2>2. S \in SUBSET Int /\ S \subseteq Nat /\ S # {}
    BY <1>1
  <2>. HIDE DEF f
  <2>3. IsFiniteSet(S)
    BY FiniteImage DEF RowsAreTyped
  <2>. HIDE DEF S
  <2>. QED
    BY <2>1, <2>2, <2>3, MaxFacts
<1>3. Repeated(rows, risks) \in Nat
  <2>. DEFINE f == [r \in rows |-> r.repeated]
              g == [s \in SessionsOf(rows) |-> risks[s].repeated]
              F == {f[r] : r \in rows}
              G == {g[s] : s \in SessionsOf(rows)}
              S == F \cup G
  <2>1. Repeated(rows, risks) = Max(S)
    BY DEF Repeated
  <2>2. S \in SUBSET Int /\ S \subseteq Nat /\ S # {}
    BY SessionsCount DEF RowsAreTyped, RisksAreTyped
  <2>. HIDE DEF f, g
  <2>3. IsFiniteSet(F) /\ IsFiniteSet(G)
    BY FiniteImage, SessionsCount DEF RowsAreTyped
  <2>. HIDE DEF F, G
  <2>4. IsFiniteSet(S)
    BY <2>3, FS_Union
  <2>. HIDE DEF S
  <2>. QED
    BY <2>1, <2>2, <2>4, MaxFacts
<1>. QED
  BY <1>2, <1>3

LEMMA ConfidenceTyped ==
    ASSUME NEW rows, RowsAreTyped(rows), NEW risks, NEW c, NEW method \in DOMAIN Rank
    PROVE  Confidence(method, rows, risks, c) \in Nat
<1>1. AtMost(70 + 3 * Cardinality(SessionsOf(rows)), 94) \in Nat
  BY SessionsCount DEF AtMost
<1>2. Confidence("category_burst", rows, risks, c) \in
         {90, AtMost(70 + 3 * Cardinality(SessionsOf(rows)), 94)}
  BY DEF Confidence
<1>3. Confidence("session_risk_burst", rows, risks, c) \in {90, 82}
  BY DEF Confidence
<1>. QED
  BY <1>1, <1>2, <1>3, ConfidenceFacts DEF Rank

LEMMA ScoreTyped ==
    ASSUME NEW rows, RowsAreTyped(rows), rows # {}, NEW risks, RisksAreTyped(risks), NEW c,
           NEW method \in DOMAIN Rank, NEW confidence \in Nat
    PROVE  GroupScore(method, rows, c, confidence, risks) \in 0..Percent(100)
<1>. DEFINE critical == {r \in rows : IsCritical({r}, c)}
            penalty == IF /\ c \in NO_CATEGORIES \cup {"session_risk"}
                          /\ method \in {"normalized_pattern_burst", "session_risk_burst"}
                       THEN 20 ELSE 0
            n == Cardinality(SessionsOf(rows))
            k == Cardinality(critical)
            risk == MaxRisk(rows, risks)
            many == Repeated(rows, risks)
            sum == 45 * confidence + Percent(AtMost(5 * n, 25)) + Percent(AtMost(5 * k, 15))
                     + AtMost(Percent(risk) \div 8, Percent(15))
                     + Percent(AtMost(3 * many, 10)) + Percent(METHOD_SCORE[method])
                     - Percent(penalty)
<1>1. n \in Nat /\ k \in Nat /\ risk \in Nat /\ many \in Nat
  BY SessionsCount, RiskTyped, FS_Subset, FS_CardinalityType DEF RowsAreTyped
<1>2. METHOD_SCORE[method] \in Nat /\ penalty \in Nat
  BY DEF METHOD_SCORE, Rank
<1>3. GroupScore(method, rows, c, confidence, risks) = AtMost(Max({0, sum}), Percent(100))
  BY DEF GroupScore, GroupSum
<1>. HIDE DEF critical, penalty, n, k, risk, many
<1>4. sum \in Int
  <2>1. Percent(risk) \div 8 \in Int
    BY <1>1 DEF Percent
  <2>. QED
    BY <1>1, <1>2, <2>1 DEF Percent, AtMost
<1>. HIDE DEF sum
<1>5. Max({0, sum}) = IF 0 >= sum THEN 0 ELSE sum
  BY <1>4, MaxOfTwo
<1>6. PICK m \in Nat : m = Max({0, sum})
  BY <1>4, <1>5
<1>7. AtMost(m, Percent(100)) \in 0..Percent(100)
  BY DEF AtMost, Percent
<1>. QED
  BY <1>3, <1>6, <1>7

\* What the invariant says of a finding that a run holds.
Fit(f) == /\ Sound(f)
          /\ f.sessions \subseteq Sessions /\ f.score \in 0..Percent(100)

LEMMA FindingIsFit ==
    ASSUME NEW group, RowsAreTyped(group), group # {}, NEW risks, RisksAreTyped(risks), NEW c,
           NEW method \in DOMAIN Rank, Sound(Finding(method, c, group, risks))
    PROVE  Fit(Finding(method, c, group, risks))
<1>. DEFINE rows == FirstOfSessions(group)
            f == Finding(method, c, group, risks)
<1>1. /\ f.sessions = SessionsOf(rows)
      /\ f.score = GroupScore(method, rows, c, Confidence(method, rows, risks, c), risks)
  BY DEF Finding
<1>2. rows \subseteq group /\ SessionsOf(rows) = SessionsOf(group)
  BY FirstsCover DEF RowsAreTyped
<1>. HIDE DEF rows, f
<1>3. RowsAreTyped(rows) /\ rows # {}
  BY <1>2, FS_Subset DEF RowsAreTyped, SessionsOf
<1>4. f.sessions \subseteq Sessions /\ f.score \in 0..Percent(100)
  BY <1>1, <1>3, SessionsCount, ConfidenceTyped, ScoreTyped
<1>. QED
  BY <1>4 DEF Fit, f

LEMMA FindingsAreFit ==
    ASSUME NEW rows, RowsAreTyped(rows), RowsAreSaid(rows),
           NEW risks, RisksAreTyped(risks), NEW f \in Findings(rows, risks)
    PROVE  Fit(f)
<1>0. Prompts \subseteq Nat
  BY HistoryAssumption
<1>1. \E group, method, c :
         /\ group \subseteq rows /\ group # {} /\ method \in DOMAIN Rank
         /\ f = Finding(method, c, group, risks)
  <2>1. CASE f \in ExactHashFindings(rows, risks)
    <3>1. PICK q \in rows : \E c \in Majority({r \in rows : r.text = q.text}, "unknown") :
             f = Finding("exact_hash", c, {r \in rows : r.text = q.text}, risks)
      BY <2>1 DEF ExactHashFindings, FindingsOf, Spread
    <3>2. {r \in rows : r.text = q.text} # {} /\ {r \in rows : r.text = q.text} \subseteq rows
      OBVIOUS
    <3>. QED
      BY <3>1, <3>2 DEF Rank
  <2>2. CASE f \in SimhashFindings(rows, risks)
    <3>1. PICK q, group : /\ group \subseteq rows /\ q \in group
                          /\ \E c : f = Finding("simhash", c, group, risks)
      BY <2>2 DEF SimhashFindings, FindingsOf, Spread
    <3>. QED
      BY <3>1 DEF Rank
  <2>3. CASE f \in NormalizedPatternFindings(rows, risks)
    <3>1. PICK q, group :
             /\ group \subseteq rows /\ q \in group
             /\ \E c : f = Finding("normalized_pattern_burst", c, group, risks)
      BY <2>3 DEF NormalizedPatternFindings, Spread
    <3>. QED
      BY <3>1 DEF Rank
  <2>4. CASE f \in CategoryBurstFindings(rows, risks)
    <3>1. PICK c, group : /\ group \subseteq rows
                          /\ Cardinality(SessionsOf(group)) >= CATEGORY_BURST_MIN_SESSIONS
                          /\ f = Finding("category_burst", c, group, risks)
      BY <2>4 DEF CategoryBurstFindings
    <3>2. group # {}
      BY <3>1, FS_EmptySet, ScheduleAssumption DEF SessionsOf
    <3>. QED
      BY <3>1, <3>2 DEF Rank
  <2>5. CASE f \in SessionRiskFindings(rows, risks)
    <3>1. PICK group : /\ group \subseteq rows
                       /\ Cardinality(SessionsOf(group)) >= SESSION_RISK_BURST_MIN_SESSIONS
                       /\ \E c : f = Finding("session_risk_burst", c, group, risks)
      BY <2>5 DEF SessionRiskFindings, FindingsOf, Spread
    <3>2. group # {}
      BY <3>1, FS_EmptySet, ScheduleAssumption DEF SessionsOf
    <3>. QED
      BY <3>1, <3>2 DEF Rank
  <2>6. CASE f \in EmbeddingFindings(rows, risks)
    <3>1. PICK q, group :
             /\ q \in group /\ group \subseteq rows
             /\ f = Finding("embedding", CategoryOf(q), group, risks)
      BY <2>6 DEF EmbeddingFindings
    <3>. QED
      BY <3>1 DEF Rank
  <2>. QED
    BY <2>1, <2>2, <2>3, <2>4, <2>5, <2>6 DEF Findings
<1>2. PICK group, method, c :
         /\ group \subseteq rows /\ group # {} /\ method \in DOMAIN Rank
         /\ f = Finding(method, c, group, risks)
  BY <1>1
<1>3. RowsAreTyped(group)
  BY <1>2, FS_Subset DEF RowsAreTyped
<1>4. Sound(f)
  BY <1>0, FindingsAreSound
<1>. QED
  BY <1>2, <1>3, <1>4, FindingIsFit

-----------------------------------------------------------------------------
(* The inductive invariant.                                                        *)

Guilty(f) ==
    /\ Critical(f.sessions)
    /\ Cardinality(f.sessions) >= f.policy.minSessions
    /\ f.policy.killThreshold >= 95 => Replayed(f.sessions)

\* The kill of a session is on record, in an event that names it.
Backed(burst, sessions) ==
    \E f \in table : f.burst = burst /\ sessions \subseteq f.sessions /\ f.kill

World ==
    /\ scene \in Scenarios /\ clock \in 1..MaxClock /\ faults \in 0..MaxFaults
    /\ ingested \in [Prompts -> 0..clock] /\ \A p \in judged : ingested[p] # 0

RunFit(n) ==
    /\ run[n].pc \in {"due", "analyse", "check", "put", "order", "done"}
    /\ RowsAreSaid(run[n].rows) /\ RowsAreTyped(run[n].rows)
    /\ \A f \in run[n].todo \cup run[n].finding : Fit(f)
    /\ At(n, "put") \/ At(n, "order") <=> run[n].finding # {}
    /\ At(n, "order") <=> run[n].left # {}
    /\ run[n].pc \in {"check", "put", "order"} => run[n].policy \in Policies
    /\ At(n, "order") => Backed(Current(n).burst, run[n].left)

TableFit == \A f \in table : /\ f.sessions \subseteq Sessions /\ f.score \in 0..Percent(100)
                             /\ f.kill => Guilty(f)

GuiltInv ==
    /\ World /\ TableFit
    /\ \A n \in Runs : RunFit(n)
    /\ \A x \in DOMAIN orders : Backed(x[1], {x[2]})

\* What has been said, ingested and judged remains so.
HistoryGrows ==
    /\ scene' = scene /\ judged \subseteq judged'
    /\ \A p \in Prompts : ingested[p] # 0 => ingested'[p] # 0

LEMMA SaidRemains ==
    ASSUME HistoryGrows
    PROVE  /\ \A rows : RowsAreSaid(rows) => RowsAreSaid(rows)'
           /\ \A f : Fit(f) => Fit(f)'
           /\ \A f : Guilty(f) => Guilty(f)'
<1>1. \A r : \A p \in Prompts : IsRowOf(r, p) => IsRowOf(r, p)'
  BY DEF HistoryGrows, IsRowOf
<1>2. \A sessions : Critical(sessions) => Critical(sessions)'
  BY DEF HistoryGrows, Critical, Says
<1>3. \A sessions : Replayed(sessions) => Replayed(sessions)'
  BY DEF HistoryGrows, Replayed, Sent
<1>4. \A rows : RowsAreSaid(rows) => RowsAreSaid(rows)'
  BY <1>1 DEF RowsAreSaid
<1>5. \A f : Fit(f) => Fit(f)'
  BY <1>2, <1>3 DEF Fit, Sound
<1>6. \A f : Guilty(f) => Guilty(f)'
  BY <1>2, <1>3 DEF Guilty
<1>. QED
  BY <1>4, <1>5, <1>6

LEMMA RunKept ==
    ASSUME NEW m \in Runs, RunFit(m), run'[m] = run[m], HistoryGrows, table \subseteq table'
    PROVE  RunFit(m)'
<1>1. Current(m)' = Current(m)
  BY DEF Current
<1>2. /\ \A rows : RowsAreSaid(rows) => RowsAreSaid(rows)'
      /\ \A f : Fit(f) => Fit(f)'
  BY SaidRemains
<1>3. Backed(Current(m).burst, run[m].left) => Backed(Current(m).burst, run[m].left)'
  BY <1>1 DEF Backed
<1>. QED
  BY <1>1, <1>2, <1>3 DEF RunFit

\* A run that holds no finding.
Blank(n) == run'[n].todo = {} /\ run'[n].finding = {} /\ run'[n].left = {}

LEMMA BlankFit ==
    ASSUME NEW n \in Runs, Blank(n), run'[n].pc \in {"due", "analyse", "done"},
           RowsAreSaid(run[n].rows)', RowsAreTyped(run'[n].rows)
    PROVE  RunFit(n)'
BY DEF Blank, RunFit, RowsAreTyped

LEMMA NoRows == RowsAreSaid({}) /\ RowsAreTyped({}) /\ RowsAreSaid({})'
BY FS_EmptySet DEF RowsAreSaid, RowsAreTyped

LEMMA RowsScanned ==
    ASSUME World, NEW P \in SUBSET Prompts, \A p \in P : ingested[p] # 0
    PROVE  RowsAreSaid({RowOf(p) : p \in P}) /\ RowsAreTyped({RowOf(p) : p \in P})
<1>1. \A p \in P : IsRowOf(RowOf(p), p)
  BY DEF RowOf, IsRowOf
<1>2. RowsAreSaid({RowOf(p) : p \in P})
  BY <1>1 DEF RowsAreSaid
<1>3. ASSUME NEW p \in P
      PROVE  /\ RowOf(p).id \in Nat /\ RowOf(p).session \in Sessions
             /\ RowOf(p).risk \in Nat /\ RowOf(p).repeated \in Nat
  <2>1. /\ p \in Nat /\ Session[p] \in Sessions
        /\ scene.said[p].risk \in Nat /\ scene.said[p].repeated \in Nat
    BY HistoryAssumption DEF World
  <2>. QED
    BY <2>1 DEF RowOf
<1>4. IsFiniteSet({RowOf(p) : p \in P})
  <2>. DEFINE f == [p \in P |-> RowOf(p)]
  <2>1. {RowOf(p) : p \in P} = {f[p] : p \in P}
    OBVIOUS
  <2>2. IsFiniteSet(P)
    BY HistoryAssumption, FS_Subset
  <2>. HIDE DEF f
  <2>3. IsFiniteSet({f[p] : p \in P})
    BY <2>2, FiniteImage
  <2>. QED
    BY <2>1, <2>3
<1>. QED
  BY <1>2, <1>3, <1>4 DEF RowsAreTyped

LEMMA ScanFit ==
    ASSUME KInv, GuiltInv, NEW n \in Runs, Scan(n)
    PROVE  RunFit(n)' /\ HistoryGrows
<1>1. DOMAIN run = Runs
  BY DEF KInv, IInv, Shapes
<1>2. /\ Blank(n) /\ run'[n].pc \in {"analyse", "done"}
      /\ \/ run'[n].rows = {} \/ run'[n].rows = {RowOf(p) : p \in InWindow(clock)}
  BY <1>1 DEF Scan, Idle, Blank
<1>3. HistoryGrows
  BY DEF Scan, HistoryGrows
<1>4. RowsAreSaid(run'[n].rows) /\ RowsAreTyped(run'[n].rows)
  <2>1. RowsAreSaid({RowOf(p) : p \in InWindow(clock)})
        /\ RowsAreTyped({RowOf(p) : p \in InWindow(clock)})
    BY RowsScanned DEF InWindow, GuiltInv
  <2>. QED
    BY <1>2, <2>1, NoRows
<1>5. RowsAreSaid(run[n].rows)'
  BY <1>3, <1>4 DEF HistoryGrows, RowsAreSaid, IsRowOf
<1>. QED
  BY <1>2, <1>3, <1>4, <1>5, BlankFit

LEMMA DieFit ==
    ASSUME KInv, GuiltInv, NEW n \in Runs, Die(n)
    PROVE  RunFit(n)' /\ HistoryGrows
<1>1. DOMAIN run = Runs
  BY DEF KInv, IInv, Shapes
<1>2. Blank(n) /\ run'[n].pc = "due" /\ run'[n].rows = {}
  BY <1>1 DEF Die, Idle, Blank
<1>3. HistoryGrows
  BY DEF Die, HistoryGrows
<1>. QED
  BY <1>2, <1>3, NoRows, BlankFit

LEMMA AnalyseFit ==
    ASSUME KInv, GuiltInv, NEW n \in Runs, NEW policy \in Policies, Analyse(n, policy)
    PROVE  RunFit(n)' /\ HistoryGrows
<1>1. DOMAIN run = Runs /\ DOMAIN run[n] = RunFields
  BY DEF KInv, IInv, Shapes
<1>2. /\ run[n].todo \cup run[n].finding \subseteq run[n].todo \cup run[n].finding
      /\ run[n].pc = "analyse" /\ run[n].finding = {} /\ run[n].left = {}
      /\ \A f \in run[n].todo : Fit(f)
  BY DEF Analyse, GuiltInv, RunFit
<1>3. HistoryGrows
  BY DEF Analyse, HistoryGrows
<1>4. CASE run' = [run EXCEPT ![n].pc = "done", ![n].policy = policy, ![n].rows = {}]
  <2>1. /\ run'[n].pc = "done" /\ run'[n].rows = {} /\ run'[n].finding = {}
        /\ run'[n].left = {} /\ run'[n].todo = run[n].todo
    BY <1>1, <1>2, <1>4 DEF RunFields
  <2>2. \A f \in run'[n].todo : Fit(f)'
    BY <1>2, <1>3, <2>1, SaidRemains
  <2>. QED
    BY <1>3, <2>1, <2>2, NoRows DEF RunFit, RowsAreTyped
<1>5. ASSUME NEW kept \in Deduplicated(Findings(run[n].rows, scene.risks)),
             run' = [run EXCEPT ![n].pc = "check", ![n].policy = policy,
                                ![n].rows = {}, ![n].todo = kept]
      PROVE  RunFit(n)'
  <2>1. /\ run'[n].pc = "check" /\ run'[n].rows = {} /\ run'[n].finding = {}
        /\ run'[n].left = {} /\ run'[n].todo = kept /\ run'[n].policy = policy
    BY <1>1, <1>2, <1>5 DEF RunFields
  <2>2. /\ RowsAreSaid(run[n].rows) /\ RowsAreTyped(run[n].rows)
        /\ RisksAreTyped(scene.risks)
    BY HistoryAssumption DEF GuiltInv, World, RunFit, RisksAreTyped
  <2>3. \A f \in kept : Fit(f)
    BY <2>2, FindingsAreFit DEF Deduplicated
  <2>4. \A f \in run'[n].todo : Fit(f)'
    BY <1>3, <2>1, <2>3, SaidRemains
  <2>. QED
    BY <2>1, <2>4, NoRows DEF RunFit, RowsAreTyped
<1>. QED
  BY <1>3, <1>4, <1>5 DEF Analyse

\* A finding is done with: the run goes back to its list.
LEMMA Next1Keeps ==
    ASSUME NEW n, NEW f, DOMAIN run[n] = RunFields
    PROVE  /\ Next1(n, f).rows = run[n].rows /\ Next1(n, f).todo = run[n].todo \ {f}
           /\ Next1(n, f).finding = {} /\ Next1(n, f).left = run[n].left
           /\ Next1(n, f).policy = run[n].policy /\ Next1(n, f).pc = "check"
BY DEF Next1, RunFields

NextOne(n) ==
    /\ run'[n].pc = "check" /\ run'[n].rows = run[n].rows
    /\ run'[n].todo \subseteq run[n].todo /\ run'[n].finding = {} /\ run'[n].left = {}
    /\ run'[n].policy = run[n].policy

LEMMA NextOneFit ==
    ASSUME GuiltInv, NEW n \in Runs, run[n].pc \in {"check", "put", "order"}, NextOne(n),
           HistoryGrows
    PROVE  RunFit(n)'
<1>1. /\ RowsAreSaid(run[n].rows) /\ RowsAreTyped(run[n].rows)
      /\ \A f \in run[n].todo : Fit(f)
      /\ run[n].policy \in Policies
  BY DEF GuiltInv, RunFit
<1>2. RowsAreSaid(run[n].rows)'
  BY <1>1, SaidRemains DEF NextOne, RowsAreSaid
<1>3. \A f \in run'[n].todo : Fit(f)'
  BY <1>1, SaidRemains DEF NextOne
<1>. QED
  BY <1>1, <1>2, <1>3 DEF NextOne, RunFit, RowsAreTyped

Settles(n) ==
    /\ run'[n].rows = run[n].rows /\ run'[n].left = {}
    /\ run'[n].todo = run[n].todo /\ run'[n].policy = run[n].policy
    /\ \/ run'[n].pc = "done" /\ run'[n].finding = {}
       \/ /\ run'[n].pc = "put" /\ run'[n].finding # {}
          /\ run'[n].finding \subseteq run[n].todo

LEMMA CheckFit ==
    ASSUME KInv, GuiltInv, NEW n \in Runs, Check(n)
    PROVE  RunFit(n)' /\ HistoryGrows
<1>1. DOMAIN run = Runs /\ DOMAIN run[n] = RunFields
  BY DEF KInv, IInv, Shapes
<1>2. HistoryGrows
  BY DEF Check, HistoryGrows
<1>3. /\ run[n].pc = "check" /\ run[n].finding = {} /\ run[n].left = {}
      /\ RowsAreSaid(run[n].rows) /\ RowsAreTyped(run[n].rows)
      /\ \A f \in run[n].todo : Fit(f)
      /\ run[n].policy \in Policies
  BY DEF Check, GuiltInv, RunFit
<1>4. \/ run' = [run EXCEPT ![n].pc = "done"]
      \/ \E f \in run[n].todo : \/ run' = [run EXCEPT ![n] = Next1(n, f)]
                                \/ run' = [run EXCEPT ![n].pc = "put", ![n].finding = {f}]
  BY DEF Check, Foremost
<1>5. ASSUME NEW f \in run[n].todo, run' = [run EXCEPT ![n] = Next1(n, f)]
      PROVE  RunFit(n)'
  <2>1. NextOne(n)
    BY <1>1, <1>3, <1>5, Next1Keeps DEF NextOne
  <2>. QED
    BY <1>2, <1>3, <2>1, NextOneFit
<1>6. ASSUME Settles(n)
      PROVE  RunFit(n)'
  <2>1. \A f \in run'[n].todo \cup run'[n].finding : Fit(f)'
    BY <1>2, <1>3, <1>6, SaidRemains DEF Settles
  <2>2. RowsAreSaid(run[n].rows)'
    BY <1>2, <1>3, <1>6, SaidRemains DEF RowsAreSaid, Settles
  <2>. QED
    BY <1>3, <1>6, <2>1, <2>2 DEF RunFit, RowsAreTyped, Settles
<1>7. CASE run' = [run EXCEPT ![n].pc = "done"]
  <2>1. Settles(n)
    BY <1>1, <1>3, <1>7 DEF RunFields, Settles
  <2>. QED
    BY <1>2, <1>6, <2>1
<1>8. ASSUME NEW f \in run[n].todo,
             run' = [run EXCEPT ![n].pc = "put", ![n].finding = {f}]
      PROVE  RunFit(n)'
  <2>1. Settles(n)
    BY <1>1, <1>3, <1>8 DEF RunFields, Settles
  <2>. QED
    BY <1>6, <2>1
<1>. QED
  BY <1>2, <1>4, <1>5, <1>7, <1>8

LEMMA CurrentIsHeld ==
    ASSUME NEW n, run[n].finding # {}
    PROVE  Current(n) \in run[n].finding
BY DEF Current

\* What is written with a claim to kill is a finding that passed every threshold.
LEMMA EntryIsGuilty ==
    ASSUME GuiltInv, NEW n \in Runs, run[n].pc = "put"
    PROVE  /\ Entry(n).sessions \subseteq Sessions /\ Entry(n).score \in 0..Percent(100)
           /\ Entry(n).kill => Guilty(Entry(n)) /\ Current(n).sessions # {}
<1>. DEFINE f == Current(n)
            policy == run[n].policy
<1>1. Fit(f) /\ policy \in Policies
  BY CurrentIsHeld DEF GuiltInv, RunFit
<1>2. /\ Entry(n).sessions = f.sessions /\ Entry(n).score = f.score
      /\ Entry(n).kill = Fatal(n) /\ Entry(n).policy = policy
  BY DEF Entry
<1>3. ASSUME Fatal(n)
      PROVE  /\ policy.killThreshold \in Int /\ f.fatal /\ MethodEligible(f)
             /\ Cardinality(f.sessions) >= policy.minSessions
             /\ f.confidence >= policy.killThreshold
  BY <1>1, <1>3, ScheduleAssumption DEF Fatal, Kills, MeetsThresholds
<1>. HIDE DEF f, policy
<1>4. ASSUME Fatal(n)
      PROVE  /\ Critical(f.sessions)
             /\ policy.killThreshold >= 95 => Replayed(f.sessions)
  <2>1. f.confidence \in Nat /\ Critical(f.sessions)
        /\ (f.confidence >= 95 => Replayed(f.sessions))
    BY <1>1, <1>3, <1>4 DEF Fit, Sound
  <2>. QED
    BY <1>3, <1>4, <2>1
<1>5. ASSUME Fatal(n)
      PROVE  Guilty(Entry(n)) /\ f.sessions # {}
  BY <1>2, <1>3, <1>4, <1>5 DEF Guilty, Critical
<1>. QED
  BY <1>1, <1>2, <1>5 DEF Fit, f

LEMMA PutFit ==
    ASSUME KInv, GuiltInv, NEW n \in Runs, Put(n) \/ PutAgain(n)
    PROVE  RunFit(n)' /\ TableFit' /\ HistoryGrows /\ table \subseteq table'
<1>. DEFINE f == Current(n)
            next == Next1(n, f)
            e == Entry(n)
<1>1. DOMAIN run = Runs /\ DOMAIN run[n] = RunFields
  BY DEF KInv, IInv, Shapes
<1>2. HistoryGrows /\ table \subseteq table'
  BY DEF Put, PutAgain, HistoryGrows
<1>3. /\ run[n].pc = "put" /\ run[n].finding # {} /\ run[n].left = {}
      /\ RowsAreSaid(run[n].rows) /\ RowsAreTyped(run[n].rows)
      /\ \A g \in run[n].todo \cup run[n].finding : Fit(g)
      /\ run[n].policy \in Policies
  BY DEF Put, PutAgain, GuiltInv, RunFit
<1>4. /\ e.sessions \subseteq Sessions /\ e.score \in 0..Percent(100)
      /\ e.kill => Guilty(e) /\ f.sessions # {}
      /\ e.burst = f.burst /\ e.sessions = f.sessions /\ e.kill = Fatal(n)
  BY <1>3, EntryIsGuilty DEF Entry
<1>5. /\ next.rows = run[n].rows /\ next.todo = run[n].todo \ {f} /\ next.finding = {}
      /\ next.left = {} /\ next.policy = run[n].policy /\ next.pc = "check"
      /\ DOMAIN next = RunFields
  BY <1>1, <1>3, Next1Keeps, Next1Facts
<1>6. table' \subseteq table \cup {e}
  BY DEF Put, PutAgain
<1>. HIDE DEF f, e
<1>7. TableFit'
  <2>1. \A g \in table' : g \in table \/ g = e
    BY <1>6
  <2>. QED
    BY <1>2, <1>4, <2>1, SaidRemains DEF GuiltInv, TableFit
<1>8. CASE run'[n].pc = "check"
  <2>1. run' = [run EXCEPT ![n] = next] \/ run' = [run EXCEPT ![n] = [next EXCEPT !.clean = FALSE]]
    <3>1. CASE PutAgain(n)
      BY <3>1 DEF PutAgain, f
    <3>2. CASE Put(n) /\ run' = [run EXCEPT ![n] = [@ EXCEPT !.pc = "order", !.left = f.sessions]]
      BY <1>1, <1>8, <3>2 DEF RunFields
    <3>. QED
      BY <3>1, <3>2 DEF Put, f
  <2>. HIDE DEF next
  <2>2. NextOne(n)
    BY <1>1, <1>5, <2>1 DEF NextOne, RunFields
  <2>. QED
    BY <1>2, <1>3, <1>7, <2>2, NextOneFit
<1>9. CASE run'[n].pc # "check"
  <2>1. /\ run' = [run EXCEPT ![n] = [@ EXCEPT !.pc = "order", !.left = f.sessions]]
        /\ table' = table \cup {e} /\ Fatal(n)
    <3>. HIDE DEF next
    <3>1. ~PutAgain(n)
      BY <1>1, <1>5, <1>9 DEF PutAgain, next, f, RunFields
    <3>2. run' # [run EXCEPT ![n] = next]
      BY <1>1, <1>5, <1>9
    <3>. QED
      BY <3>1, <3>2 DEF Put, f, e, next
  <2>2. /\ run'[n].pc = "order" /\ run'[n].rows = run[n].rows
        /\ run'[n].finding = run[n].finding /\ run'[n].left = f.sessions
        /\ run'[n].todo = run[n].todo /\ run'[n].policy = run[n].policy
    BY <1>1, <2>1 DEF RunFields
  <2>3. Current(n)' = f
    BY <2>2 DEF Current, f
  <2>4. Backed(Current(n).burst, run[n].left)'
    BY <1>4, <2>1, <2>2, <2>3 DEF Backed
  <2>5. \A g \in run'[n].todo \cup run'[n].finding : Fit(g)'
    BY <1>2, <1>3, <2>2, SaidRemains
  <2>6. RowsAreSaid(run[n].rows)'
    BY <1>2, <1>3, <2>2, SaidRemains DEF RowsAreSaid
  <2>. QED
    <3>1. run'[n].left # {} /\ run'[n].finding # {}
      BY <1>3, <1>4, <2>1, <2>2
    <3>2. RunFit(n)'
      BY <1>3, <2>2, <2>4, <2>5, <2>6, <3>1 DEF RunFit, RowsAreTyped
    <3>. QED
      BY <1>2, <1>7, <3>2
<1>. QED
  BY <1>2, <1>7, <1>8, <1>9

LEMMA OrderFit ==
    ASSUME KInv, GuiltInv, NEW n \in Runs, Order(n) \/ OrderRefused(n)
    PROVE  /\ RunFit(n)' /\ HistoryGrows /\ table' = table
           /\ \A x \in DOMAIN orders' : x \in DOMAIN orders \/ Backed(x[1], {x[2]})
<1>. DEFINE next == Next1(n, Current(n))
<1>1. DOMAIN run = Runs /\ DOMAIN run[n] = RunFields /\ IsABag(orders)
  BY DEF KInv, IInv, Shapes
<1>2. HistoryGrows /\ table' = table /\ run[n].pc = "order"
  BY DEF Order, OrderRefused, HistoryGrows
<1>3. PICK s, clean : /\ s \in run[n].left /\ Ordered(n, s, clean)
                      /\ \/ orders' = orders
                         \/ orders' = orders (+) SetToBag({<<Current(n).burst, s>>})
  BY DEF Order, OrderRefused, First
<1>4. /\ RowsAreSaid(run[n].rows) /\ RowsAreTyped(run[n].rows) /\ run[n].finding # {}
      /\ \A g \in run[n].todo \cup run[n].finding : Fit(g)
      /\ run[n].policy \in Policies /\ Backed(Current(n).burst, run[n].left)
  BY <1>2 DEF GuiltInv, RunFit
<1>5. \A x \in DOMAIN orders' : x \in DOMAIN orders \/ Backed(x[1], {x[2]})
  <2>1. Backed(Current(n).burst, {s})
    BY <1>3, <1>4 DEF Backed
  <2>2. DOMAIN orders' \subseteq DOMAIN orders \cup {<<Current(n).burst, s>>}
    BY <1>3 DEF (+), SetToBag
  <2>. QED
    BY <2>1, <2>2
<1>6. CASE run[n].left \ {s} = {}
  <2>1. /\ next.rows = run[n].rows /\ next.todo = run[n].todo \ {Current(n)}
        /\ next.finding = {} /\ next.policy = run[n].policy /\ next.pc = "check"
        /\ DOMAIN next = RunFields
    BY <1>1, Next1Keeps, Next1Facts
  <2>2. run' = [run EXCEPT ![n] = [next EXCEPT !.left = {}, !.clean = @ /\ clean]]
    BY <1>3, <1>6 DEF Ordered
  <2>. HIDE DEF next
  <2>3. NextOne(n)
    BY <1>1, <2>1, <2>2 DEF NextOne, RunFields
  <2>. QED
    BY <1>2, <1>5, <2>3, NextOneFit
<1>7. CASE run[n].left \ {s} # {}
  <2>1. run' = [run EXCEPT ![n] = [run[n] EXCEPT !.left = run[n].left \ {s}, !.clean = @ /\ clean]]
    BY <1>3, <1>7 DEF Ordered
  <2>2. /\ run'[n].pc = "order" /\ run'[n].rows = run[n].rows
        /\ run'[n].finding = run[n].finding /\ run'[n].left = run[n].left \ {s}
        /\ run'[n].todo = run[n].todo /\ run'[n].policy = run[n].policy
    BY <1>1, <1>2, <2>1 DEF RunFields
  <2>3. Backed(Current(n).burst, run[n].left)'
    BY <1>2, <1>4, <2>2 DEF Backed, Current
  <2>4. \A g \in run'[n].todo \cup run'[n].finding : Fit(g)'
    BY <1>2, <1>4, <2>2, SaidRemains
  <2>5. RowsAreSaid(run[n].rows)'
    BY <1>2, <1>4, <2>2, SaidRemains DEF RowsAreSaid
  <2>. QED
    BY <1>2, <1>4, <1>5, <1>7, <2>2, <2>3, <2>4, <2>5 DEF RunFit, RowsAreTyped
<1>. QED
  BY <1>6, <1>7

\* One step of a run leaves the others and what they hold as they were.
LEMMA OthersAreFit ==
    ASSUME KInv, GuiltInv, NEW n \in Runs, Frame(n), RunFit(n)', HistoryGrows,
           table \subseteq table'
    PROVE  /\ \A m \in Runs : RunFit(m)'
           /\ \A x : Backed(x[1], {x[2]}) => Backed(x[1], {x[2]})'
<1>1. \A m \in Runs \ {n} : RunFit(m)'
  BY RunKept DEF Frame, GuiltInv
<1>2. \A x : Backed(x[1], {x[2]}) => Backed(x[1], {x[2]})'
  BY DEF Backed
<1>. QED
  BY <1>1, <1>2

\* The steps of a run leave the world as it is, but for the count of faults.
LEMMA WorldKept ==
    ASSUME World, UNCHANGED history, clock' = clock, faults' \in 0..MaxFaults
    PROVE  World'
BY DEF World

LEMMA FaultsAreCounted ==
    ASSUME GuiltInv, NEW n \in Runs, Step(n) \/ Failure(n)
    PROVE  World'
<1>1. UNCHANGED history /\ clock' = clock
  BY DEF Step, Failure, Scan, Analyse, Check, Put, Order, PutAgain, Die, OrderRefused
<1>2. faults' = faults \/ (faults < MaxFaults /\ faults' = faults + 1)
  BY DEF Step, Failure, Scan, Analyse, Check, Put, Order, PutAgain, Die, OrderRefused
<1>3. faults' \in 0..MaxFaults
  BY <1>2, ScheduleAssumption DEF GuiltInv, World
<1>. QED
  BY <1>1, <1>3, WorldKept DEF GuiltInv

LEMMA GuiltRunStep ==
    ASSUME KInv, GuiltInv, NEW n \in Runs, Step(n) \/ Failure(n)
    PROVE  GuiltInv'
<1>1. World'
  BY FaultsAreCounted
<1>2. CASE Scan(n) \/ (\E policy \in Policies : Analyse(n, policy)) \/ Check(n) \/ Die(n)
  <2>1. Frame(n) /\ table' = table /\ orders' = orders
    BY <1>2, ScanQuiet, AnalyseQuiet, CheckQuiet, DieQuiet DEF Quiet
  <2>2. RunFit(n)' /\ HistoryGrows
    BY <1>2, ScanFit, AnalyseFit, CheckFit, DieFit
  <2>3. TableFit'
    BY <2>1, <2>2, SaidRemains DEF GuiltInv, TableFit
  <2>. QED
    BY <1>1, <2>1, <2>2, <2>3, OthersAreFit DEF GuiltInv
<1>3. CASE Put(n) \/ PutAgain(n)
  <2>1. Frame(n) /\ orders' = orders
    BY <1>3, PutKeeps, PutAgainKeeps DEF Quiet, Writes
  <2>2. RunFit(n)' /\ TableFit' /\ HistoryGrows /\ table \subseteq table'
    BY <1>3, PutFit
  <2>. QED
    BY <1>1, <2>1, <2>2, OthersAreFit DEF GuiltInv
<1>4. CASE Order(n) \/ OrderRefused(n)
  <2>1. Frame(n)
    BY <1>4, OrderKeeps DEF Works
  <2>2. /\ RunFit(n)' /\ HistoryGrows /\ table' = table
        /\ \A x \in DOMAIN orders' : x \in DOMAIN orders \/ Backed(x[1], {x[2]})
    BY <1>4, OrderFit
  <2>3. TableFit'
    BY <2>2, SaidRemains DEF GuiltInv, TableFit
  <2>4. \A x \in DOMAIN orders' : Backed(x[1], {x[2]})'
    BY <2>1, <2>2, OthersAreFit DEF GuiltInv
  <2>. QED
    BY <1>1, <2>1, <2>2, <2>3, <2>4, OthersAreFit DEF GuiltInv
<1>. QED
  BY <1>2, <1>3, <1>4 DEF Step, Failure

\* Prompts and Tier 2 add to the history; nothing of it is taken back.
LEMMA GuiltWorldStep ==
    ASSUME GuiltInv, Tick \/ \E p \in Prompts : Ingest(p) \/ Judge(p)
    PROVE  GuiltInv'
<1>1. UNCHANGED <<run, table, orders>>
  BY DEF Tick, Ingest, Judge
<1>2. HistoryGrows
  BY DEF Tick, Ingest, Judge, HistoryGrows, GuiltInv, World
<1>3. World'
  <2>1. CASE Tick
    BY <2>1, ScheduleAssumption DEF Tick, GuiltInv, World
  <2>2. ASSUME NEW p \in Prompts, Ingest(p)
        PROVE  World'
    BY <2>2 DEF Ingest, GuiltInv, World
  <2>3. ASSUME NEW p \in Prompts, Judge(p)
        PROVE  World'
    BY <2>3 DEF Judge, GuiltInv, World
  <2>. QED
    BY <2>1, <2>2, <2>3
<1>4. \A n \in Runs : RunFit(n)'
  BY <1>1, <1>2, RunKept DEF GuiltInv
<1>5. TableFit'
  BY <1>1, <1>2, SaidRemains DEF GuiltInv, TableFit
<1>6. \A x \in DOMAIN orders' : Backed(x[1], {x[2]})'
  BY <1>1 DEF GuiltInv, Backed
<1>. QED
  BY <1>3, <1>4, <1>5, <1>6 DEF GuiltInv

LEMMA SpecGuiltInv == Spec => []GuiltInv
<1>1. Init => GuiltInv
  <2>. SUFFICES ASSUME Init
                PROVE  GuiltInv
    OBVIOUS
  <2>1. World
    BY ScheduleAssumption DEF Init, World
  <2>2. \A n \in Runs : RunFit(n)
    BY NoRows DEF Init, Idle, RunFit
  <2>3. DOMAIN orders = {} /\ table = {}
    BY DEF Init, EmptyBag, SetToBag
  <2>. QED
    BY <2>1, <2>2, <2>3 DEF GuiltInv, TableFit
<1>2. KInv /\ GuiltInv /\ [Next]_vars => GuiltInv'
  <2>. SUFFICES ASSUME KInv, GuiltInv, [Next]_vars
                PROVE  GuiltInv'
    OBVIOUS
  <2>1. CASE UNCHANGED vars
    <3>1. HistoryGrows /\ UNCHANGED <<run, table, orders>> /\ World'
      BY <2>1 DEF vars, HistoryGrows, GuiltInv, World
    <3>2. \A n \in Runs : RunFit(n)'
      BY <3>1, RunKept DEF GuiltInv
    <3>3. TableFit'
      BY <3>1, SaidRemains DEF GuiltInv, TableFit
    <3>4. \A x \in DOMAIN orders' : Backed(x[1], {x[2]})'
      BY <3>1 DEF GuiltInv, Backed
    <3>. QED
      BY <3>1, <3>2, <3>3, <3>4 DEF GuiltInv
  <2>. QED
    BY <2>1, GuiltRunStep, GuiltWorldStep DEF Next
<1>. QED
  BY SpecKInv, <1>1, <1>2, PTL DEF Spec

(* A run is at one of its stages, what it has left to order is what it holds, a    *)
(* finding names sessions of the history and a score is a part of a hundred: for   *)
(* every history, schedule and interleaving.                                      *)
THEOREM TypeCorrect == Spec => []TypeOK
<1>1. KInv /\ GuiltInv => TypeOK
  BY DEF KInv, IInv, Shapes, GuiltInv, World, TableFit, RunFit, TypeOK, Backed
<1>. QED
  BY SpecKInv, SpecGuiltInv, <1>1, PTL

(* Nobody is killed for asking what everybody asks: every kill is on record in a   *)
(* finding that names the session, and a session of it said what a critical        *)
(* category or signature of _kill_decision names, however alike the prompts,       *)
(* however risky the sessions, and whatever runs failed or were sent again.        *)
THEOREM OrdinaryTrafficSpared == Spec => []OrdinaryTrafficIsSpared
<1>1. GuiltInv => OrdinaryTrafficIsSpared
  <2>. SUFFICES ASSUME GuiltInv, NEW x \in DOMAIN orders
                PROVE  \E f \in table, p \in Prompts :
                           /\ f.burst = x[1] /\ x[2] \in f.sessions
                           /\ Session[p] \in f.sessions
                           /\ Says(p, HINTS, CRITICAL_CATEGORIES)
    BY DEF OrdinaryTrafficIsSpared, BagToSet, HINTS
  <2>1. PICK f \in table : f.burst = x[1] /\ x[2] \in f.sessions /\ Guilty(f)
    BY DEF GuiltInv, TableFit, Backed
  <2>2. PICK p \in Prompts : Session[p] \in f.sessions /\ Says(p, HINTS, CRITICAL_CATEGORIES)
    BY <2>1 DEF Guilty, Critical
  <2>. QED
    BY <2>1, <2>2
<1>. QED
  BY SpecGuiltInv, <1>1, PTL

(* At the default threshold of 95 only a replay kills: every session that is       *)
(* ordered killed, and as many as the policy asks for, sent the very same prompt.  *)
(* Of the methods of Confidence only exact_hash reaches it, and its group is one   *)
(* text; the entry of the burst is the only one (the conditional put).             *)
THEOREM ReplaysOnlyKill == Spec => []OnlyReplaysKillByDefault
<1>1. KInv /\ GuiltInv => OnlyReplaysKillByDefault
  <2>. SUFFICES ASSUME KInv, GuiltInv, NEW x \in DOMAIN orders, NEW f \in table,
                       f.burst = x[1], f.policy.killThreshold >= 95
                PROVE  /\ Cardinality(f.sessions) >= f.policy.minSessions
                       /\ \E p \in Prompts : \A s \in f.sessions : Sent(s, scene.said[p].text)
    BY DEF OnlyReplaysKillByDefault, BagToSet
  <2>1. PICK g \in table : g.burst = x[1] /\ Guilty(g)
    BY DEF GuiltInv, TableFit, Backed
  <2>2. f = g
    BY <2>1 DEF KInv, IInv, RecordedOnce
  <2>. QED
    BY <2>1, <2>2 DEF Guilty, Replayed
<1>. QED
  BY SpecKInv, SpecGuiltInv, <1>1, PTL
-----------------------------------------------------------------------------
(* No replay slips by.  A run that is on time sees the whole of a tick before it; *)
(* of the sets of sessions that share a text it keeps a finding each, of exactly  *)
(* one text; and it goes on from a finding only when that is on record, or its    *)
(* burst or its sessions are.                                                     *)

\* f is about the sessions of the group, and about a text that all of them sent.
Replays(f, group) ==
    /\ group \subseteq f.sessions
    /\ \E p \in Prompts : /\ f.burst.key.texts = {scene.said[p].text}
                          /\ \A s \in group : Sent(s, scene.said[p].text)

LEMMA MajorityIsSome ==
    ASSUME NEW group, IsFiniteSet(group), NEW nothing
    PROVE  Majority(group, nothing) # {}
<1>. DEFINE named == {r \in group : CategoryOf(r) # "unknown"}
            categories == {CategoryOf(r) : r \in named}
            count == [c \in categories |-> Cardinality({r \in named : CategoryOf(r) = c})]
            counts == {count[c] : c \in categories}
<1>1. Majority(group, nothing) = IF named = {} THEN {nothing}
                                 ELSE {c \in categories : \A d \in categories : count[d] <= count[c]}
  BY DEF Majority
<1>2. CASE named # {}
  <2>1. IsFiniteSet(named)
    BY FS_Subset
  <2>2. IsFiniteSet(categories)
    <3>. DEFINE f == [r \in named |-> CategoryOf(r)]
    <3>1. categories = {f[r] : r \in named}
      OBVIOUS
    <3>. HIDE DEF f, named
    <3>. QED
      BY <2>1, <3>1, FiniteImage
  <2>3. \A c \in categories : count[c] \in Nat
    <3>1. \A c : IsFiniteSet({r \in named : CategoryOf(r) = c})
      BY <2>1, FS_Subset
    <3>. HIDE DEF named
    <3>. QED
      BY <3>1, FS_CardinalityType
  <2>4. categories # {}
    BY <1>2
  <2>. HIDE DEF categories, count
  <2>5. counts \in SUBSET Int /\ counts # {} /\ IsFiniteSet(counts)
    BY <2>2, <2>3, <2>4, FiniteImage
  <2>6. PICK most \in counts : \A m \in counts : most >= m
    BY <2>5, GreatestNumber
  <2>7. PICK c \in categories : count[c] = most
    BY <2>6
  <2>8. \A d \in categories : count[d] <= count[c]
    BY <2>3, <2>6, <2>7
  <2>. QED
    BY <1>1, <1>2, <2>8
<1>. QED
  BY <1>1, <1>2

LEMMA ExactReplays ==
    ASSUME NEW rows, RowsAreSaid(rows), RowsAreTyped(rows), NEW risks,
           NEW f \in ExactHashFindings(rows, risks),
           NEW group, group # {}, group \subseteq f.sessions
    PROVE  Replays(f, group)
<1>1. PICK q \in rows : \E c : f = Finding("exact_hash", c, {r \in rows : r.text = q.text}, risks)
  BY DEF ExactHashFindings, FindingsOf, Spread
<1>. DEFINE own == {r \in rows : r.text = q.text}
            first == FirstOfSessions(own)
<1>2. f.sessions = SessionsOf(first) /\ f.burst.key.texts = {r.text : r \in first}
  BY <1>1 DEF Finding, ClusterKey
<1>3. first \subseteq own /\ SessionsOf(first) = SessionsOf(own)
  BY FirstsCover DEF RowsAreTyped
<1>4. PICK p \in Prompts : IsRowOf(q, p)
  BY DEF RowsAreSaid
<1>. HIDE DEF first
<1>5. first # {} /\ \A r \in first : r.text = q.text
  BY <1>2, <1>3 DEF SessionsOf
<1>6. f.burst.key.texts = {scene.said[p].text}
  BY <1>2, <1>4, <1>5 DEF IsRowOf
<1>7. ASSUME NEW s \in group
      PROVE  Sent(s, scene.said[p].text)
  <2>1. PICK r \in own : r.session = s
    BY <1>2, <1>3 DEF SessionsOf
  <2>2. PICK o \in Prompts : IsRowOf(r, o)
    BY DEF RowsAreSaid
  <2>. QED
    BY <1>4, <2>1, <2>2 DEF IsRowOf, Sent
<1>. QED
  BY <1>6, <1>7 DEF Replays

LEMMA ForemostIsExact ==
    ASSUME NEW rows, NEW risks, NEW f \in Findings(rows, risks), Rank[f.method] <= Rank["exact_hash"]
    PROVE  f \in ExactHashFindings(rows, risks)
<1>1. ASSUME NEW method \in DOMAIN Rank, method # "exact_hash",
             NEW c, NEW group, f = Finding(method, c, group, risks)
      PROVE  FALSE
  <2>1. f.method = method
    BY <1>1 DEF Finding
  <2>. QED
    BY <1>1, <2>1 DEF Rank
<1>2. CASE f \in SimhashFindings(rows, risks)
  <2>1. \E c, group : f = Finding("simhash", c, group, risks)
    BY <1>2 DEF SimhashFindings, FindingsOf
  <2>. QED
    BY <1>1, <2>1 DEF Rank
<1>3. CASE f \in NormalizedPatternFindings(rows, risks)
  <2>1. \E c, group : f = Finding("normalized_pattern_burst", c, group, risks)
    BY <1>3 DEF NormalizedPatternFindings
  <2>. QED
    BY <1>1, <2>1 DEF Rank
<1>4. CASE f \in CategoryBurstFindings(rows, risks)
  <2>1. \E c, group : f = Finding("category_burst", c, group, risks)
    BY <1>4 DEF CategoryBurstFindings
  <2>. QED
    BY <1>1, <2>1 DEF Rank
<1>5. CASE f \in SessionRiskFindings(rows, risks)
  <2>1. \E c, group : f = Finding("session_risk_burst", c, group, risks)
    BY <1>5 DEF SessionRiskFindings, FindingsOf
  <2>. QED
    BY <1>1, <2>1 DEF Rank
<1>6. CASE f \in EmbeddingFindings(rows, risks)
  <2>1. \E c, group : f = Finding("embedding", c, group, risks)
    BY <1>6 DEF EmbeddingFindings
  <2>. QED
    BY <1>1, <2>1 DEF Rank
<1>. QED
  BY <1>2, <1>3, <1>4, <1>5, <1>6 DEF Findings

\* The rows hold the text of every session of the group.
Shows(rows, group, text) == \A s \in group : \E r \in rows : r.session = s /\ r.text = text

LEMMA GroupIsCounted ==
    ASSUME NEW rows, RowsAreTyped(rows), NEW text, NEW group, Shows(rows, group, text),
           Cardinality(group) >= MIN_SESSIONS
    PROVE  /\ group # {} /\ group \subseteq SessionsOf(rows)
           /\ Cardinality(SessionsOf(rows)) >= MIN_SESSIONS
<1>1. group \subseteq SessionsOf(rows)
  BY DEF Shows, SessionsOf
<1>2. IsFiniteSet(SessionsOf(rows)) /\ Cardinality(SessionsOf(rows)) \in Nat
  BY SessionsCount
<1>3. IsFiniteSet(group) /\ Cardinality(group) <= Cardinality(SessionsOf(rows))
  BY <1>1, <1>2, FS_Subset
<1>4. Cardinality(group) \in Nat
  BY <1>3, FS_CardinalityType
<1>. QED
  BY <1>1, <1>2, <1>3, <1>4, FS_EmptySet, ScheduleAssumption

\* Whichever finding a run keeps for the sessions of a replay, it is a replay's.
LEMMA ReplayIsKept ==
    ASSUME NEW rows, RowsAreSaid(rows), RowsAreTyped(rows), NEW risks, NEW text,
           NEW group, Shows(rows, group, text), Cardinality(group) >= MIN_SESSIONS,
           NEW kept \in Deduplicated(Findings(rows, risks))
    PROVE  \E f \in kept : Replays(f, group)
<1>. DEFINE own == {r \in rows : r.text = text}
            findings == Findings(rows, risks)
<1>1. RowsAreTyped(own) /\ Shows(own, group, text)
  BY FS_Subset DEF RowsAreTyped, Shows
<1>2. /\ group # {} /\ group \subseteq SessionsOf(own)
      /\ Cardinality(SessionsOf(own)) >= MIN_SESSIONS
  BY <1>1, GroupIsCounted
<1>3. PICK c : c \in Majority(own, "unknown")
  BY <1>1, MajorityIsSome DEF RowsAreTyped
<1>. DEFINE g == Finding("exact_hash", c, own, risks)
<1>4. g \in ExactHashFindings(rows, risks)
  <2>. DEFINE groups == {{r \in rows : r.text = t} : t \in {r.text : r \in rows}}
  <2>1. own \in groups
    BY <1>2 DEF SessionsOf
  <2>. HIDE DEF own, groups
  <2>2. own \in Spread(groups, MIN_SESSIONS)
    BY <1>2, <2>1 DEF Spread
  <2>3. g \in FindingsOf("exact_hash", Spread(groups, MIN_SESSIONS), risks, "unknown")
    BY <1>3, <2>2 DEF FindingsOf
  <2>. QED
    BY <2>3 DEF ExactHashFindings, groups
<1>5. g.sessions = SessionsOf(own) /\ g.method = "exact_hash"
  BY <1>1, FirstsCover DEF Finding, RowsAreTyped
<1>6. g \in findings
  BY <1>4 DEF Findings
<1>. HIDE DEF g, findings, own
<1>7. PICK f \in findings : /\ f \in kept /\ f.sessions = g.sessions
                            /\ Rank[f.method] <= Rank[g.method]
  BY <1>6 DEF Deduplicated, findings
<1>8. f \in ExactHashFindings(rows, risks)
  BY <1>5, <1>7, ForemostIsExact DEF findings
<1>. QED
  BY <1>2, <1>5, <1>7, <1>8, ExactReplays

-----------------------------------------------------------------------------

Covered(group) == \E f \in table : Covers(f, group)

InHand(n, group) == \E f \in run[n].todo \cup run[n].finding : Replays(f, group)

\* What run n owes to a group that shares a text.
Follows(n, group, text) ==
    /\ run[n].pc = "analyse" => Shows(run[n].rows, group, text)
    /\ run[n].pc \in {"check", "put", "order"} => InHand(n, group) \/ Covered(group)
    /\ run[n].pc = "done" /\ run[n].policy.mode # "off" => Covered(group)

\* Run n is the first to start after the tick, or one that looks back that far.
Looks(n, tick) == tick < Due[n] /\ Due[n] <= tick + WINDOW

OnTime(n) ==
    /\ run[n].pc = "due" => run[n].tries = 0 /\ clock <= Due[n]
    /\ run[n].pc # "due" => Due[n] <= clock
    /\ \A f, g \in run[n].finding : f = g

\* Sessions that sent one text at one tick, enough of them, at which run n looks.
Owed(n, group, text) ==
    /\ Cardinality(group) >= MIN_SESSIONS
    /\ \E tick \in Nat \ {0} : /\ Looks(n, tick) /\ group = Spoken(tick, text)
                               /\ \E p \in Prompts : text = scene.said[p].text

Catches(n) == \A group, text : Owed(n, group, text) => Follows(n, group, text)

ReplayInv == faults = 0 => \A n \in Runs : OnTime(n) /\ Catches(n)

\* A run that has its findings goes on from one only when something covers it.
GoesOn(n) ==
    /\ run[n].pc \in {"check", "put", "order"}
    /\ run'[n].pc \in {"check", "put", "order", "done"}
    /\ UNCHANGED <<scene, ingested>> /\ table \subseteq table'
    /\ \A f \in run[n].todo \cup run[n].finding :
           \/ f \in run'[n].todo \cup run'[n].finding
           \/ \E g \in table' : g.burst = f.burst \/ g.sessions = f.sessions
    /\ run'[n].pc = "done" => run[n].todo = {} /\ run[n].finding = {}

LEMMA CoverRemains ==
    ASSUME UNCHANGED scene, \A p \in Prompts : ingested[p] # 0 => ingested'[p] # 0,
           table \subseteq table'
    PROVE  /\ \A f, group : Covers(f, group) => Covers(f, group)'
           /\ \A f, group : Replays(f, group) => Replays(f, group)'
           /\ \A group : Covered(group) => Covered(group)'
<1>1. \A s, text : Sent(s, text) => Sent(s, text)'
  BY DEF Sent
<1>2. \A f, group : Covers(f, group) => Covers(f, group)'
  BY <1>1 DEF Covers
<1>3. \A f, group : Replays(f, group) => Replays(f, group)'
  BY <1>1 DEF Replays
<1>4. \A group : Covered(group) => Covered(group)'
  BY <1>2 DEF Covered
<1>. QED
  BY <1>2, <1>3, <1>4

LEMMA GoesOnFollows ==
    ASSUME NEW n, GoesOn(n), NEW group, NEW text, Follows(n, group, text)
    PROVE  Follows(n, group, text)'
<1>1. /\ \A f : Covers(f, group) => Covers(f, group)'
      /\ \A f : Replays(f, group) => Replays(f, group)'
      /\ Covered(group) => Covered(group)'
  BY CoverRemains DEF GoesOn
<1>2. CASE Covered(group)
  BY <1>1, <1>2 DEF GoesOn, Follows
<1>3. CASE InHand(n, group)
  <2>1. PICK f \in run[n].todo \cup run[n].finding : Replays(f, group)
    BY <1>3 DEF InHand
  <2>2. CASE f \in run'[n].todo \cup run'[n].finding
    <3>1. InHand(n, group)'
      BY <1>1, <2>1, <2>2 DEF InHand
    <3>. QED
      BY <2>1, <3>1 DEF GoesOn, Follows
  <2>3. ASSUME NEW g \in table', g.burst = f.burst \/ g.sessions = f.sessions
        PROVE  Follows(n, group, text)'
    <3>1. Covers(g, group)
      BY <2>1, <2>3 DEF Replays, Covers
    <3>2. Covered(group)'
      BY <1>1, <3>1 DEF Covered
    <3>. QED
      BY <3>2 DEF GoesOn, Follows
  <2>. QED
    BY <2>1, <2>2, <2>3 DEF GoesOn
<1>. QED
  BY <1>2, <1>3 DEF GoesOn, Follows

LEMMA CheckGoesOn ==
    ASSUME KInv, GuiltInv, NEW n \in Runs, Check(n)
    PROVE  GoesOn(n) /\ (\A f, g \in run'[n].finding : f = g)
<1>1. DOMAIN run = Runs /\ DOMAIN run[n] = RunFields /\ run[n].finding = {}
  BY DEF KInv, IInv, Shapes, GuiltInv, RunFit, Check
<1>2. run[n].pc = "check" /\ UNCHANGED <<scene, ingested, table>>
  BY DEF Check
<1>3. CASE run[n].todo = {} /\ run' = [run EXCEPT ![n].pc = "done"]
  <2>1. run'[n].pc = "done" /\ run'[n].finding = {}
    BY <1>1, <1>3 DEF RunFields
  <2>. QED
    BY <1>1, <1>2, <1>3, <2>1 DEF GoesOn
<1>4. ASSUME NEW f \in run[n].todo, Cooling(n, f), run' = [run EXCEPT ![n] = Next1(n, f)]
      PROVE  GoesOn(n) /\ run'[n].finding = {}
  <2>1. run'[n].pc = "check" /\ run'[n].todo = run[n].todo \ {f} /\ run'[n].finding = {}
    BY <1>1, <1>4, Next1Keeps
  <2>2. \E g \in table : g.sessions = f.sessions
    BY <1>4 DEF Cooling
  <2>. QED
    BY <1>1, <1>2, <2>1, <2>2 DEF GoesOn
<1>5. ASSUME NEW f \in run[n].todo, run' = [run EXCEPT ![n].pc = "put", ![n].finding = {f}]
      PROVE  GoesOn(n) /\ run'[n].finding = {f}
  <2>1. run'[n].pc = "put" /\ run'[n].todo = run[n].todo /\ run'[n].finding = {f}
    BY <1>1, <1>5 DEF RunFields
  <2>. QED
    BY <1>1, <1>2, <2>1 DEF GoesOn
<1>6. \/ run[n].todo = {} /\ run' = [run EXCEPT ![n].pc = "done"]
      \/ \E f \in run[n].todo : \/ Cooling(n, f) /\ run' = [run EXCEPT ![n] = Next1(n, f)]
                                \/ run' = [run EXCEPT ![n].pc = "put", ![n].finding = {f}]
  BY DEF Check, Foremost
<1>7. CASE run[n].todo = {} /\ run' = [run EXCEPT ![n].pc = "done"]
  BY <1>1, <1>3, <1>7 DEF RunFields
<1>8. CASE \E f \in run[n].todo : \/ Cooling(n, f) /\ run' = [run EXCEPT ![n] = Next1(n, f)]
                                  \/ run' = [run EXCEPT ![n].pc = "put", ![n].finding = {f}]
  BY <1>4, <1>5, <1>8
<1>. QED
  BY <1>6, <1>7, <1>8

LEMMA PutGoesOn ==
    ASSUME KInv, GuiltInv, NEW n \in Runs, Put(n), \A f, g \in run[n].finding : f = g
    PROVE  GoesOn(n) /\ (\A f, g \in run'[n].finding : f = g)
<1>. DEFINE f == Current(n)
            next == Next1(n, f)
<1>1. /\ DOMAIN run = Runs /\ DOMAIN run[n] = RunFields /\ run[n].pc = "put"
      /\ UNCHANGED <<scene, ingested>> /\ table \subseteq table' /\ run[n].finding # {}
  BY DEF KInv, IInv, Shapes, GuiltInv, RunFit, Put
<1>2. f \in run[n].finding /\ \A g \in run[n].finding : g = f
  BY <1>1, CurrentIsHeld
<1>. HIDE DEF f
<1>3. \E g \in table' : g.burst = f.burst
  BY EntryFacts DEF Put, Recorded, f
<1>4. CASE run' = [run EXCEPT ![n] = next]
  <2>1. run'[n].pc = "check" /\ run'[n].todo = run[n].todo \ {f} /\ run'[n].finding = {}
    BY <1>1, <1>4, Next1Keeps
  <2>. QED
    BY <1>1, <1>2, <1>3, <2>1 DEF GoesOn
<1>5. CASE run' = [run EXCEPT ![n] = [@ EXCEPT !.pc = "order", !.left = f.sessions]]
  <2>1. /\ run'[n].pc = "order" /\ run'[n].todo = run[n].todo
        /\ run'[n].finding = run[n].finding
    BY <1>1, <1>5 DEF RunFields
  <2>. QED
    BY <1>1, <1>2, <2>1 DEF GoesOn
<1>. QED
  BY <1>4, <1>5 DEF Put, f

LEMMA OrderGoesOn ==
    ASSUME KInv, GuiltInv, NEW n \in Runs, Order(n), \A f, g \in run[n].finding : f = g
    PROVE  GoesOn(n) /\ (\A f, g \in run'[n].finding : f = g)
<1>. DEFINE f == Current(n)
            next == Next1(n, f)
<1>1. /\ DOMAIN run = Runs /\ DOMAIN run[n] = RunFields /\ run[n].pc = "order"
      /\ UNCHANGED <<scene, ingested, table>> /\ run[n].finding # {}
  BY DEF KInv, IInv, Shapes, GuiltInv, RunFit, Order
<1>2. f \in run[n].finding /\ \A g \in run[n].finding : g = f
  BY <1>1, CurrentIsHeld
<1>3. \E g \in table : g.burst = f.burst
  BY <1>1 DEF KInv, IInv, WorkIsLeft, OnRecord
<1>4. PICK s : Ordered(n, s, TRUE)
  BY DEF Order
<1>5. CASE run[n].left \ {s} = {}
  <2>1. /\ next.pc = "check" /\ next.todo = run[n].todo \ {f} /\ next.finding = {}
        /\ DOMAIN next = RunFields
    BY <1>1, Next1Keeps, Next1Facts
  <2>2. run' = [run EXCEPT ![n] = [next EXCEPT !.left = {}, !.clean = @ /\ TRUE]]
    BY <1>4, <1>5 DEF Ordered
  <2>. HIDE DEF next, f
  <2>3. run'[n].pc = "check" /\ run'[n].todo = run[n].todo \ {f} /\ run'[n].finding = {}
    BY <1>1, <2>1, <2>2 DEF RunFields
  <2>. QED
    BY <1>1, <1>2, <1>3, <2>3 DEF GoesOn
<1>6. CASE run[n].left \ {s} # {}
  <2>1. run' = [run EXCEPT ![n] = [run[n] EXCEPT !.left = run[n].left \ {s}, !.clean = @ /\ TRUE]]
    BY <1>4, <1>6 DEF Ordered
  <2>2. /\ run'[n].pc = "order" /\ run'[n].todo = run[n].todo
        /\ run'[n].finding = run[n].finding
    BY <1>1, <2>1 DEF RunFields
  <2>. QED
    BY <1>1, <2>2 DEF GoesOn
<1>. QED
  BY <1>5, <1>6

LEMMA OwedRemains ==
    ASSUME UNCHANGED <<scene, ingested>>, NEW n, NEW group, NEW text
    PROVE  Owed(n, group, text)' <=> Owed(n, group, text)
BY DEF Owed, Spoken

LEMMA ScanCatches ==
    ASSUME KInv, GuiltInv, NEW n \in Runs, Scan(n), OnTime(n)
    PROVE  OnTime(n)' /\ Catches(n)'
<1>1. /\ DOMAIN run = Runs /\ clock \in Nat /\ Due[n] \in Nat
      /\ UNCHANGED <<scene, ingested, clock>>
  <2>1. DOMAIN run = Runs
    BY DEF KInv, IInv, Shapes
  <2>2. clock \in Nat
    BY ScheduleAssumption DEF GuiltInv, World
  <2>3. Due[n] \in Nat
    BY ScheduleAssumption
  <2>4. UNCHANGED <<scene, ingested, clock>>
    BY DEF Scan
  <2>. QED
    BY <2>1, <2>2, <2>3, <2>4
<1>2. clock = Due[n]
  BY <1>1 DEF Scan, OnTime
<1>3. /\ run'[n].finding = {} /\ run'[n].policy.mode = "off"
      /\ \/ run'[n].pc = "analyse" /\ run'[n].rows = {RowOf(p) : p \in InWindow(clock)}
         \/ run'[n].pc = "done"
  BY <1>1 DEF Scan, Idle
<1>4. OnTime(n)'
  BY <1>1, <1>2, <1>3 DEF OnTime
<1>5. ASSUME NEW group, NEW text, Owed(n, group, text)
      PROVE  Shows({RowOf(p) : p \in InWindow(clock)}, group, text)
  <2>1. PICK tick \in Nat \ {0} : Looks(n, tick) /\ group = Spoken(tick, text)
    BY <1>5 DEF Owed
  <2>2. ASSUME NEW q \in Prompts, ingested[q] = tick, scene.said[q].text = text
        PROVE  /\ RowOf(q) \in {RowOf(p) : p \in InWindow(clock)}
               /\ RowOf(q).session = Session[q] /\ RowOf(q).text = text
    <3>1. ingested[q] # 0 /\ ingested[q] >= clock - WINDOW
      BY <1>1, <1>2, <2>1, <2>2, ScheduleAssumption DEF Looks
    <3>. QED
      BY <2>2, <3>1 DEF InWindow, RowOf
  <2>. QED
    BY <2>1, <2>2 DEF Shows, Spoken
<1>6. ASSUME NEW group, NEW text, Owed(n, group, text)'
      PROVE  Follows(n, group, text)'
  <2>1. Shows({RowOf(p) : p \in InWindow(clock)}, group, text)
    BY <1>1, <1>5, <1>6, OwedRemains
  <2>2. run'[n].pc = "analyse" => Shows(run'[n].rows, group, text)
    BY <1>3, <2>1
  <2>. QED
    BY <1>3, <2>2 DEF Follows, Shows
<1>. QED
  BY <1>4, <1>6 DEF Catches

LEMMA AnalyseCatches ==
    ASSUME KInv, GuiltInv, NEW n \in Runs, NEW policy \in Policies, Analyse(n, policy),
           OnTime(n), Catches(n)
    PROVE  OnTime(n)' /\ Catches(n)'
<1>1. /\ DOMAIN run = Runs /\ DOMAIN run[n] = RunFields /\ run[n].pc = "analyse"
      /\ run[n].finding = {} /\ UNCHANGED <<scene, ingested, clock>>
  BY DEF KInv, IInv, Shapes, GuiltInv, RunFit, Analyse
<1>2. RowsAreSaid(run[n].rows) /\ RowsAreTyped(run[n].rows)
  BY DEF GuiltInv, RunFit
<1>3. ASSUME NEW group, NEW text, Owed(n, group, text)'
      PROVE  /\ Shows(run[n].rows, group, text) /\ Cardinality(group) >= MIN_SESSIONS
             /\ Cardinality(SessionsOf(run[n].rows)) >= MIN_SESSIONS
  <2>1. Owed(n, group, text)
    BY <1>1, <1>3, OwedRemains
  <2>2. Shows(run[n].rows, group, text) /\ Cardinality(group) >= MIN_SESSIONS
    BY <1>1, <2>1 DEF Catches, Follows, Owed
  <2>. QED
    BY <1>2, <2>2, GroupIsCounted
<1>4. CASE /\ policy.mode = "off" \/ Cardinality(SessionsOf(run[n].rows)) < MIN_SESSIONS
           /\ run' = [run EXCEPT ![n].pc = "done", ![n].policy = policy, ![n].rows = {}]
  <2>1. run'[n].pc = "done" /\ run'[n].policy = policy /\ run'[n].finding = {}
    BY <1>1, <1>4 DEF RunFields
  <2>2. OnTime(n)'
    BY <1>1, <2>1 DEF OnTime
  <2>3. ASSUME NEW group, NEW text, Owed(n, group, text)'
        PROVE  policy.mode = "off"
    <3>1. Cardinality(SessionsOf(run[n].rows)) \in Nat
      BY <1>2, SessionsCount
    <3>. QED
      BY <1>3, <1>4, <2>3, <3>1, ScheduleAssumption
  <2>. QED
    BY <2>1, <2>2, <2>3 DEF Catches, Follows
<1>5. ASSUME NEW kept \in Deduplicated(Findings(run[n].rows, scene.risks)),
             run' = [run EXCEPT ![n].pc = "check", ![n].policy = policy,
                                ![n].rows = {}, ![n].todo = kept]
      PROVE  OnTime(n)' /\ Catches(n)'
  <2>1. run'[n].pc = "check" /\ run'[n].todo = kept /\ run'[n].finding = {}
    BY <1>1, <1>5 DEF RunFields
  <2>2. OnTime(n)'
    BY <1>1, <2>1 DEF OnTime
  <2>3. ASSUME NEW group, NEW text, Owed(n, group, text)'
        PROVE  Follows(n, group, text)'
    <3>1. PICK f \in kept : Replays(f, group)
      BY <1>2, <1>3, <2>3, ReplayIsKept
    <3>2. Replays(f, group)'
      BY <1>1, <3>1 DEF Replays, Sent
    <3>3. InHand(n, group)'
      BY <2>1, <3>2 DEF InHand
    <3>. QED
      BY <2>1, <3>3 DEF Follows
  <2>. QED
    BY <2>2, <2>3 DEF Catches
<1>. QED
  BY <1>4, <1>5 DEF Analyse

\* What a run with findings does.
LEMMA WorkCatches ==
    ASSUME KInv, GuiltInv, NEW n \in Runs, Check(n) \/ Put(n) \/ Order(n),
           OnTime(n), Catches(n)
    PROVE  OnTime(n)' /\ Catches(n)'
<1>1. GoesOn(n) /\ (\A f, g \in run'[n].finding : f = g)
  BY CheckGoesOn, PutGoesOn, OrderGoesOn DEF OnTime
<1>2. clock' = clock /\ run[n].pc # "due" /\ run'[n].pc # "due"
  BY <1>1 DEF GoesOn, Check, Put, Order
<1>3. OnTime(n)'
  BY <1>1, <1>2 DEF OnTime
<1>4. ASSUME NEW group, NEW text, Owed(n, group, text)'
      PROVE  Follows(n, group, text)'
  <2>1. Owed(n, group, text)
    BY <1>1, <1>4, OwedRemains DEF GoesOn
  <2>. QED
    BY <1>1, <2>1, GoesOnFollows DEF Catches
<1>. QED
  BY <1>3, <1>4 DEF Catches

\* What the others and the world do.
LEMMA RestCatches ==
    ASSUME NEW m \in Runs, run'[m] = run[m], OnTime(m), Catches(m), UNCHANGED scene,
           table \subseteq table', clock \in Nat, clock' \in Nat, clock <= clock',
           run[m].pc = "due" => clock' <= Due[m],
           \A p \in Prompts : \/ ingested'[p] = ingested[p]
                              \/ ingested[p] = 0 /\ ingested'[p] = clock /\ clock # 0
    PROVE  OnTime(m)' /\ Catches(m)'
<1>1. Due[m] \in Nat
  BY ScheduleAssumption
<1>2. OnTime(m)'
  BY <1>1 DEF OnTime
<1>3. ASSUME NEW group, NEW text, Owed(m, group, text)', run[m].pc # "due"
      PROVE  Follows(m, group, text)'
  <2>1. PICK tick \in Nat \ {0} : /\ Looks(m, tick) /\ group = Spoken(tick, text)'
                                 /\ \E p \in Prompts : text = scene.said[p].text
    BY <1>3 DEF Owed
  <2>2. tick < clock
    BY <1>1, <1>3, <2>1 DEF Looks, OnTime
  <2>3. \A p \in Prompts : ingested'[p] = tick <=> ingested[p] = tick
    BY <2>1, <2>2
  <2>4. Spoken(tick, text)' = Spoken(tick, text)
    BY <2>3 DEF Spoken
  <2>5. Owed(m, group, text)
    BY <1>3, <2>1, <2>4 DEF Owed
  <2>6. \A p \in Prompts : ingested[p] # 0 => ingested'[p] # 0
    OBVIOUS
  <2>7. /\ \A f : Replays(f, group) => Replays(f, group)'
        /\ Covered(group) => Covered(group)'
    BY <2>6, CoverRemains
  <2>8. InHand(m, group) => InHand(m, group)'
    BY <2>7 DEF InHand
  <2>9. Follows(m, group, text)
    BY <2>5 DEF Catches
  <2>. QED
    BY <2>7, <2>8, <2>9 DEF Follows
<1>4. ASSUME NEW group, NEW text, run[m].pc = "due"
      PROVE  Follows(m, group, text)'
  BY <1>4 DEF Follows
<1>. QED
  BY <1>2, <1>3, <1>4 DEF Catches

\* Without a failure so far there is none in the step.
LEMMA NoFailure ==
    ASSUME GuiltInv, NEW n \in Runs, faults' = 0, Step(n) \/ Failure(n)
    PROVE  Step(n) /\ faults = 0
<1>1. faults \in Nat
  BY ScheduleAssumption DEF GuiltInv, World
<1>2. ~Failure(n)
  <2>1. Failure(n) => faults' = faults + 1
    BY DEF Failure, PutAgain, Die, OrderRefused
  <2>. QED
    BY <1>1, <2>1
<1>3. Step(n) => faults' = faults
  BY DEF Step, Scan, Analyse, Check, Put, Order
<1>. QED
  BY <1>2, <1>3

LEMMA ReplayRunStep ==
    ASSUME KInv, GuiltInv, ReplayInv, NEW n \in Runs, Step(n) \/ Failure(n)
    PROVE  ReplayInv'
<1>. SUFFICES ASSUME faults' = 0
              PROVE  \A m \in Runs : OnTime(m)' /\ Catches(m)'
  BY DEF ReplayInv
<1>1. Step(n) /\ \A m \in Runs : OnTime(m) /\ Catches(m)
  BY NoFailure DEF ReplayInv
<1>2. OnTime(n)' /\ Catches(n)'
  BY <1>1, ScanCatches, AnalyseCatches, WorkCatches DEF Step
<1>3. UNCHANGED <<scene, ingested, clock>>
  BY <1>1 DEF Step, Scan, Analyse, Check, Put, Order
<1>4. Frame(n) /\ table \subseteq table'
  <2>1. CASE Scan(n) \/ (\E policy \in Policies : Analyse(n, policy)) \/ Check(n)
    BY <2>1, ScanQuiet, AnalyseQuiet, CheckQuiet DEF Quiet
  <2>2. CASE Put(n)
    BY <2>2, PutKeeps, PutFit DEF Quiet, Writes
  <2>3. CASE Order(n)
    BY <2>3, OrderKeeps DEF Works, Order
  <2>. QED
    BY <1>1, <2>1, <2>2, <2>3 DEF Step
<1>5. clock \in Nat
  BY ScheduleAssumption DEF GuiltInv, World
<1>6. \A m \in Runs \ {n} : OnTime(m)' /\ Catches(m)'
  BY <1>1, <1>3, <1>4, <1>5, RestCatches DEF Frame, OnTime
<1>. QED
  BY <1>2, <1>6

LEMMA ReplayWorldStep ==
    ASSUME GuiltInv, ReplayInv, Tick \/ \E p \in Prompts : Ingest(p) \/ Judge(p)
    PROVE  ReplayInv'
<1>1. UNCHANGED <<scene, run, table, faults>>
  BY DEF Tick, Ingest, Judge
<1>. SUFFICES ASSUME faults = 0, NEW m \in Runs
              PROVE  OnTime(m)' /\ Catches(m)'
  BY <1>1 DEF ReplayInv
<1>2. OnTime(m) /\ Catches(m)
  BY DEF ReplayInv
<1>3. clock \in Nat /\ clock # 0 /\ Due[m] \in Nat
  BY ScheduleAssumption DEF GuiltInv, World
<1>4. \A p \in Prompts : \/ ingested'[p] = ingested[p]
                         \/ ingested[p] = 0 /\ ingested'[p] = clock /\ clock # 0
  BY <1>3 DEF Tick, Ingest, Judge, GuiltInv, World
<1>5. /\ clock' \in Nat /\ clock <= clock'
      /\ run[m].pc = "due" => clock' <= Due[m]
  <2>1. CASE Tick
    BY <1>2, <1>3, <2>1 DEF Tick, OnTime
  <2>2. CASE clock' = clock
    BY <1>2, <1>3, <2>2 DEF OnTime
  <2>. QED
    BY <2>1, <2>2 DEF Ingest, Judge
<1>. QED
  BY <1>1, <1>2, <1>3, <1>4, <1>5, RestCatches

LEMMA SpecReplayInv == Spec => []ReplayInv
<1>1. Init => ReplayInv
  <2>. SUFFICES ASSUME Init, NEW n \in Runs
                PROVE  OnTime(n) /\ Catches(n)
    BY DEF ReplayInv
  <2>1. /\ run[n].pc = "due" /\ run[n].tries = 0 /\ run[n].finding = {}
        /\ clock <= Due[n]
    BY ScheduleAssumption DEF Init, Idle
  <2>. QED
    BY <2>1 DEF OnTime, Catches, Follows
<1>2. KInv /\ GuiltInv /\ ReplayInv /\ [Next]_vars => ReplayInv'
  <2>. SUFFICES ASSUME KInv, GuiltInv, ReplayInv, [Next]_vars
                PROVE  ReplayInv'
    OBVIOUS
  <2>1. CASE UNCHANGED vars
    <3>1. UNCHANGED <<scene, ingested, run, table, clock, faults>>
      BY <2>1 DEF vars
    <3>. SUFFICES ASSUME faults = 0, NEW m \in Runs
                  PROVE  OnTime(m)' /\ Catches(m)'
      BY <3>1 DEF ReplayInv
    <3>2. OnTime(m) /\ Catches(m) /\ clock \in Nat
      BY ScheduleAssumption DEF ReplayInv, GuiltInv, World
    <3>. QED
      BY <3>1, <3>2, RestCatches DEF OnTime
  <2>. QED
    BY <2>1, ReplayRunStep, ReplayWorldStep DEF Next
<1>. QED
  BY SpecKInv, SpecGuiltInv, <1>1, <1>2, PTL DEF Spec

\* Every tick before the last run is in the window of some run.
WindowsMeet ==
    \A tick \in 1..(Max({Due[n] : n \in Runs}) - 1) : \E n \in Runs : Looks(n, tick)

(* No replay slips through: when the windows of the schedule leave no tick out,    *)
(* every set of enough sessions that sent one prompt at one tick is on record at   *)
(* the end of a schedule that was kept, or a burst of their text is.  One run that *)
(* looks back as far as the tick is enough, whatever the others put meanwhile.     *)
THEOREM ReplaysAreRecorded ==
    ASSUME WindowsMeet
    PROVE  Spec => []NoReplaySlipsBy
<1>1. KInv /\ GuiltInv /\ ReplayInv => NoReplaySlipsBy
  <2>. SUFFICES ASSUME ReplayInv, faults = 0,
                       \A n \in Runs : run[n].pc = "done" /\ run[n].policy.mode # "off",
                       NEW tick \in 1..(Max({Due[n] : n \in Runs}) - 1), NEW p \in Prompts,
                       Cardinality(Spoken(tick, scene.said[p].text)) >= MIN_SESSIONS
                PROVE  \E f \in table : Covers(f, Spoken(tick, scene.said[p].text))
    BY DEF NoReplaySlipsBy
  <2>1. PICK n \in Runs : Looks(n, tick)
    BY DEF WindowsMeet
  <2>2. tick \in Nat \ {0}
    OBVIOUS
  <2>3. Owed(n, Spoken(tick, scene.said[p].text), scene.said[p].text)
    BY <2>1, <2>2 DEF Owed
  <2>. QED
    BY <2>3 DEF ReplayInv, Catches, Follows, Covered
<1>. QED
  BY SpecKInv, SpecGuiltInv, SpecReplayInv, <1>1, PTL
=============================================================================
