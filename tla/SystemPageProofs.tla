-------------------------- MODULE SystemPageProofs --------------------------
(***************************************************************************)
(* The pool never opens more connections than its size, whoever fails      *)
(* while holding one, and the charts go back only with a poll that another *)
(* one overtook: for any requests, any polls among them and any bounds.    *)
(***************************************************************************)
EXTENDS SystemPage, FiniteSetTheorems, TLAPS

Where == {"none", "wait", "query", "store", "answered", "error"}
Kinds == {"none", "fresh", "stale"}
Holders(c) == {r \in Requests : c[r] # "none"}

(* TypeOK in parts, with what each needs to be inductive.                  *)
ShapeInv ==
    /\ at \in [Requests -> Where]
    /\ con \in [Requests -> Kinds]
    /\ idle \in [{"fresh", "stale"} -> Nat]
HoldInv == \A r \in Requests : con[r] # "none" <=> at[r] \in {"query", "store"}
SizeInv ==
    /\ Kept <= Keep
    /\ IsFiniteSet(Holders(con))
    /\ Kept + Cardinality(Holders(con)) <= Size
DeadInv == ~db => idle.fresh = 0 /\ \A r \in Requests : con[r] # "fresh"
FlagsInv == db \in BOOLEAN /\ ready \in BOOLEAN /\ failed \in BOOLEAN
PageInv ==
    /\ faults \in 0..MaxFaults /\ load \in 0..MaxLoad
    /\ rows \subseteq 1..MaxRows /\ row \in [Polls -> 0..MaxRows]
    /\ page \in {"new", "first", "polling"} /\ drawn \in 0..MaxRows
    /\ crossed \subseteq Polls

(* Only a cached handler stores before it closes its session.              *)
StoreInv == \A r \in Requests : at[r] = "store" => r \in Cached

(* What is drawn, or about to be, was committed; and an answer on its way  *)
(* that no other overtook is at least as new as the charts.                *)
DrawnInv ==
    /\ drawn \in rows \union {0}
    /\ \A p \in Polls : row[p] \in rows \union {0}
    /\ \A p \in Polls : at[p] = "answered" /\ p \notin crossed => drawn <= row[p]

PoolInv == ShapeInv /\ HoldInv /\ SizeInv /\ DeadInv /\ FlagsInv
IInv == PoolInv /\ PageInv /\ StoreInv /\ DrawnInv

-----------------------------------------------------------------------------
(* Counting connections.                                                   *)

LEMMA Taken ==
    ASSUME NEW c \in [Requests -> Kinds], NEW r \in Requests, NEW k \in Kinds,
           c[r] = "none", k # "none", IsFiniteSet(Holders(c))
    PROVE  /\ IsFiniteSet(Holders([c EXCEPT ![r] = k]))
           /\ Cardinality(Holders([c EXCEPT ![r] = k])) = Cardinality(Holders(c)) + 1
<1>1. Holders([c EXCEPT ![r] = k]) = Holders(c) \union {r} BY DEF Holders
<1>2. r \notin Holders(c) BY DEF Holders
<1> QED BY <1>1, <1>2, FS_AddElement

LEMMA Given ==
    ASSUME NEW c \in [Requests -> Kinds], NEW r \in Requests,
           c[r] # "none", IsFiniteSet(Holders(c))
    PROVE  /\ IsFiniteSet(Holders([c EXCEPT ![r] = "none"]))
           /\ Cardinality(Holders([c EXCEPT ![r] = "none"])) = Cardinality(Holders(c)) - 1
<1>1. Holders([c EXCEPT ![r] = "none"]) = Holders(c) \ {r} BY DEF Holders
<1>2. r \in Holders(c) BY DEF Holders
<1> QED BY <1>1, <1>2, FS_RemoveElement

LEMMA NoneHolds ==
    ASSUME NEW c, \A r \in Requests : c[r] = "none"
    PROVE  IsFiniteSet(Holders(c)) /\ Cardinality(Holders(c)) = 0
<1>1. Holders(c) = {} BY DEF Holders
<1> QED BY <1>1, FS_EmptySet

LEMMA CountIsNat ==
    ASSUME SizeInv PROVE Cardinality(Holders(con)) \in Nat
BY FS_CardinalityType DEF SizeInv

-----------------------------------------------------------------------------
(* The pool.  Every step is of one of these kinds.                         *)

(* Nobody takes or returns a connection.                                   *)
Aside == con' = con /\ idle' = idle /\ HoldInv'
(* r leaves the queue for an idle connection, or for a new one.            *)
Take(r, k) ==
    /\ at[r] = "wait" /\ at' = [at EXCEPT ![r] = "query"]
    /\ con' = [con EXCEPT ![r] = k] /\ k \in {"fresh", "stale"}
    /\ \/ idle[k] > 0 /\ idle' = [idle EXCEPT ![k] = @ - 1]
       \/ k = "fresh" /\ db /\ Kept = 0 /\ ~Full /\ idle' = idle
(* r ends; its connection is returned, thrown away, or all are.            *)
Leave(r) ==
    /\ at[r] \in {"query", "store"}
    /\ \E w \in {"none", "answered", "error"} : at' = [at EXCEPT ![r] = w]
    /\ Drop(r)
    /\ \/ con[r] = "fresh" /\ Kept < Keep /\ idle' = [idle EXCEPT !.fresh = @ + 1]
       \/ idle' = idle
       \/ idle' = [fresh |-> 0, stale |-> 0]
Void ==
    /\ \A r \in Requests : at'[r] \notin {"query", "store"}
    /\ con' = [r \in Requests |-> "none"]
    /\ idle' = [fresh |-> 0, stale |-> 0]

LEMMA AsideKeeps ==
    ASSUME ShapeInv, SizeInv, Aside, at' \in [Requests -> Where]
    PROVE  ShapeInv' /\ HoldInv' /\ SizeInv'
BY DEF Aside, ShapeInv, SizeInv, Kept

LEMMA TakeKeeps ==
    ASSUME ShapeInv, HoldInv, SizeInv, NEW r \in Requests, NEW k, Take(r, k)
    PROVE  ShapeInv' /\ HoldInv' /\ SizeInv'
<1> USE PoolAssumption
<1>1. k \in {"fresh", "stale"} /\ k \in Kinds BY DEF Take, Kinds
<1>2. con[r] = "none" BY DEF HoldInv, Take
<1>3. ShapeInv' BY <1>1 DEF ShapeInv, Take, Where, Kinds
<1>4. HoldInv' BY <1>1 DEF HoldInv, ShapeInv, Take, Where, Kinds
<1>5. /\ IsFiniteSet(Holders(con'))
      /\ Cardinality(Holders(con')) = Cardinality(Holders(con)) + 1
  BY <1>1, <1>2, Taken DEF Take, ShapeInv, SizeInv
<1>6. Cardinality(Holders(con)) \in Nat BY CountIsNat
<1>7. SizeInv'
  <2>1. CASE idle[k] > 0 /\ idle' = [idle EXCEPT ![k] = @ - 1]
    <3>1. Kept' = Kept - 1 /\ Kept \in Nat BY <1>1, <2>1 DEF Kept, ShapeInv
    <3> QED BY <1>5, <1>6, <3>1 DEF SizeInv
  <2>2. CASE Kept = 0 /\ ~Full /\ idle' = idle
    <3>1. Kept' = 0 BY <2>2 DEF Kept
    <3>2. Cardinality(Holders(con)) < Size BY <1>6, <2>2 DEF Full, Holders
    <3> QED BY <1>5, <1>6, <3>1, <3>2 DEF SizeInv
  <2> QED BY <2>1, <2>2 DEF Take
<1> QED BY <1>3, <1>4, <1>7

LEMMA LeaveKeeps ==
    ASSUME ShapeInv, HoldInv, SizeInv, NEW r \in Requests, Leave(r)
    PROVE  ShapeInv' /\ HoldInv' /\ SizeInv'
<1> USE PoolAssumption
<1>1. con[r] # "none" BY DEF HoldInv, Leave
<1>2. con' = [con EXCEPT ![r] = "none"] BY DEF Leave, Drop
<1>3. ShapeInv' BY <1>2 DEF ShapeInv, Leave, Where, Kinds
<1>4. HoldInv' BY <1>2 DEF HoldInv, ShapeInv, Leave
<1>5. /\ IsFiniteSet(Holders(con'))
      /\ Cardinality(Holders(con')) = Cardinality(Holders(con)) - 1
  BY <1>1, <1>2, Given DEF ShapeInv, SizeInv
<1>6. Cardinality(Holders(con)) \in Nat BY CountIsNat
<1>7. Kept' <= Keep /\ Kept' <= Kept + 1 /\ Kept \in Nat /\ Kept' \in Nat
  BY DEF Leave, Kept, ShapeInv, SizeInv
<1>8. SizeInv' BY <1>5, <1>6, <1>7 DEF SizeInv
<1> QED BY <1>3, <1>4, <1>8

LEMMA VoidKeeps ==
    ASSUME Void, at' \in [Requests -> Where]
    PROVE  ShapeInv' /\ HoldInv' /\ SizeInv'
<1> USE PoolAssumption
<1>1. \A r \in Requests : con'[r] = "none" BY DEF Void
<1>2. ShapeInv' BY DEF Void, ShapeInv, Kinds
<1>3. HoldInv' BY <1>1 DEF Void, HoldInv
<1>4. IsFiniteSet(Holders(con')) /\ Cardinality(Holders(con')) = 0
  BY <1>1, NoneHolds
<1>5. Kept' = 0 BY DEF Void, Kept
<1>6. SizeInv' BY <1>4, <1>5 DEF SizeInv
<1> QED BY <1>2, <1>3, <1>6

(* No step but a crash or a start changes the server, and then its own     *)
(* connections are only those it let in.                                   *)
LEMMA SameServer ==
    ASSUME ShapeInv, DeadInv, db' = db, ShapeInv',
           \/ Aside
           \/ \E r \in Requests, k \in {"fresh", "stale"} : Take(r, k)
           \/ \E r \in Requests : Leave(r)
           \/ Void
    PROVE  DeadInv'
<1> SUFFICES ASSUME ~db
             PROVE  idle'.fresh = 0 /\ \A r \in Requests : con'[r] # "fresh"
  BY DEF DeadInv
<1>1. idle.fresh = 0 /\ \A r \in Requests : con[r] # "fresh" BY DEF DeadInv
<1>2. CASE Aside BY <1>1, <1>2 DEF Aside
<1>3. ASSUME NEW r \in Requests, NEW k \in {"fresh", "stale"}, Take(r, k)
      PROVE  idle'.fresh = 0 /\ \A q \in Requests : con'[q] # "fresh"
  <2>1. k = "stale" BY <1>1, <1>3 DEF Take
  <2> QED BY <1>1, <1>3, <2>1 DEF Take, ShapeInv
<1>4. ASSUME NEW r \in Requests, Leave(r)
      PROVE  idle'.fresh = 0 /\ \A q \in Requests : con'[q] # "fresh"
  BY <1>1, <1>4 DEF Leave, Drop, ShapeInv
<1>5. CASE Void BY <1>5 DEF Void
<1> QED BY <1>2, <1>3, <1>4, <1>5

(* A request that holds nothing moves on without taking anything.          *)
LEMMA MoveAside ==
    ASSUME ShapeInv, HoldInv, NEW r \in Requests, NEW w \in Where \ {"query", "store"},
           at[r] \notin {"query", "store"}, Move(r, w), con' = con, idle' = idle
    PROVE  Aside /\ at' \in [Requests -> Where]
<1>1. at' \in [Requests -> Where] BY DEF ShapeInv, Move
<1>2. HoldInv' BY DEF HoldInv, ShapeInv, Move
<1> QED BY <1>1, <1>2 DEF Aside

(* What one step must have done to the pool, if not crash or start it.     *)
Moved ==
    \/ Aside /\ at' \in [Requests -> Where]
    \/ \E r \in Requests, k \in {"fresh", "stale"} : Take(r, k)
    \/ \E r \in Requests : Leave(r)
    \/ Void /\ at' \in [Requests -> Where]

LEMMA MovedKeeps ==
    ASSUME PoolInv, Moved, db' = db
    PROVE  ShapeInv' /\ HoldInv' /\ SizeInv' /\ DeadInv'
<1>1. ShapeInv' /\ HoldInv' /\ SizeInv'
  BY AsideKeeps, TakeKeeps, LeaveKeeps, VoidKeeps DEF PoolInv, Moved
<1> QED BY <1>1, SameServer DEF PoolInv, Moved

LEMMA AskMoved ==
    ASSUME PoolInv, NEW r \in Requests, Ask(r) PROVE Moved
<1>1. at[r] = "none" /\ Move(r, "wait") /\ con' = con /\ idle' = idle BY DEF Ask
<1>2. "wait" \in Where \ {"query", "store"} BY DEF Where
<1> QED BY <1>1, <1>2, MoveAside DEF PoolInv, Moved

LEMMA EndMoves ==
    ASSUME NEW r, NEW how \in {"answered", "error"}, End(r, how)
    PROVE  \E w \in {"none", "answered", "error"} : Move(r, w)
BY DEF End

LEMMA ServeMoved ==
    ASSUME PoolInv, NEW r \in Requests, Serve(r) PROVE Moved
<1> USE DEF PoolInv
<1>0. \A w \in {"none", "answered", "error"} : w \in Where \ {"query", "store"}
  BY DEF Where
<1>1. CASE Checkout(r)
  <2>1. PICK kind \in {"fresh", "stale"} :
            /\ idle[kind] > 0
            /\ idle' = [idle EXCEPT ![kind] = @ - 1]
            /\ con' = [con EXCEPT ![r] = kind]
    BY <1>1 DEF Checkout
  <2>2. Take(r, kind) BY <1>1, <2>1 DEF Checkout, Take, Move
  <2> QED BY <2>2 DEF Moved
<1>2. CASE Connect(r) /\ db
  <2>1. Take(r, "fresh") BY <1>2 DEF Connect, Take, Move
  <2> QED BY <2>1 DEF Moved
<1>3. CASE Connect(r) /\ ~db
  <2>1. at[r] = "wait" /\ End(r, "error") /\ idle' = idle
        /\ con' = [con EXCEPT ![r] = "none"]
    BY <1>3 DEF Connect
  <2>2. con[r] = "none" BY <2>1 DEF HoldInv
  <2>3. con' = con BY <2>1, <2>2 DEF ShapeInv
  <2> QED BY <1>0, <2>1, <2>3, EndMoves, MoveAside DEF Moved
<1>4. CASE Disconnect(r)
  <2>1. Leave(r) BY <1>4, EndMoves DEF Disconnect, Leave, Move
  <2> QED BY <2>1 DEF Moved
<1>5. CASE Stored(r)
  <2>1. Leave(r) BY <1>5, EndMoves DEF Stored, Leave, Move, GiveBack
  <2> QED BY <2>1 DEF Moved
<1>6. CASE GiveUp(r)
  <2>1. at[r] = "wait" /\ End(r, "error") /\ con' = con /\ idle' = idle
    BY <1>6 DEF GiveUp
  <2> QED BY <1>0, <2>1, EndMoves, MoveAside DEF Moved
<1>7. CASE Execute(r) /\ r \in Cached
  <2>1. at[r] = "query" /\ at' = [at EXCEPT ![r] = "store"] /\ con' = con /\ idle' = idle
    BY <1>7 DEF Execute, Move
  <2>2. at' \in [Requests -> Where] BY <2>1 DEF ShapeInv, Where
  <2>3. HoldInv' BY <2>1 DEF HoldInv, ShapeInv
  <2> QED BY <2>1, <2>2, <2>3 DEF Moved, Aside
<1>8. CASE Execute(r) /\ r \notin Cached
  <2>1. Leave(r) BY <1>8, EndMoves DEF Execute, Leave, Move, GiveBack
  <2> QED BY <2>1 DEF Moved
<1> QED BY <1>1, <1>2, <1>3, <1>4, <1>5, <1>6, <1>7, <1>8 DEF Serve

LEMMA RestMoved ==
    ASSUME PoolInv,
           \/ Check
           \/ \E p \in Polls : Poll(p) \/ Draw(p)
           \/ \E i \in 1..MaxRows : Record(i)
           \/ \E r \in Requests : Load(r)
           \/ Repair \/ Restart
    PROVE  Moved
<1> USE PageAssumption, PoolAssumption DEF PoolInv
<1>0. "none" \in Where \ {"query", "store"} BY DEF Where
<1>1. CASE Ask(Probe) BY <1>1, AskMoved
<1>2. CASE TimeOut
  <2>1. Leave(Probe) BY <1>2 DEF TimeOut, Leave, Move
  <2> QED BY <2>1 DEF Moved
<1>3. CASE Observe
  <2>1. at[Probe] \notin {"query", "store"} /\ Move(Probe, "none")
        /\ con' = con /\ idle' = idle
    BY <1>3 DEF Observe
  <2> QED BY <1>0, <2>1, MoveAside DEF Moved
<1>4. ASSUME NEW p \in Polls, Poll(p) PROVE Moved
  BY <1>4, AskMoved DEF Poll
<1>5. ASSUME NEW p \in Polls, Draw(p) PROVE Moved
  <2>1. at[p] \notin {"query", "store"} /\ Move(p, "none")
        /\ con' = con /\ idle' = idle
    BY <1>5 DEF Draw, DrawAnswer, DrawError
  <2> QED BY <1>0, <2>1, MoveAside DEF Moved
<1>6. ASSUME at' = at, con' = con, idle' = idle PROVE Moved
  BY <1>6 DEF Moved, Aside, HoldInv, ShapeInv
<1>7. ASSUME NEW i \in 1..MaxRows, Record(i) PROVE Moved
  BY <1>6, <1>7 DEF Record, poolVars
<1>8. ASSUME NEW r \in Requests, Load(r) PROVE Moved
  BY <1>8, AskMoved DEF Load
<1>9. CASE Repair BY <1>6, <1>9 DEF Repair, DbBoot
<1>10. CASE Restart
  <2>1. at' \in [Requests -> Where] BY <1>10 DEF Restart, ShapeInv, Where
  <2>2. Void BY <1>10 DEF Restart, Void
  <2> QED BY <2>1, <2>2 DEF Moved
<1> QED BY <1>1, <1>2, <1>3, <1>4, <1>5, <1>7, <1>8, <1>9, <1>10 DEF Check

(* The connections are counted as before when their server is gone.        *)
LEMMA CrashKeeps ==
    ASSUME PoolInv, DbCrash
    PROVE  ShapeInv' /\ HoldInv' /\ SizeInv' /\ DeadInv'
<1> USE DEF PoolInv
<1>1. /\ at' = at /\ idle' = [fresh |-> 0, stale |-> Kept] /\ Kept \in Nat
      /\ con' = [r \in Requests |-> IF con[r] = "fresh" THEN "stale" ELSE con[r]]
  BY DEF DbCrash, Kept, ShapeInv
<1>2. ShapeInv' BY <1>1 DEF ShapeInv, Kinds
<1>3. HoldInv' BY <1>1 DEF HoldInv, ShapeInv, Kinds
<1>4. Holders(con') = Holders(con) BY <1>1 DEF Holders, ShapeInv
<1>5. Kept' = Kept BY <1>1 DEF Kept, ShapeInv
<1>6. SizeInv' BY <1>4, <1>5 DEF SizeInv
<1>7. DeadInv' BY <1>1 DEF DeadInv, ShapeInv
<1> QED BY <1>2, <1>3, <1>6, <1>7

(* A step that starts or crashes the server, or keeps it.                  *)
LEMMA ServerChanges ==
    ASSUME Next PROVE db' = db \/ Repair \/ DbCrash
<1>1. ASSUME NEW r \in Requests, Serve(r) PROVE db' = db
  BY <1>1 DEF Serve, Checkout, Connect, Execute, Disconnect, Stored, GiveUp
<1>2. ASSUME NEW p \in Polls, Poll(p) \/ Draw(p) PROVE db' = db
  BY <1>2 DEF Poll, Ask, Draw, DrawAnswer, DrawError
<1>3. ASSUME NEW i \in 1..MaxRows, Record(i) PROVE db' = db
  BY <1>3 DEF Record, poolVars
<1>4. ASSUME NEW r \in Requests, Load(r) PROVE db' = db BY <1>4 DEF Load, Ask
<1>5. ASSUME Check PROVE db' = db BY <1>5 DEF Check, Ask, TimeOut, Observe
<1>6. ASSUME Restart PROVE db' = db BY <1>6 DEF Restart
<1> QED BY <1>1, <1>2, <1>3, <1>4, <1>5, <1>6 DEF Next

LEMMA StartKeeps ==
    ASSUME PoolInv, Repair
    PROVE  ShapeInv' /\ HoldInv' /\ SizeInv' /\ DeadInv'
<1>1. at' = at /\ con' = con /\ idle' = idle /\ db' BY DEF Repair, DbBoot
<1> QED BY <1>1 DEF PoolInv, ShapeInv, HoldInv, SizeInv, DeadInv, Kept

LEMMA FlagsKept ==
    ASSUME FlagsInv, Next PROVE FlagsInv'
<1> USE DEF FlagsInv
<1>1. ASSUME NEW r \in Requests, Serve(r) PROVE FlagsInv'
  <2>1. db' = db /\ ready' = ready /\ failed' = failed
    BY <1>1 DEF Serve, Checkout, Connect, Execute, Disconnect, Stored, GiveUp, pageVars
  <2> QED BY <2>1, Zenon
<1>2. ASSUME NEW p \in Polls, Poll(p) PROVE FlagsInv'
  <2>1. db' = db /\ ready' = ready /\ failed' = failed BY <1>2 DEF Poll, Ask
  <2> QED BY <2>1, Zenon
<1>3. ASSUME NEW p \in Polls, Draw(p) PROVE FlagsInv'
  <2>1. db' = db /\ ready' = ready /\ failed' \in BOOLEAN
    BY <1>3, Zenon DEF Draw, DrawAnswer, DrawError
  <2> QED BY <2>1, Zenon
<1>4. ASSUME NEW i \in 1..MaxRows, Record(i) PROVE FlagsInv'
  <2>1. db' = db /\ ready' = ready /\ failed' = failed BY <1>4 DEF Record, poolVars
  <2> QED BY <2>1, Zenon
<1>5. ASSUME NEW r \in Requests, Load(r) PROVE FlagsInv'
  <2>1. db' = db /\ ready' = ready /\ failed' = failed BY <1>5 DEF Load, Ask, pageVars
  <2> QED BY <2>1, Zenon
<1>6. ASSUME Check PROVE FlagsInv'
  <2>1. db' = db /\ failed' = failed BY <1>6 DEF Check, Ask, TimeOut, Observe, pageVars
  <2>2. ready' \in BOOLEAN BY <1>6, Zenon DEF Check, Ask, TimeOut, Observe
  <2> QED BY <2>1, <2>2, Zenon
<1>7. ASSUME Repair \/ ((DbCrash \/ Restart) /\ UNCHANGED <<pageVars, load>>)
      PROVE  FlagsInv'
  <2>1. failed' = failed /\ ready' = ready
    BY <1>7 DEF Repair, DbBoot, DbCrash, Restart, pageVars
  <2>2. db' \in BOOLEAN BY <1>7, Zenon DEF Repair, DbBoot, DbCrash, Restart
  <2> QED BY <2>1, <2>2, Zenon
<1> QED BY <1>1, <1>2, <1>3, <1>4, <1>5, <1>6, <1>7 DEF Next

LEMMA PoolKept ==
    ASSUME PoolInv, Next PROVE PoolInv'
<1>1. ShapeInv' /\ HoldInv' /\ SizeInv' /\ DeadInv'
  <2>1. CASE DbCrash BY <2>1, CrashKeeps
  <2>2. CASE Repair BY <2>2, StartKeeps
  <2>3. CASE ~DbCrash /\ ~Repair
    <3>1. db' = db BY <2>3, ServerChanges
    <3>2. Moved BY <2>3, ServeMoved, RestMoved DEF Next
    <3> QED BY <3>1, <3>2, MovedKeeps
  <2> QED BY <2>1, <2>2, <2>3
<1>2. FlagsInv' BY FlagsKept DEF PoolInv
<1> QED BY <1>1, <1>2 DEF PoolInv

-----------------------------------------------------------------------------
(* The page.                                                               *)

LEMMA PageKept ==
    ASSUME PageInv, Next PROVE PageInv'
<1> USE PoolAssumption, PageAssumption DEF PageInv
<1>1. ASSUME NEW r \in Requests, Serve(r) PROVE PageInv'
  <2>1. faults' = faults /\ load' = load /\ rows' = rows /\ page' = page
        /\ drawn' = drawn /\ crossed' = crossed
    BY <1>1 DEF Serve, Checkout, Connect, Execute, Disconnect, Stored, GiveUp, pageVars
  <2>2. row' = row \/ \E i \in rows \union {0} : row' = [row EXCEPT ![r] = i]
    BY <1>1 DEF Serve, pageVars, Read, Answer
  <2> QED BY <2>1, <2>2
<1>2. ASSUME NEW p \in Polls, Poll(p) PROVE PageInv'
  BY <1>2 DEF Poll, Ask
<1>3. ASSUME NEW p \in Polls, Draw(p) PROVE PageInv'
  <2>1. faults' = faults /\ load' = load /\ rows' = rows /\ page' = "polling"
    BY <1>3 DEF Draw, DrawAnswer, DrawError
  <2>2. crossed' \subseteq Polls BY <1>3 DEF Draw, DrawAnswer, DrawError, Crosses
  <2>3. drawn' \in {drawn, row[p]} /\ row' \in {row, [row EXCEPT ![p] = 0]}
    BY <1>3 DEF Draw, DrawAnswer, DrawError
  <2> QED BY <2>1, <2>2, <2>3
<1>4. ASSUME NEW i \in 1..MaxRows, Record(i) PROVE PageInv'
  BY <1>4 DEF Record, poolVars
<1>5. ASSUME NEW r \in Requests, Load(r) PROVE PageInv'
  BY <1>5 DEF Load, Ask, pageVars
<1>6. ASSUME Check PROVE PageInv'
  BY <1>6 DEF Check, Ask, TimeOut, Observe, pageVars
<1>7. ASSUME Repair \/ ((DbCrash \/ Restart) /\ UNCHANGED <<pageVars, load>>)
      PROVE  PageInv'
  BY <1>7 DEF Repair, DbBoot, DbCrash, Restart, Fault, pageVars
<1> QED BY <1>1, <1>2, <1>3, <1>4, <1>5, <1>6, <1>7 DEF Next

LEMMA StoreKept ==
    ASSUME ShapeInv, StoreInv, Next PROVE StoreInv'
<1> USE PageAssumption, PoolAssumption DEF StoreInv, ShapeInv, Move
<1>1. ASSUME NEW r \in Requests, Serve(r) PROVE StoreInv'
  BY <1>1 DEF Serve, Checkout, Connect, Execute, Disconnect, Stored, GiveUp, End
<1>2. ASSUME NEW p \in Polls, Poll(p) PROVE StoreInv'
  BY <1>2 DEF Poll, Ask
<1>3. ASSUME NEW p \in Polls, Draw(p) PROVE StoreInv'
  BY <1>3 DEF Draw, DrawAnswer, DrawError
<1>4. ASSUME NEW i \in 1..MaxRows, Record(i) PROVE StoreInv'
  BY <1>4 DEF Record, poolVars
<1>5. ASSUME NEW r \in Requests, Load(r) PROVE StoreInv'
  BY <1>5 DEF Load, Ask
<1>6. ASSUME Check PROVE StoreInv'
  BY <1>6 DEF Check, Ask, TimeOut, Observe
<1>7. ASSUME Repair \/ ((DbCrash \/ Restart) /\ UNCHANGED <<pageVars, load>>)
      PROVE  StoreInv'
  BY <1>7 DEF Repair, DbBoot, DbCrash, Restart
<1> QED BY <1>1, <1>2, <1>3, <1>4, <1>5, <1>6, <1>7 DEF Next

(* No poll becomes answered but by a read.                                 *)
LEMMA AnsweredOnlyByRead ==
    ASSUME ShapeInv, StoreInv, NEW r \in Requests, Serve(r), NEW p \in Polls,
           at'[p] = "answered", at[p] # "answered"
    PROVE  p = r /\ Read(r)
<1> USE PageAssumption, PoolAssumption DEF StoreInv, ShapeInv, Move
<1>1. CASE Execute(r) /\ Read(r) BY <1>1 DEF Execute, End
<1>2. CASE Checkout(r) \/ Connect(r) \/ Disconnect(r) \/ Stored(r) \/ GiveUp(r)
  BY <1>2 DEF Checkout, Connect, Disconnect, Stored, GiveUp, End
<1> QED BY <1>1, <1>2 DEF Serve

LEMMA DrawnKept ==
    ASSUME ShapeInv, PageInv, StoreInv, DrawnInv, Next PROVE DrawnInv'
<1> USE PageAssumption, PoolAssumption DEF ShapeInv, PageInv, DrawnInv
<1>1. ASSUME NEW r \in Requests, Serve(r) PROVE DrawnInv'
  <2>1. rows' = rows /\ drawn' = drawn /\ crossed' = crossed
    BY <1>1 DEF Serve, pageVars
  <2>2. CASE Execute(r) /\ Read(r)
    <3>1. PICK i \in rows \union {0} : Latest(i) /\ Answer(r, i) BY <2>2 DEF Read
    <3>2. drawn <= i BY <3>1 DEF Latest
    <3>3. \A p \in Polls : row'[p] = IF p = r THEN i ELSE row[p]
      BY <3>1 DEF Answer
    <3>4. \A p \in Polls : at'[p] = "answered" => at[p] = "answered" \/ p = r
      BY <1>1, AnsweredOnlyByRead
    <3> QED BY <2>1, <3>1, <3>2, <3>3, <3>4
  <2>3. CASE ~(Execute(r) /\ Read(r))
    <3>1. row' = row BY <1>1, <2>3 DEF Serve, pageVars
    <3>2. \A p \in Polls : at'[p] = "answered" => at[p] = "answered"
      <4> SUFFICES ASSUME NEW p \in Polls, at'[p] = "answered", at[p] # "answered"
                   PROVE  FALSE
        OBVIOUS
      <4>1. CASE Checkout(r) \/ Connect(r) \/ Disconnect(r) \/ Stored(r) \/ GiveUp(r)
        BY <4>1 DEF Checkout, Connect, Disconnect, Stored, GiveUp, End, StoreInv, Move
      <4> QED BY <1>1, <2>3, <4>1 DEF Serve
    <3> QED BY <2>1, <3>1, <3>2
  <2> QED BY <2>2, <2>3
<1>2. ASSUME NEW p \in Polls, Poll(p) PROVE DrawnInv'
  BY <1>2 DEF Poll, Ask, Move
<1>3. ASSUME NEW p \in Polls, Draw(p) PROVE DrawnInv'
  <2>1. /\ at' = [at EXCEPT ![p] = "none"] /\ rows' = rows
        /\ crossed' = {q \in Polls : at[q] # "none"} \ {p}
        /\ drawn' \in {drawn, row[p]} /\ row' \in {row, [row EXCEPT ![p] = 0]}
    BY <1>3 DEF Draw, DrawAnswer, DrawError, Crosses, Move
  <2>2. \A q \in Polls : at'[q] = "answered" => q \in crossed' BY <2>1
  <2> QED BY <2>1, <2>2
<1>4. ASSUME NEW i \in 1..MaxRows, Record(i) PROVE DrawnInv'
  BY <1>4 DEF Record, poolVars
<1>5. ASSUME NEW r \in Requests, Load(r) PROVE DrawnInv'
  BY <1>5 DEF Load, Ask, Move, pageVars
<1>6. ASSUME Check PROVE DrawnInv'
  BY <1>6 DEF Check, Ask, TimeOut, Observe, Move, pageVars
<1>7. ASSUME Repair \/ ((DbCrash \/ Restart) /\ UNCHANGED <<pageVars, load>>)
      PROVE  DrawnInv'
  BY <1>7 DEF Repair, DbBoot, DbCrash, Restart, pageVars
<1> QED BY <1>1, <1>2, <1>3, <1>4, <1>5, <1>6, <1>7 DEF Next

-----------------------------------------------------------------------------
(* The theorems.                                                           *)

LEMMA Initially == ASSUME Init PROVE IInv
<1> USE PoolAssumption, PageAssumption DEF Init, PoolInit
<1>1. ShapeInv BY DEF ShapeInv, Where, Kinds
<1>2. HoldInv BY DEF HoldInv
<1>3. IsFiniteSet(Holders(con)) /\ Cardinality(Holders(con)) = 0 BY NoneHolds
<1>4. SizeInv BY <1>3 DEF SizeInv, Kept
<1>5. DeadInv BY DEF DeadInv
<1>6. FlagsInv BY Zenon DEF FlagsInv
<1>7. PageInv BY DEF PageInv
<1>8. StoreInv BY DEF StoreInv
<1>9. DrawnInv BY DEF DrawnInv
<1> QED BY <1>1, <1>2, <1>4, <1>5, <1>6, <1>7, <1>8, <1>9 DEF IInv, PoolInv

LEMMA Stutters == ASSUME IInv, UNCHANGED vars PROVE IInv'
<1> USE DEF vars, poolVars, pageVars
<1>1. ShapeInv' /\ HoldInv' /\ SizeInv' /\ DeadInv'
  BY DEF IInv, PoolInv, ShapeInv, HoldInv, SizeInv, DeadInv, Kept
<1>2. FlagsInv' BY Zenon DEF IInv, PoolInv, FlagsInv
<1>3. PageInv' BY DEF IInv, PageInv
<1>4. StoreInv' /\ DrawnInv' BY DEF IInv, StoreInv, DrawnInv
<1> QED BY <1>1, <1>2, <1>3, <1>4 DEF IInv, PoolInv

LEMMA Inductive == Spec => []IInv
<1>1. Init => IInv BY Initially
<1>2. IInv /\ [Next]_vars => IInv'
  <2> SUFFICES ASSUME IInv, [Next]_vars PROVE IInv' OBVIOUS
  <2>1. CASE Next
    BY <2>1, PoolKept, PageKept, StoreKept, DrawnKept DEF IInv, PoolInv
  <2>2. CASE UNCHANGED vars BY <2>2, Stutters
  <2> QED BY <2>1, <2>2
<1> QED BY <1>1, <1>2, PTL DEF Spec

LEMMA ImpliesTypeOK == ASSUME IInv PROVE TypeOK
<1> USE PoolAssumption DEF IInv, PoolInv
<1>1. at \in [Requests -> Where] /\ con \in [Requests -> Kinds] BY DEF ShapeInv
<1>2. idle \in [{"fresh", "stale"} -> 0..Keep]
  <2>1. idle \in [{"fresh", "stale"} -> Nat] BY DEF ShapeInv
  <2>2. idle.fresh + idle.stale <= Keep BY DEF SizeInv, Kept
  <2>3. \A k \in {"fresh", "stale"} : idle[k] \in 0..Keep BY <2>1, <2>2
  <2> QED BY <2>1, <2>3
<1>3. Kept <= Keep /\ Kept + Cardinality({r \in Requests : con[r] # "none"}) <= Size
  BY DEF SizeInv, Holders
<1>4. db \in BOOLEAN /\ ready \in BOOLEAN /\ failed \in BOOLEAN BY Zenon DEF FlagsInv
<1> QED BY <1>1, <1>2, <1>3, <1>4, Zenon
        DEF TypeOK, PageInv, HoldInv, DeadInv, Where, Kinds

(* TypeOK: pool and page are what database.py and system.js can be in, and *)
(* no order of errors, crashes and time limits opens more connections than *)
(* pool_size and max_overflow allow, or keeps more than pool_size idle.    *)
THEOREM TypeCorrect == Spec => []TypeOK
<1>1. IInv => TypeOK BY ImpliesTypeOK
<1> QED BY <1>1, Inductive, PTL

(* OnlyCrossedStepsBack: refresh() of system.js draws an older row only    *)
(* with a poll that was in flight when another one was drawn.              *)
THEOREM StepsBackOnlyCrossed == Spec => OnlyCrossedStepsBack
<1>1. ASSUME IInv, [Next]_vars, drawn' < drawn
      PROVE  \E p \in crossed : at[p] = "answered" /\ row[p] = drawn'
  <2> USE DEF IInv, PageInv, DrawnInv
  <2>1. drawn' # drawn BY <1>1
  <2>2. PICK p \in Polls : DrawAnswer(p)
    <3>1. ASSUME NEW r \in Requests, Serve(r) PROVE drawn' = drawn
      BY <3>1 DEF Serve, pageVars
    <3>2. ASSUME NEW p \in Polls, Poll(p) \/ DrawError(p) PROVE drawn' = drawn
      BY <3>2 DEF Poll, DrawError
    <3>3. ASSUME NEW i \in 1..MaxRows, Record(i) PROVE drawn' = drawn
      BY <3>3 DEF Record
    <3>4. ASSUME NEW r \in Requests, Load(r) PROVE drawn' = drawn
      BY <3>4 DEF Load, pageVars
    <3>5. ASSUME Check PROVE drawn' = drawn BY <3>5 DEF Check, pageVars
    <3>6. ASSUME Repair PROVE drawn' = drawn BY <3>6 DEF Repair, pageVars
    <3>7. ASSUME UNCHANGED <<pageVars, load>> PROVE drawn' = drawn
      BY <3>7 DEF pageVars
    <3>8. ASSUME UNCHANGED vars PROVE drawn' = drawn
      BY <3>8 DEF vars, pageVars
    <3> QED BY <1>1, <2>1, <3>1, <3>2, <3>3, <3>4, <3>5, <3>6, <3>7, <3>8 DEF Next, Draw
  <2>3. at[p] = "answered" /\ drawn' = row[p] BY <2>2 DEF DrawAnswer
  <2>4. drawn \in Int /\ row[p] \in Int BY <1>1, PageAssumption
  <2>5. p \in crossed BY <1>1, <2>3, <2>4
  <2> QED BY <2>3, <2>5
<1>2. IInv /\ [Next]_vars
        => [drawn' < drawn => \E p \in crossed : at[p] = "answered" /\ row[p] = drawn']_vars
  BY <1>1
<1> QED BY <1>2, Inductive, PTL DEF Spec, OnlyCrossedStepsBack
=============================================================================
