----------------------------- MODULE SystemPage -----------------------------
(***************************************************************************)
(* The system page of the dashboard above the API: the worker records rows *)
(* of system_metrics, the page polls the newest one every 30 s, whether or *)
(* not the last poll was answered, and draws what arrives when it arrives. *)
(* The polls are requests of ApiPool, beside readyz and cached endpoints.  *)
(***************************************************************************)
EXTENDS ApiPool

CONSTANTS
    Polls,    \* the polls among the requests: in flight at once
    MaxRows,  \* bound: ids of system_metrics
    MaxLoad   \* bound: requests for cached endpoints

ASSUME PageAssumption ==
    /\ Polls \subseteq Requests \ (Cached \union {Probe})
    /\ MaxRows \in Nat /\ MaxLoad \in Nat

VARIABLES
    rows,      \* committed ids of system_metrics
    row,       \* row[p]: the id that poll p was answered with
    page,      \* has refresh() ended once, so that setInterval runs?
    drawn,     \* the id the charts show; 0: the empty answer
    failed,    \* does the page say "Error fetching system metrics."?
    crossed,   \* history: polls in flight when another one was drawn
    load       \* requests for cached endpoints so far

pageVars == <<rows, row, page, drawn, failed, crossed>>
vars == <<poolVars, pageVars, load>>

(* order_by(id.desc()).limit(1): i is the newest row, or nothing is there. *)
Latest(i) == i \in rows \union {0} /\ \A j \in rows : j <= i

Init ==
    /\ PoolInit
    /\ rows = {} /\ row = [p \in Polls |-> 0]
    /\ page = "new" /\ drawn = 0 /\ failed = FALSE
    /\ crossed = {} /\ load = 0

(* record_system_metrics commits its row, or swallows the error.  The ids  *)
(* of two runs that overlap need not be committed in order.                *)
Record(i) ==
    /\ db /\ i \notin rows
    /\ rows' = rows \union {i}
    /\ UNCHANGED <<poolVars, row, page, drawn, failed, crossed, load>>

(* The first poll, then one whenever the interval has passed.              *)
Poll(p) ==
    /\ page # "first"
    /\ page' = IF page = "new" THEN "first" ELSE page
    /\ Ask(p)
    /\ UNCHANGED <<rows, row, drawn, failed, crossed, load>>

Answer(r, i) == row' = IF r \in Polls THEN [row EXCEPT ![r] = i] ELSE row

(* Mutant: order_by(id), without desc().                                   *)
ReadAscending(r) ==
    \E i \in rows \union {0} : /\ \A j \in rows : i <= j
                               /\ i = 0 => rows = {}
                               /\ Answer(r, i)

Read(r) == \E i \in rows \union {0} : Latest(i) /\ Answer(r, i)

(* refresh() continues with the answer or in its catch.                    *)
Crosses(p) == crossed' = {q \in Polls : at[q] # "none"} \ {p}

DrawAnswer(p) ==
    /\ at[p] = "answered"
    /\ Move(p, "none")
    /\ drawn' = row[p] /\ failed' = FALSE /\ page' = "polling"
    /\ row' = [row EXCEPT ![p] = 0]
    /\ Crosses(p)
    /\ UNCHANGED <<con, idle, db, ready, faults, rows, load>>

(* Mutant: refresh() lets the error through.                               *)
DrawUncaught(p) ==
    /\ at[p] = "error"
    /\ Move(p, "none")
    /\ failed' = TRUE
    /\ Crosses(p)
    /\ UNCHANGED <<con, idle, db, ready, faults, rows, row, page, drawn, load>>

DrawError(p) ==
    /\ at[p] = "error"
    /\ Move(p, "none")
    /\ failed' = TRUE /\ page' = "polling"
    /\ Crosses(p)
    /\ UNCHANGED <<con, idle, db, ready, faults, rows, row, drawn, load>>

Load(r) ==
    /\ r \in Cached /\ load < MaxLoad
    /\ Ask(r)
    /\ load' = load + 1
    /\ UNCHANGED pageVars

(* What the API does with a request, and what the page does with a poll.   *)
Serve(r) ==
    \/ /\ Checkout(r) \/ Connect(r) \/ Disconnect(r) \/ Stored(r) \/ GiveUp(r)
       /\ UNCHANGED <<pageVars, load>>
    \/ /\ Execute(r) /\ Read(r)
       /\ UNCHANGED <<rows, page, drawn, failed, crossed, load>>
Draw(p) == DrawAnswer(p) \/ DrawError(p)
Check == /\ Ask(Probe) \/ TimeOut \/ Observe
         /\ UNCHANGED <<pageVars, load>>
Repair == DbBoot /\ UNCHANGED <<pageVars, load>>

Next ==
    \/ \E i \in 1..MaxRows : Record(i)
    \/ \E p \in Polls : Poll(p) \/ Draw(p)
    \/ \E r \in Requests : Load(r) \/ Serve(r)
    \/ Check \/ Repair
    \/ (DbCrash \/ Restart) /\ UNCHANGED <<pageVars, load>>

Spec == Init /\ [][Next]_vars

(* Every await ends, by a time limit or a lost connection if not by an     *)
(* answer; the timers of the page and of the kubelet go on; PostgreSQL is  *)
(* started again by its controller.                                        *)
FairSpec ==
    /\ Spec
    /\ \A r \in Requests : WF_vars(Serve(r))
    /\ \A p \in Polls : WF_vars(Draw(p))
    /\ WF_vars(\E p \in Polls : Poll(p))
    /\ WF_vars(Check) /\ WF_vars(Repair)

-----------------------------------------------------------------------------
(* The values the state ranges over.  Who holds a connection is inside its *)
(* handler, and the pool never opens more than its size.                   *)
TypeOK ==
    /\ at \in [Requests -> {"none", "wait", "query", "store", "answered", "error"}]
    /\ con \in [Requests -> {"none", "fresh", "stale"}]
    /\ \A r \in Requests : con[r] # "none" <=> at[r] \in {"query", "store"}
    /\ idle \in [{"fresh", "stale"} -> 0..Keep]
    /\ Kept <= Keep
    /\ Kept + Cardinality({r \in Requests : con[r] # "none"}) <= Size
    /\ ~db => idle.fresh = 0 /\ \A r \in Requests : con[r] # "fresh"
    /\ db \in BOOLEAN /\ ready \in BOOLEAN /\ failed \in BOOLEAN
    /\ faults \in 0..MaxFaults /\ load \in 0..MaxLoad
    /\ rows \subseteq 1..MaxRows /\ row \in [Polls -> 0..MaxRows]
    /\ page \in {"new", "first", "polling"} /\ drawn \in 0..MaxRows
    /\ crossed \subseteq Polls

(* The charts go back to an older row only with a poll during which another *)
(* one was drawn: a poll that had the page to itself shows no older row,   *)
(* however late it is, whatever connections were replaced in between and   *)
(* however the transactions of the rows overlap.                           *)
OnlyCrossedStepsBack ==
    [][drawn' < drawn => \E p \in crossed : at[p] = "answered" /\ row[p] = drawn']_vars

(* Once rows, faults and load end, the page shows the newest row and no    *)
(* error for ever, although polls overlap, the first one may have failed,  *)
(* and nothing tells the page that an answer was late.                     *)
PageCatchesUp == <>[](Latest(drawn) /\ ~failed)

(* readyz shares the pool with requests that wait for Redis and finds the  *)
(* connections of a database that restarted: still it reports ready again, *)
(* and stays so.                                                           *)
ReadyAgain == <>[]ready
=============================================================================
