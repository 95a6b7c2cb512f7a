------------------------------- MODULE ApiPool -------------------------------
(***************************************************************************)
(* The one database engine of an API process and the requests that share   *)
(* its connections.  A handler takes a connection with its first statement *)
(* and gives it back when its session closes: a cached one after it has    *)
(* stored its answer in Redis.  create_async_engine leaves the pool at its *)
(* defaults, without pre-ping: a connection of an earlier database server  *)
(* is noticed by the request that uses it.                                 *)
(*                                                                         *)
(* SystemPage composes the actions below with the page that polls.         *)
(***************************************************************************)
EXTENDS Integers, FiniteSets

CONSTANTS
    Requests,  \* requests in flight at most, by name
    Cached,    \* those for a cached endpoint, here a miss
    Probe,     \* GET /health/readyz
    Size,      \* pool_size + max_overflow
    Keep,      \* pool_size: connections kept while nobody uses them
    MaxFaults  \* bound: crashes of PostgreSQL, restarts of the API

ASSUME PoolAssumption ==
    /\ Cached \subseteq Requests /\ Probe \in Requests \ Cached
    /\ Keep \in Nat /\ Size \in Nat /\ Keep <= Size
    /\ MaxFaults \in Nat

VARIABLES
    at,     \* at[r]: where request r is
    con,    \* con[r]: the connection it holds, of this server or an earlier one
    idle,   \* idle connections of either kind
    db,     \* does PostgreSQL run?
    ready,  \* the last result of readyz
    faults  \* faults so far

poolVars == <<at, con, idle, db, ready, faults>>

PoolInit ==
    /\ at = [r \in Requests |-> "none"]
    /\ con = [r \in Requests |-> "none"]
    /\ idle = [fresh |-> 0, stale |-> 0]
    /\ db = TRUE /\ ready = FALSE /\ faults = 0

Fault == faults < MaxFaults /\ faults' = faults + 1
Move(r, where) == at' = [at EXCEPT ![r] = where]
(* The handler ends; what a cached one answers is the matter of            *)
(* ResponseCache.                                                          *)
End(r, how) == Move(r, IF r \in Cached THEN "none" ELSE how)
Kept == idle.fresh + idle.stale
Full == Kept = 0 /\ Cardinality({r \in Requests : con[r] # "none"}) >= Size

-----------------------------------------------------------------------------
(* Requests.                                                               *)

Ask(r) ==
    /\ at[r] = "none"
    /\ Move(r, "wait")
    /\ UNCHANGED <<con, idle, db, ready, faults>>

(* A connection that lies idle, of whatever server.                        *)
Checkout(r) ==
    /\ at[r] = "wait"
    /\ \E kind \in {"fresh", "stale"} :
           /\ idle[kind] > 0
           /\ idle' = [idle EXCEPT ![kind] = @ - 1]
           /\ con' = [con EXCEPT ![r] = kind]
    /\ Move(r, "query")
    /\ UNCHANGED <<db, ready, faults>>

(* None lies idle: a new one, if the server lets it in.                    *)
Connect(r) ==
    /\ at[r] = "wait" /\ Kept = 0 /\ ~Full
    /\ con' = [con EXCEPT ![r] = IF db THEN "fresh" ELSE "none"]
    /\ IF db THEN Move(r, "query") ELSE End(r, "error")
    /\ UNCHANGED <<idle, db, ready, faults>>

Drop(r) == con' = [con EXCEPT ![r] = "none"]

(* The session closes.  A dead connection fails its rollback and is gone.  *)
GiveBack(r) ==
    /\ Drop(r)
    /\ idle' = IF con[r] = "fresh" /\ Kept < Keep
               THEN [idle EXCEPT !.fresh = @ + 1] ELSE idle

Execute(r) ==
    /\ at[r] = "query" /\ con[r] = "fresh"
    /\ IF r \in Cached
       THEN Move(r, "store") /\ UNCHANGED <<con, idle>>
       ELSE End(r, "answered") /\ GiveBack(r)
    /\ UNCHANGED <<db, ready, faults>>

(* Mutant: the error is not seen to be a disconnect.                       *)
DisconnectKeeping(r) ==
    /\ at[r] = "query" /\ con[r] = "stale"
    /\ End(r, "error")
    /\ Drop(r)
    /\ idle' = IF Kept < Keep THEN [idle EXCEPT !.stale = @ + 1] ELSE idle
    /\ UNCHANGED <<db, ready, faults>>

(* The server of the connection is gone: with it go all that lie idle.     *)
Disconnect(r) ==
    /\ at[r] = "query" /\ con[r] = "stale"
    /\ End(r, "error")
    /\ Drop(r)
    /\ idle' = [fresh |-> 0, stale |-> 0]
    /\ UNCHANGED <<db, ready, faults>>

(* cache_set ends, at the latest after socket_timeout.                     *)
Stored(r) ==
    /\ at[r] = "store"
    /\ End(r, "answered")
    /\ GiveBack(r)
    /\ UNCHANGED <<db, ready, faults>>

(* pool_timeout; for readyz its own bound.                                 *)
GiveUp(r) ==
    /\ at[r] = "wait" /\ Full
    /\ End(r, "error")
    /\ UNCHANGED <<con, idle, db, ready, faults>>

(* Mutant: the cancelled ping does not leave its "async with".             *)
TimeOutKeeping ==
    /\ at[Probe] = "query" /\ ~db
    /\ Move(Probe, "error")
    /\ UNCHANGED <<con, idle, db, ready, faults>>

(* wait_for cancels the ping of a database that does not answer.           *)
TimeOut ==
    /\ at[Probe] = "query" /\ ~db
    /\ Move(Probe, "error")
    /\ Drop(Probe)
    /\ UNCHANGED <<idle, db, ready, faults>>

(* The kubelet reads 200 or 503.                                           *)
Observe ==
    /\ at[Probe] \in {"answered", "error"}
    /\ ready' = (at[Probe] = "answered")
    /\ Move(Probe, "none")
    /\ UNCHANGED <<con, idle, db, faults>>

-----------------------------------------------------------------------------
(* Faults.                                                                 *)

DbCrash ==
    /\ db /\ Fault
    /\ db' = FALSE
    /\ con' = [r \in Requests |-> IF con[r] = "fresh" THEN "stale" ELSE con[r]]
    /\ idle' = [fresh |-> 0, stale |-> Kept]
    /\ UNCHANGED <<at, ready>>
DbBoot ==
    /\ ~db
    /\ db' = TRUE
    /\ UNCHANGED <<at, con, idle, ready, faults>>

(* The process ends, and a new one starts with an empty pool.              *)
Restart ==
    /\ Fault
    /\ at' = [r \in Requests |->
                  IF at[r] \notin {"wait", "query", "store"} THEN at[r]
                  ELSE IF r \in Cached THEN "none" ELSE "error"]
    /\ con' = [r \in Requests |-> "none"]
    /\ idle' = [fresh |-> 0, stale |-> 0]
    /\ UNCHANGED <<db, ready>>
=============================================================================
