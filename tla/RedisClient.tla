---------------------------- MODULE RedisClient ----------------------------
(***************************************************************************)
(* The Redis client of a process, app.core.cache._client: one module-level *)
(* variable, shared by the coroutines of an event loop and outliving it.   *)
(* The API has one loop with many coroutines and closes the client when    *)
(* its lifespan ends; the worker runs each task in a loop of its own and   *)
(* closes the client when the task has ended.  Loops follow one another.   *)
(*                                                                         *)
(* A call is one get_redis with the command its caller then sends.  A      *)
(* client is named by the call that created it.                            *)
(***************************************************************************)
EXTENDS Naturals

CONSTANTS
    Calls,   \* calls of get_redis
    LoopOf   \* LoopOf[c]: the number of the loop that runs c

ASSUME CallsAssumption == LoopOf \in [Calls -> Nat]

NoClient == "none"
ASSUME NoClientAssumption == NoClient \notin Calls

VARIABLES
    client,    \* _client
    conn,      \* conn[c]: what became of the client that c created
    pc,        \* pc[c]: where call c is
    ref,       \* ref[c]: the client get_redis returned to c, while c uses it
    loop,      \* the loop that runs
    closing,   \* is the loop in close_redis?
    reachable, \* does Redis answer?
    verified,  \* history: clients whose first ping was answered
    failed     \* history: clients whose first ping failed

vars == <<client, conn, pc, ref, loop, closing, reachable, verified, failed>>

Init ==
    /\ client = NoClient
    /\ conn = [c \in Calls |-> "unmade"]
    /\ pc = [c \in Calls |-> "idle"]
    /\ ref = [c \in Calls |-> NoClient]
    /\ loop = 0
    /\ closing = FALSE
    /\ reachable \in BOOLEAN
    /\ verified = {}
    /\ failed = {}

Runs(c) == LoopOf[c] = loop /\ ~closing
Return(c, result) ==
    /\ ref' = [ref EXCEPT ![c] = result]
    /\ pc' = [pc EXCEPT ![c] = IF result = NoClient THEN "done" ELSE "use"]

-----------------------------------------------------------------------------
(* get_redis.                                                              *)

(* There is a client, which another coroutine may still be pinging.        *)
Reuse(c) ==
    /\ Runs(c)
    /\ pc[c] = "idle"
    /\ client # NoClient
    /\ Return(c, client)
    /\ UNCHANGED <<client, conn, loop, closing, reachable, verified, failed>>

(* Mutant: only a verified client is taken for one.                        *)
ConnectUnlessVerified(c) ==
    /\ Runs(c)
    /\ pc[c] = "idle"
    /\ client \notin verified
    /\ client' = c
    /\ conn' = [conn EXCEPT ![c] = "open"]
    /\ pc' = [pc EXCEPT ![c] = "ping"]
    /\ UNCHANGED <<ref, loop, closing, reachable, verified, failed>>

Connect(c) ==
    /\ Runs(c)
    /\ pc[c] = "idle"
    /\ client = NoClient
    /\ client' = c
    /\ conn' = [conn EXCEPT ![c] = "open"]
    /\ pc' = [pc EXCEPT ![c] = "ping"]
    /\ UNCHANGED <<ref, loop, closing, reachable, verified, failed>>

(* get_redis returns the variable, not the client it has pinged.           *)
Pong(c) ==
    /\ pc[c] = "ping"
    /\ reachable
    /\ verified' = verified \union {c}
    /\ Return(c, client)
    /\ UNCHANGED <<client, conn, loop, closing, reachable, failed>>

(* Refused, or timed out although Redis is there.  The variable is reset;  *)
(* the client is not closed, and another coroutine may be using it.        *)
PingError(c) ==
    /\ pc[c] = "ping"
    /\ client' = NoClient
    /\ failed' = failed \union {c}
    /\ Return(c, NoClient)
    /\ UNCHANGED <<conn, loop, closing, reachable, verified>>

(* Mutant: the caller keeps the client in a variable of its module.        *)
CommandKeeping(c) ==
    /\ pc[c] = "use"
    /\ pc' = [pc EXCEPT ![c] = "done"]
    /\ UNCHANGED <<client, conn, ref, loop, closing, reachable, verified, failed>>

(* The caller's command: an answer or an exception, which it swallows.     *)
Command(c) ==
    /\ pc[c] = "use"
    /\ pc' = [pc EXCEPT ![c] = "done"]
    /\ ref' = [ref EXCEPT ![c] = NoClient]
    /\ UNCHANGED <<client, conn, loop, closing, reachable, verified, failed>>

-----------------------------------------------------------------------------
(* close_redis.  The server has answered all requests before the lifespan  *)
(* ends; the worker's coroutine has ended.  (Bound: no loops beyond those  *)
(* that have calls.)                                                       *)
CloseStart ==
    /\ ~closing
    /\ \A c \in Calls : LoopOf[c] = loop => pc[c] \notin {"ping", "use"}
    /\ \E c \in Calls : LoopOf[c] >= loop
    /\ closing' = TRUE
    /\ UNCHANGED <<client, conn, pc, ref, loop, reachable, verified, failed>>

(* Mutants: the variable is reset and not closed; closed and not reset.    *)
CloseForgetting ==
    /\ closing
    /\ client' = NoClient
    /\ closing' = FALSE
    /\ loop' = loop + 1
    /\ UNCHANGED <<conn, pc, ref, reachable, verified, failed>>
CloseKeeping ==
    /\ closing
    /\ conn' = [c \in Calls |-> IF c = client THEN "closed" ELSE conn[c]]
    /\ closing' = FALSE
    /\ loop' = loop + 1
    /\ UNCHANGED <<client, pc, ref, reachable, verified, failed>>

(* close returns or raises; the variable is reset either way, and the loop *)
(* ends.                                                                   *)
CloseEnd ==
    /\ closing
    /\ conn' = [c \in Calls |-> IF c = client THEN "closed" ELSE conn[c]]
    /\ client' = NoClient
    /\ closing' = FALSE
    /\ loop' = loop + 1
    /\ UNCHANGED <<pc, ref, reachable, verified, failed>>

Outage ==
    /\ reachable' = ~reachable
    /\ UNCHANGED <<client, conn, pc, ref, loop, closing, verified, failed>>

-----------------------------------------------------------------------------
Next ==
    \/ \E c \in Calls : \/ Reuse(c) \/ Connect(c) \/ Pong(c) \/ PingError(c)
                        \/ Command(c)
    \/ CloseStart \/ CloseEnd
    \/ Outage

Spec == Init /\ [][Next]_vars

-----------------------------------------------------------------------------
(* The values the state of the client ranges over; a client is only kept   *)
(* by a caller while it uses it.                                           *)
TypeOK ==
    /\ client \in Calls \union {NoClient}
    /\ conn \in [Calls -> {"unmade", "open", "closed"}]
    /\ pc \in [Calls -> {"idle", "ping", "use", "done"}]
    /\ ref \in [Calls -> Calls \union {NoClient}]
    /\ \A c \in Calls : pc[c] = "use" <=> ref[c] # NoClient
    /\ loop \in Nat
    /\ closing \in BOOLEAN
    /\ reachable \in BOOLEAN
    /\ verified \subseteq Calls
    /\ failed \subseteq Calls

(* tests/test_worker_tasks.py, worker_closes_redis_between_event_loops: a  *)
(* command is never sent through a client of an earlier event loop, nor    *)
(* through one that is closed, although the variable outlives its loops.   *)
OwnLoop ==
    \A c \in Calls :
        pc[c] = "use" => /\ LoopOf[ref[c]] = LoopOf[c]
                         /\ conn[ref[c]] # "closed"

(* Requests that arrive together while Redis comes and goes: a coroutine   *)
(* whose ping fails takes away no client but its own, so that a client     *)
(* that has answered once stays the client of the process, and there is    *)
(* never another, until close_redis.                                       *)
VerifiedStays ==
    /\ \A c \in verified : LoopOf[c] = loop => client = c
    /\ \A c, d \in verified : LoopOf[c] = LoopOf[d] => c = d

(* get_redis drops a client whose first ping fails without closing it, and *)
(* the next call replaces it.  Those are the only clients that outlive     *)
(* their loop unclosed: any other, pinged or used by whom it may, is       *)
(* closed by the close_redis of its own loop, so that a worker that runs   *)
(* for weeks collects one client for each failed ping and no more.         *)
OnlyFailedStayOpen ==
    \A c \in Calls :
        LoopOf[c] < loop => (conn[c] = "open" <=> c \in failed)
=============================================================================
