--------------------------- MODULE ResponseCache ---------------------------
(***************************************************************************)
(* The read path of the API: GET handlers wrapped by @cache_response, the  *)
(* Redis keyspace "cache:*" they share, the transactions that change the   *)
(* data underneath without touching the cache, and cache.clean.            *)
(*                                                                         *)
(* A response is abstracted to the version of the data it was computed     *)
(* from: db[k] counts the committed transactions that changed what key k   *)
(* shows.  Version 0 of a key of DetailKeys is a row that does not exist   *)
(* yet, for which the handler raises 404 and nothing is cached.            *)
(***************************************************************************)
EXTENDS Naturals

CONSTANTS
    Requests,    \* GET requests; each is served once
    Keys,        \* cache keys: path and query of a cached endpoint
    DetailKeys,  \* keys of GET /meters/{meter_id}
    Writes,      \* sets of keys one transaction changes
    Ttl,         \* the ttl given to cache_response for each key
    RedisUrl,    \* is settings.redis_url set?
    MaxVersion,  \* bound: commits per key
    MaxTime      \* bound: clock

ASSUME CacheAssumption ==
    /\ DetailKeys \subseteq Keys
    /\ Writes \subseteq SUBSET Keys
    /\ Ttl \in [Keys -> Nat \ {0}]
    /\ RedisUrl \in BOOLEAN
    /\ MaxVersion \in Nat
    /\ MaxTime \in Nat

VARIABLES
    db,      \* db[k]: version of the committed data that key k shows
    now,     \* clock of Redis
    cache,   \* the keyspace of Redis
    disk,    \* the keyspace its append-only file held at the last fsync
    pc,      \* pc[r]: where the handler of request r is
    url,     \* url[r]: the key request r asks for
    born,    \* history: db[url[r]] when request r arrived
    view,    \* view[r]: the version request r has in hand
    wire,    \* requests whose SETEX was sent and not processed yet
    clean,   \* the run of clean_stale_cache
    quiet    \* history: last time key k changed, or a response from
             \* before its last change was still on its way to the cache

vars == <<db, now, cache, disk, pc, url, born, view, wire, clean, quiet>>

NoEntry == [ver |-> 0, exp |-> 0]
Entry == [ver : Nat, exp : Nat]

(* GET key: Redis hides an entry from the moment its expiry is reached.    *)
LiveAt(k, t) == t < cache[k].exp
Live(k) == LiveAt(k, now)
Stale(k) == Live(k) /\ cache[k].ver < db[k]

(* A request that may still write what it read to the cache.               *)
Holding(r) == pc[r] = "store" \/ r \in wire
StaleHolder(k) == \E r \in Requests :
                      Holding(r) /\ url[r] = k /\ view[r] < db[k]

NotFound(k) == k \in DetailKeys /\ db[k] = 0

(* found: keys scan_iter has yielded.  must: keys that have been in the    *)
(* keyspace since the scan began, which SCAN promises to yield.            *)
(* settled (history): keys that had no stale holder when the scan began    *)
(* and that no transaction changed since.                                  *)
Idle == [pc |-> "idle", found |-> {}, must |-> {}, settled |-> {}]
CleanRun == {Idle} \union [pc : {"scan"}, found : SUBSET Keys,
                           must : SUBSET Keys, settled : SUBSET Keys]

Init ==
    /\ db = [k \in Keys |-> 0]
    /\ now = 0
    /\ cache = [k \in Keys |-> NoEntry]
    /\ disk = cache
    /\ pc = [r \in Requests |-> "idle"]
    /\ url \in [Requests -> Keys]
    /\ born = [r \in Requests |-> 0]
    /\ view = [r \in Requests |-> 0]
    /\ wire = {}
    /\ clean = Idle
    /\ quiet = [k \in Keys |-> 0]

-----------------------------------------------------------------------------
(* The wrapper of cache_response and the handler it calls.                 *)

Go(r, from, to) == pc[r] = from /\ pc' = [pc EXCEPT ![r] = to]

Ask(r) ==
    /\ Go(r, "idle", IF RedisUrl THEN "lookup" ELSE "query")
    /\ born' = [born EXCEPT ![r] = db[url[r]]]
    /\ UNCHANGED <<db, now, cache, disk, url, view, wire, clean, quiet>>

LookupHit(r) ==
    /\ Live(url[r])
    /\ Go(r, "lookup", "hit")
    /\ view' = [view EXCEPT ![r] = cache[url[r]].ver]
    /\ UNCHANGED <<db, now, cache, disk, url, born, wire, clean, quiet>>

(* No live entry, no client, a refused connection, a timeout: all None.    *)
LookupMiss(r) ==
    /\ Go(r, "lookup", "query")
    /\ UNCHANGED <<db, now, cache, disk, url, born, view, wire, clean, quiet>>

(* Mutant: the handler's None is cached before the 404 is raised.          *)
QueryCachesAbsence(r) ==
    /\ Go(r, "query", IF RedisUrl THEN "store" ELSE "answered")
    /\ view' = [view EXCEPT ![r] = db[url[r]]]
    /\ UNCHANGED <<db, now, cache, disk, url, born, wire, clean, quiet>>

Query(r) ==
    /\ Go(r, "query",
          IF RedisUrl /\ ~NotFound(url[r]) THEN "store" ELSE "answered")
    /\ view' = [view EXCEPT ![r] = db[url[r]]]
    /\ UNCHANGED <<db, now, cache, disk, url, born, wire, clean, quiet>>

SendSet(r) ==
    /\ Go(r, "store", "sent")
    /\ wire' = wire \union {r}
    /\ UNCHANGED <<db, now, cache, disk, url, born, view, clean, quiet>>

(* cache_set found no client, or failed before the command left.           *)
SkipSet(r) ==
    /\ Go(r, "store", "answered")
    /\ UNCHANGED <<db, now, cache, disk, url, born, view, wire, clean, quiet>>

(* Mutant: no socket_timeout.                                              *)
ReturnAfterReply(r) ==
    /\ r \notin wire
    /\ Go(r, "sent", "answered")
    /\ UNCHANGED <<db, now, cache, disk, url, born, view, wire, clean, quiet>>

(* The reply of SETEX, or an error, or the end of socket_timeout with the  *)
(* command still in the hands of the network or of Redis.                  *)
Return(r) ==
    /\ Go(r, "sent", "answered")
    /\ UNCHANGED <<db, now, cache, disk, url, born, view, wire, clean, quiet>>

(* A database error (500), or the end of the process.                      *)
Fail(r) ==
    /\ \E at \in {"lookup", "query", "store", "sent"} : Go(r, at, "failed")
    /\ UNCHANGED <<db, now, cache, disk, url, born, view, wire, clean, quiet>>

-----------------------------------------------------------------------------
(* Redis.                                                                  *)

(* Mutant: SET without an expiry.                                          *)
ApplySetForever(r) ==
    /\ r \in wire
    /\ wire' = wire \ {r}
    /\ cache' = [cache EXCEPT ![url[r]] =
                     [ver |-> view[r], exp |-> MaxTime + Ttl[url[r]]]]
    /\ UNCHANGED <<db, now, disk, pc, url, born, view, clean, quiet>>

ApplySet(r) ==
    /\ r \in wire
    /\ wire' = wire \ {r}
    /\ cache' = [cache EXCEPT ![url[r]] =
                     [ver |-> view[r], exp |-> now + Ttl[url[r]]]]
    /\ UNCHANGED <<db, now, disk, pc, url, born, view, clean, quiet>>

LoseSet(r) ==
    /\ r \in wire
    /\ wire' = wire \ {r}
    /\ UNCHANGED <<db, now, cache, disk, pc, url, born, view, clean, quiet>>

(* One unit of time, within which appendfsync everysec writes the file.    *)
Tick ==
    /\ now < MaxTime
    /\ now' = now + 1
    /\ disk' = cache
    /\ clean' = [clean EXCEPT !.must = {k \in @ : LiveAt(k, now + 1)}]
    /\ quiet' = [k \in Keys |-> IF StaleHolder(k) THEN now + 1 ELSE quiet[k]]
    /\ UNCHANGED <<db, cache, pc, url, born, view, wire>>

(* A crash of Redis loses, for any of the keys, what the file had not got. *)
(* The connection breaks under a running scan.                             *)
RedisRestart ==
    /\ cache' \in [Keys -> {cache[k] : k \in Keys} \union {disk[k] : k \in Keys}]
    /\ \A k \in Keys : cache'[k] \in {cache[k], disk[k]}
    /\ cache' # cache
    /\ clean' = Idle
    /\ UNCHANGED <<db, now, disk, pc, url, born, view, wire, quiet>>

-----------------------------------------------------------------------------
(* Writers: create_meter, the worker's tasks, the scripts.  None of them   *)
(* touches the cache.                                                      *)
Commit(ks) ==
    /\ \A k \in ks : db[k] < MaxVersion /\ (k \in DetailKeys => db[k] = 0)
    /\ db' = [k \in Keys |-> IF k \in ks THEN db[k] + 1 ELSE db[k]]
    /\ quiet' = [k \in Keys |-> IF k \in ks THEN now ELSE quiet[k]]
    /\ clean' = [clean EXCEPT !.settled = @ \ ks]
    /\ UNCHANGED <<now, cache, disk, pc, url, born, view, wire>>

-----------------------------------------------------------------------------
(* clean_stale_cache("cache:*"): scan_iter, then one DEL of what it found. *)

CleanStart ==
    /\ RedisUrl
    /\ clean.pc = "idle"
    /\ clean' = [pc |-> "scan", found |-> {},
                 must |-> {k \in Keys : Live(k)},
                 settled |-> {k \in Keys : ~StaleHolder(k)}]
    /\ UNCHANGED <<db, now, cache, disk, pc, url, born, view, wire, quiet>>

CleanScan(k) ==
    /\ clean.pc = "scan"
    /\ Live(k)
    /\ k \notin clean.found
    /\ clean' = [clean EXCEPT !.found = @ \union {k}]
    /\ UNCHANGED <<db, now, cache, disk, pc, url, born, view, wire, quiet>>

(* Mutant: only the first page of the scan is deleted.                     *)
CleanDeletePage ==
    /\ clean.pc = "scan"
    /\ cache' = [k \in Keys |-> IF k \in clean.found THEN NoEntry ELSE cache[k]]
    /\ clean' = Idle
    /\ UNCHANGED <<db, now, disk, pc, url, born, view, wire, quiet>>

CleanDelete ==
    /\ clean.pc = "scan"
    /\ clean.must \subseteq clean.found
    /\ cache' = [k \in Keys |-> IF k \in clean.found THEN NoEntry ELSE cache[k]]
    /\ clean' = Idle
    /\ UNCHANGED <<db, now, disk, pc, url, born, view, wire, quiet>>

(* Mutant: the keys found before the error are kept for the next run.      *)
CleanFailKeeping ==
    /\ clean.pc = "scan"
    /\ clean' = [clean EXCEPT !.pc = "idle"]
    /\ UNCHANGED <<db, now, cache, disk, pc, url, born, view, wire, quiet>>

(* Any exception: status "error", nothing deleted.                         *)
CleanFail ==
    /\ clean.pc = "scan"
    /\ clean' = Idle
    /\ UNCHANGED <<db, now, cache, disk, pc, url, born, view, wire, quiet>>

-----------------------------------------------------------------------------
Serve(r) == \/ LookupHit(r) \/ LookupMiss(r) \/ Query(r)
            \/ SendSet(r) \/ SkipSet(r) \/ Return(r)

Next ==
    \/ \E r \in Requests : Ask(r) \/ Serve(r) \/ Fail(r)
    \/ \E r \in Requests : ApplySet(r) \/ LoseSet(r)
    \/ Tick \/ RedisRestart
    \/ \E ks \in Writes : Commit(ks)
    \/ CleanStart \/ (\E k \in Keys : CleanScan(k)) \/ CleanDelete \/ CleanFail

Spec == Init /\ [][Next]_vars

(* Every await of the wrapper ends: Redis commands by socket_timeout, the  *)
(* query by a result or an error of the driver.  Nothing obliges Redis to  *)
(* process a command, the clock to pass or a writer to write.              *)
FairSpec == Spec /\ \A r \in Requests : WF_vars(Serve(r))

-----------------------------------------------------------------------------
Places == {"idle", "lookup", "query", "store", "sent",
           "hit", "answered", "failed"}

(* The values the state of the read path ranges over.                      *)
TypeOK ==
    /\ db \in [Keys -> Nat]
    /\ now \in Nat
    /\ cache \in [Keys -> Entry]
    /\ disk \in [Keys -> Entry]
    /\ pc \in [Requests -> Places]
    /\ url \in [Requests -> Keys]
    /\ born \in [Requests -> Nat]
    /\ view \in [Requests -> Nat]
    /\ wire \subseteq Requests
    /\ clean \in CleanRun
    /\ quiet \in [Keys -> Nat]

(* How stale a cached read can be, although no write invalidates and the   *)
(* SETEX of cache_set overwrites without looking: a stale entry is gone    *)
(* one TTL after the last moment a response computed before the change was *)
(* still on its way to Redis, whatever Redis restored from its file.       *)
StaleWindow == \A k \in Keys : Stale(k) => now < quiet[k] + Ttl[k]

(* An answer computed by the handler is at least as new as the data was    *)
(* when its request arrived, and a 404 for a meter, which is never cached, *)
(* is only given to a request that arrived before the meter was created.   *)
FreshOnMiss ==
    \A r \in Requests :
        /\ pc[r] = "answered" => view[r] >= born[r]
        /\ pc[r] = "hit" /\ url[r] \in DetailKeys => view[r] > 0

(* The clean that backfill and operators run after a change: once the DEL  *)
(* is done, a key that had no stale response in flight when the scan began *)
(* and was not changed since has no stale entry, whoever filled the cache  *)
(* while the scan ran.                                                     *)
CleanLeavesFresh ==
    [][CleanDelete => \A k \in clean.settled : ~Stale(k)']_vars

(* Fail open: a request is answered, or fails with the database or the     *)
(* process; it never waits for Redis to process its SETEX.                 *)
Answered ==
    \A r \in Requests : pc[r] = "lookup" ~> pc[r] \in {"hit", "answered", "failed"}
=============================================================================
