------------------------ MODULE ResponseCacheProofs ------------------------
(***************************************************************************)
(* Theorems about ResponseCache, for any set of requests and keys, any     *)
(* TTLs and any bounds.                                                    *)
(***************************************************************************)
EXTENDS ResponseCache, TLAPS

(* A request whose SETEX is out has left the store, and keeps its view.    *)
Posted == \A r \in wire : pc[r] \in {"sent", "answered", "failed"}

(* No entry, in memory or in the file, outlives its TTL; a stale one       *)
(* expires one TTL after the quiet time of its key; and while a stale      *)
(* response is on its way, the quiet time is now.                          *)
InTtl(m) == \A k \in Keys : m[k].exp <= now + Ttl[k]
InWindow(m) == \A k \in Keys :
                   m[k].ver < db[k] => m[k].exp <= quiet[k] + Ttl[k]
HolderQuiet == \A k \in Keys : StaleHolder(k) => quiet[k] = now
QuietPast == \A k \in Keys : quiet[k] <= now

WindowInv == /\ InTtl(cache) /\ InTtl(disk)
             /\ InWindow(cache) /\ InWindow(disk)
             /\ HolderQuiet /\ QuietPast

(* What has been read is no older than the arrival of its request, and no  *)
(* 404 is on its way to the cache or in it.                                *)
ReadInv == \A r \in Requests :
               /\ born[r] <= db[url[r]]
               /\ pc[r] \in {"store", "sent", "answered"} => view[r] >= born[r]
               /\ Holding(r) /\ url[r] \in DetailKeys => view[r] > 0
               /\ pc[r] = "hit" /\ url[r] \in DetailKeys => view[r] > 0
NoCached404(m) == \A k \in DetailKeys : m[k].exp > 0 => m[k].ver > 0
FreshInv == ReadInv /\ NoCached404(cache) /\ NoCached404(disk)

(* During a scan a settled key can only be stale through an entry that was *)
(* there when the scan began.                                              *)
ScanInv == \A k \in clean.settled :
               ~StaleHolder(k) /\ (Stale(k) => k \in clean.must)

(* The inductive invariant.                                                *)
IInv == TypeOK /\ Posted /\ WindowInv /\ FreshInv /\ ScanInv

-----------------------------------------------------------------------------
LEMMA InitIInv == Init => IInv
<1> SUFFICES ASSUME Init PROVE IInv
  OBVIOUS
<1> USE CacheAssumption
<1>1. TypeOK
  BY DEF Init, TypeOK, NoEntry, Entry, Idle, CleanRun, Places
<1>2. Posted /\ ScanInv
  BY DEF Init, Posted, ScanInv, Idle
<1>3. WindowInv
  BY DEF Init, WindowInv, InTtl, InWindow, HolderQuiet, QuietPast,
         StaleHolder, Holding, NoEntry
<1>4. FreshInv
  BY DEF Init, FreshInv, ReadInv, NoCached404, Holding, NoEntry
<1> QED
  BY <1>1, <1>2, <1>3, <1>4 DEF IInv

(* The run of a clean narrows to subsets of what it had.                   *)
LEMMA CleanNarrows ==
  ASSUME NEW run \in CleanRun, NEW must \in SUBSET run.must,
         NEW settled \in SUBSET run.settled
  PROVE  /\ [run EXCEPT !.must = must] \in CleanRun
         /\ [run EXCEPT !.settled = settled] \in CleanRun
<1>1. CASE run = Idle
  <2>1. must = {} /\ settled = {}
    BY <1>1 DEF Idle
  <2> QED
    BY <1>1, <2>1 DEF Idle, CleanRun
<1>2. CASE run # Idle
  BY <1>2 DEF CleanRun
<1> QED
  BY <1>1, <1>2

(* Outside a scan nothing is found, owed or settled.                       *)
LEMMA CleanShape ==
  ASSUME NEW run \in CleanRun
  PROVE  /\ run \in [pc : {"idle", "scan"}, found : SUBSET Keys,
                      must : SUBSET Keys, settled : SUBSET Keys]
         /\ run.pc = "scan" =>
                run \in [pc : {"scan"}, found : SUBSET Keys,
                         must : SUBSET Keys, settled : SUBSET Keys]
  BY DEF Idle, CleanRun

(* The types of the read path are preserved by every action.               *)
LEMMA TypeStep == TypeOK /\ [Next]_vars => TypeOK'
<1> SUFFICES ASSUME TypeOK, [Next]_vars PROVE TypeOK'
  OBVIOUS
<1> USE CacheAssumption DEF TypeOK
<1>1. ASSUME NEW r \in Requests, Ask(r) PROVE TypeOK'
  BY <1>1 DEF Ask, Go, Places
<1>2. ASSUME NEW r \in Requests, LookupHit(r) PROVE TypeOK'
  BY <1>2 DEF LookupHit, Go, Places, Entry
<1>3. ASSUME NEW r \in Requests, LookupMiss(r) PROVE TypeOK'
  BY <1>3 DEF LookupMiss, Go, Places
<1>4. ASSUME NEW r \in Requests, Query(r) PROVE TypeOK'
  BY <1>4 DEF Query, Go, Places
<1>5. ASSUME NEW r \in Requests, SendSet(r) PROVE TypeOK'
  BY <1>5 DEF SendSet, Go, Places
<1>6. ASSUME NEW r \in Requests, SkipSet(r) \/ Return(r) \/ Fail(r)
      PROVE TypeOK'
  BY <1>6 DEF SkipSet, Return, Fail, Go, Places
<1>7. ASSUME NEW r \in Requests, ApplySet(r) PROVE TypeOK'
  <2>1. [ver |-> view[r], exp |-> now + Ttl[url[r]]] \in Entry
    BY DEF Entry
  <2> QED
    BY <1>7, <2>1 DEF ApplySet
<1>8. ASSUME NEW r \in Requests, LoseSet(r) PROVE TypeOK'
  BY <1>8 DEF LoseSet
<1>9. CASE Tick
  <2>1. clean' \in CleanRun
    BY <1>9, CleanNarrows DEF Tick
  <2> QED
    BY <1>9, <2>1 DEF Tick
<1>10. CASE RedisRestart
  <2>1. cache' \in [Keys -> Entry]
    BY <1>10 DEF RedisRestart
  <2> QED
    BY <1>10, <2>1 DEF RedisRestart, Idle, CleanRun
<1>11. ASSUME NEW ks \in Writes, Commit(ks) PROVE TypeOK'
  <2>1. clean' \in CleanRun
    BY <1>11, CleanNarrows DEF Commit
  <2> QED
    BY <1>11, <2>1 DEF Commit
<1>12. CASE CleanStart \/ CleanFail
  BY <1>12 DEF CleanStart, CleanFail, Idle, CleanRun
<1>13. ASSUME NEW k \in Keys, CleanScan(k) PROVE TypeOK'
  BY <1>13, CleanShape DEF CleanScan, CleanRun
<1>14. CASE CleanDelete
  BY <1>14 DEF CleanDelete, Idle, CleanRun, NoEntry, Entry
<1>15. CASE UNCHANGED vars
  BY <1>15 DEF vars
<1> QED
  BY <1>1, <1>2, <1>3, <1>4, <1>5, <1>6, <1>7, <1>8, <1>9, <1>10, <1>11,
     <1>12, <1>13, <1>14, <1>15 DEF Next, Serve

LEMMA PostedStep == TypeOK /\ Posted /\ [Next]_vars => Posted'
<1> SUFFICES ASSUME TypeOK, Posted, [Next]_vars PROVE Posted'
  OBVIOUS
<1> USE DEF TypeOK, Posted
<1>1. ASSUME NEW r \in Requests, Ask(r) \/ LookupHit(r) \/ LookupMiss(r)
             \/ Query(r) \/ SendSet(r) \/ SkipSet(r) \/ Return(r) \/ Fail(r)
      PROVE Posted'
  BY <1>1 DEF Ask, LookupHit, LookupMiss, Query, SendSet, SkipSet, Return,
              Fail, Go
<1>2. ASSUME NEW r \in Requests, ApplySet(r) \/ LoseSet(r) PROVE Posted'
  BY <1>2 DEF ApplySet, LoseSet
<1>3. CASE Tick \/ RedisRestart \/ (\E ks \in Writes : Commit(ks))
  BY <1>3 DEF Tick, RedisRestart, Commit
<1>4. CASE CleanStart \/ (\E k \in Keys : CleanScan(k)) \/ CleanDelete
           \/ CleanFail
  BY <1>4 DEF CleanStart, CleanScan, CleanDelete, CleanFail
<1>5. CASE UNCHANGED vars
  BY <1>5 DEF vars
<1> QED
  BY <1>1, <1>2, <1>3, <1>4, <1>5 DEF Next, Serve

(* Only a commit makes a response on its way stale, and no other step of   *)
(* the API brings a new stale holder: Query reads the current version.     *)
LEMMA HolderStep ==
  ASSUME TypeOK, Posted, [Next]_vars, NEW k \in Keys, StaleHolder(k)',
         db'[k] = db[k]
  PROVE  StaleHolder(k)
<1> USE DEF TypeOK, Posted
<1> PICK h \in Requests : Holding(h)' /\ url'[h] = k /\ view'[h] < db'[k]
  BY DEF StaleHolder
<1> SUFFICES Holding(h) /\ url[h] = k /\ view[h] < db[k]
  BY DEF StaleHolder
<1>1. ASSUME NEW r \in Requests, Ask(r) \/ LookupHit(r) \/ LookupMiss(r)
             \/ SendSet(r) \/ SkipSet(r) \/ Return(r) \/ Fail(r)
      PROVE Holding(h) /\ url[h] = k /\ view[h] < db[k]
  BY <1>1 DEF Ask, LookupHit, LookupMiss, SendSet, SkipSet, Return, Fail, Go,
              Holding
<1>2. ASSUME NEW r \in Requests, Query(r)
      PROVE Holding(h) /\ url[h] = k /\ view[h] < db[k]
  BY <1>2 DEF Query, Go, Holding
<1>3. ASSUME NEW r \in Requests, ApplySet(r) \/ LoseSet(r)
      PROVE Holding(h) /\ url[h] = k /\ view[h] < db[k]
  BY <1>3 DEF ApplySet, LoseSet, Holding
<1>4. CASE Tick \/ RedisRestart \/ (\E ks \in Writes : Commit(ks))
  BY <1>4 DEF Tick, RedisRestart, Commit, Holding
<1>5. CASE CleanStart \/ (\E c \in Keys : CleanScan(c)) \/ CleanDelete
           \/ CleanFail
  BY <1>5 DEF CleanStart, CleanScan, CleanDelete, CleanFail, Holding
<1>6. CASE UNCHANGED vars
  BY <1>6 DEF vars, Holding
<1> QED
  BY <1>1, <1>2, <1>3, <1>4, <1>5, <1>6 DEF Next, Serve

LEMMA WindowStep ==
  TypeOK /\ Posted /\ WindowInv /\ [Next]_vars => WindowInv'
<1> SUFFICES ASSUME TypeOK, Posted, WindowInv, [Next]_vars PROVE WindowInv'
  OBVIOUS
<1> USE CacheAssumption DEF TypeOK, InTtl, InWindow, QuietPast
<1>0. ASSUME UNCHANGED <<db, now, quiet>>
      PROVE HolderQuiet' /\ QuietPast'
  BY <1>0, HolderStep DEF WindowInv, HolderQuiet
<1>1. ASSUME UNCHANGED <<db, now, cache, disk, quiet>>
      PROVE WindowInv'
  BY <1>0, <1>1 DEF WindowInv
<1>2. ASSUME NEW r \in Requests, ApplySet(r) PROVE WindowInv'
  <2> DEFINE k == url[r]
  <2>1. /\ UNCHANGED <<db, now, disk, quiet>>
        /\ \A c \in Keys : c # k => cache'[c] = cache[c]
        /\ cache'[k].ver = view[r] /\ cache'[k].exp = now + Ttl[k]
    BY <1>2 DEF ApplySet
  <2>2. view[r] < db[k] => quiet[k] = now
    BY <1>2 DEF ApplySet, WindowInv, HolderQuiet, StaleHolder, Holding
  <2>3. ASSUME NEW c \in Keys
        PROVE  /\ cache'[c].exp <= now' + Ttl[c]
               /\ cache'[c].ver < db'[c] => cache'[c].exp <= quiet'[c] + Ttl[c]
    <3>1. CASE c = k
      BY <2>1, <2>2, <3>1
    <3>2. CASE c # k
      BY <2>1, <3>2 DEF WindowInv
    <3> QED
      BY <3>1, <3>2
  <2> QED
    BY <1>0, <2>1, <2>3 DEF WindowInv
<1>3. CASE Tick
  <2>1. InTtl(cache)' /\ InTtl(disk)' /\ QuietPast'
    BY <1>3 DEF Tick, WindowInv, Entry
  <2>2. \A k \in Keys : quiet[k] <= quiet'[k]
    BY <1>3 DEF Tick, WindowInv
  <2>3. InWindow(cache)' /\ InWindow(disk)'
    BY <1>3, <2>2 DEF Tick, WindowInv, Entry
  <2>4. HolderQuiet'
    BY <1>3, HolderStep DEF Tick, HolderQuiet
  <2> QED
    BY <2>1, <2>3, <2>4 DEF WindowInv
<1>4. CASE RedisRestart
  <2>1. /\ UNCHANGED <<db, now, disk, quiet>>
        /\ \A k \in Keys : cache'[k] \in {cache[k], disk[k]}
    BY <1>4 DEF RedisRestart
  <2> QED
    BY <1>0, <2>1 DEF WindowInv
<1>5. ASSUME NEW ks \in Writes, Commit(ks) PROVE WindowInv'
  <2>1. InTtl(cache)' /\ InTtl(disk)' /\ QuietPast'
    BY <1>5 DEF Commit, WindowInv
  <2>2. InWindow(cache)' /\ InWindow(disk)'
    BY <1>5 DEF Commit, WindowInv, InTtl
  <2>3. ASSUME NEW k \in Keys, StaleHolder(k)' PROVE quiet'[k] = now'
    <3>1. CASE k \in ks
      BY <1>5, <3>1 DEF Commit
    <3>2. CASE k \notin ks
      BY <1>5, <2>3, <3>2, HolderStep DEF Commit, WindowInv, HolderQuiet
    <3> QED
      BY <3>1, <3>2
  <2> QED
    BY <2>1, <2>2, <2>3 DEF WindowInv, HolderQuiet
<1>6. CASE CleanDelete
  <2>1. /\ UNCHANGED <<db, now, disk, quiet>>
        /\ \A k \in Keys : cache'[k] \in {cache[k], NoEntry}
    BY <1>6 DEF CleanDelete
  <2> QED
    BY <1>0, <2>1 DEF WindowInv, NoEntry
<1>7. ASSUME NEW r \in Requests,
             Ask(r) \/ LookupHit(r) \/ LookupMiss(r) \/ Query(r) \/ SendSet(r)
             \/ SkipSet(r) \/ Return(r) \/ Fail(r) \/ LoseSet(r)
      PROVE WindowInv'
  BY <1>1, <1>7 DEF Ask, LookupHit, LookupMiss, Query, SendSet, SkipSet,
                    Return, Fail, LoseSet
<1>8. CASE CleanStart \/ (\E k \in Keys : CleanScan(k)) \/ CleanFail
           \/ UNCHANGED vars
  BY <1>1, <1>8 DEF CleanStart, CleanScan, CleanFail, vars
<1> QED
  BY <1>2, <1>3, <1>4, <1>5, <1>6, <1>7, <1>8 DEF Next, Serve

LEMMA FreshStep == TypeOK /\ Posted /\ FreshInv /\ [Next]_vars => FreshInv'
<1> SUFFICES ASSUME TypeOK, Posted, FreshInv, [Next]_vars PROVE FreshInv'
  OBVIOUS
<1> USE CacheAssumption DEF TypeOK, Posted, FreshInv, ReadInv, NoCached404
<1>1. ASSUME NEW r \in Requests, Ask(r) PROVE FreshInv'
  BY <1>1 DEF Ask, Go, Holding
<1>2. ASSUME NEW r \in Requests, LookupHit(r) PROVE FreshInv'
  BY <1>2 DEF LookupHit, Live, LiveAt, Go, Holding, Entry
<1>3. ASSUME NEW r \in Requests, Query(r) PROVE FreshInv'
  BY <1>3 DEF Query, NotFound, Go, Holding
<1>4. ASSUME NEW r \in Requests,
             LookupMiss(r) \/ SendSet(r) \/ SkipSet(r) \/ Return(r) \/ Fail(r)
             \/ LoseSet(r)
      PROVE FreshInv'
  BY <1>4 DEF LookupMiss, SendSet, SkipSet, Return, Fail, LoseSet, Go, Holding
<1>5. ASSUME NEW r \in Requests, ApplySet(r) PROVE FreshInv'
  <2>1. ReadInv' /\ NoCached404(disk)'
    BY <1>5 DEF ApplySet, Holding
  <2>2. ASSUME NEW k \in DetailKeys, cache'[k].exp > 0 PROVE cache'[k].ver > 0
    <3>1. CASE k = url[r]
      BY <1>5, <3>1 DEF ApplySet, Holding
    <3>2. CASE k # url[r]
      BY <1>5, <2>2, <3>2 DEF ApplySet
    <3> QED
      BY <3>1, <3>2
  <2> QED
    BY <2>1, <2>2
<1>6. CASE Tick
  BY <1>6 DEF Tick, Holding
<1>7. CASE RedisRestart
  <2>1. ReadInv' /\ NoCached404(disk)'
    BY <1>7 DEF RedisRestart, Holding
  <2>2. \A k \in Keys : cache'[k] \in {cache[k], disk[k]}
    BY <1>7 DEF RedisRestart
  <2> QED
    BY <2>1, <2>2
<1>8. ASSUME NEW ks \in Writes, Commit(ks) PROVE FreshInv'
  BY <1>8 DEF Commit, Holding
<1>9. CASE CleanDelete
  <2>1. ReadInv' /\ NoCached404(disk)'
    BY <1>9 DEF CleanDelete, Holding
  <2>2. \A k \in Keys : cache'[k] \in {cache[k], NoEntry}
    BY <1>9 DEF CleanDelete
  <2> QED
    BY <2>1, <2>2 DEF NoEntry
<1>10. CASE CleanStart \/ (\E k \in Keys : CleanScan(k)) \/ CleanFail
            \/ UNCHANGED vars
  BY <1>10 DEF CleanStart, CleanScan, CleanFail, vars, Holding
<1> QED
  BY <1>1, <1>2, <1>3, <1>4, <1>5, <1>6, <1>7, <1>8, <1>9, <1>10
  DEF Next, Serve

LEMMA ScanStep == TypeOK /\ Posted /\ ScanInv /\ [Next]_vars => ScanInv'
<1> SUFFICES ASSUME TypeOK, Posted, ScanInv, [Next]_vars,
                    NEW k \in clean'.settled
             PROVE  ~StaleHolder(k)' /\ (Stale(k)' => k \in clean'.must)
  BY DEF ScanInv
<1> USE DEF TypeOK
<1>1. CASE CleanStart
  <2>1. k \in Keys /\ ~StaleHolder(k)
    BY <1>1 DEF CleanStart
  <2>2. UNCHANGED <<db, now, cache, disk, pc, url, view, wire>>
    BY <1>1 DEF CleanStart
  <2>3. Stale(k)' => k \in clean'.must
    BY <1>1, <2>1, <2>2 DEF CleanStart, Stale, Live, LiveAt
  <2> QED
    BY <2>1, <2>2, <2>3 DEF StaleHolder, Holding
<1>2. CASE CleanDelete \/ CleanFail \/ RedisRestart
  BY <1>2 DEF CleanDelete, CleanFail, RedisRestart, Idle
<1>3. ASSUME k \in clean.settled, db'[k] = db[k],
             k \in clean.must /\ Stale(k)' => k \in clean'.must,
             Stale(k)' => Stale(k) \/ k \in clean.must
      PROVE  ~StaleHolder(k)' /\ (Stale(k)' => k \in clean'.must)
  <2>1. k \in Keys
    BY <1>3, CleanShape
  <2> QED
    BY <1>3, <2>1, HolderStep DEF ScanInv
<1>4. ASSUME NEW r \in Requests, ApplySet(r)
      PROVE  ~StaleHolder(k)' /\ (Stale(k)' => k \in clean'.must)
  <2>1. k \in clean.settled /\ k \in Keys /\ UNCHANGED <<db, now, clean>>
    BY <1>4, CleanShape DEF ApplySet
  <2>2. CASE k = url[r]
    <3>1. ~(view[r] < db[k])
      BY <1>4, <2>1, <2>2 DEF ApplySet, ScanInv, StaleHolder, Holding
    <3>2. ~Stale(k)'
      BY <1>4, <2>1, <2>2, <3>1 DEF ApplySet, Stale, Live, LiveAt
    <3> QED
      BY <1>3, <2>1, <3>2
  <2>3. CASE k # url[r]
    BY <1>3, <1>4, <2>1, <2>3 DEF ApplySet, Stale, Live, LiveAt
  <2> QED
    BY <2>2, <2>3
<1>5. CASE Tick
  <2>1. k \in clean.settled /\ k \in Keys /\ UNCHANGED <<db, cache>>
    BY <1>5, CleanShape DEF Tick
  <2>2. now' = now + 1 /\ cache[k].exp \in Nat
    BY <1>5, <2>1 DEF Tick, Entry
  <2>3. Stale(k)' => Stale(k) /\ LiveAt(k, now + 1)
    BY <2>1, <2>2 DEF Stale, Live, LiveAt
  <2>4. k \in clean.must /\ LiveAt(k, now + 1) => k \in clean'.must
    BY <1>5, CleanShape DEF Tick
  <2> QED
    BY <1>3, <2>1, <2>3, <2>4
<1>6. ASSUME NEW ks \in Writes, Commit(ks)
      PROVE  ~StaleHolder(k)' /\ (Stale(k)' => k \in clean'.must)
  <2>1. /\ k \in clean.settled /\ k \notin ks /\ k \in Keys
        /\ clean'.must = clean.must
    BY <1>6, CleanShape DEF Commit
  <2>2. db'[k] = db[k] /\ UNCHANGED <<cache, now>>
    BY <1>6, <2>1 DEF Commit
  <2> QED
    BY <1>3, <2>1, <2>2 DEF Stale, Live, LiveAt
<1>7. ASSUME NEW c \in Keys, CleanScan(c)
      PROVE  ~StaleHolder(k)' /\ (Stale(k)' => k \in clean'.must)
  <2>1. /\ k \in clean.settled /\ clean'.must = clean.must
        /\ UNCHANGED <<db, cache, now>>
    BY <1>7, CleanShape DEF CleanScan
  <2> QED
    BY <1>3, <2>1 DEF Stale, Live, LiveAt
<1>8. ASSUME UNCHANGED <<clean, db, cache, now>>
      PROVE  ~StaleHolder(k)' /\ (Stale(k)' => k \in clean'.must)
  BY <1>3, <1>8 DEF Stale, Live, LiveAt
<1>9. ASSUME NEW r \in Requests,
             Ask(r) \/ LookupHit(r) \/ LookupMiss(r) \/ Query(r) \/ SendSet(r)
             \/ SkipSet(r) \/ Return(r) \/ Fail(r) \/ LoseSet(r)
      PROVE  ~StaleHolder(k)' /\ (Stale(k)' => k \in clean'.must)
  BY <1>8, <1>9 DEF Ask, LookupHit, LookupMiss, Query, SendSet, SkipSet,
                    Return, Fail, LoseSet
<1>10. CASE UNCHANGED vars
  BY <1>8, <1>10 DEF vars
<1> QED
  BY <1>1, <1>2, <1>4, <1>5, <1>6, <1>7, <1>9, <1>10 DEF Next, Serve

-----------------------------------------------------------------------------
LEMMA Invariance == Spec => []IInv
<1>1. IInv /\ [Next]_vars => IInv'
  BY TypeStep, PostedStep, WindowStep, FreshStep, ScanStep DEF IInv
<1> QED
  BY InitIInv, <1>1, PTL DEF Spec

(* Every variable of the read path keeps its type.                         *)
THEOREM TypeCorrect == Spec => []TypeOK
<1>1. IInv => TypeOK
  BY DEF IInv
<1> QED
  BY Invariance, <1>1, PTL

(* Bounded staleness: cache_response never serves data for longer than one *)
(* TTL after the last moment a response from before the change was on its  *)
(* way to Redis.                                                           *)
THEOREM StalenessBound == Spec => []StaleWindow
<1>1. IInv => StaleWindow
  BY CacheAssumption
  DEF IInv, TypeOK, WindowInv, InWindow, StaleWindow, Stale, Live, LiveAt, Entry
<1> QED
  BY Invariance, <1>1, PTL

(* Answers of the handlers are as new as their requests, and no 404 is     *)
(* ever cached.                                                            *)
THEOREM MissesAreFresh == Spec => []FreshOnMiss
<1>1. IInv => FreshOnMiss
  BY DEF IInv, FreshInv, ReadInv, FreshOnMiss
<1> QED
  BY Invariance, <1>1, PTL

(* clean_stale_cache leaves nothing stale behind for a settled key.        *)
THEOREM CleanIsComplete == Spec => CleanLeavesFresh
<1>1. IInv /\ CleanDelete => \A k \in clean.settled : ~Stale(k)'
  <2> SUFFICES ASSUME IInv, CleanDelete, NEW k \in clean.settled, Stale(k)'
               PROVE  FALSE
    OBVIOUS
  <2>1. k \in Keys /\ now \in Nat
    BY CleanShape DEF IInv, TypeOK
  <2>2. CASE k \in clean.found
    BY <2>1, <2>2 DEF CleanDelete, Stale, Live, LiveAt, NoEntry
  <2>3. CASE k \notin clean.found
    <3>1. Stale(k)
      BY <2>1, <2>3 DEF CleanDelete, Stale, Live, LiveAt
    <3> QED
      BY <2>3, <3>1 DEF IInv, ScanInv, CleanDelete
  <2> QED
    BY <2>2, <2>3
<1>2. IInv /\ [Next]_vars
      => [CleanDelete => \A k \in clean.settled : ~Stale(k)']_vars
  BY <1>1
<1> QED
  BY Invariance, <1>2, PTL DEF Spec, CleanLeavesFresh
=============================================================================
