------------------------- MODULE RedisClientProofs -------------------------
(***************************************************************************)
(* Theorems about RedisClient, for any calls in any number of loops.       *)
(***************************************************************************)
EXTENDS RedisClient, TLAPS

(* A coroutine that pings has made the client of the process; whoever      *)
(* pings or sends runs in the loop that runs now.                          *)
PingInv == \A c \in Calls : pc[c] = "ping" =>
               /\ client = c /\ c \notin verified
               /\ LoopOf[c] = loop /\ ~closing
UseInv == \A c \in Calls : pc[c] = "use" =>
              /\ LoopOf[c] = loop /\ ~closing
              /\ LoopOf[ref[c]] = loop
              /\ conn[ref[c]] = "open"

(* The client of the process is open, of the loop, and has not failed; an  *)
(* open client is that of the process or has failed.                       *)
ClientInv == client # NoClient => /\ LoopOf[client] = loop
                                  /\ conn[client] = "open"
                                  /\ client \notin failed
OpenInv == \A c \in Calls :
               /\ conn[c] = "open" => client = c \/ c \in failed
               /\ c \in failed => conn[c] = "open" /\ pc[c] = "done"
PastInv == \A c \in verified : LoopOf[c] <= loop

(* The inductive invariant.                                                *)
IInv == /\ TypeOK /\ PingInv /\ UseInv /\ ClientInv /\ OpenInv /\ PastInv
        /\ VerifiedStays

-----------------------------------------------------------------------------
LEMMA InitIInv == Init => IInv
<1> SUFFICES ASSUME Init PROVE IInv
  OBVIOUS
<1>1. TypeOK
  BY DEF Init, TypeOK
<1>2. PingInv /\ UseInv /\ ClientInv /\ OpenInv /\ PastInv /\ VerifiedStays
  BY DEF Init, PingInv, UseInv, ClientInv, OpenInv, PastInv, VerifiedStays
<1> QED
  BY <1>1, <1>2 DEF IInv

LEMMA TypeStep == TypeOK /\ [Next]_vars => TypeOK'
<1> SUFFICES ASSUME TypeOK, [Next]_vars PROVE TypeOK'
  OBVIOUS
<1> USE NoClientAssumption DEF TypeOK
<1>1. ASSUME NEW c \in Calls, Reuse(c) PROVE TypeOK'
  BY <1>1 DEF Reuse, Return
<1>2. ASSUME NEW c \in Calls, Connect(c) PROVE TypeOK'
  BY <1>2 DEF Connect
<1>3. ASSUME NEW c \in Calls, Pong(c) PROVE TypeOK'
  BY <1>3 DEF Pong, Return
<1>4. ASSUME NEW c \in Calls, PingError(c) PROVE TypeOK'
  BY <1>4 DEF PingError, Return
<1>5. ASSUME NEW c \in Calls, Command(c) PROVE TypeOK'
  BY <1>5 DEF Command
<1>6. CASE CloseStart \/ CloseEnd
  <2>1. closing' \in BOOLEAN
    BY <1>6, Zenon DEF CloseStart, CloseEnd
  <2>2. loop' \in Nat
    BY <1>6 DEF CloseStart, CloseEnd
  <2>3. conn' \in [Calls -> {"unmade", "open", "closed"}]
    BY <1>6 DEF CloseStart, CloseEnd
  <2> QED
    BY <1>6, <2>1, <2>2, <2>3 DEF CloseStart, CloseEnd
<1>7. CASE Outage
  <2>1. reachable' \in BOOLEAN
    BY <1>7 DEF Outage
  <2> QED
    BY <1>7, <2>1 DEF Outage
<1>8. CASE UNCHANGED vars
  BY <1>8 DEF vars
<1> QED
  BY <1>1, <1>2, <1>3, <1>4, <1>5, <1>6, <1>7, <1>8 DEF Next

LEMMA IInvStep == IInv /\ [Next]_vars => IInv'
<1> SUFFICES ASSUME IInv, [Next]_vars PROVE IInv'
  OBVIOUS
<1> DEFINE Rest == PingInv /\ UseInv /\ ClientInv /\ OpenInv /\ PastInv
                   /\ VerifiedStays
<1> USE NoClientAssumption, CallsAssumption
    DEF IInv, TypeOK, PingInv, UseInv, ClientInv, OpenInv, PastInv,
        VerifiedStays
<1>1. ASSUME NEW c \in Calls, Reuse(c) PROVE Rest'
  BY <1>1 DEF Reuse, Return, Runs
(* Connect finds no client, so nobody pings and nothing is open.           *)
<1>2. ASSUME NEW c \in Calls, Connect(c) PROVE Rest'
  BY <1>2 DEF Connect, Runs
<1>3. ASSUME NEW c \in Calls, Pong(c) PROVE Rest'
  BY <1>3 DEF Pong, Return
<1>4. ASSUME NEW c \in Calls, PingError(c) PROVE Rest'
  BY <1>4 DEF PingError, Return
<1>5. ASSUME NEW c \in Calls, Command(c) PROVE Rest'
  BY <1>5 DEF Command
<1>6. ASSUME CloseStart PROVE Rest'
  BY <1>6 DEF CloseStart
<1>7. ASSUME CloseEnd PROVE Rest'
  <2>1. \A c \in Calls : pc'[c] \notin {"ping", "use"}
    BY <1>7 DEF CloseEnd
  <2>2. (PingInv /\ UseInv)'
    BY <2>1
  <2>3. (ClientInv /\ OpenInv)'
    BY <1>7 DEF CloseEnd
  <2>4. PastInv'
    BY <1>7 DEF CloseEnd
  <2>5. VerifiedStays'
    BY <1>7 DEF CloseEnd
  <2> QED
    BY <2>2, <2>3, <2>4, <2>5
<1>8. ASSUME Outage PROVE Rest'
  BY <1>8 DEF Outage
<1>9. ASSUME UNCHANGED vars PROVE Rest'
  BY <1>9 DEF vars
<1>10. TypeOK'
  BY TypeStep
<1> QED
  BY <1>1, <1>2, <1>3, <1>4, <1>5, <1>6, <1>7, <1>8, <1>9, <1>10 DEF Next

LEMMA Invariance == Spec => []IInv
  BY InitIInv, IInvStep, PTL DEF Spec

-----------------------------------------------------------------------------
(* The state of the client keeps its type, and callers keep no client.     *)
THEOREM TypeCorrect == Spec => []TypeOK
<1>1. IInv => TypeOK
  BY DEF IInv
<1> QED
  BY Invariance, <1>1, PTL

(* get_redis never hands a client of an ended event loop to a coroutine.   *)
THEOREM ClientOfOwnLoop == Spec => []OwnLoop
<1>1. IInv => OwnLoop
  BY DEF IInv, UseInv, OwnLoop
<1> QED
  BY Invariance, <1>1, PTL

(* The client that has answered a ping is the process's one client until   *)
(* close_redis, whichever coroutines fail meanwhile.                       *)
THEOREM OneVerifiedClient == Spec => []VerifiedStays
<1>1. IInv => VerifiedStays
  BY DEF IInv
<1> QED
  BY Invariance, <1>1, PTL

(* A client outlives its loop unclosed exactly when its own first ping     *)
(* failed, whoever else was using it.                                      *)
THEOREM FailedPingsStayOpen == Spec => []OnlyFailedStayOpen
<1>1. IInv => OnlyFailedStayOpen
  BY CallsAssumption, NoClientAssumption
  DEF IInv, TypeOK, ClientInv, OpenInv, OnlyFailedStayOpen
<1> QED
  BY Invariance, <1>1, PTL
=============================================================================
