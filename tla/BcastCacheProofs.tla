-------------------------- MODULE BcastCacheProofs --------------------------
(***************************************************************************)
(* No request is processed twice, and ids are forgotten in time: for any   *)
(* requests, any period and any delay of copies below it.                  *)
(***************************************************************************)
EXTENDS BcastCache, TLAPS

-----------------------------------------------------------------------------
(* Types.                                                                    *)

LEMMA TypeInit == Init => TypeOK
BY CacheAssumption DEF Init, TypeOK, Off, Gone

\* An id that has been heard a tick earlier is still a BroadcastID.
LEMMA LaterType ==
  ASSUME NEW b \in BroadcastID
  PROVE  Later(b) \in BroadcastID /\ Later(b).req = b.req
BY CacheAssumption DEF BroadcastID, Later

LEMMA TypeStep == TypeOK /\ [Next]_vars => TypeOK'
<1> SUFFICES ASSUME TypeOK, [Next]_vars PROVE TypeOK'
  OBVIOUS
<1> USE CacheAssumption
<1>1. CASE Start
  BY <1>1 DEF Start, TypeOK, Off
<1>2. CASE \E r \in Request : SendRequest(r)
  BY <1>2 DEF SendRequest, TypeOK, Gone
<1>3. ASSUME NEW r \in Request, RecvRequest(r) PROVE TypeOK'
  <2>1. bihead' \subseteq BroadcastID
    BY <1>3 DEF RecvRequest, id_insert, TypeOK, BroadcastID
  <2> QED
    BY <1>3, <2>1 DEF RecvRequest, TypeOK
<1>4. CASE id_purge
  BY <1>4 DEF id_purge, TypeOK
<1>5. CASE Tick
  <2>1. bihead' \subseteq BroadcastID
    BY <1>5, LaterType DEF Tick, TypeOK
  <2>2. due' \in {Off} \cup 0 .. BCAST_ID_SAVE
    BY <1>5 DEF Tick, TypeOK, Off
  <2>3. age' \in [Request -> 0 .. Gone]
    BY <1>5 DEF Tick, TypeOK, Gone
  <2> QED
    BY <1>5, <2>1, <2>2, <2>3 DEF Tick, TypeOK
<1>6. CASE UNCHANGED vars
  BY <1>6 DEF vars, TypeOK
<1> QED
  BY <1>1, <1>2, <1>3, <1>4, <1>5, <1>6 DEF Next

\* Every variable keeps its type: Start, SendRequest, RecvRequest, id_purge.
THEOREM CacheTypes == Spec => []TypeOK
BY TypeInit, TypeStep, PTL DEF Spec

-----------------------------------------------------------------------------
(* Ids are forgotten in time.  Until the timer runs, an id loses no time;    *)
(* after that it is purged at the first firing that finds it expired.        *)

InTime ==
  \A b \in bihead : b.expire > IF due = Off THEN 0 ELSE due - BCAST_ID_SAVE

LEMMA InTimeStep == TypeOK /\ InTime /\ [Next]_vars => InTime'
<1> SUFFICES ASSUME TypeOK, InTime, [Next]_vars PROVE InTime'
  OBVIOUS
<1> USE CacheAssumption DEF Off
<1>1. CASE Start
  <2> SUFFICES ASSUME NEW b \in bihead PROVE b.expire > 0 - BCAST_ID_SAVE
    BY <1>1 DEF Start, InTime
  <2>1. b.expire > 0 /\ b \in BroadcastID
    BY <1>1 DEF Start, InTime, TypeOK
  <2> QED
    BY <2>1 DEF BroadcastID
<1>2. CASE \E r \in Request : SendRequest(r)
  BY <1>2 DEF SendRequest, InTime
<1>3. CASE \E r \in Request : RecvRequest(r)
  BY <1>3 DEF RecvRequest, id_insert, InTime, TypeOK
<1>4. CASE id_purge
  <2> SUFFICES ASSUME NEW b \in bihead' PROVE b.expire > 0
    BY <1>4 DEF id_purge, InTime
  <2>1. b \in BroadcastID /\ ~Expired(b)
    BY <1>4 DEF id_purge, TypeOK
  <2> QED
    BY <2>1 DEF Expired, BroadcastID
<1>5. CASE Tick
  BY <1>5 DEF Tick, Later, TypeOK, InTime, BroadcastID
<1>6. CASE UNCHANGED vars
  BY <1>6 DEF vars, InTime
<1> QED
  BY <1>1, <1>2, <1>3, <1>4, <1>5, <1>6 DEF Next

LEMMA InTimeForgotten == TypeOK /\ InTime => ForgottenInTime
BY CacheAssumption DEF TypeOK, InTime, ForgottenInTime, BroadcastID, Off

\* No id outlives the period after the one in which it expires: id_purge.
THEOREM IdsForgottenInTime == Spec => []ForgottenInTime
<1>1. Init => InTime
  BY DEF Init, InTime
<1> QED
  BY <1>1, TypeInit, TypeStep, InTimeStep, InTimeForgotten, PTL DEF Spec

-----------------------------------------------------------------------------
(* Requests are processed once.  While copies of a processed request travel, *)
(* its id is known for at least the rest of the time since it was sent.      *)

KnownLongEnough(r) ==
  \E b \in bihead : b.req = r /\ b.expire >= BCAST_ID_SAVE - age[r]

Once ==
  \A r \in Request :
    /\ seen[r] <= 1
    /\ seen[r] = 1 /\ age[r] # Gone => KnownLongEnough(r)

LEMMA OnceTick ==
  ASSUME MaxDelay < BCAST_ID_SAVE, TypeOK, Once, Tick
  PROVE  Once'
<1> USE CacheAssumption
<1> SUFFICES ASSUME NEW r \in Request, seen'[r] = 1, age'[r] # Gone
             PROVE  KnownLongEnough(r)'
  BY DEF Once, Tick
<1>1. age[r] # Gone /\ age[r] \in 0 .. Gone /\ age'[r] = age[r] + 1
  BY DEF Tick, TypeOK
<1>2. PICK b \in bihead : b.req = r /\ b.expire >= BCAST_ID_SAVE - age[r]
  BY <1>1 DEF Once, Tick, KnownLongEnough
<1>3. b \in BroadcastID /\ b.expire > 0
  BY <1>1, <1>2 DEF TypeOK, BroadcastID, Gone
<1>4. Later(b) \in bihead' /\ Later(b).req = r
  BY <1>2, <1>3, LaterType DEF Tick
<1>5. Later(b).expire = b.expire - 1
  BY <1>3 DEF Later, BroadcastID
<1>6. Later(b).expire >= BCAST_ID_SAVE - age'[r]
  BY <1>1, <1>2, <1>3, <1>5 DEF BroadcastID
<1> QED
  BY <1>4, <1>6 DEF KnownLongEnough

LEMMA OnceStep ==
  ASSUME MaxDelay < BCAST_ID_SAVE, TypeOK, Once, [Next]_vars
  PROVE  Once'
<1> USE CacheAssumption
<1>1. CASE Start
  BY <1>1 DEF Start, Once, KnownLongEnough
<1>2. ASSUME NEW s \in Request, SendRequest(s) PROVE Once'
  BY <1>2 DEF SendRequest, Once, KnownLongEnough, TypeOK
<1>3. ASSUME NEW s \in Request, RecvRequest(s) PROVE Once'
  <2>1. seen[s] = 0
    BY <1>3 DEF RecvRequest, Once, KnownLongEnough, id_lookup, TypeOK
  <2>2. seen' = [seen EXCEPT ![s] = 1] /\ age' = age /\ age[s] \in Nat
    BY <1>3, <2>1 DEF RecvRequest, TypeOK
  <2>3. [req |-> s, expire |-> BCAST_ID_SAVE] \in bihead' /\ bihead \subseteq bihead'
    BY <1>3 DEF RecvRequest, id_insert
  <2>4. KnownLongEnough(s)'
    BY <2>2, <2>3 DEF KnownLongEnough
  <2> QED
    BY <2>2, <2>3, <2>4 DEF Once, KnownLongEnough, TypeOK
<1>4. CASE id_purge
  <2> SUFFICES ASSUME NEW r \in Request, seen[r] = 1, age[r] # Gone
               PROVE  KnownLongEnough(r)'
    BY <1>4 DEF id_purge, Once
  <2>1. PICK b \in bihead : b.req = r /\ b.expire >= BCAST_ID_SAVE - age[r]
    BY DEF Once, KnownLongEnough
  <2>2. b.expire > 0
    BY <2>1 DEF TypeOK, BroadcastID, Gone
  <2>3. b \in bihead' /\ age' = age
    BY <1>4, <2>1, <2>2 DEF id_purge, Expired, TypeOK, BroadcastID
  <2> QED
    BY <2>1, <2>3 DEF KnownLongEnough
<1>5. CASE Tick
  BY <1>5, OnceTick
<1>6. CASE UNCHANGED vars
  BY <1>6 DEF vars, Once, KnownLongEnough
<1> QED
  BY <1>1, <1>2, <1>3, <1>4, <1>5, <1>6 DEF Next

\* If copies travel for less than BCAST_ID_SAVE, recvRequest processes a request
\* once, however the arrivals lie between the firings of BroadcastTimer.
THEOREM RequestsProcessedOnce == Spec => []ProcessedOnce
<1>1. CASE MaxDelay < BCAST_ID_SAVE
  <2>1. ASSUME Init PROVE Once
    <3>1. \A r \in Request : seen[r] = 0
      BY <2>1 DEF Init
    <3> SUFFICES ASSUME NEW r \in Request PROVE seen[r] <= 1 /\ seen[r] # 1
      BY DEF Once
    <3> QED
      BY <3>1
  <2>2. TypeOK /\ Once /\ [Next]_vars => Once'
    BY <1>1, OnceStep
  <2>3. Once => ProcessedOnce
    BY DEF Once, ProcessedOnce
  <2> QED
    BY <2>1, <2>2, <2>3, TypeInit, TypeStep, PTL DEF Spec
<1>2. CASE ~(MaxDelay < BCAST_ID_SAVE)
  <2>1. ProcessedOnce
    BY <1>2 DEF ProcessedOnce
  <2>2. ProcessedOnce'
    BY <1>2 DEF ProcessedOnce
  <2> QED
    BY <2>1, <2>2, PTL
<1> QED
  BY <1>1, <1>2
=============================================================================
