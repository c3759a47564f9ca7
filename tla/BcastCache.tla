----------------------------- MODULE BcastCache -----------------------------
(***************************************************************************)
(* The broadcast id cache of one node, in time: which copies of a flooded  *)
(* request recvRequest processes, and when BroadcastTimer lets it forget   *)
(* them.  A request is named by its source and broadcast id; its copies    *)
(* arrive, any number of them, until MaxDelay after it was sent.           *)
(***************************************************************************)
EXTENDS Integers

CONSTANTS
  Request,        \* requests under way; a name is used again once forgotten
  Mine,           \* those of them the node has sent itself
  BCAST_ID_SAVE,  \* in ticks
  MaxDelay        \* how long copies of a request travel, at most

ASSUME CacheAssumption ==
  /\ Mine \subseteq Request
  /\ BCAST_ID_SAVE \in Nat \ {0}
  /\ MaxDelay \in Nat

VARIABLES
  bihead,  \* the cache: BroadcastIDs, with the time left until they expire
  due,     \* the time until btimer fires; Off before "start"
  age,     \* age[r]: the time since r was sent; Gone when no copy is left
  seen     \* seen[r]: how often r was processed

vars == <<bihead, due, age, seen>>

Off  == -1
Gone == MaxDelay + 1

\* What expired longer ago than a period counts as that: a bound.
BroadcastID == [req : Request, expire : -BCAST_ID_SAVE .. BCAST_ID_SAVE]

id_lookup(r) == \E b \in bihead : b.req = r

Init ==
  /\ bihead = {}
  /\ due = Off
  /\ age = [r \in Request |-> Gone]
  /\ seen = [r \in Request |-> 0]

\* command("start") runs the timer's handler at once.
Start == due = Off /\ due' = 0 /\ UNCHANGED <<bihead, age, seen>>

\* sendRequest, here or elsewhere: the next broadcast id.
SendRequest(r) ==
  /\ age[r] = Gone /\ ~id_lookup(r)
  /\ age' = [age EXCEPT ![r] = 0]
  /\ seen' = [seen EXCEPT ![r] = 0]
  /\ UNCHANGED <<bihead, due>>

\* Mutants: an id is saved only until the next purge, or for two periods.
id_insert_expired(r) == bihead \cup {[req |-> r, expire |-> 0]}
id_insert_long(r) == bihead \cup {[req |-> r, expire |-> 2 * BCAST_ID_SAVE]}
id_insert(r) == bihead \cup {[req |-> r, expire |-> BCAST_ID_SAVE]}

\* recvRequest: a copy that is not the node's own and not known is processed.
RecvRequest(r) ==
  /\ age[r] # Gone
  /\ r \notin Mine /\ ~id_lookup(r)
  /\ bihead' = id_insert(r)
  /\ seen' = [seen EXCEPT ![r] = @ + 1]
  /\ UNCHANGED <<due, age>>

\* Mutant: tests for the moment of expiry.
ExpiresNow(b) == b.expire = 0
Expired(b) == b.expire <= 0

\* BroadcastTimer: id_purge, and the timer set again.
id_purge ==
  /\ due = 0
  /\ bihead' = {b \in bihead : ~Expired(b)}
  /\ due' = BCAST_ID_SAVE
  /\ UNCHANGED <<age, seen>>

Later(b) ==
  [b EXCEPT !.expire = IF @ = -BCAST_ID_SAVE THEN @ ELSE @ - 1]

Tick ==
  /\ due > 0
  /\ due' = due - 1
  /\ bihead' = {Later(b) : b \in bihead}
  /\ age' = [r \in Request |-> IF age[r] = Gone THEN Gone ELSE age[r] + 1]
  /\ UNCHANGED seen

Next ==
  \/ Start
  \/ \E r \in Request : SendRequest(r) \/ RecvRequest(r)
  \/ id_purge
  \/ Tick

\* The timer runs, and the clock goes on.
Spec == Init /\ [][Next]_vars /\ WF_vars(Start) /\ WF_vars(id_purge) /\ WF_vars(Tick)

-----------------------------------------------------------------------------
TypeOK ==
  /\ bihead \subseteq BroadcastID
  /\ due \in {Off} \cup 0 .. BCAST_ID_SAVE
  /\ age \in [Request -> 0 .. Gone]
  /\ seen \in [Request -> Nat]

(* If its copies travel for less than BCAST_ID_SAVE, a request is processed  *)
(* once, whenever the timer fires in between.                                *)
ProcessedOnce == MaxDelay < BCAST_ID_SAVE => \A r \in Request : seen[r] <= 1

(* An id is forgotten before two periods have passed.                        *)
ForgottenInTime == \A b \in bihead : b.expire > -BCAST_ID_SAVE

(* Every id is forgotten, however many others arrive.                        *)
Forgotten == \A r \in Request : id_lookup(r) ~> ~id_lookup(r)
=============================================================================
