---------------------------- MODULE PacketBuffer ----------------------------
(***************************************************************************)
(* What class aodv_rqueue promises ("a FIFO queue"): packets wait at most  *)
(* timeout_, at most limit_ of them, and leave oldest first, either the    *)
(* oldest of all or the oldest for one destination.                        *)
(***************************************************************************)
EXTENDS Naturals, Sequences, SequencesExt

CONSTANTS
  Packet,            \* packets the agent can hand over
  Dst,               \* Dst[p]: the destination in p's IP header
  Null,              \* no packet
  AODV_RTQ_MAX_LEN,  \* limit_
  AODV_RTQ_TIMEOUT,  \* timeout_
  MaxTime            \* bound: the clock stops here

VARIABLES
  now,     \* CURRENT_TIME
  buffer,  \* the packets held, oldest first
  ts,      \* ts[p]: until when p may wait
  got      \* what the last call returned or threw out

\* Those past their time leave from the front, up to the first that may stay.
Staying == {i \in DOMAIN buffer : ts[buffer[i]] >= now}
Fresh   == IF Staying = {} THEN <<>> ELSE SubSeq(buffer, Min(Staying), Len(buffer))
Held    == {buffer[i] : i \in DOMAIN buffer}

Init ==
  /\ now = 0
  /\ buffer = <<>>
  /\ ts = [p \in Packet |-> 0]
  /\ got = Null

\* A new packet goes to the end; if the buffer is full the oldest goes.
Enque(p) ==
  LET full == Len(Fresh) = AODV_RTQ_MAX_LEN IN
  /\ p \notin Held
  /\ buffer' = Append(IF full THEN Tail(Fresh) ELSE Fresh, p)
  /\ got' = IF full THEN Head(Fresh) ELSE Null
  /\ ts' = [ts EXCEPT ![p] = now + AODV_RTQ_TIMEOUT]
  /\ UNCHANGED now

\* The oldest packet among those wanted, if there is one.
Take(wanted) ==
  LET is == {i \in DOMAIN Fresh : Fresh[i] \in wanted} IN
  /\ IF is = {} THEN buffer' = Fresh /\ got' = Null
     ELSE LET i == Min(is) IN buffer' = RemoveAt(Fresh, i) /\ got' = Fresh[i]
  /\ UNCHANGED <<now, ts>>

Tick == now < MaxTime /\ now' = now + 1 /\ UNCHANGED <<buffer, ts, got>>

Next ==
  \/ \E p \in Packet : Enque(p)
  \/ Take(Packet)
  \/ \E p \in Packet : Take({q \in Packet : Dst[q] = Dst[p]})
  \/ Tick

Spec == Init /\ [][Next]_<<now, buffer, ts, got>>
=============================================================================
