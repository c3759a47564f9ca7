---------------------------- MODULE RQueueProofs ----------------------------
(***************************************************************************)
(* The linked list of the send buffer, for every set of packets, every     *)
(* length and every timeout.                                               *)
(*                                                                         *)
(* What the invariants say through Node, the walk along the pointers, is   *)
(* proved from Chain(l, s, k): the packets of the sequence s, of length k, *)
(* are linked in the list l in that order, from head_ to tail_, each once. *)
(* Every routine turns one chain into another.  purge takes the first aged *)
(* packet it finds, again and again; as the deadlines never decrease along *)
(* the chain these are the packets in front, and what it leaves is the     *)
(* rest of the chain.                                                      *)
(***************************************************************************)
EXTENDS RQueue, SetInduction, FiniteSetTheorems, SequenceTheorems

N == Cardinality(Packet)

LEMMA NType == N \in Nat
  BY RQueueAssumption, FS_CardinalityType DEF N

-----------------------------------------------------------------------------
(* The walk from head_ on is defined, one pointer at a time. *)
Step(l, f, i) ==
  IF i = 1 THEN l.head ELSE IF f[i - 1] = Null THEN Null ELSE l.next[f[i - 1]]

LEMMA WalkExists ==
  ASSUME NEW l
  PROVE  \E f : f = [i \in 1 .. N + 1 |-> Step(l, f, i)]
  <1> DEFINE Walks(k) == \E f : f = [i \in 1 .. k |-> Step(l, f, i)]
             T == {k \in 0 .. N + 1 : Walks(k)}
  <1>1. Walks(0)
    <2> DEFINE f == [i \in 1 .. 0 |-> Null]
    <2>1. f = [i \in 1 .. 0 |-> Step(l, f, i)]
      OBVIOUS
    <2> QED BY <2>1
  <1>2. ASSUME NEW k \in 0 .. N + 1, Walks(k)
        PROVE  Walks(k + 1)
    <2>1. PICK f : f = [i \in 1 .. k |-> Step(l, f, i)]
      BY <1>2
    <2> DEFINE g == [i \in 1 .. k + 1 |-> IF i <= k THEN f[i] ELSE Step(l, f, i)]
    <2>2. k \in Nat
      BY NType
    <2>3. \A i \in 1 .. k : f[i] = Step(l, f, i)
      BY <2>1
    <2>4. \A i \in 1 .. k + 1 : g[i] = Step(l, g, i)
      <3> SUFFICES ASSUME NEW i \in 1 .. k + 1 PROVE g[i] = Step(l, g, i)
        OBVIOUS
      <3>1. g[i] = Step(l, f, i)
        BY <2>2, <2>3
      <3>2. i # 1 => i - 1 \in 1 .. k /\ g[i - 1] = f[i - 1]
        BY <2>2
      <3> QED BY <3>1, <3>2 DEF Step
    <2>5. g = [i \in 1 .. k + 1 |-> Step(l, g, i)]
      BY <2>4
    <2> QED BY <2>5
  <1>3. 0 .. N + 1 \subseteq T
    <2> HIDE DEF Walks
    <2>1. 0 \in T /\ N + 1 \in Nat
      BY <1>1, NType
    <2>2. \A k \in 0 .. N + 1 : k < N + 1 /\ k \in T => k + 1 \in T
      BY <1>2, NType
    <2> HIDE DEF T
    <2> QED BY <2>1, <2>2, InductionTo
  <1>4. Walks(N + 1)
    <2> HIDE DEF Walks
    <2> QED BY <1>3, NType
  <1> QED BY <1>4

LEMMA NodeDef ==
  ASSUME NEW l
  PROVE  Node(l) = [i \in 1 .. N + 1 |-> Step(l, Node(l), i)]
  <1> DEFINE P(f) == f = [i \in 1 .. N + 1 |-> Step(l, f, i)]
  <1>1. Node(l) = CHOOSE f : P(f)
    BY DEF Node, Step, N
  <1>2. \E f : P(f)
    BY WalkExists
  <1> HIDE DEF P
  <1>3. P(Node(l))
    BY <1>1, <1>2
  <1> QED BY <1>3 DEF P

-----------------------------------------------------------------------------
Pointers == [head : Packet \cup {Null}, tail : Packet \cup {Null},
             len : Nat, next : [Packet -> Packet \cup {Null}]]

(* s[1], ..., s[k] are linked in l, in this order and nothing else. *)
Chain(l, s, k) ==
  /\ l \in Pointers /\ k \in Nat /\ l.len = k
  /\ s \in [1 .. k -> Packet]
  /\ \A i, j \in 1 .. k : s[i] = s[j] => i = j
  /\ l.head = IF k = 0 THEN Null ELSE s[1]
  /\ l.tail = IF k = 0 THEN Null ELSE s[k]
  /\ \A i \in 1 .. k : l.next[s[i]] = IF i = k THEN Null ELSE s[i + 1]

(* A chain holds every packet at most once. *)
LEMMA ChainLength ==
  ASSUME NEW l, NEW s, NEW k, Chain(l, s, k)
  PROVE  k \in Nat /\ k <= N
  <1>1. k \in Nat /\ s \in [1 .. k -> Packet] /\ \A i, j \in 1 .. k : s[i] = s[j] => i = j
    BY DEF Chain
  <1> DEFINE R == {s[i] : i \in 1 .. k}
  <1>2. s \in Bijection(1 .. k, R)
    BY <1>1 DEF Bijection, Injection, Surjection, IsInjective
  <1>3. R \subseteq Packet
    BY <1>1
  <1>4. IsFiniteSet(R) /\ Cardinality(R) <= N
    BY <1>3, RQueueAssumption, FS_Subset DEF N
  <1>5. IsFiniteSet(1 .. k) /\ Cardinality(1 .. k) = k
    BY <1>1, FS_Interval
  <1>6. Cardinality(1 .. k) = Cardinality(R)
    <2> HIDE DEF R
    <2> QED BY <1>2, <1>5, FS_Bijection DEF ExistsBijection
  <1> QED BY <1>1, <1>4, <1>5, <1>6

LEMMA ChainNode ==
  ASSUME NEW l, NEW s, NEW k, Chain(l, s, k)
  PROVE  /\ DOMAIN Node(l) = 1 .. N + 1
         /\ \A i \in 1 .. k : i \in 1 .. N + 1 /\ Node(l)[i] = s[i]
         /\ \A i \in 1 .. N + 1 : i > k => Node(l)[i] = Null
  <1>1. k \in Nat /\ k <= N /\ N \in Nat
    BY ChainLength, NType
  <1>2. /\ DOMAIN Node(l) = 1 .. N + 1
        /\ \A i \in 1 .. N + 1 : Node(l)[i] = Step(l, Node(l), i)
    BY NodeDef
  <1>3. /\ s \in [1 .. k -> Packet]
        /\ l.head = IF k = 0 THEN Null ELSE s[1]
        /\ \A i \in 1 .. k : l.next[s[i]] = IF i = k THEN Null ELSE s[i + 1]
    BY DEF Chain
  <1> DEFINE Here(i) == Node(l)[i + 1] = IF i + 1 <= k THEN s[i + 1] ELSE Null
             T == {i \in 0 .. N : Here(i)}
  <1>4. Here(0)
    BY <1>1, <1>2, <1>3 DEF Step
  <1>5. ASSUME NEW i \in 0 .. N, i < N, Here(i)
        PROVE  Here(i + 1)
    <2>1. i + 2 \in 1 .. N + 1 /\ i + 2 # 1 /\ (i + 2) - 1 = i + 1 /\ (i + 1) + 1 = i + 2
      BY <1>1, <1>5
    <2>2. Node(l)[i + 2] = IF Node(l)[i + 1] = Null THEN Null ELSE l.next[Node(l)[i + 1]]
      BY <1>2, <2>1 DEF Step
    <2>3. CASE i + 1 <= k
      <3>1. i + 1 \in 1 .. k
        BY <1>1, <1>5, <2>3
      <3>2. Node(l)[i + 1] = s[i + 1] /\ s[i + 1] # Null
        BY <1>3, <1>5, <2>3, <3>1, RQueueAssumption
      <3>3. Node(l)[i + 2] = IF i + 1 = k THEN Null ELSE s[i + 2]
        BY <1>3, <2>1, <2>2, <3>1, <3>2
      <3> QED BY <1>1, <1>5, <2>1, <2>3, <3>3
    <2>4. CASE ~(i + 1 <= k)
      BY <1>1, <1>5, <2>1, <2>2, <2>4
    <2> QED BY <2>3, <2>4
  <1>6. 0 .. N \subseteq T
    <2>1. 0 \in T
      BY <1>1, <1>4
    <2>2. \A i \in 0 .. N : i < N /\ i \in T => i + 1 \in T
      BY <1>1, <1>5
    <2> HIDE DEF T
    <2> QED BY <1>1, <2>1, <2>2, InductionTo
  <1>7. \A i \in 0 .. N : Here(i)
    BY <1>6
  <1>8. \A i \in 1 .. N + 1 : Node(l)[i] = IF i <= k THEN s[i] ELSE Null
    <2> TAKE i \in 1 .. N + 1
    <2>1. i - 1 \in 0 .. N /\ (i - 1) + 1 = i
      BY <1>1
    <2>2. Here(i - 1)
      BY <1>7, <2>1
    <2> QED BY <2>1, <2>2
  <1> QED BY <1>1, <1>2, <1>8

-----------------------------------------------------------------------------
(* The private routines, on a chain. *)

\* s, of length k, without its i-th packet; and without its first c.
Cut(s, k, i)  == [j \in 1 .. k - 1 |-> IF j < i THEN s[j] ELSE s[j + 1]]
Drop(s, k, c) == [j \in 1 .. k - c |-> s[j + c]]

LEMMA RemoveHeadEmpty ==
  ASSUME NEW l, NEW s, Chain(l, s, 0)
  PROVE  RemoveHead(l) = l
  <1>1. l \in Pointers /\ l.head = Null /\ l.tail = Null
    BY DEF Chain
  <1> QED BY <1>1 DEF RemoveHead, Pointers

LEMMA RemoveHeadChain ==
  ASSUME NEW l, NEW s, NEW k, Chain(l, s, k), k # 0
  PROVE  Chain(RemoveHead(l), Cut(s, k, 1), k - 1)
  <1>1. /\ l \in Pointers /\ k \in Nat /\ l.len = k /\ s \in [1 .. k -> Packet]
        /\ \A i, j \in 1 .. k : s[i] = s[j] => i = j
        /\ l.head = s[1] /\ l.tail = s[k]
        /\ \A i \in 1 .. k : l.next[s[i]] = IF i = k THEN Null ELSE s[i + 1]
    BY DEF Chain
  <1>2. 1 \in 1 .. k /\ k \in 1 .. k /\ k - 1 \in Nat /\ s[1] \in Packet /\ s[1] # Null
    BY <1>1, RQueueAssumption
  <1>3. s[1] = s[k] <=> k = 1
    BY <1>1, <1>2
  <1> DEFINE m == RemoveHead(l)
             t == Cut(s, k, 1)
  <1>4. /\ m.head = IF k = 1 THEN Null ELSE s[2]
        /\ m.tail = IF k = 1 THEN Null ELSE s[k]
        /\ m.len = k - 1 /\ m.next = l.next /\ m \in Pointers
    <2>1. /\ m.head = IF k = 1 THEN Null ELSE l.next[s[1]]
          /\ m.tail = IF k = 1 THEN Null ELSE s[k]
          /\ m.len = k - 1 /\ m.next = l.next
      BY <1>1, <1>2, <1>3 DEF RemoveHead, Pointers
    <2>2. l.next[s[1]] = IF k = 1 THEN Null ELSE s[2]
      BY <1>1, <1>2
    <2>3. m \in Pointers
      <3>1. m = [l EXCEPT !.head = m.head, !.tail = m.tail, !.len = m.len]
        BY <1>1 DEF RemoveHead, Pointers
      <3>2. /\ m.head \in Packet \cup {Null} /\ m.tail \in Packet \cup {Null}
            /\ m.len \in Nat
        BY <1>1, <1>2, <2>1 DEF Pointers
      <3> HIDE DEF m
      <3> QED BY <1>1, <3>1, <3>2 DEF Pointers
    <2> QED BY <2>1, <2>2, <2>3
  <1>5. \A i \in 1 .. k - 1 : t[i] = s[i + 1] /\ i + 1 \in 1 .. k /\ i \in Nat
    BY <1>1 DEF Cut
  <1>6. t \in [1 .. k - 1 -> Packet]
    <2>1. \A i \in 1 .. k - 1 : t[i] \in Packet
      BY <1>1, <1>5
    <2> QED BY <2>1 DEF Cut
  <1>7. \A i, j \in 1 .. k - 1 : t[i] = t[j] => i = j
    <2> SUFFICES ASSUME NEW i \in 1 .. k - 1, NEW j \in 1 .. k - 1, t[i] = t[j]
                 PROVE  i = j
      OBVIOUS
    <2>1. s[i + 1] = s[j + 1]
      BY <1>5
    <2>2. i + 1 = j + 1
      BY <1>1, <1>5, <2>1
    <2> QED BY <1>5, <2>2
  <1>8. \A i \in 1 .. k - 1 : m.next[t[i]] = IF i = k - 1 THEN Null ELSE t[i + 1]
    <2> SUFFICES ASSUME NEW i \in 1 .. k - 1
                 PROVE  m.next[t[i]] = IF i = k - 1 THEN Null ELSE t[i + 1]
      OBVIOUS
    <2>1. m.next[t[i]] = IF i + 1 = k THEN Null ELSE s[(i + 1) + 1]
      BY <1>1, <1>4, <1>5
    <2>2. i + 1 # k => i + 1 \in 1 .. k - 1 /\ t[i + 1] = s[(i + 1) + 1]
      BY <1>1, <1>5
    <2> QED BY <1>1, <1>5, <2>1, <2>2
  <1>9. k - 1 # 0 => t[1] = s[2] /\ t[k - 1] = s[k]
    BY <1>1, <1>5
  <1> HIDE DEF m, t
  <1>10. Chain(m, t, k - 1)
    BY <1>1, <1>2, <1>4, <1>6, <1>7, <1>8, <1>9 DEF Chain
  <1> QED BY <1>10 DEF m, t

LEMMA UnlinkChain ==
  ASSUME NEW l, NEW s, NEW k, Chain(l, s, k), NEW i \in 1 .. k
  PROVE  Chain(Unlink(l, i), Cut(s, k, i), k - 1)
  <1>1. /\ l \in Pointers /\ k \in Nat /\ l.len = k /\ s \in [1 .. k -> Packet]
        /\ \A x, j \in 1 .. k : s[x] = s[j] => x = j
        /\ l.head = s[1] /\ l.tail = s[k]
        /\ \A j \in 1 .. k : l.next[s[j]] = IF j = k THEN Null ELSE s[j + 1]
    BY DEF Chain
  <1>2. Node(l)[i] = s[i] /\ k # 0
    BY <1>1, ChainNode
  <1>3. CASE i = 1
    BY <1>1, <1>2, <1>3, RemoveHeadChain DEF Unlink
  <1>4. CASE i # 1
    <2>1. /\ i - 1 \in 1 .. k /\ i \in Nat /\ k - 1 \in Nat /\ k - 1 \in 1 .. k
          /\ 1 \in 1 .. k /\ k \in 1 .. k
      BY <1>1, <1>4
    <2>2. Node(l)[i - 1] = s[i - 1]
      BY <2>1, ChainNode
    <2>3. s[i] # s[1] /\ (s[i] = s[k] <=> i = k)
      BY <1>1, <1>4, <2>1
    <2> DEFINE prev == s[i - 1]
               after == IF i = k THEN Null ELSE s[i + 1]
               m == Unlink(l, i)
               t == Cut(s, k, i)
    <2>4. prev \in Packet /\ after \in Packet \cup {Null}
      <3>1. i # k => i + 1 \in 1 .. k
        BY <1>1
      <3> QED BY <1>1, <2>1, <3>1
    <2>5. m = [l EXCEPT !.next = [l.next EXCEPT ![prev] = after],
                        !.tail = IF i = k THEN prev ELSE l.tail, !.len = k - 1]
      <3>1. CASE i = k
        BY <1>1, <1>2, <2>2, <2>3, <3>1 DEF Unlink, Pointers
      <3>2. CASE i # k
        <4>1. l.next[s[i]] = s[i + 1]
          BY <1>1, <3>2
        <4> QED BY <1>1, <1>2, <2>2, <2>3, <3>2, <4>1 DEF Unlink, Pointers
      <3> QED BY <3>1, <3>2
    <2>6. /\ m.next = [l.next EXCEPT ![prev] = after] /\ m.head = s[1] /\ m.len = k - 1
          /\ m.tail = IF i = k THEN prev ELSE s[k]
      <3> HIDE DEF m, prev, after
      <3> QED BY <1>1, <2>5 DEF Pointers
    <2>7. m \in Pointers
      <3>1. m.tail \in Packet
        BY <1>1, <2>1, <2>4, <2>6
      <3>2. m.next \in [Packet -> Packet \cup {Null}]
        <4> HIDE DEF m, prev, after
        <4> QED BY <1>1, <2>4, <2>6 DEF Pointers
      <3>3. m = [l EXCEPT !.next = m.next, !.tail = m.tail, !.len = m.len]
        <4> HIDE DEF m, prev, after
        <4>1. (IF i = k THEN prev ELSE l.tail) = m.tail
          BY <1>1, <2>6
        <4> QED BY <1>1, <2>5, <2>6, <4>1
      <3> HIDE DEF m
      <3>4. m.len \in Nat
        BY <2>1, <2>6
      <3> QED BY <1>1, <3>1, <3>2, <3>3, <3>4 DEF Pointers
    <2>8. \A j \in 1 .. k - 1 :
            /\ j \in Nat /\ j \in 1 .. k /\ j + 1 \in 1 .. k
            /\ t[j] = IF j < i THEN s[j] ELSE s[j + 1]
      BY <1>1 DEF Cut
    <2>9. t \in [1 .. k - 1 -> Packet]
      <3>1. \A j \in 1 .. k - 1 : t[j] \in Packet
        BY <1>1, <2>8
      <3> QED BY <3>1 DEF Cut
    <2> HIDE DEF m, t
    <2>10. \A x, j \in 1 .. k - 1 : t[x] = t[j] => x = j
      <3> SUFFICES ASSUME NEW x \in 1 .. k - 1, NEW j \in 1 .. k - 1, t[x] = t[j]
                   PROVE  x = j
        OBVIOUS
      <3>1. (IF x < i THEN x ELSE x + 1) = (IF j < i THEN j ELSE j + 1)
        BY <1>1, <2>8
      <3> QED BY <2>1, <2>8, <3>1
    <2>11. \A j \in 1 .. k - 1 : m.next[t[j]] = IF j = k - 1 THEN Null ELSE t[j + 1]
      <3> SUFFICES ASSUME NEW j \in 1 .. k - 1
                   PROVE  m.next[t[j]] = IF j = k - 1 THEN Null ELSE t[j + 1]
        OBVIOUS
      <3>0. /\ j \in Nat /\ j <= k - 1 /\ i <= k
            /\ j # k - 1 => t[j + 1] = IF j + 1 < i THEN s[j + 1] ELSE s[(j + 1) + 1]
        <4>1. j \in Nat /\ j <= k - 1 /\ i <= k
          BY <1>1
        <4>2. j # k - 1 => j + 1 \in 1 .. k - 1
          BY <1>1
        <4> QED BY <2>8, <4>1, <4>2
      <3>1. CASE j = i - 1
        <4>1. t[j] = prev
          BY <2>1, <2>8, <3>1
        <4>2. m.next[prev] = after
          BY <1>1, <2>4, <2>6 DEF Pointers
        <4>3. i = k <=> j = k - 1
          BY <1>1, <2>1, <3>0, <3>1
        <4>4. j # k - 1 => t[j + 1] = s[i + 1]
          BY <1>1, <2>1, <3>0, <3>1
        <4> QED BY <4>1, <4>2, <4>3, <4>4
      <3>2. CASE j < i - 1
        <4>1. t[j] = s[j] /\ s[j] # prev
          BY <1>1, <2>1, <2>8, <3>2
        <4>2. m.next[s[j]] = l.next[s[j]]
          BY <1>1, <2>4, <2>6, <2>8, <4>1 DEF Pointers
        <4>3. l.next[s[j]] = s[j + 1] /\ j # k - 1 /\ j + 1 < i
          BY <1>1, <2>1, <2>8, <3>0, <3>2
        <4> QED BY <3>0, <4>1, <4>2, <4>3
      <3>3. CASE j > i - 1
        <4>1. t[j] = s[j + 1] /\ s[j + 1] # prev /\ ~(j + 1 < i)
          BY <1>1, <2>1, <2>8, <3>0, <3>3
        <4>2. m.next[s[j + 1]] = l.next[s[j + 1]]
          BY <1>1, <2>4, <2>6, <2>8, <4>1 DEF Pointers
        <4>3. l.next[s[j + 1]] = IF j + 1 = k THEN Null ELSE s[(j + 1) + 1]
          BY <1>1, <2>8
        <4> QED BY <1>1, <3>0, <4>1, <4>2, <4>3
      <3> QED BY <2>1, <3>0, <3>1, <3>2, <3>3
    <2>12. k - 1 # 0 /\ t[1] = s[1] /\ t[k - 1] = IF i = k THEN prev ELSE s[k]
      <3>1. k - 1 # 0 /\ 1 \in 1 .. k - 1 /\ k - 1 \in 1 .. k - 1 /\ 1 < i /\ (k - 1) + 1 = k
            /\ (k - 1 < i <=> i = k)
        BY <1>1, <1>4
      <3>2. t[1] = s[1]
        BY <2>8, <3>1
      <3>3. t[k - 1] = IF i = k THEN s[k - 1] ELSE s[k]
        BY <2>8, <3>1
      <3> QED BY <3>1, <3>2, <3>3
    <2>13. Chain(m, t, k - 1)
      <3>1. /\ m.head = IF k - 1 = 0 THEN Null ELSE t[1]
            /\ m.tail = IF k - 1 = 0 THEN Null ELSE t[k - 1]
        BY <2>6, <2>12
      <3> QED BY <2>1, <2>6, <2>7, <2>9, <2>10, <2>11, <3>1 DEF Chain
    <2> QED BY <2>13 DEF m, t
  <1> QED BY <1>3, <1>4

(* The search finds the first packet of the chain it is asked for. *)
LEMMA PositionChain ==
  ASSUME NEW l, NEW s, NEW k, Chain(l, s, k), NEW P, P \subseteq Packet
  PROVE  \/ Position(l, P) = 0 /\ \A i \in 1 .. k : s[i] \notin P
         \/ /\ Position(l, P) \in 1 .. k /\ s[Position(l, P)] \in P
            /\ \A i \in 1 .. k : i < Position(l, P) => s[i] \notin P
  <1> DEFINE is == {i \in DOMAIN Node(l) : Node(l)[i] \in P}
  <1>1. Position(l, P) = IF is = {} THEN 0 ELSE Min(is)
    BY DEF Position
  <1>2. k \in Nat /\ k <= N /\ N \in Nat
    BY ChainLength, NType
  <1>3. \A i : i \in is <=> i \in 1 .. k /\ s[i] \in P
    <2> SUFFICES ASSUME NEW i PROVE i \in is <=> i \in 1 .. k /\ s[i] \in P
      OBVIOUS
    <2>1. i \in 1 .. N + 1 /\ ~(i > k) => i \in 1 .. k
      BY <1>2
    <2>2. Null \notin P
      BY RQueueAssumption
    <2>3. /\ DOMAIN Node(l) = 1 .. N + 1
          /\ i \in 1 .. k => i \in 1 .. N + 1 /\ Node(l)[i] = s[i]
          /\ i \in 1 .. N + 1 /\ i > k => Node(l)[i] = Null
      BY ChainNode
    <2> QED BY <2>1, <2>2, <2>3
  <1> HIDE DEF is
  <1>4. CASE is = {}
    BY <1>1, <1>3, <1>4
  <1>5. CASE is # {}
    <2>1. is \subseteq Nat
      BY <1>3
    <2>2. Min(is) \in is /\ \A i \in is : Min(is) <= i
      BY <1>5, <2>1, MinIsLeast
    <2>3. \A i \in 1 .. k : i < Min(is) => s[i] \notin P
      <3> TAKE i \in 1 .. k
      <3>1. i \in Nat
        BY <1>2
      <3>2. Min(is) \in Nat
        BY <2>1, <2>2
      <3> QED BY <1>3, <2>2, <3>1, <3>2
    <2> QED BY <1>1, <1>3, <1>5, <2>2, <2>3
  <1> QED BY <1>4, <1>5

(* The packets found in a list are those of its chain. *)
In(l) == {p \in Packet : Position(l, {p}) # 0}

LEMMA InChain ==
  ASSUME NEW l, NEW s, NEW k, Chain(l, s, k)
  PROVE  In(l) = {s[i] : i \in 1 .. k}
  <1>1. \A i \in 1 .. k : s[i] \in Packet /\ i # 0
    BY DEF Chain
  <1>2. ASSUME NEW p \in Packet
        PROVE  Position(l, {p}) # 0 <=> \E i \in 1 .. k : s[i] = p
    <2>1. {p} \subseteq Packet
      OBVIOUS
    <2>2. \/ Position(l, {p}) = 0 /\ \A i \in 1 .. k : s[i] \notin {p}
          \/ Position(l, {p}) \in 1 .. k /\ s[Position(l, {p})] \in {p}
      BY <2>1, PositionChain
    <2> QED BY <1>1, <2>2
  <1> QED BY <1>1, <1>2 DEF In

(* enque after purge: p goes to the end, the oldest out if there is no room. *)
LEMMA AppendChain ==
  ASSUME NEW l, NEW s, NEW k, Chain(l, s, k), NEW p \in Packet,
         \A i \in 1 .. k : s[i] # p
  PROVE  LET m == [l EXCEPT !.next[p] = Null]
             r == IF m.head = Null THEN [m EXCEPT !.head = p, !.tail = p, !.len = @ + 1]
                  ELSE [m EXCEPT !.next[m.tail] = p, !.tail = p, !.len = @ + 1]
             t == [i \in 1 .. k + 1 |-> IF i = k + 1 THEN p ELSE s[i]]
         IN Chain(r, t, k + 1)
  <1>1. /\ l \in Pointers /\ k \in Nat /\ l.len = k /\ s \in [1 .. k -> Packet]
        /\ \A i, j \in 1 .. k : s[i] = s[j] => i = j
        /\ l.head = IF k = 0 THEN Null ELSE s[1]
        /\ l.tail = IF k = 0 THEN Null ELSE s[k]
        /\ \A i \in 1 .. k : l.next[s[i]] = IF i = k THEN Null ELSE s[i + 1]
    BY DEF Chain
  <1> DEFINE m == [l EXCEPT !.next[p] = Null]
             r == IF m.head = Null THEN [m EXCEPT !.head = p, !.tail = p, !.len = @ + 1]
                  ELSE [m EXCEPT !.next[m.tail] = p, !.tail = p, !.len = @ + 1]
             t == [i \in 1 .. k + 1 |-> IF i = k + 1 THEN p ELSE s[i]]
             cleared == [l.next EXCEPT ![p] = Null]
  <1>2. /\ m.head = l.head /\ m.tail = l.tail /\ m.len = k /\ m.next = cleared
        /\ m \in Pointers
    BY <1>1 DEF Pointers
  <1>3. cleared \in [Packet -> Packet \cup {Null}] /\ cleared[p] = Null
    BY <1>1 DEF Pointers
  <1>4. \A i \in 1 .. k : cleared[s[i]] = IF i = k THEN Null ELSE s[i + 1]
    BY <1>1 DEF Pointers
  <1>5. /\ t[k + 1] = p
        /\ \A i \in 1 .. k : t[i] = s[i] /\ i # k + 1
    BY <1>1
  <1>6. t \in [1 .. k + 1 -> Packet]
    <2>1. \A i \in 1 .. k + 1 : (IF i = k + 1 THEN p ELSE s[i]) \in Packet
      BY <1>1
    <2> QED BY <2>1
  <1>7. \A i \in 1 .. k + 1 : i = k + 1 \/ i \in 1 .. k
    BY <1>1
  <1> HIDE DEF t, m, cleared
  <1>8. \A i, j \in 1 .. k + 1 : t[i] = t[j] => i = j
    <2> SUFFICES ASSUME NEW i \in 1 .. k + 1, NEW j \in 1 .. k + 1, t[i] = t[j]
                 PROVE  i = j
      OBVIOUS
    <2>1. \A x \in 1 .. k : s[x] # p
      OBVIOUS
    <2>2. CASE i = k + 1
      BY <1>5, <1>7, <2>1, <2>2
    <2>3. CASE i \in 1 .. k
      <3>1. t[i] = s[i]
        BY <1>5, <2>3
      <3>2. CASE j = k + 1
        BY <1>5, <2>1, <2>3, <3>1, <3>2
      <3>3. CASE j \in 1 .. k
        <4>1. s[i] = s[j]
          BY <1>5, <3>1, <3>3
        <4> QED BY <1>1, <2>3, <3>3, <4>1
      <3> QED BY <1>7, <3>2, <3>3
    <2> QED BY <1>7, <2>2, <2>3
  <1>9. CASE k = 0
    <2>1. r = [m EXCEPT !.head = p, !.tail = p, !.len = @ + 1]
      BY <1>1, <1>2, <1>9
    <2> HIDE DEF r
    <2>2. r.head = p /\ r.tail = p /\ r.len = k + 1 /\ r.next = cleared /\ r \in Pointers
      <3>1. k + 1 \in Nat /\ m.len + 1 = k + 1
        BY <1>1, <1>2
      <3>2. r = [m EXCEPT !.head = p, !.tail = p, !.len = k + 1]
        BY <2>1, <3>1
      <3> QED BY <1>2, <3>1, <3>2 DEF Pointers
    <2>3. k + 1 = 1 /\ \A i \in 1 .. k + 1 : i = 1 /\ t[i] = p
      <3>1. \A i \in 1 .. k + 1 : i = 1
        BY <1>9
      <3> QED BY <1>5, <1>9, <3>1
    <2>4. Chain(r, t, k + 1)
      BY <1>3, <1>6, <1>8, <2>2, <2>3 DEF Chain
    <2> QED BY <2>4 DEF r, t, m
  <1>10. CASE k # 0
    <2>1. 1 \in 1 .. k /\ k \in 1 .. k /\ s[1] # Null /\ s[k] \in Packet /\ s[k] # p
      BY <1>1, <1>10, RQueueAssumption
    <2> DEFINE linked == [cleared EXCEPT ![s[k]] = p]
    <2>2. r = [m EXCEPT !.next[m.tail] = p, !.tail = p, !.len = @ + 1]
      BY <1>1, <1>2, <1>10, <2>1
    <2>3. r.head = s[1] /\ r.tail = p /\ r.len = k + 1 /\ r.next = linked /\ r \in Pointers
      <3>1. m.tail = s[k] /\ m.head = s[1]
        BY <1>1, <1>2, <1>10
      <3> HIDE DEF r
      <3>2. r = [m EXCEPT !.next = linked, !.tail = p, !.len = k + 1]
        BY <1>2, <2>2, <3>1 DEF Pointers
      <3>3. linked \in [Packet -> Packet \cup {Null}]
        BY <1>3, <2>1
      <3> HIDE DEF linked
      <3>4. k + 1 \in Nat
        BY <1>1
      <3> QED BY <1>2, <3>1, <3>2, <3>3, <3>4 DEF Pointers
    <2>4. \A i \in 1 .. k + 1 : linked[t[i]] = IF i = k + 1 THEN Null ELSE t[i + 1]
      <3> SUFFICES ASSUME NEW i \in 1 .. k + 1
                   PROVE  linked[t[i]] = IF i = k + 1 THEN Null ELSE t[i + 1]
        OBVIOUS
      <3>0. k + 1 # k
        BY <1>1
      <3>1. CASE i = k + 1
        <4>1. linked[p] = Null
          BY <1>3, <2>1
        <4> QED BY <1>5, <3>1, <4>1
      <3>2. CASE i = k
        <4>1. t[i] = s[k] /\ t[i + 1] = p
          BY <1>5, <2>1, <3>2
        <4> QED BY <1>3, <2>1, <3>0, <3>2, <4>1
      <3>3. CASE i # k /\ i # k + 1
        <4>1. i \in 1 .. k /\ i + 1 \in 1 .. k
          BY <1>1, <3>3
        <4>2. t[i] = s[i] /\ t[i + 1] = s[i + 1]
          BY <1>5, <4>1
        <4>3. s[i] # s[k]
          BY <1>1, <2>1, <3>3, <4>1
        <4>4. linked[s[i]] = cleared[s[i]]
          BY <1>1, <1>3, <4>1, <4>3
        <4> QED BY <1>4, <3>3, <4>1, <4>2, <4>4
      <3> QED BY <3>1, <3>2, <3>3
    <2>5. t[1] = s[1] /\ t[k + 1] = p
      BY <1>5, <2>1
    <2> HIDE DEF r, linked
    <2>6. Chain(r, t, k + 1)
      <3>1. k + 1 # 0 /\ k + 1 \in Nat
        BY <1>1
      <3> QED BY <1>6, <1>8, <2>3, <2>4, <2>5, <3>1 DEF Chain
    <2> QED BY <2>6 DEF r, t, m
  <1> QED BY <1>9, <1>10

-----------------------------------------------------------------------------
(* purge: one packet, and then another. *)
PurgeOne(l) == IF Position(l, Aged) = 0 THEN l ELSE Unlink(l, Position(l, Aged))

LEMMA PurgedDef ==
  \E f : /\ f = [k \in 0 .. N |-> IF k = 0 THEN list ELSE PurgeOne(f[k - 1])]
        /\ Purged = f[N]
  <1> DEFINE Stage(f, i) == IF i = 0 THEN list ELSE PurgeOne(f[i - 1])
             Stages(k) == \E f : f = [i \in 0 .. k |-> Stage(f, i)]
             T == {k \in 0 .. N : Stages(k)}
  <1>1. Stages(0)
    <2> DEFINE f == [i \in 0 .. 0 |-> list]
    <2>1. f = [i \in 0 .. 0 |-> Stage(f, i)]
      OBVIOUS
    <2> QED BY <2>1
  <1>2. ASSUME NEW k \in 0 .. N, Stages(k)
        PROVE  Stages(k + 1)
    <2>1. PICK f : f = [i \in 0 .. k |-> Stage(f, i)]
      BY <1>2
    <2> DEFINE g == [i \in 0 .. k + 1 |-> IF i <= k THEN f[i] ELSE Stage(f, i)]
    <2>2. k \in Nat
      BY NType
    <2>3. \A i \in 0 .. k : f[i] = Stage(f, i)
      BY <2>1
    <2>4. \A i \in 0 .. k + 1 : g[i] = Stage(g, i)
      <3> SUFFICES ASSUME NEW i \in 0 .. k + 1 PROVE g[i] = Stage(g, i)
        OBVIOUS
      <3> HIDE DEF Stage
      <3>1. g[i] = Stage(f, i)
        BY <2>2, <2>3
      <3>2. i # 0 => i - 1 \in 0 .. k /\ g[i - 1] = f[i - 1]
        BY <2>2
      <3> QED BY <3>1, <3>2 DEF Stage
    <2>5. g = [i \in 0 .. k + 1 |-> Stage(g, i)]
      BY <2>4
    <2> QED BY <2>5
  <1>3. 0 .. N \subseteq T
    <2> HIDE DEF Stages
    <2>1. 0 \in T /\ N \in Nat
      BY <1>1, NType
    <2>2. \A k \in 0 .. N : k < N /\ k \in T => k + 1 \in T
      BY <1>2, NType
    <2> HIDE DEF T
    <2> QED BY <2>1, <2>2, InductionTo
  <1>4. Stages(N)
    <2> HIDE DEF Stages
    <2> QED BY <1>3, NType
  <1> DEFINE P(f) == f = [i \in 0 .. N |-> Stage(f, i)]
             purged == CHOOSE f : P(f)
  <1>5. Purged = purged[N]
    BY DEF Purged, PurgeOne, N
  <1>6. P(purged)
    <2>1. \E f : P(f)
      BY <1>4
    <2> HIDE DEF P
    <2> QED BY <2>1
  <1> QED BY <1>5, <1>6

(* When the aged packets of the buffer are its first c, purge takes those. *)
LEMMA PurgedChain ==
  ASSUME NEW s, NEW k, Chain(list, s, k), NEW c \in 0 .. k,
         \A i \in 1 .. k : s[i] \in Aged <=> i <= c
  PROVE  Chain(Purged, Drop(s, k, c), k - c)
  <1>1. k \in Nat /\ k <= N /\ N \in Nat /\ c \in Nat /\ c <= k
    BY ChainLength, NType
  <1>2. PICK f : /\ f = [j \in 0 .. N |-> IF j = 0 THEN list ELSE PurgeOne(f[j - 1])]
                 /\ Purged = f[N]
    BY PurgedDef
  <1>3. f[0] = list /\ \A j \in 0 .. N : j # 0 => f[j] = PurgeOne(f[j - 1])
    BY <1>1, <1>2
  <1> DEFINE gone(j) == IF j <= c THEN j ELSE c
             Here(j) == Chain(f[j], Drop(s, k, gone(j)), k - gone(j))
             T == {j \in 0 .. N : Here(j)}
  <1>4. Here(0)
    <2>1. gone(0) = 0 /\ k - 0 = k
      BY <1>1
    <2>2. Drop(s, k, 0) = s
      <3>1. s \in [1 .. k -> Packet]
        BY DEF Chain
      <3> QED BY <1>1, <3>1 DEF Drop
    <2> QED BY <1>3, <2>1, <2>2
  <1>5. ASSUME NEW j \in 0 .. N, j < N, Here(j)
        PROVE  Here(j + 1)
    <2> DEFINE l == f[j]
               t == Drop(s, k, gone(j))
               m == k - gone(j)
    <2>1. Chain(l, t, m)
      BY <1>5
    <2>2. j \in Nat /\ j + 1 \in 0 .. N /\ gone(j) \in 0 .. k /\ gone(j) \in Nat
      BY <1>1, <1>5
    <2>3. f[j + 1] = PurgeOne(l)
      BY <1>3, <2>2
    <2>4. \A i \in 1 .. m : t[i] = s[i + gone(j)] /\ i + gone(j) \in 1 .. k /\ i \in Nat
      BY <1>1, <2>2 DEF Drop
    <2>5. \A i \in 1 .. m : t[i] \in Aged <=> i + gone(j) <= c
      BY <2>4
    <2>6. Aged \subseteq Packet
      BY DEF Aged
    <2>7. \/ Position(l, Aged) = 0 /\ \A i \in 1 .. m : t[i] \notin Aged
          \/ /\ Position(l, Aged) \in 1 .. m /\ t[Position(l, Aged)] \in Aged
             /\ \A i \in 1 .. m : i < Position(l, Aged) => t[i] \notin Aged
      <3> HIDE DEF l, t, m
      <3> QED BY <2>1, <2>6, PositionChain
    <2>8. CASE j < c
      <3>1. /\ gone(j) = j /\ gone(j + 1) = j + 1 /\ m = k - j /\ 1 \in 1 .. m
            /\ 1 + j <= c /\ m - 1 = k - (j + 1)
        BY <1>1, <2>2, <2>8
      <3>2. t[1] \in Aged
        BY <2>5, <3>1
      <3> HIDE DEF l, t, m, gone
      <3>3. Position(l, Aged) = 1
        <4>1. Position(l, Aged) # 0 /\ ~(1 < Position(l, Aged))
          BY <2>7, <3>1, <3>2
        <4> QED BY <1>1, <2>7, <3>1, <4>1
      <3>4. Chain(Unlink(l, 1), Cut(t, m, 1), m - 1)
        BY <2>1, <3>1, UnlinkChain
      <3>5. Cut(t, m, 1) = Drop(s, k, j + 1)
        <4>1. \A i \in 1 .. m - 1 : i \in Nat /\ ~(i < 1) /\ i + 1 \in 1 .. m
          BY <1>1, <2>2, <3>1
        <4>2. \A i \in 1 .. m - 1 : t[i + 1] = s[i + (j + 1)]
          <5> TAKE i \in 1 .. m - 1
          <5>1. t[i + 1] = s[(i + 1) + j]
            BY <2>4, <3>1, <4>1
          <5>2. (i + 1) + j = i + (j + 1)
            BY <2>2, <4>1
          <5> QED BY <5>1, <5>2
        <4>3. Cut(t, m, 1) = [i \in 1 .. m - 1 |-> t[i + 1]]
          BY <4>1 DEF Cut
        <4> QED BY <3>1, <4>2, <4>3 DEF Drop
      <3> QED BY <2>3, <3>1, <3>3, <3>4, <3>5 DEF PurgeOne
    <2>9. CASE ~(j < c)
      <3>1. gone(j) = c /\ gone(j + 1) = c /\ m = k - c
        BY <1>1, <2>2, <2>9
      <3>2. \A i \in 1 .. m : t[i] \notin Aged
        BY <1>1, <2>4, <2>5, <3>1
      <3>3. Position(l, Aged) = 0
        BY <2>7, <3>2
      <3> QED BY <2>1, <2>3, <3>1, <3>3 DEF PurgeOne
    <2> QED BY <2>8, <2>9
  <1>6. 0 .. N \subseteq T
    <2> HIDE DEF Here
    <2>1. 0 \in T
      BY <1>1, <1>4
    <2>2. \A j \in 0 .. N : j < N /\ j \in T => j + 1 \in T
      BY <1>1, <1>5
    <2> HIDE DEF T
    <2> QED BY <1>1, <2>1, <2>2, InductionTo
  <1>7. Here(N)
    <2> HIDE DEF Here
    <2> QED BY <1>1, <1>6
  <1>8. gone(N) = c
    BY <1>1
  <1> HIDE DEF gone
  <1> QED BY <1>2, <1>7, <1>8

-----------------------------------------------------------------------------
(* The inductive invariant.  The deadlines never decrease along the chain  *)
(* and none is further away than a timeout from now: what is appended next *)
(* cannot run out before what waits already.                               *)
Queued(l, t, n, s, k) ==
  /\ Chain(l, s, k)
  /\ k <= AODV_RTQ_MAX_LEN
  /\ \A i, j \in 1 .. k : i < j => t[s[i]] <= t[s[j]]
  /\ \A i \in 1 .. k : t[s[i]] <= n + AODV_RTQ_TIMEOUT

BufferInv ==
  /\ now \in 0 .. MaxTime
  /\ ts \in [Packet -> Nat]
  /\ got \in Packet \cup {Null}
  /\ \E s, k : Queued(list, ts, now, s, k)

(* Those past their time are in front. *)
LEMMA AgedFirst ==
  ASSUME now \in Nat, ts \in [Packet -> Nat],
         NEW s, NEW k, Queued(list, ts, now, s, k)
  PROVE  \E c \in 0 .. k : \A i \in 1 .. k : s[i] \in Aged <=> i <= c
  <1> DEFINE F == {i \in 1 .. k : s[i] \notin Aged}
  <1>1. /\ k \in Nat /\ s \in [1 .. k -> Packet]
        /\ \A i, j \in 1 .. k : i < j => ts[s[i]] <= ts[s[j]]
    BY DEF Queued, Chain
  <1>2. CASE F = {}
    <2>1. \A i \in 1 .. k : s[i] \in Aged <=> i <= k
      BY <1>1, <1>2
    <2> QED BY <1>1, <2>1
  <1>3. CASE F # {}
    <2>1. F \subseteq Nat
      BY <1>1
    <2>2. PICK x \in F : \A y \in F : x <= y
      BY <1>3, <2>1, LeastElement
    <2>3. x \in 1 .. k /\ s[x] \in Packet /\ x - 1 \in 0 .. k /\ x \in Nat
      BY <1>1, <2>1, <2>2
    <2>4. ts[s[x]] \in Nat /\ ~(ts[s[x]] < now)
      BY <2>2, <2>3 DEF Aged
    <2>5. ASSUME NEW i \in 1 .. k
          PROVE  s[i] \in Aged <=> i <= x - 1
      <3>1. i \in Nat /\ s[i] \in Packet /\ ts[s[i]] \in Nat
        BY <1>1
      <3>2. CASE i < x
        <4>1. i \notin F
          BY <2>2, <2>3, <3>1, <3>2
        <4> QED BY <2>3, <3>1, <3>2, <4>1
      <3>3. CASE ~(i < x)
        <4>1. ts[s[x]] <= ts[s[i]]
          BY <1>1, <2>3, <2>4, <3>1, <3>3
        <4>2. s[i] \notin Aged
          BY <2>4, <3>1, <4>1 DEF Aged
        <4> QED BY <2>3, <3>1, <3>3, <4>2
      <3> QED BY <3>2, <3>3
    <2> QED BY <2>3, <2>5
  <1> QED BY <1>2, <1>3

(* So purge leaves the chain from the first packet that may stay. *)
LEMMA PurgedQueued ==
  ASSUME now \in Nat, ts \in [Packet -> Nat],
         NEW s, NEW k, Queued(list, ts, now, s, k)
  PROVE  \E c \in 0 .. k :
           /\ Queued(Purged, ts, now, Drop(s, k, c), k - c)
           /\ \A i \in 1 .. k : ts[s[i]] < now <=> i <= c
  <1>1. /\ k \in Nat /\ s \in [1 .. k -> Packet] /\ k <= AODV_RTQ_MAX_LEN
        /\ \A i, j \in 1 .. k : i < j => ts[s[i]] <= ts[s[j]]
        /\ \A i \in 1 .. k : ts[s[i]] <= now + AODV_RTQ_TIMEOUT
        /\ Chain(list, s, k)
    BY DEF Queued, Chain
  <1>2. PICK c \in 0 .. k : \A i \in 1 .. k : s[i] \in Aged <=> i <= c
    BY AgedFirst
  <1> DEFINE u == Drop(s, k, c)
             m == k - c
  <1>3. Chain(Purged, u, m)
    BY <1>1, <1>2, PurgedChain
  <1>4. m \in Nat /\ m <= AODV_RTQ_MAX_LEN
    BY <1>1, RQueueAssumption
  <1>5. \A i \in 1 .. m : i \in Nat /\ i + c \in 1 .. k /\ u[i] = s[i + c]
    BY <1>1 DEF Drop
  <1> HIDE DEF u, m
  <1>6. \A i, j \in 1 .. m : i < j => ts[u[i]] <= ts[u[j]]
    <2> SUFFICES ASSUME NEW i \in 1 .. m, NEW j \in 1 .. m, i < j
                 PROVE  ts[u[i]] <= ts[u[j]]
      OBVIOUS
    <2>1. i + c \in 1 .. k /\ j + c \in 1 .. k /\ i + c < j + c
      BY <1>1, <1>5
    <2>2. ts[s[i + c]] <= ts[s[j + c]]
      BY <1>1, <2>1
    <2> QED BY <1>5, <2>2
  <1>7. \A i \in 1 .. m : ts[u[i]] <= now + AODV_RTQ_TIMEOUT
    BY <1>1, <1>5
  <1>8. Queued(Purged, ts, now, u, m)
    BY <1>3, <1>4, <1>6, <1>7 DEF Queued
  <1>9. \A i \in 1 .. k : ts[s[i]] < now <=> i <= c
    BY <1>1, <1>2 DEF Aged
  <1> QED BY <1>8, <1>9 DEF u, m

(* Taking a packet out leaves the others in their order. *)
LEMMA CutQueued ==
  ASSUME NEW l, NEW t \in [Packet -> Nat], NEW n, NEW s, NEW k,
         Queued(l, t, n, s, k), NEW i \in 1 .. k
  PROVE  /\ Queued(Unlink(l, i), t, n, Cut(s, k, i), k - 1)
         /\ \A j \in 1 .. k - 1 : Cut(s, k, i)[j] # s[i]
  <1>1. /\ k \in Nat /\ s \in [1 .. k -> Packet] /\ k <= AODV_RTQ_MAX_LEN
        /\ \A x, y \in 1 .. k : s[x] = s[y] => x = y
        /\ \A x, y \in 1 .. k : x < y => t[s[x]] <= t[s[y]]
        /\ \A x \in 1 .. k : t[s[x]] <= n + AODV_RTQ_TIMEOUT
        /\ Chain(l, s, k)
    BY DEF Queued, Chain
  <1> DEFINE u == Cut(s, k, i)
             at(j) == IF j < i THEN j ELSE j + 1
  <1>2. Chain(Unlink(l, i), u, k - 1)
    BY <1>1, UnlinkChain
  <1>3. k - 1 \in Nat /\ k - 1 <= AODV_RTQ_MAX_LEN /\ i \in Nat
    BY <1>1, RQueueAssumption
  <1>4. \A j \in 1 .. k - 1 : j \in Nat /\ at(j) \in 1 .. k /\ at(j) # i
    BY <1>1
  <1>5. \A j \in 1 .. k - 1 : u[j] = s[at(j)]
    BY DEF Cut
  <1>6. \A x, y \in 1 .. k - 1 : x < y => at(x) < at(y)
    BY <1>1
  <1> HIDE DEF u, at
  <1>7. \A x, y \in 1 .. k - 1 : x < y => t[u[x]] <= t[u[y]]
    BY <1>1, <1>4, <1>5, <1>6
  <1>8. \A x \in 1 .. k - 1 : t[u[x]] <= n + AODV_RTQ_TIMEOUT
    BY <1>1, <1>4, <1>5
  <1>9. \A j \in 1 .. k - 1 : u[j] # s[i]
    BY <1>1, <1>4, <1>5
  <1>10. Queued(Unlink(l, i), t, n, u, k - 1)
    BY <1>2, <1>3, <1>7, <1>8 DEF Queued
  <1> QED BY <1>9, <1>10 DEF u

LEMMA HeadQueued ==
  ASSUME NEW l, NEW s, NEW k, Chain(l, s, k), k # 0
  PROVE  1 \in 1 .. k /\ l.head = s[1] /\ Unlink(l, 1) = RemoveHead(l)
  <1>1. k \in Nat /\ l.head = s[1]
    BY DEF Chain
  <1>2. 1 \in 1 .. k
    BY <1>1
  <1>3. Node(l)[1] = s[1]
    BY <1>2, ChainNode
  <1> QED BY <1>1, <1>2, <1>3 DEF Unlink

(* enque links the new packet in after the last, and makes room for it. *)
Followed(s, k, p) == [i \in 1 .. k + 1 |-> IF i = k + 1 THEN p ELSE s[i]]

LEMMA LinkedChain ==
  ASSUME NEW l, NEW s, NEW k, Chain(l, s, k), NEW p \in Packet,
         \A i \in 1 .. k : s[i] # p
  PROVE  /\ k # AODV_RTQ_MAX_LEN => Chain(Linked(l, p), Followed(s, k, p), k + 1)
         /\ k = AODV_RTQ_MAX_LEN =>
              Chain(Linked(l, p), Followed(Cut(s, k, 1), k - 1, p), k)
  <1>1. /\ l \in Pointers /\ k \in Nat /\ l.len = k /\ s \in [1 .. k -> Packet]
        /\ k # 0 => l.head = s[1]
    BY DEF Chain
  <1> DEFINE m == [l EXCEPT !.next[p] = Null]
             add(n) == IF n.head = Null THEN [n EXCEPT !.head = p, !.tail = p, !.len = @ + 1]
                       ELSE [n EXCEPT !.next[n.tail] = p, !.tail = p, !.len = @ + 1]
  <1>2. m.len = k /\ m.head = l.head /\ m.tail = l.tail /\ m.next = [l.next EXCEPT ![p] = Null]
    BY <1>1 DEF Pointers
  <1>3. CASE k # AODV_RTQ_MAX_LEN
    <2>1. Linked(l, p) = add(m)
      BY <1>2, <1>3 DEF Linked
    <2>2. Chain(add(m), Followed(s, k, p), k + 1)
      BY AppendChain DEF Followed
    <2> QED BY <1>3, <2>1, <2>2
  <1>4. CASE k = AODV_RTQ_MAX_LEN
    <2>1. k # 0 /\ 1 \in 1 .. k /\ k - 1 \in Nat /\ (k - 1) + 1 = k
      BY <1>1, <1>4, RQueueAssumption
    <2>2. Linked(l, p) = add(RemoveHead(m))
      BY <1>2, <1>4 DEF Linked
    <2> DEFINE h == RemoveHead(l)
               u == Cut(s, k, 1)
    <2>3. RemoveHead(m) = [h EXCEPT !.next[p] = Null]
      <3>1. l.head \in Packet /\ l.head # p
        BY <1>1, <2>1
      <3>2. m.next[l.head] = l.next[l.head]
        BY <1>1, <1>2, <3>1 DEF Pointers
      <3>3. h.next = l.next
        BY <1>1 DEF RemoveHead, Pointers
      <3>4. m = [l EXCEPT !.next = [l.next EXCEPT ![p] = Null]]
        BY <1>1 DEF Pointers
      <3> QED BY <1>1, <1>2, <3>1, <3>2, <3>3, <3>4 DEF RemoveHead, Pointers
    <2>4. Chain(h, u, k - 1)
      BY <2>1, RemoveHeadChain
    <2>5. Unlink(l, 1) = h
      BY <2>1, HeadQueued
    <2>6. \A i \in 1 .. k - 1 : u[i] # p
      <3>1. \A i \in 1 .. k - 1 : u[i] = s[i + 1] /\ i + 1 \in 1 .. k
        BY <1>1 DEF Cut
      <3> QED BY <3>1
    <2> HIDE DEF h, u
    <2>7. Chain(add([h EXCEPT !.next[p] = Null]), Followed(u, k - 1, p), (k - 1) + 1)
      BY <2>4, <2>6, AppendChain DEF Followed
    <2> HIDE DEF add, m
    <2>8. Chain(Linked(l, p), Followed(u, k - 1, p), k)
      BY <2>1, <2>2, <2>3, <2>7
    <2> QED BY <1>4, <2>8 DEF u
  <1> QED BY <1>3, <1>4

(* Its deadline is the latest there is. *)
LEMMA FollowedQueued ==
  ASSUME NEW l, NEW t \in [Packet -> Nat], NEW n \in Nat, NEW s, NEW k,
         NEW r, NEW p \in Packet, Queued(l, t, n, s, k), k + 1 <= AODV_RTQ_MAX_LEN,
         \A i \in 1 .. k : s[i] # p, Chain(r, Followed(s, k, p), k + 1)
  PROVE  Queued(r, [t EXCEPT ![p] = n + AODV_RTQ_TIMEOUT], n, Followed(s, k, p), k + 1)
  <1>1. /\ k \in Nat /\ s \in [1 .. k -> Packet]
        /\ \A x, y \in 1 .. k : x < y => t[s[x]] <= t[s[y]]
        /\ \A x \in 1 .. k : t[s[x]] <= n + AODV_RTQ_TIMEOUT
    BY DEF Queued, Chain
  <1> DEFINE u == Followed(s, k, p)
             w == [t EXCEPT ![p] = n + AODV_RTQ_TIMEOUT]
  <1>2. n + AODV_RTQ_TIMEOUT \in Nat
    BY RQueueAssumption
  <1>3. w[p] = n + AODV_RTQ_TIMEOUT /\ \A q \in Packet : q # p => w[q] = t[q]
    OBVIOUS
  <1>4. /\ \A i \in 1 .. k + 1 : i \in Nat /\ (i = k + 1 \/ i \in 1 .. k)
        /\ \A i \in 1 .. k : u[i] = s[i]
        /\ u[k + 1] = p
    BY <1>1 DEF Followed
  <1> HIDE DEF u, w
  <1>5. \A i \in 1 .. k : w[u[i]] = t[s[i]] /\ t[s[i]] \in Nat
    BY <1>1, <1>3, <1>4
  <1>6. w[u[k + 1]] = n + AODV_RTQ_TIMEOUT
    BY <1>3, <1>4
  <1>7. \A i \in 1 .. k + 1 : w[u[i]] <= n + AODV_RTQ_TIMEOUT
    BY <1>1, <1>2, <1>4, <1>5, <1>6
  <1>8. \A x, y \in 1 .. k + 1 : x < y => w[u[x]] <= w[u[y]]
    <2> SUFFICES ASSUME NEW x \in 1 .. k + 1, NEW y \in 1 .. k + 1, x < y
                 PROVE  w[u[x]] <= w[u[y]]
      OBVIOUS
    <2>1. x \in 1 .. k
      BY <1>1
    <2>2. CASE y = k + 1
      BY <1>6, <1>7, <2>2
    <2>3. CASE y \in 1 .. k
      BY <1>1, <1>5, <2>1, <2>3
    <2> QED BY <1>4, <2>2, <2>3
  <1>9. Chain(r, u, k + 1)
    BY DEF u
  <1>10. Queued(r, w, n, u, k + 1)
    BY <1>7, <1>8, <1>9 DEF Queued
  <1> QED BY <1>10 DEF u, w

LEMMA LinkedQueued ==
  ASSUME NEW l, NEW t \in [Packet -> Nat], NEW n \in Nat, NEW s, NEW k,
         Queued(l, t, n, s, k), NEW p \in Packet, \A i \in 1 .. k : s[i] # p
  PROVE  LET w == [t EXCEPT ![p] = n + AODV_RTQ_TIMEOUT] IN
         /\ k # AODV_RTQ_MAX_LEN => Queued(Linked(l, p), w, n, Followed(s, k, p), k + 1)
         /\ k = AODV_RTQ_MAX_LEN =>
              Queued(Linked(l, p), w, n, Followed(Cut(s, k, 1), k - 1, p), k)
  <1> DEFINE w == [t EXCEPT ![p] = n + AODV_RTQ_TIMEOUT]
  <1>1. k \in Nat /\ k <= AODV_RTQ_MAX_LEN /\ Chain(l, s, k) /\ AODV_RTQ_MAX_LEN \in Nat \ {0}
    BY RQueueAssumption DEF Queued, Chain
  <1>2. CASE k # AODV_RTQ_MAX_LEN
    <2>1. k + 1 <= AODV_RTQ_MAX_LEN
      BY <1>1, <1>2
    <2>2. Chain(Linked(l, p), Followed(s, k, p), k + 1)
      BY <1>1, <1>2, LinkedChain
    <2>3. Queued(Linked(l, p), w, n, Followed(s, k, p), k + 1)
      BY <2>1, <2>2, FollowedQueued
    <2> QED BY <1>2, <2>3
  <1>3. CASE k = AODV_RTQ_MAX_LEN
    <2>1. k # 0 /\ 1 \in 1 .. k /\ k - 1 \in Nat /\ (k - 1) + 1 = k
      BY <1>1, <1>3
    <2> DEFINE u == Cut(s, k, 1)
    <2>2. Chain(Linked(l, p), Followed(u, k - 1, p), k)
      BY <1>1, <1>3, LinkedChain
    <2>3. Queued(Unlink(l, 1), t, n, u, k - 1)
      BY <2>1, CutQueued
    <2>4. \A i \in 1 .. k - 1 : u[i] # p
      <3>1. \A i \in 1 .. k - 1 : u[i] = s[i + 1] /\ i + 1 \in 1 .. k
        BY <1>1 DEF Cut
      <3> QED BY <3>1
    <2> HIDE DEF u
    <2>5. (k - 1) + 1 <= AODV_RTQ_MAX_LEN /\ Chain(Linked(l, p), Followed(u, k - 1, p), (k - 1) + 1)
      BY <1>1, <2>1, <2>2
    <2>6. Queued(Linked(l, p), w, n, Followed(u, k - 1, p), (k - 1) + 1)
      BY <2>3, <2>4, <2>5, FollowedQueued
    <2>7. Queued(Linked(l, p), w, n, Followed(u, k - 1, p), k)
      BY <2>1, <2>6
    <2> QED BY <1>3, <2>7 DEF u
  <1> QED BY <1>2, <1>3

-----------------------------------------------------------------------------
(* The chain of the list is the buffer of the abstract specification. *)
LEMMA ChainIsBuffer ==
  ASSUME NEW l, NEW s, NEW k, Chain(l, s, k)
  PROVE  /\ [i \in 1 .. l.len |-> Node(l)[i]] = s
         /\ s \in Seq(Packet) /\ Len(s) = k /\ DOMAIN s = 1 .. k
  <1>1. l.len = k /\ k \in Nat /\ s \in [1 .. k -> Packet]
    BY DEF Chain
  <1>2. \A i \in 1 .. k : Node(l)[i] = s[i]
    BY ChainNode
  <1>3. [i \in 1 .. k |-> Node(l)[i]] = s
    BY <1>1, <1>2
  <1>4. s \in Seq(Packet)
    BY <1>1, SeqDef
  <1>5. DOMAIN s = 1 .. Len(s) /\ Len(s) \in Nat
    BY <1>4, LenProperties
  <1>6. DOMAIN s = 1 .. k
    BY <1>1
  <1>7. Len(s) = k
    BY <1>1, <1>5, <1>6
  <1> QED BY <1>1, <1>3, <1>4, <1>6, <1>7

LEMMA DropIsFresh ==
  ASSUME now \in Nat, ts \in [Packet -> Nat],
         NEW s, NEW k, Queued(list, ts, now, s, k), NEW c \in 0 .. k,
         \A i \in 1 .. k : ts[s[i]] < now <=> i <= c
  PROVE  Buffer!Fresh = Drop(s, k, c)
  <1>1. Chain(list, s, k) /\ k \in Nat /\ s \in [1 .. k -> Packet]
    BY DEF Queued, Chain
  <1>2. /\ [i \in 1 .. list.len |-> Node(list)[i]] = s
        /\ s \in Seq(Packet) /\ Len(s) = k /\ DOMAIN s = 1 .. k
    BY <1>1, ChainIsBuffer
  <1> DEFINE U == {i \in 1 .. k : ts[s[i]] >= now}
  <1>3. Buffer!Staying = U
    BY <1>2 DEF Buffer!Staying
  <1>4. Buffer!Fresh = IF U = {} THEN <<>> ELSE SubSeq(s, Min(U), k)
    <2> HIDE DEF U
    <2>1. Buffer!Fresh = IF U = {} THEN <<>> ELSE SubSeq(s, Buffer!Min(U), k)
      BY <1>2, <1>3 DEF Buffer!Fresh
    <2>2. Buffer!Min(U) = Min(U)
      BY DEF Buffer!Min, Min
    <2> QED BY <2>1, <2>2
  <1>5. \A i \in 1 .. k : i \in U <=> i > c
    <2> TAKE i \in 1 .. k
    <2>1. ts[s[i]] \in Nat /\ i \in Nat /\ c \in Nat
      BY <1>1
    <2> QED BY <2>1
  <1>6. Drop(s, k, c) \in Seq(Packet) /\ Len(Drop(s, k, c)) = k - c
    <2>1. k - c \in Nat /\ \A j \in 1 .. k - c : s[j + c] \in Packet
      BY <1>1
    <2>2. Drop(s, k, c) \in [1 .. k - c -> Packet]
      BY <2>1 DEF Drop
    <2>3. Drop(s, k, c) \in Seq(Packet)
      BY <2>1, <2>2, SeqDef
    <2>4. DOMAIN Drop(s, k, c) = 1 .. Len(Drop(s, k, c)) /\ Len(Drop(s, k, c)) \in Nat
      BY <2>3, LenProperties
    <2> QED BY <2>1, <2>2, <2>3, <2>4
  <1>7. CASE c = k
    <2>1. U = {}
      BY <1>1, <1>5, <1>7
    <2>2. Drop(s, k, c) = <<>>
      BY <1>1, <1>6, <1>7, EmptySeq
    <2> QED BY <1>4, <2>1, <2>2
  <1>8. CASE c # k
    <2>1. c + 1 \in 1 .. k /\ c + 1 \in U
      BY <1>1, <1>5, <1>8
    <2>2. Min(U) = c + 1
      <3>1. U \subseteq Nat /\ \A j \in U : c + 1 <= j
        BY <1>1, <1>5
      <3> HIDE DEF U
      <3> QED BY <2>1, <3>1, LeastIsMin
    <2>3. Buffer!Fresh = SubSeq(s, c + 1, k)
      <3> HIDE DEF U
      <3> QED BY <1>4, <2>1, <2>2
    <2>4. /\ SubSeq(s, c + 1, k) \in Seq(Packet)
          /\ Len(SubSeq(s, c + 1, k)) = k - (c + 1) + 1
          /\ \A i \in 1 .. k - (c + 1) + 1 : SubSeq(s, c + 1, k)[i] = s[(c + 1) + i - 1]
      <3>1. \A i \in c + 1 .. k : s[i] \in Packet
        BY <1>1
      <3>2. c + 1 \in Int /\ k \in Int /\ c + 1 <= k
        BY <1>1, <2>1
      <3> HIDE DEF U
      <3> QED BY <3>1, <3>2, SubSeqProperties
    <2>5. k - (c + 1) + 1 = k - c
      BY <1>1
    <2>6. \A i \in 1 .. k - c : SubSeq(s, c + 1, k)[i] = Drop(s, k, c)[i]
      <3> TAKE i \in 1 .. k - c
      <3>1. (c + 1) + i - 1 = i + c
        BY <1>1
      <3> QED BY <2>4, <2>5, <3>1 DEF Drop
    <2>7. SubSeq(s, c + 1, k) = Drop(s, k, c)
      BY <1>6, <2>4, <2>5, <2>6, SeqEqual
    <2> QED BY <2>3, <2>7
  <1> QED BY <1>7, <1>8

(* What purge leaves, said once for every call. *)
LEMMA AfterPurge ==
  ASSUME BufferInv
  PROVE  \E u, m : /\ Queued(Purged, ts, now, u, m)
                   /\ Buffer!Fresh = u
                   /\ \A i \in 1 .. m : u[i] \in In(list) /\ ts[u[i]] >= now
  <1>1. now \in Nat /\ ts \in [Packet -> Nat]
    BY RQueueAssumption DEF BufferInv
  <1>2. PICK s, k : Queued(list, ts, now, s, k)
    BY DEF BufferInv
  <1>3. Chain(list, s, k) /\ k \in Nat /\ s \in [1 .. k -> Packet]
    BY <1>2 DEF Queued, Chain
  <1>4. PICK c \in 0 .. k : /\ Queued(Purged, ts, now, Drop(s, k, c), k - c)
                            /\ \A i \in 1 .. k : ts[s[i]] < now <=> i <= c
    BY <1>1, <1>2, PurgedQueued
  <1>5. Buffer!Fresh = Drop(s, k, c)
    BY <1>1, <1>2, <1>4, DropIsFresh
  <1>6. ASSUME NEW i \in 1 .. k - c
        PROVE  Drop(s, k, c)[i] \in In(list) /\ ts[Drop(s, k, c)[i]] >= now
    <2>1. i + c \in 1 .. k /\ ~(i + c <= c) /\ Drop(s, k, c)[i] = s[i + c]
      BY <1>3 DEF Drop
    <2>2. In(list) = {s[j] : j \in 1 .. k}
      BY <1>3, InChain
    <2>3. ts[s[i + c]] \in Nat
      BY <1>1, <1>3, <2>1
    <2> QED BY <1>1, <1>4, <2>1, <2>2, <2>3
  <1> QED BY <1>4, <1>5, <1>6

-----------------------------------------------------------------------------
(* The operators on sequences of the abstract specification. *)
LEMMA FunctionIsSeq ==
  ASSUME NEW k \in Nat, NEW s \in [1 .. k -> Packet]
  PROVE  s \in Seq(Packet) /\ Len(s) = k
  <1>1. s \in Seq(Packet)
    BY SeqDef
  <1>2. DOMAIN s = 1 .. Len(s) /\ Len(s) \in Nat
    BY <1>1, LenProperties
  <1> QED BY <1>1, <1>2

LEMMA AppendIsFollowed ==
  ASSUME NEW k \in Nat, NEW s \in [1 .. k -> Packet], NEW p \in Packet
  PROVE  Append(s, p) = Followed(s, k, p)
  <1>1. s \in Seq(Packet) /\ Len(s) = k
    BY FunctionIsSeq
  <1>2. /\ Append(s, p) \in Seq(Packet) /\ Len(Append(s, p)) = k + 1
        /\ \A i \in 1 .. k : Append(s, p)[i] = s[i]
        /\ Append(s, p)[k + 1] = p
    BY <1>1, AppendProperties
  <1>3. Followed(s, k, p) \in Seq(Packet) /\ Len(Followed(s, k, p)) = k + 1
    <2>1. k + 1 \in Nat /\ \A i \in 1 .. k + 1 : (IF i = k + 1 THEN p ELSE s[i]) \in Packet
      OBVIOUS
    <2>2. Followed(s, k, p) \in [1 .. k + 1 -> Packet]
      BY <2>1 DEF Followed
    <2> QED BY <2>1, <2>2, FunctionIsSeq
  <1>4. \A i \in 1 .. k + 1 : Append(s, p)[i] = Followed(s, k, p)[i]
    <2> TAKE i \in 1 .. k + 1
    <2>1. i = k + 1 \/ i \in 1 .. k
      OBVIOUS
    <2>2. Followed(s, k, p)[i] = IF i = k + 1 THEN p ELSE s[i]
      BY DEF Followed
    <2> QED BY <1>2, <2>1, <2>2
  <1> QED BY <1>2, <1>3, <1>4, SeqEqual

LEMMA CutIsSeq ==
  ASSUME NEW k \in Nat, NEW s \in [1 .. k -> Packet], NEW i \in 1 .. k
  PROVE  /\ Cut(s, k, i) \in Seq(Packet) /\ Len(Cut(s, k, i)) = k - 1 /\ k - 1 \in Nat
         /\ Cut(s, k, i) \in [1 .. k - 1 -> Packet]
  <1>1. k - 1 \in Nat /\ \A j \in 1 .. k - 1 : (IF j < i THEN s[j] ELSE s[j + 1]) \in Packet
    OBVIOUS
  <1>2. Cut(s, k, i) \in [1 .. k - 1 -> Packet]
    BY <1>1 DEF Cut
  <1> QED BY <1>1, <1>2, FunctionIsSeq

LEMMA TailIsCut ==
  ASSUME NEW k \in Nat, NEW s \in [1 .. k -> Packet], k # 0
  PROVE  Tail(s) = Cut(s, k, 1) /\ Head(s) = s[1]
  <1>1. s \in Seq(Packet) /\ Len(s) = k /\ 1 \in 1 .. k
    BY FunctionIsSeq
  <1>2. s # <<>>
    BY <1>1, EmptySeq
  <1>3. /\ Tail(s) \in Seq(Packet) /\ Len(Tail(s)) = k - 1
        /\ \A i \in 1 .. k - 1 : Tail(s)[i] = s[i + 1]
    BY <1>1, <1>2, HeadTailProperties
  <1>4. Cut(s, k, 1) \in Seq(Packet) /\ Len(Cut(s, k, 1)) = k - 1
    BY <1>1, CutIsSeq
  <1>5. \A i \in 1 .. k - 1 : Tail(s)[i] = Cut(s, k, 1)[i]
    BY <1>3 DEF Cut
  <1>6. Head(s) = s[1]
    BY <1>1, <1>2
  <1> QED BY <1>3, <1>4, <1>5, <1>6, SeqEqual

LEMMA RemoveAtIsCut ==
  ASSUME NEW k \in Nat, NEW s \in [1 .. k -> Packet], NEW i \in 1 .. k
  PROVE  Buffer!RemoveAt(s, i) = Cut(s, k, i)
  <1>1. s \in Seq(Packet) /\ Len(s) = k /\ i \in Nat
    BY FunctionIsSeq
  <1> DEFINE a == SubSeq(s, 1, i - 1)
             b == SubSeq(s, i + 1, k)
  <1>2. /\ a \in Seq(Packet) /\ Len(a) = i - 1
        /\ \A j \in 1 .. i - 1 : a[j] = s[j]
    <2>1. \A j \in 1 .. i - 1 : s[j] \in Packet
      OBVIOUS
    <2>2. /\ a \in Seq(Packet)
          /\ Len(a) = IF 1 <= i - 1 THEN (i - 1) - 1 + 1 ELSE 0
          /\ \A j \in 1 .. (i - 1) - 1 + 1 : a[j] = s[1 + j - 1]
      <3>1. 1 \in Int /\ i - 1 \in Int
        OBVIOUS
      <3> QED BY <2>1, <3>1, SubSeqProperties
    <2>3. (i - 1) - 1 + 1 = i - 1 /\ \A j \in 1 .. i - 1 : 1 + j - 1 = j
      OBVIOUS
    <2> HIDE DEF a
    <2> QED BY <2>2, <2>3
  <1>3. /\ b \in Seq(Packet) /\ Len(b) = k - i
        /\ \A j \in 1 .. k - i : b[j] = s[i + j]
    <2>1. \A j \in i + 1 .. k : s[j] \in Packet
      OBVIOUS
    <2>2. /\ b \in Seq(Packet)
          /\ Len(b) = IF i + 1 <= k THEN k - (i + 1) + 1 ELSE 0
          /\ \A j \in 1 .. k - (i + 1) + 1 : b[j] = s[(i + 1) + j - 1]
      <3>1. i + 1 \in Int /\ k \in Int
        OBVIOUS
      <3> QED BY <2>1, <3>1, SubSeqProperties
    <2>3. k - (i + 1) + 1 = k - i /\ \A j \in 1 .. k - i : (i + 1) + j - 1 = i + j
      OBVIOUS
    <2> HIDE DEF b
    <2> QED BY <2>2, <2>3
  <1> HIDE DEF a, b
  <1>4. /\ a \o b \in Seq(Packet) /\ Len(a \o b) = (i - 1) + (k - i)
        /\ \A j \in 1 .. (i - 1) + (k - i) :
             (a \o b)[j] = IF j <= i - 1 THEN a[j] ELSE b[j - (i - 1)]
    <2>1. /\ a \o b \in Seq(Packet) /\ Len(a \o b) = Len(a) + Len(b)
          /\ \A j \in 1 .. Len(a) + Len(b) :
               (a \o b)[j] = IF j <= Len(a) THEN a[j] ELSE b[j - Len(a)]
      BY <1>2, <1>3, ConcatProperties
    <2> QED BY <1>2, <1>3, <2>1
  <1>5. (i - 1) + (k - i) = k - 1
    OBVIOUS
  <1>6. Cut(s, k, i) \in Seq(Packet) /\ Len(Cut(s, k, i)) = k - 1
    BY CutIsSeq
  <1>7. \A j \in 1 .. k - 1 : (a \o b)[j] = Cut(s, k, i)[j]
    <2> TAKE j \in 1 .. k - 1
    <2>1. Cut(s, k, i)[j] = IF j < i THEN s[j] ELSE s[j + 1]
      BY DEF Cut
    <2>2. CASE j < i
      <3>1. j <= i - 1 /\ j \in 1 .. i - 1
        BY <2>2
      <3> QED BY <1>2, <1>4, <1>5, <2>1, <2>2, <3>1
    <2>3. CASE ~(j < i)
      <3>1. ~(j <= i - 1) /\ j - (i - 1) \in 1 .. k - i /\ i + (j - (i - 1)) = j + 1
        BY <2>3
      <3> QED BY <1>3, <1>4, <1>5, <2>1, <2>3, <3>1
    <2> QED BY <2>2, <2>3
  <1>8. a \o b = Cut(s, k, i)
    BY <1>4, <1>5, <1>6, <1>7, SeqEqual
  <1> QED BY <1>1, <1>8 DEF Buffer!RemoveAt, a, b

-----------------------------------------------------------------------------
(* What HandsOutFresh says of a step. *)
HandOut == got' # Null /\ got' # got => got' \notin Held' /\ ts[got'] >= now

LEMMA InitBuffer ==
  ASSUME Init
  PROVE  BufferInv /\ Buffer!Init
  <1> DEFINE s == [i \in 1 .. 0 |-> Null]
  <1>1. /\ now = 0 /\ got = Null /\ ts = [p \in Packet |-> 0]
        /\ list = [head |-> Null, tail |-> Null, len |-> 0, next |-> [p \in Packet |-> Null]]
    BY DEF Init
  <1>2. list \in Pointers
    BY <1>1 DEF Pointers
  <1>3. /\ list.len = 0 /\ list.head = Null /\ list.tail = Null
        /\ s \in [1 .. 0 -> Packet] /\ \A i \in 1 .. 0 : FALSE
    BY <1>1
  <1> HIDE DEF s
  <1>4. Chain(list, s, 0)
    BY <1>2, <1>3 DEF Chain
  <1>5. Queued(list, ts, now, s, 0)
    BY <1>3, <1>4, RQueueAssumption DEF Queued
  <1>6. BufferInv
    <2>1. now \in 0 .. MaxTime /\ ts \in [Packet -> Nat] /\ got \in Packet \cup {Null}
      BY <1>1, RQueueAssumption
    <2> QED BY <1>5, <2>1 DEF BufferInv
  <1>7. [i \in 1 .. list.len |-> Node(list)[i]] = <<>>
    <2>1. /\ [i \in 1 .. list.len |-> Node(list)[i]] = s
          /\ s \in Seq(Packet) /\ Len(s) = 0
      BY <1>4, ChainIsBuffer
    <2>2. s = <<>>
      BY <2>1, EmptySeq
    <2> QED BY <2>1, <2>2
  <1>8. Buffer!Init
    BY <1>1, <1>7 DEF Buffer!Init
  <1> QED BY <1>6, <1>8

LEMMA EnqueStep ==
  ASSUME BufferInv, NEW p \in Packet, Enque(p)
  PROVE  BufferInv' /\ HandOut /\ Buffer!Enque(p)
  <1> DEFINE l == Purged
             w == [ts EXCEPT ![p] = now + AODV_RTQ_TIMEOUT]
  <1>1. PICK u, m : /\ Queued(Purged, ts, now, u, m)
                    /\ Buffer!Fresh = u
                    /\ \A i \in 1 .. m : u[i] \in In(list) /\ ts[u[i]] >= now
    BY AfterPurge
  <1>2. /\ now \in 0 .. MaxTime /\ now \in Nat /\ ts \in [Packet -> Nat]
        /\ AODV_RTQ_TIMEOUT \in Nat /\ AODV_RTQ_MAX_LEN \in Nat \ {0} /\ Null \notin Packet
    BY RQueueAssumption DEF BufferInv
  <1>3. /\ list' = Linked(l, p) /\ ts' = w /\ now' = now
        /\ got' = IF l.len = AODV_RTQ_MAX_LEN THEN l.head ELSE Null
        /\ p \notin In(list)
    BY DEF Enque, Restamped, In, Held
  <1>4. /\ Chain(l, u, m) /\ m \in Nat /\ m <= AODV_RTQ_MAX_LEN /\ l.len = m
        /\ u \in [1 .. m -> Packet]
        /\ m # 0 => l.head = u[1] /\ 1 \in 1 .. m
    BY <1>1 DEF Queued, Chain
  <1>5. \A i \in 1 .. m : u[i] # p
    BY <1>1, <1>3
  <1>6. w \in [Packet -> Nat]
    BY <1>2
  <1>7. /\ m # AODV_RTQ_MAX_LEN => Queued(list', w, now, Followed(u, m, p), m + 1)
        /\ m = AODV_RTQ_MAX_LEN =>
             Queued(list', w, now, Followed(Cut(u, m, 1), m - 1, p), m)
    <2> HIDE DEF l
    <2> QED BY <1>1, <1>2, <1>3, <1>5, LinkedQueued DEF l
  <1>8. [i \in 1 .. list.len |-> Node(list)[i]] \in Seq(Packet)
        /\ Buffer!Held = In(list)
    <2>1. PICK s, k : Queued(list, ts, now, s, k)
      BY DEF BufferInv
    <2>2. Chain(list, s, k)
      BY <2>1 DEF Queued
    <2>3. /\ [i \in 1 .. list.len |-> Node(list)[i]] = s
          /\ s \in Seq(Packet) /\ DOMAIN s = 1 .. k
      BY <2>2, ChainIsBuffer
    <2>4. In(list) = {s[i] : i \in 1 .. k}
      BY <2>2, InChain
    <2> QED BY <2>3, <2>4 DEF Buffer!Held
  <1>9. Len(u) = m
    BY <1>4, FunctionIsSeq
  <1> HIDE DEF w, l
  <1>10. CASE m # AODV_RTQ_MAX_LEN
    <2> DEFINE t == Followed(u, m, p)
    <2>1. Queued(list', ts', now', t, m + 1) /\ got' = Null
      BY <1>3, <1>4, <1>7, <1>10
    <2>2. BufferInv'
      <3>1. \E s, k : Queued(list', ts', now', s, k)
        BY <2>1
      <3> QED BY <1>2, <1>3, <1>6, <2>1, <3>1 DEF BufferInv
    <2>3. [i \in 1 .. list'.len |-> Node(list')[i]] = Append(u, p)
      <3>1. Chain(list', t, m + 1)
        BY <2>1 DEF Queued
      <3>2. [i \in 1 .. list'.len |-> Node(list')[i]] = t
        BY <3>1, ChainIsBuffer
      <3>3. Append(u, p) = t
        BY <1>4, AppendIsFollowed
      <3> QED BY <3>2, <3>3
    <2>4. Buffer!Enque(p)
      BY <1>1, <1>3, <1>8, <1>9, <1>10, <2>1, <2>3 DEF Buffer!Enque, w
    <2>5. HandOut
      BY <2>1 DEF HandOut
    <2> QED BY <2>2, <2>4, <2>5
  <1>11. CASE m = AODV_RTQ_MAX_LEN
    <2> DEFINE c == Cut(u, m, 1)
               t == Followed(c, m - 1, p)
    <2>1. m # 0 /\ 1 \in 1 .. m /\ m - 1 \in Nat /\ (m - 1) + 1 = m /\ u[1] \in Packet
      BY <1>2, <1>4, <1>11
    <2>2. Queued(list', ts', now', t, m) /\ got' = u[1]
      BY <1>3, <1>4, <1>7, <1>11, <2>1
    <2>3. BufferInv'
      <3>1. \E s, k : Queued(list', ts', now', s, k)
        BY <2>2
      <3>2. got' \in Packet \cup {Null}
        BY <2>1, <2>2
      <3> QED BY <1>2, <1>3, <1>6, <3>1, <3>2 DEF BufferInv
    <2>4. c \in [1 .. m - 1 -> Packet] /\ Tail(u) = c /\ Head(u) = u[1]
      BY <1>4, <2>1, CutIsSeq, TailIsCut
    <2>5. Chain(list', t, m)
      BY <2>2 DEF Queued
    <2>6. [i \in 1 .. list'.len |-> Node(list')[i]] = Append(Tail(u), p)
      <3>1. [i \in 1 .. list'.len |-> Node(list')[i]] = t
        BY <2>5, ChainIsBuffer
      <3>2. Append(c, p) = t
        BY <2>1, <2>4, AppendIsFollowed
      <3> QED BY <2>4, <3>1, <3>2
    <2>7. Buffer!Enque(p)
      <3> HIDE DEF c, t
      <3> QED BY <1>1, <1>3, <1>8, <1>9, <1>11, <2>2, <2>4, <2>6 DEF Buffer!Enque, w
    <2>8. HandOut
      <3>1. Held' = In(list')
        BY DEF Held, In
      <3>2. In(list') = {t[i] : i \in 1 .. m}
        BY <2>5, InChain
      <3>3. \A i \in 1 .. m : t[i] # u[1]
        <4> TAKE i \in 1 .. m
        <4>1. t[i] = IF i = m THEN p ELSE c[i]
          BY <2>1 DEF Followed
        <4>2. i # m => i \in 1 .. m - 1
          BY <1>4
        <4>3. \A j \in 1 .. m - 1 : c[j] # u[1]
          BY <1>1, <1>2, <2>1, CutQueued
        <4> QED BY <1>5, <2>1, <4>1, <4>2, <4>3
      <3>4. ts[u[1]] >= now
        BY <1>1, <2>1
      <3> HIDE DEF t, c
      <3> QED BY <2>2, <3>1, <3>2, <3>3, <3>4 DEF HandOut
    <2> QED BY <2>3, <2>7, <2>8
  <1> QED BY <1>10, <1>11

(* Both deques: the first of the packets wanted, if there is one. *)
LEMMA TakeStep ==
  ASSUME BufferInv, NEW wanted, wanted \subseteq Packet,
         list' = (IF Position(Purged, wanted) = 0 THEN Purged
                  ELSE Unlink(Purged, Position(Purged, wanted))),
         got' = (IF Position(Purged, wanted) = 0 THEN Null
                 ELSE Node(Purged)[Position(Purged, wanted)]),
         now' = now, ts' = ts
  PROVE  BufferInv' /\ HandOut /\ Buffer!Take(wanted)
  <1> DEFINE l == Purged
             i == Position(l, wanted)
  <1>1. PICK u, m : /\ Queued(Purged, ts, now, u, m)
                    /\ Buffer!Fresh = u
                    /\ \A j \in 1 .. m : u[j] \in In(list) /\ ts[u[j]] >= now
    BY AfterPurge
  <1>2. /\ now \in 0 .. MaxTime /\ ts \in [Packet -> Nat] /\ Null \notin Packet
    BY RQueueAssumption DEF BufferInv
  <1>3. Chain(l, u, m) /\ m \in Nat /\ u \in [1 .. m -> Packet]
    BY <1>1 DEF Queued, Chain
  <1>4. \/ i = 0 /\ \A j \in 1 .. m : u[j] \notin wanted
        \/ i \in 1 .. m /\ u[i] \in wanted /\ \A j \in 1 .. m : j < i => u[j] \notin wanted
    <2> HIDE DEF l
    <2> QED BY <1>3, PositionChain
  <1>5. DOMAIN u = 1 .. m
    BY <1>3
  <1> DEFINE is == {j \in 1 .. m : u[j] \in wanted}
  <1>6. CASE i = 0
    <2>1. list' = l /\ got' = Null
      BY <1>6
    <2>2. is = {}
      BY <1>4, <1>6
    <2>3. BufferInv'
      <3>1. Queued(list', ts', now', u, m)
        BY <1>1, <2>1
      <3>2. \E s, k : Queued(list', ts', now', s, k)
        BY <3>1
      <3> QED BY <1>2, <2>1, <3>2 DEF BufferInv
    <2>4. [j \in 1 .. list'.len |-> Node(list')[j]] = u
      <3> HIDE DEF l
      <3> QED BY <1>3, <2>1, ChainIsBuffer
    <2>5. Buffer!Take(wanted)
      <3> HIDE DEF l, i
      <3> QED BY <1>1, <1>5, <2>1, <2>2, <2>4 DEF Buffer!Take
    <2>6. HandOut
      BY <2>1 DEF HandOut
    <2> QED BY <2>3, <2>5, <2>6
  <1>7. CASE i # 0
    <2> DEFINE t == Cut(u, m, i)
    <2>1. i \in 1 .. m /\ u[i] \in wanted /\ i \in Nat
      BY <1>3, <1>4, <1>7
    <2>2. list' = Unlink(l, i) /\ got' = u[i]
      <3>1. Node(l)[i] = u[i]
        <4> HIDE DEF l, i
        <4> QED BY <1>3, <2>1, ChainNode
      <3> QED BY <1>7, <3>1
    <2>3. /\ Queued(list', ts', now', t, m - 1)
          /\ \A j \in 1 .. m - 1 : t[j] # u[i]
      <3>1. Queued(l, ts, now, u, m)
        BY <1>1
      <3> HIDE DEF l, i
      <3>2. /\ Queued(Unlink(l, i), ts, now, t, m - 1)
            /\ \A j \in 1 .. m - 1 : t[j] # u[i]
        BY <1>2, <2>1, <3>1, CutQueued
      <3> QED BY <2>2, <3>2
    <2> HIDE DEF l, i
    <2>4. BufferInv'
      <3>1. \E s, k : Queued(list', ts', now', s, k)
        BY <2>3
      <3>2. got' \in Packet \cup {Null}
        BY <1>3, <2>1, <2>2
      <3> QED BY <1>2, <3>1, <3>2 DEF BufferInv
    <2>5. Chain(list', t, m - 1)
      BY <2>3 DEF Queued
    <2>6. [j \in 1 .. list'.len |-> Node(list')[j]] = Buffer!RemoveAt(u, i)
      <3>1. [j \in 1 .. list'.len |-> Node(list')[j]] = t
        BY <2>5, ChainIsBuffer
      <3>2. Buffer!RemoveAt(u, i) = t
        BY <1>3, <2>1, RemoveAtIsCut
      <3> QED BY <3>1, <3>2
    <2>7. i \in is /\ Min(is) = i
      <3>1. i \in is /\ is \subseteq Nat
        BY <1>3, <2>1
      <3>2. \A j \in is : i <= j
        <4> TAKE j \in is
        <4>1. j \in 1 .. m /\ j \in Nat /\ u[j] \in wanted
          BY <1>3
        <4>2. ~(j < i)
          BY <1>4, <1>7, <4>1
        <4> QED BY <2>1, <4>1, <4>2
      <3> HIDE DEF is
      <3> QED BY <3>1, <3>2, LeastIsMin
    <2>8. Buffer!Take(wanted)
      <3>1. Buffer!Min(is) = i
        <4> HIDE DEF is
        <4> QED BY <2>7 DEF Buffer!Min, Min
      <3>2. {j \in DOMAIN Buffer!Fresh : Buffer!Fresh[j] \in wanted} = is /\ is # {}
        BY <1>1, <1>5, <2>7
      <3> HIDE DEF is
      <3> QED BY <1>1, <2>2, <2>6, <3>1, <3>2 DEF Buffer!Take
    <2>9. HandOut
      <3>1. Held' = In(list')
        BY DEF Held, In
      <3>2. In(list') = {t[j] : j \in 1 .. m - 1}
        BY <2>5, InChain
      <3>3. ts[u[i]] >= now
        BY <1>1, <2>1
      <3> HIDE DEF t
      <3> QED BY <2>2, <2>3, <3>1, <3>2, <3>3 DEF HandOut
    <2> QED BY <2>4, <2>8, <2>9
  <1> QED BY <1>6, <1>7

LEMMA DequeStep ==
  ASSUME BufferInv, Deque
  PROVE  BufferInv' /\ HandOut /\ Buffer!Take(Packet)
  <1> DEFINE l == Purged
  <1>1. list' = RemoveHead(l) /\ got' = l.head /\ now' = now /\ ts' = ts
    BY DEF Deque
  <1>2. PICK u, m : Chain(l, u, m)
    BY AfterPurge DEF Queued
  <1>3. m \in Nat /\ u \in [1 .. m -> Packet]
    BY <1>2 DEF Chain
  <1> HIDE DEF l
  <1>4. \/ Position(l, Packet) = 0 /\ \A j \in 1 .. m : u[j] \notin Packet
        \/ Position(l, Packet) \in 1 .. m
             /\ \A j \in 1 .. m : j < Position(l, Packet) => u[j] \notin Packet
    BY <1>2, PositionChain
  <1>5. /\ RemoveHead(l) = IF Position(l, Packet) = 0 THEN l ELSE Unlink(l, Position(l, Packet))
        /\ l.head = IF Position(l, Packet) = 0 THEN Null ELSE Node(l)[Position(l, Packet)]
    <2>1. CASE m = 0
      <3>1. Position(l, Packet) = 0
        BY <1>4, <2>1
      <3>2. RemoveHead(l) = l
        BY <1>2, <2>1, RemoveHeadEmpty
      <3>3. l.head = Null
        BY <1>2, <2>1 DEF Chain
      <3> QED BY <3>1, <3>2, <3>3
    <2>2. CASE m # 0
      <3>1. 1 \in 1 .. m /\ l.head = u[1] /\ Unlink(l, 1) = RemoveHead(l)
        BY <1>2, <2>2, HeadQueued
      <3>2. Position(l, Packet) = 1
        <4>1. u[1] \in Packet
          BY <1>3, <3>1
        <4>2. Position(l, Packet) \in 1 .. m /\ ~(1 < Position(l, Packet))
          BY <1>4, <3>1, <4>1
        <4> QED BY <1>3, <4>2
      <3>3. Node(l)[1] = u[1]
        BY <1>2, <3>1, ChainNode
      <3> QED BY <3>1, <3>2, <3>3
    <2> QED BY <2>1, <2>2
  <1> QED BY <1>1, <1>5, TakeStep DEF l

LEMMA DequeForStep ==
  ASSUME BufferInv, NEW p \in Packet, DequeFor(Dst[p])
  PROVE  BufferInv' /\ HandOut /\ Buffer!Take({q \in Packet : Dst[q] = Dst[p]})
  <1> DEFINE wanted == {q \in Packet : Dst[q] = Dst[p]}
  <1>1. wanted \subseteq Packet
    OBVIOUS
  <1>2. /\ list' = IF Position(Purged, wanted) = 0 THEN Purged
                   ELSE Unlink(Purged, Position(Purged, wanted))
        /\ got' = IF Position(Purged, wanted) = 0 THEN Null
                  ELSE Node(Purged)[Position(Purged, wanted)]
        /\ now' = now /\ ts' = ts
    BY DEF DequeFor
  <1> HIDE DEF wanted
  <1>3. BufferInv' /\ HandOut /\ Buffer!Take(wanted)
    BY <1>1, <1>2, TakeStep
  <1> QED BY <1>3 DEF wanted

LEMMA TickStep ==
  ASSUME BufferInv, Tick
  PROVE  BufferInv' /\ HandOut /\ Buffer!Tick
  <1>1. /\ now \in 0 .. MaxTime /\ MaxTime \in Nat /\ AODV_RTQ_TIMEOUT \in Nat
        /\ now < MaxTime /\ now' = now + 1 /\ list' = list /\ ts' = ts /\ got' = got
    BY RQueueAssumption DEF BufferInv, Tick
  <1>2. PICK s, k : Queued(list, ts, now, s, k)
    BY DEF BufferInv
  <1>3. Queued(list', ts', now', s, k)
    <2>1. /\ Chain(list, s, k) /\ k <= AODV_RTQ_MAX_LEN
          /\ \A i, j \in 1 .. k : i < j => ts[s[i]] <= ts[s[j]]
          /\ \A i \in 1 .. k : ts[s[i]] <= now + AODV_RTQ_TIMEOUT
      BY <1>2 DEF Queued
    <2>2. \A i \in 1 .. k : ts[s[i]] <= (now + 1) + AODV_RTQ_TIMEOUT
      <3> TAKE i \in 1 .. k
      <3>1. ts[s[i]] \in Nat
        BY <2>1 DEF Chain, BufferInv
      <3> QED BY <1>1, <2>1, <3>1
    <2> QED BY <1>1, <2>1, <2>2 DEF Queued
  <1>4. BufferInv'
    <2>1. \E s1, k1 : Queued(list', ts', now', s1, k1)
      BY <1>3
    <2>2. now' \in 0 .. MaxTime
      BY <1>1
    <2> QED BY <1>1, <2>1, <2>2 DEF BufferInv
  <1>5. Buffer!Tick
    BY <1>1 DEF Buffer!Tick
  <1>6. HandOut
    BY <1>1 DEF HandOut
  <1> QED BY <1>4, <1>5, <1>6

LEMMA NextStep ==
  ASSUME BufferInv, Next
  PROVE  BufferInv' /\ HandOut /\ Buffer!Next
  <1>1. ASSUME NEW p \in Packet, Enque(p)
        PROVE  BufferInv' /\ HandOut /\ Buffer!Next
    BY <1>1, EnqueStep DEF Buffer!Next
  <1>2. CASE Deque
    BY <1>2, DequeStep DEF Buffer!Next
  <1>3. ASSUME NEW p \in Packet, DequeFor(Dst[p])
        PROVE  BufferInv' /\ HandOut /\ Buffer!Next
    BY <1>3, DequeForStep DEF Buffer!Next
  <1>4. CASE Tick
    BY <1>4, TickStep DEF Buffer!Next
  <1> QED BY <1>1, <1>2, <1>3, <1>4 DEF Next

LEMMA StutterStep ==
  ASSUME BufferInv, UNCHANGED vars
  PROVE  /\ BufferInv' /\ HandOut
         /\ UNCHANGED <<now, [i \in 1 .. list.len |-> Node(list)[i]], ts, got>>
  <1>1. now' = now /\ list' = list /\ ts' = ts /\ got' = got
    BY DEF vars
  <1> QED BY <1>1 DEF BufferInv, HandOut

LEMMA BufferInvariant == Spec => []BufferInv
  <1>1. Init => BufferInv
    BY InitBuffer
  <1>2. BufferInv /\ [Next]_vars => BufferInv'
    BY NextStep, StutterStep
  <1> QED BY <1>1, <1>2, PTL DEF Spec

-----------------------------------------------------------------------------
LEMMA InvImpliesTypeOK ==
  ASSUME BufferInv
  PROVE  TypeOK
  <1>1. PICK s, k : Queued(list, ts, now, s, k)
    BY DEF BufferInv
  <1>2. list \in Pointers /\ list.len \in 0 .. AODV_RTQ_MAX_LEN
    BY <1>1, RQueueAssumption DEF Queued, Chain
  <1>3. list \in List
    BY <1>2 DEF List, Pointers
  <1> QED BY <1>3 DEF BufferInv, TypeOK

LEMMA InvImpliesVerified ==
  ASSUME BufferInv
  PROVE  VerifyQueue /\ OldestFirst
  <1>1. PICK s, k : Queued(list, ts, now, s, k)
    BY DEF BufferInv
  <1>2. /\ Chain(list, s, k) /\ k \in Nat /\ list.len = k /\ s \in [1 .. k -> Packet]
        /\ list.tail = IF k = 0 THEN Null ELSE s[k]
        /\ \A i, j \in 1 .. k : s[i] = s[j] => i = j
        /\ \A i, j \in 1 .. k : i < j => ts[s[i]] <= ts[s[j]]
    BY <1>1 DEF Queued, Chain
  <1>3. k <= N /\ N \in Nat
    BY <1>2, ChainLength, NType
  <1>4. /\ \A i \in 1 .. k : Node(list)[i] = s[i]
        /\ \A i \in 1 .. N + 1 : i > k => Node(list)[i] = Null
    BY <1>2, ChainNode
  <1> DEFINE R == {s[i] : i \in 1 .. k}
  <1>5. Held = R
    BY <1>2, InChain DEF Held, In
  <1>6. Cardinality(Held) = k
    <2>1. s \in Bijection(1 .. k, R)
      BY <1>2 DEF Bijection, Injection, Surjection, IsInjective
    <2>2. IsFiniteSet(1 .. k) /\ Cardinality(1 .. k) = k
      BY <1>2, FS_Interval
    <2>3. IsFiniteSet(R)
      <3>1. R \subseteq Packet
        BY <1>2
      <3> QED BY <3>1, RQueueAssumption, FS_Subset
    <2>4. Cardinality(1 .. k) = Cardinality(R)
      <3> HIDE DEF R
      <3> QED BY <2>1, <2>2, <2>3, FS_Bijection DEF ExistsBijection
    <2> QED BY <1>5, <2>2, <2>4
  <1>7. Node(list)[list.len + 1] = Null
    <2>1. k + 1 \in 1 .. N + 1 /\ k + 1 > k
      BY <1>2, <1>3
    <2> QED BY <1>2, <1>4, <2>1
  <1>8. list.tail = IF list.len = 0 THEN Null ELSE Node(list)[list.len]
    <2>1. k # 0 => k \in 1 .. k
      BY <1>2
    <2> QED BY <1>2, <1>4, <2>1
  <1>9. VerifyQueue
    BY <1>2, <1>6, <1>7, <1>8 DEF VerifyQueue
  <1>10. OldestFirst
    BY <1>2, <1>4 DEF OldestFirst
  <1> QED BY <1>9, <1>10

(* The length never exceeds limit_, and every pointer is a packet's or     *)
(* null: enque makes room before it links, and nothing else grows.         *)
THEOREM BufferTyped == Spec => []TypeOK
  BY BufferInvariant, InvImpliesTypeOK, PTL

(* What verifyQueue() would assert holds after every call, whichever       *)
(* routine ran: len_ is what a walk from head_ counts, it ends at tail_,   *)
(* and no packet is linked twice.                                          *)
THEOREM ListIsIntact == Spec => []VerifyQueue
  BY BufferInvariant, InvImpliesVerified, PTL

(* The buffer is in the order of the deadlines, although deque(dst) takes  *)
(* packets from the middle: so the purge that scans the whole list and the *)
(* one commented out, which stops at the first that may stay, agree.       *)
THEOREM DeadlinesAreSorted == Spec => []OldestFirst
  BY BufferInvariant, InvImpliesVerified, PTL

(* What enque throws out and what the deques return had not run out of     *)
(* time, and is linked nowhere any more.                                   *)
THEOREM HandedOutIsFresh == Spec => HandsOutFresh
  <1>1. BufferInv /\ [Next]_vars => [HandOut]_vars
    BY NextStep
  <1>2. [HandOut]_vars => [got' # Null /\ got' # got => got' \notin Held' /\ ts[got'] >= now]_vars
    BY DEF HandOut
  <1> QED BY <1>1, <1>2, BufferInvariant, PTL DEF Spec, HandsOutFresh

(* The pointers implement the bounded, timed FIFO: every call does to the  *)
(* chain what PacketBuffer says of the sequence.                           *)
THEOREM ListIsFifo == Spec => IsPacketBuffer
  <1>1. Init => Buffer!Init
    BY InitBuffer
  <1>2. BufferInv /\ [Next]_vars =>
          [Buffer!Next]_<<now, [i \in 1 .. list.len |-> Node(list)[i]], ts, got>>
    BY NextStep, StutterStep
  <1> QED BY <1>1, <1>2, BufferInvariant, PTL DEF Spec, IsPacketBuffer, Buffer!Spec
=============================================================================
