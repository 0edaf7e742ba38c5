-------------------------- MODULE ConnQueueProofs --------------------------
(***************************************************************************)
(* Proofs about the connection ring, for any set of workers, any payload   *)
(* and any capacity.  What holds of the code as it is (types, one claim    *)
(* per position) is proved of Spec; what rests on no worker being lapped   *)
(* is proved of TimelySpec.                                                *)
(***************************************************************************)
EXTENDS ConnQueue, TLAPS

-----------------------------------------------------------------------------
(* Positions and ring cells. *)

\* The cell of a position (pos & mask) is a cell of the ring.
LEMMA SlotInRing ==
    ASSUME NEW p \in Nat
    PROVE  slot(p) \in Slots
BY CapacityAssumption DEF slot, Slots

\* Positions less than a ring apart have different cells.
LEMMA SlotInjective ==
    ASSUME NEW p \in Nat, NEW q \in Nat, p < q, q < p + Capacity
    PROVE  slot(p) # slot(q)
<1> DEFINE P == p \div Capacity
           Q == q \div Capacity
<1>1. p = Capacity * P + slot(p) /\ P \in Int /\ slot(p) \in Int
  BY CapacityAssumption DEF slot
<1>2. q = Capacity * Q + slot(q) /\ Q \in Int /\ slot(q) \in Int
  BY CapacityAssumption DEF slot
<1> HIDE DEF P, Q
<1>3. SUFFICES ASSUME slot(p) = slot(q) PROVE FALSE
  OBVIOUS
<1>4. q - p = Capacity * (Q - P)
  BY <1>1, <1>2, <1>3, CapacityAssumption
<1>5. CASE Q - P >= 1
  <2>1. Capacity * (Q - P) >= Capacity
    BY <1>5, <1>1, <1>2, CapacityAssumption
  <2> QED BY <2>1, <1>4, CapacityAssumption
<1>6. CASE Q - P <= 0
  <2>1. Capacity * (Q - P) <= 0
    BY <1>6, <1>1, <1>2, CapacityAssumption
  <2> QED BY <2>1, <1>4, CapacityAssumption
<1> QED BY <1>5, <1>6, <1>1, <1>2

\* Positions a whole ring apart share their cell.
LEMMA SlotPeriodic ==
    ASSUME NEW p \in Nat
    PROVE  slot(p + Capacity) = slot(p)
<1> DEFINE P == p \div Capacity
           Q == (p + Capacity) \div Capacity
           D == Q - P - 1
<1>1. /\ p = Capacity * P + slot(p) /\ P \in Int
      /\ slot(p) \in Int /\ 0 <= slot(p) /\ slot(p) < Capacity
  BY CapacityAssumption DEF slot
<1>2. /\ p + Capacity = Capacity * Q + slot(p + Capacity) /\ Q \in Int
      /\ slot(p + Capacity) \in Int
      /\ 0 <= slot(p + Capacity) /\ slot(p + Capacity) < Capacity
  BY CapacityAssumption DEF slot
<1> HIDE DEF P, Q
<1>3. D \in Int /\ Capacity * D = slot(p) - slot(p + Capacity)
  BY <1>1, <1>2, CapacityAssumption
<1> HIDE DEF D
<1>4. CASE D >= 1
  <2>1. Capacity * D >= Capacity
    BY <1>3, <1>4, CapacityAssumption
  <2> QED BY <2>1, <1>1, <1>2, <1>3, CapacityAssumption
<1>5. CASE D <= -1
  <2>1. Capacity * D <= -Capacity
    BY <1>3, <1>5, CapacityAssumption
  <2> QED BY <2>1, <1>1, <1>2, <1>3, CapacityAssumption
<1>6. CASE D = 0
  BY <1>1, <1>2, <1>3, <1>6, CapacityAssumption
<1> QED BY <1>3, <1>4, <1>5, <1>6

-----------------------------------------------------------------------------
(* Type correctness. *)

\* The zeroed ring of tiny_runtime_init has the declared types.
LEMMA TypeInit == Init => TypeOK
BY CapacityAssumption, MaxConnsAssumption DEF Init, TypeOK, Payload, Conn

\* No access of enqueue_connection or dequeue_connection breaks a type.
LEMMA TypeStep == TypeOK /\ [Next]_vars => TypeOK'
<1> SUFFICES ASSUME TypeOK, [Next]_vars PROVE TypeOK'
  OBVIOUS
<1> USE MaxConnsAssumption, CapacityAssumption
<1>1. CASE Accept
  BY <1>1 DEF TypeOK, Accept, queueVars, workerVars
<1>2. CASE EnqCheckReady
  <2>1. CASE ready[slot(tail)]
    <3>1. dropped' = dropped \cup {cur} /\ cur \in 1 .. MaxConns
      BY <1>2, <2>1 DEF TypeOK, EnqCheckReady
    <3>2. ppc' = "accept" /\ UNCHANGED <<queueVars, workerVars, cur, ptodo, enq, handed>>
      BY <1>2, <2>1 DEF EnqCheckReady
    <3> QED BY <3>1, <3>2 DEF TypeOK, queueVars, workerVars
  <2>2. CASE ~ready[slot(tail)]
    BY <1>2, <2>2 DEF TypeOK, EnqCheckReady, queueVars, workerVars
  <2> QED BY <2>1, <2>2
<1>3. ASSUME NEW f \in Fields, EnqCopy(f) PROVE TypeOK'
  <2>1. cur \in Conn
    BY <1>3 DEF TypeOK, EnqCopy, Conn
  <2>2. data' \in [Slots -> [Fields -> Conn]]
    BY <1>3, <2>1, SlotInRing DEF TypeOK, EnqCopy
  <2> QED BY <1>3, <2>2 DEF TypeOK, EnqCopy, workerVars
<1>4. CASE EnqPublish
  <2>1. enq' \in Seq(1 .. MaxConns)
    BY <1>4 DEF TypeOK, EnqPublish
  <2>2. ready' \in [Slots -> BOOLEAN]
    BY <1>4, SlotInRing DEF TypeOK, EnqPublish
  <2> QED BY <1>4, <2>1, <2>2 DEF TypeOK, EnqPublish, workerVars
<1>5. ASSUME NEW w \in Workers, DeqStart(w) PROVE TypeOK'
  BY <1>5 DEF TypeOK, DeqStart, queueVars, producerVars
<1>6. ASSUME NEW w \in Workers, DeqProbe(w) PROVE TypeOK'
  BY <1>6 DEF TypeOK, DeqProbe, queueVars, producerVars
<1>7. ASSUME NEW w \in Workers, DeqRecheck(w) PROVE TypeOK'
  BY <1>7 DEF TypeOK, DeqRecheck, queueVars, producerVars
<1>8. ASSUME NEW w \in Workers, DeqCas(w) PROVE TypeOK'
  <2>1. CASE head = pos[w]
    <3>1. wtodo' \in [Workers -> SUBSET Fields]
      BY <1>8, <2>1 DEF TypeOK, DeqCas
    <3>2. wpc' \in [Workers -> {"idle", "probe", "recheck", "cas", "copy"}]
      BY <1>8, <2>1 DEF TypeOK, DeqCas
    <3>3. head' \in Nat
      BY <1>8, <2>1 DEF TypeOK, DeqCas
    <3> QED BY <1>8, <2>1, <3>1, <3>2, <3>3 DEF TypeOK, DeqCas, producerVars
  <2>2. CASE head # pos[w]
    BY <1>8, <2>2 DEF TypeOK, DeqCas, producerVars
  <2> QED BY <2>1, <2>2
<1>9. ASSUME NEW w \in Workers, NEW f \in Fields, DeqCopy(w, f) PROVE TypeOK'
  <2>1. data[slot(pos[w])][f] \in Conn
    BY SlotInRing DEF TypeOK
  <2>2. got' \in [Workers -> [Fields -> Conn]]
    BY <1>9, <2>1 DEF TypeOK, DeqCopy
  <2>3. wtodo' \in [Workers -> SUBSET Fields]
    BY <1>9 DEF TypeOK, DeqCopy
  <2> QED BY <1>9, <2>2, <2>3 DEF TypeOK, DeqCopy, queueVars, producerVars
<1>10. ASSUME NEW w \in Workers, DeqRelease(w) PROVE TypeOK'
  <2>1. ready' \in [Slots -> BOOLEAN]
    BY <1>10, SlotInRing DEF TypeOK, DeqRelease
  <2> QED BY <1>10, <2>1 DEF TypeOK, DeqRelease, producerVars
<1>11. CASE UNCHANGED vars
  BY <1>11 DEF TypeOK, vars, queueVars, producerVars, workerVars
<1> QED
  BY <1>1, <1>2, <1>3, <1>4, <1>5, <1>6, <1>7, <1>8, <1>9, <1>10, <1>11
  DEF Next, Producer, Consumer

\* Every variable keeps its type in the code as it is.
THEOREM TypeCorrect == Spec => []TypeOK
BY TypeInit, TypeStep, PTL DEF Spec

-----------------------------------------------------------------------------
(* One claim per position. *)

\* Claims stay distinct and behind head: only the exchange of head moves either.
LEMMA ClaimStep ==
    ASSUME TypeOK, ClaimsDistinct, HandedBehindHead, [Next]_vars
    PROVE  ClaimsDistinct' /\ HandedBehindHead'
<1> USE DEF ClaimsDistinct, HandedBehindHead
<1>1. CASE Producer
  <2>1. UNCHANGED <<head, wpc, pos, handed>>
    BY <1>1 DEF Producer, Accept, EnqCheckReady, EnqCopy, EnqPublish,
                queueVars, workerVars
  <2> QED BY <2>1
<1>2. ASSUME NEW w \in Workers, DeqStart(w) PROVE ClaimsDistinct' /\ HandedBehindHead'
  BY <1>2 DEF TypeOK, DeqStart, queueVars
<1>3. ASSUME NEW w \in Workers, DeqProbe(w) PROVE ClaimsDistinct' /\ HandedBehindHead'
  <2>1. /\ UNCHANGED <<head, pos, handed>>
        /\ \A v \in Workers : wpc'[v] = "copy" => wpc[v] = "copy"
    BY <1>3 DEF TypeOK, DeqProbe, queueVars
  <2> QED BY <2>1
<1>4. ASSUME NEW w \in Workers, DeqRecheck(w) PROVE ClaimsDistinct' /\ HandedBehindHead'
  <2>1. /\ UNCHANGED <<head, handed>>
        /\ \A v \in Workers : wpc'[v] = "copy" => wpc[v] = "copy" /\ pos'[v] = pos[v]
    BY <1>4 DEF TypeOK, DeqRecheck, queueVars
  <2> QED BY <2>1
<1>5. ASSUME NEW w \in Workers, DeqCas(w) PROVE ClaimsDistinct' /\ HandedBehindHead'
  <2>1. CASE head = pos[w]
    <3>1. /\ head' = head + 1 /\ head \in Nat
          /\ UNCHANGED <<pos, handed>>
          /\ wpc' = [wpc EXCEPT ![w] = "copy"]
      BY <1>5, <2>1 DEF TypeOK, DeqCas
    <3>2. \A h \in handed : h.pos \in Nat
      BY DEF TypeOK
    <3> QED BY <2>1, <3>1, <3>2 DEF TypeOK
  <2>2. CASE head # pos[w]
    <3>1. /\ UNCHANGED <<head, handed>>
          /\ \A v \in Workers : wpc'[v] = "copy" => wpc[v] = "copy" /\ pos'[v] = pos[v]
      BY <1>5, <2>2 DEF TypeOK, DeqCas
    <3> QED BY <3>1
  <2> QED BY <2>1, <2>2
<1>6. ASSUME NEW w \in Workers, NEW f \in Fields, DeqCopy(w, f)
      PROVE  ClaimsDistinct' /\ HandedBehindHead'
  BY <1>6 DEF DeqCopy, queueVars
<1>7. ASSUME NEW w \in Workers, DeqRelease(w) PROVE ClaimsDistinct' /\ HandedBehindHead'
  <2>1. /\ UNCHANGED <<head, pos>>
        /\ wpc[w] = "copy"
        /\ wpc' = [wpc EXCEPT ![w] = "idle"]
        /\ handed' = handed \cup {[pos |-> pos[w], got |-> got[w]]}
    BY <1>7 DEF DeqRelease
  <2> QED BY <2>1 DEF TypeOK
<1>8. CASE UNCHANGED vars
  BY <1>8 DEF vars, queueVars, workerVars
<1> QED
  BY <1>1, <1>2, <1>3, <1>4, <1>5, <1>6, <1>7, <1>8 DEF Next, Consumer

\* The compare-and-swap of dequeue_connection gives no position to two
\* workers, however late any of them runs.
THEOREM ClaimsOnce == Spec => []ClaimsDistinct
<1>1. Init => TypeOK /\ ClaimsDistinct /\ HandedBehindHead
  BY TypeInit DEF Init, ClaimsDistinct, HandedBehindHead
<1>2. TypeOK /\ ClaimsDistinct /\ HandedBehindHead /\ [Next]_vars
        => (TypeOK /\ ClaimsDistinct /\ HandedBehindHead)'
  BY TypeStep, ClaimStep
<1> QED BY <1>1, <1>2, PTL DEF Spec

-----------------------------------------------------------------------------
(* Whole payloads, while no worker is lapped. *)

\* An entry that waits or is being copied was published.
LEMMA OccupiedPlaces ==
    ASSUME RingInv, NEW p \in Nat, Occupied(p)
    PROVE  p \in 0 .. tail - 1
BY DEF RingInv, Occupied, ClaimsDistinct, TypeOK

\* No two entries share a cell.
LEMMA OccupiedApart ==
    ASSUME RingInv, NEW p \in Nat, NEW q \in Nat, Occupied(p), Occupied(q), p # q
    PROVE  slot(p) # slot(q)
<1>1. p \in 0 .. tail - 1 /\ q \in 0 .. tail - 1
  BY OccupiedPlaces
<1>2. tail <= p + Capacity /\ tail <= q + Capacity
  BY <1>1 DEF RingInv, OccupiedCells
<1>3. CASE p < q
  BY <1>1, <1>2, <1>3, SlotInjective, CapacityAssumption DEF RingInv, TypeOK
<1>4. CASE q < p
  BY <1>1, <1>2, <1>4, SlotInjective, CapacityAssumption DEF RingInv, TypeOK
<1> QED BY <1>3, <1>4

\* The cell being filled is not the cell of any entry.
LEMMA FillingApart ==
    ASSUME RingInv, ppc = "copy", NEW p \in Nat, Occupied(p)
    PROVE  tail < p + Capacity /\ slot(p) # slot(tail)
<1>1. p \in 0 .. tail - 1
  BY OccupiedPlaces
<1>2. tail <= p + Capacity /\ ready[slot(p)] /\ ~ready[slot(tail)]
  BY <1>1 DEF RingInv, OccupiedCells, ProducerOwnsCell
<1>3. tail # p + Capacity
  BY <1>2, SlotPeriodic
<1> QED BY <1>2, <1>3, CapacityAssumption DEF RingInv, TypeOK

\* A worker that finds the flag at head set has found a published entry.
LEMMA ReadyAtHead ==
    ASSUME RingInv, ready[slot(head)]
    PROVE  head < tail
<1>1. head \in Nat /\ tail \in Nat /\ head <= tail
  BY DEF RingInv, TypeOK
<1>2. PICK p \in 0 .. tail - 1 : Occupied(p) /\ slot(p) = slot(head)
  BY <1>1, SlotInRing DEF RingInv, ReadyMeansOccupied
<1>3. CASE head <= p
  BY <1>1, <1>2, <1>3
<1>4. CASE p < head
  <2>1. \E w \in Workers : wpc[w] = "copy" /\ pos[w] = p
    BY <1>1, <1>2, <1>4 DEF Occupied
  <2>2. head < p + Capacity
    BY <2>1 DEF RingInv, NotLapped
  <2> QED BY <1>1, <1>2, <1>4, <2>2, SlotInjective
<1> QED BY <1>1, <1>2, <1>3, <1>4

\* What is in the ring depends on these variables only.
LEMMA OccupiedFrame ==
    ASSUME UNCHANGED <<head, tail, pos>>,
           \A w \in Workers : wpc'[w] = "copy" <=> wpc[w] = "copy",
           NEW p
    PROVE  Occupied(p)' <=> Occupied(p)
BY DEF Occupied

\* The invariant holds of the empty ring.
LEMMA RingInit == Init => RingInv
<1> SUFFICES ASSUME Init PROVE RingInv
  OBVIOUS
<1>1. TypeOK
  BY TypeInit
<1>2. NotLapped /\ ClaimsDistinct /\ HandedBehindHead /\ Delivery /\ WorkerLocals
  BY DEF Init, NotLapped, ClaimsDistinct, HandedBehindHead, Delivery, WorkerLocals
<1>3. tail = Len(enq) /\ head <= tail
  BY DEF Init
<1>4. OccupiedCells /\ ReadyMeansOccupied /\ ProducerOwnsCell
  BY DEF Init, OccupiedCells, ReadyMeansOccupied, ProducerOwnsCell
<1> QED BY <1>1, <1>2, <1>3, <1>4 DEF RingInv

\* The conjuncts of RingInv that tie the cells to the history.
CellInv ==
    /\ tail = Len(enq)
    /\ head <= tail
    /\ OccupiedCells
    /\ ReadyMeansOccupied
    /\ ProducerOwnsCell
    /\ WorkerLocals
    /\ Delivery

\* accept4 touches no cell.
LEMMA AcceptCells ==
    ASSUME RingInv, Accept
    PROVE  CellInv'
<1>1. UNCHANGED <<queueVars, workerVars, ptodo, enq, handed>> /\ ppc' # "copy"
  BY DEF Accept
<1> QED BY <1>1 DEF CellInv, RingInv, queueVars, workerVars, OccupiedCells, Occupied,
        ReadyMeansOccupied, ProducerOwnsCell, WorkerLocals, Delivery

\* A clear flag at tail gives the cell to the accept thread.
LEMMA EnqCheckReadyCells ==
    ASSUME RingInv, EnqCheckReady
    PROVE  CellInv'
<1>1. UNCHANGED <<queueVars, workerVars, cur, enq, handed>>
  BY DEF EnqCheckReady
<1>2. ProducerOwnsCell'
  <2>1. CASE ready[slot(tail)]
    BY <2>1 DEF EnqCheckReady, ProducerOwnsCell
  <2>2. CASE ~ready[slot(tail)]
    BY <1>1, <2>2 DEF EnqCheckReady, ProducerOwnsCell, queueVars
  <2> QED BY <2>1, <2>2
<1> QED BY <1>1, <1>2 DEF CellInv, RingInv, queueVars, workerVars, OccupiedCells,
        Occupied, ReadyMeansOccupied, WorkerLocals, Delivery

\* Copying a field into the cell at tail disturbs no entry.
LEMMA EnqCopyCells ==
    ASSUME RingInv, NEW f \in Fields, EnqCopy(f)
    PROVE  CellInv'
<1>1. /\ UNCHANGED <<ready, head, tail, ppc, cur, workerVars, enq, handed>>
      /\ ppc = "copy"
      /\ data' = [data EXCEPT ![slot(tail)][f] = cur]
      /\ ptodo' = ptodo \ {f}
  BY DEF EnqCopy
<1>2. tail \in Nat /\ slot(tail) \in Slots /\ data \in [Slots -> [Fields -> Conn]]
  BY SlotInRing DEF RingInv, TypeOK
<1>3. \A p : Occupied(p)' <=> Occupied(p)
  BY <1>1 DEF Occupied, workerVars
<1>4. OccupiedCells'
  <2> SUFFICES ASSUME NEW p \in 0 .. tail - 1, Occupied(p)
               PROVE  /\ tail <= p + Capacity
                      /\ ready[slot(p)]
                      /\ data'[slot(p)] = Payload(enq[p + 1])
    BY <1>1, <1>3 DEF OccupiedCells
  <2>1. p \in Nat /\ slot(p) \in Slots
    BY <1>2, SlotInRing
  <2>2. slot(p) # slot(tail)
    BY <2>1, <1>1, FillingApart
  <2>3. data'[slot(p)] = data[slot(p)]
    BY <1>1, <1>2, <2>1, <2>2
  <2> QED BY <2>3 DEF RingInv, OccupiedCells
<1>5. ProducerOwnsCell'
  BY <1>1, <1>2 DEF RingInv, ProducerOwnsCell
<1>6. ReadyMeansOccupied'
  BY <1>1, <1>3 DEF RingInv, ReadyMeansOccupied
<1> QED BY <1>1, <1>4, <1>5, <1>6 DEF CellInv, RingInv, workerVars, WorkerLocals, Delivery

\* The publishing store turns the filled cell into the entry at tail.
LEMMA EnqPublishCells ==
    ASSUME RingInv, TypeOK', EnqPublish
    PROVE  CellInv'
<1>1. /\ UNCHANGED <<data, head, cur, ptodo, workerVars, handed>>
      /\ ppc = "copy" /\ ppc' = "accept" /\ ptodo = {}
      /\ ready' = [ready EXCEPT ![slot(tail)] = TRUE]
      /\ tail' = tail + 1
      /\ enq' = Append(enq, cur)
  BY DEF EnqPublish
<1>2. /\ tail \in Nat /\ head \in Nat /\ head <= tail /\ tail = Len(enq)
      /\ slot(tail) \in Slots /\ ready \in [Slots -> BOOLEAN]
      /\ enq \in Seq(1 .. MaxConns) /\ cur \in 1 .. MaxConns
      /\ data \in [Slots -> [Fields -> Conn]]
  BY <1>1, SlotInRing, MaxConnsAssumption DEF RingInv, TypeOK
<1>3. /\ Len(enq') = tail + 1
      /\ enq'[tail + 1] = cur
      /\ \A p \in 0 .. tail - 1 : enq'[p + 1] = enq[p + 1]
  BY <1>1, <1>2
<1>4. \A p \in Nat : Occupied(p)' <=> (Occupied(p) \/ p = tail)
  BY <1>1, <1>2 DEF Occupied, workerVars
<1>5. data[slot(tail)] = Payload(cur)
  BY <1>1, <1>2 DEF RingInv, ProducerOwnsCell, Payload
<1>6. OccupiedCells'
  <2> SUFFICES ASSUME NEW p \in 0 .. tail, Occupied(p)'
               PROVE  /\ tail' <= p + Capacity
                      /\ ready'[slot(p)]
                      /\ data'[slot(p)] = Payload(enq'[p + 1])
    BY <1>1, <1>2 DEF OccupiedCells
  <2>1. CASE p = tail
    BY <1>1, <1>2, <1>3, <1>5, <2>1, CapacityAssumption
  <2>2. CASE p # tail
    <3>1. Occupied(p) /\ p \in Nat /\ p \in 0 .. tail - 1 /\ slot(p) \in Slots
      BY <1>2, <1>4, <2>2, SlotInRing
    <3>2. tail < p + Capacity /\ slot(p) # slot(tail)
      BY <3>1, <1>1, FillingApart
    <3>3. ready[slot(p)] /\ data[slot(p)] = Payload(enq[p + 1])
      BY <3>1 DEF RingInv, OccupiedCells
    <3>4. ready'[slot(p)]
      BY <1>1, <1>2, <3>1, <3>2, <3>3
    <3> QED BY <1>1, <1>2, <1>3, <3>1, <3>2, <3>3, <3>4, CapacityAssumption
  <2> QED BY <2>1, <2>2
<1>7. ReadyMeansOccupied'
  <2> SUFFICES ASSUME NEW i \in Slots, ready'[i]
               PROVE  \E p \in 0 .. tail' - 1 : Occupied(p)' /\ slot(p) = i
    BY DEF ReadyMeansOccupied
  <2>1. CASE i = slot(tail)
    BY <1>1, <1>2, <1>4, <2>1
  <2>2. CASE i # slot(tail)
    <3>1. ready[i]
      BY <1>1, <1>2, <2>2
    <3>2. PICK p \in 0 .. tail - 1 : Occupied(p) /\ slot(p) = i
      BY <3>1 DEF RingInv, ReadyMeansOccupied
    <3> QED BY <3>2, <1>1, <1>2, <1>4
  <2> QED BY <2>1, <2>2
<1>8. WorkerLocals'
  <2> SUFFICES ASSUME NEW w \in Workers
               PROVE  /\ wpc[w] \in {"probe", "recheck", "cas"} => pos[w] <= head
                      /\ wpc[w] = "cas" /\ pos[w] = head => head < tail + 1
                      /\ wpc[w] = "copy" =>
                            \A f \in Fields \ wtodo[w] : got[w][f] = enq'[pos[w] + 1]
    BY <1>1 DEF WorkerLocals, workerVars
  <2>1. wpc[w] = "copy" => pos[w] \in 0 .. tail - 1
    BY <1>2 DEF RingInv, ClaimsDistinct, TypeOK
  <2> QED BY <1>2, <1>3, <2>1 DEF RingInv, WorkerLocals
<1>9. Delivery'
  <2> SUFFICES ASSUME NEW h \in handed
               PROVE  h.pos < Len(enq') /\ h.got = Payload(enq'[h.pos + 1])
    BY <1>1 DEF Delivery
  <2>1. h.pos < Len(enq) /\ h.got = Payload(enq[h.pos + 1]) /\ h.pos \in Nat
    BY DEF RingInv, Delivery, TypeOK
  <2>2. h.pos \in 0 .. tail - 1
    BY <1>2, <2>1
  <2>3. h.pos < Len(enq') /\ enq'[h.pos + 1] = enq[h.pos + 1]
    BY <1>2, <1>3, <2>2
  <2> QED BY <2>1, <2>3
<1> QED BY <1>1, <1>2, <1>3, <1>6, <1>7, <1>8, <1>9 DEF CellInv, ProducerOwnsCell

\* DeqStart, DeqProbe and DeqRecheck move no entry.
LEMMA DeqLookCells ==
    ASSUME RingInv, NEW w \in Workers, DeqStart(w) \/ DeqProbe(w) \/ DeqRecheck(w)
    PROVE  CellInv'
<1>1. UNCHANGED <<queueVars, producerVars, got, wtodo, enq, handed>>
  BY DEF DeqStart, DeqProbe, DeqRecheck
<1>2. \A v \in Workers : /\ wpc'[v] = "copy" <=> wpc[v] = "copy"
                         /\ wpc[v] = "copy" => pos'[v] = pos[v]
  BY DEF DeqStart, DeqProbe, DeqRecheck, RingInv, TypeOK
<1>3. \A p : Occupied(p)' <=> Occupied(p)
  BY <1>1, <1>2 DEF Occupied, queueVars
<1>4. WorkerLocals'
  <2> SUFFICES ASSUME NEW v \in Workers
               PROVE  /\ wpc'[v] \in {"probe", "recheck", "cas"} => pos'[v] <= head
                      /\ wpc'[v] = "cas" /\ pos'[v] = head => head < tail
                      /\ wpc'[v] = "copy" =>
                            \A f \in Fields \ wtodo[v] : got[v][f] = enq[pos'[v] + 1]
    BY <1>1 DEF WorkerLocals, queueVars
  <2>1. CASE v # w
    <3>1. wpc'[v] = wpc[v] /\ pos'[v] = pos[v]
      BY <2>1 DEF DeqStart, DeqProbe, DeqRecheck, RingInv, TypeOK
    <3> QED BY <3>1 DEF RingInv, WorkerLocals
  <2>2. CASE v = w
    <3>1. CASE DeqStart(w)
      BY <2>2, <3>1 DEF DeqStart, RingInv, TypeOK
    <3>2. CASE DeqRecheck(w)
      BY <2>2, <3>2 DEF DeqRecheck, RingInv, TypeOK
    <3>3. CASE DeqProbe(w)
      <4>1. pos'[w] = pos[w] /\ pos[w] <= head /\ wpc'[w] \in {"cas", "recheck"}
        BY <3>3 DEF DeqProbe, RingInv, WorkerLocals, TypeOK
      <4>2. wpc'[w] = "cas" => ready[slot(pos[w])]
        BY <3>3 DEF DeqProbe, RingInv, TypeOK
      <4>3. wpc'[w] = "cas" /\ pos[w] = head => head < tail
        BY <4>2, ReadyAtHead
      <4> QED BY <2>2, <4>1, <4>3
    <3> QED BY <3>1, <3>2, <3>3
  <2> QED BY <2>1, <2>2
<1>5. OccupiedCells' /\ ReadyMeansOccupied'
  BY <1>1, <1>3 DEF RingInv, queueVars, OccupiedCells, ReadyMeansOccupied
<1> QED BY <1>1, <1>4, <1>5
    DEF CellInv, RingInv, queueVars, producerVars, ProducerOwnsCell, Delivery

\* A successful exchange moves an entry from the ring to the worker's hands.
LEMMA DeqCasCells ==
    ASSUME RingInv, TypeOK', NEW w \in Workers, DeqCas(w)
    PROVE  CellInv'
<1>1. /\ UNCHANGED <<data, ready, tail, producerVars, got, enq, handed>>
      /\ wpc[w] = "cas"
  BY DEF DeqCas
<1>2. head \in Nat /\ tail \in Nat /\ pos[w] \in Nat
  BY DEF RingInv, TypeOK
<1>3. CASE head = pos[w]
  <2>1. /\ head' = head + 1 /\ UNCHANGED pos
        /\ wtodo' = [wtodo EXCEPT ![w] = Fields]
        /\ wpc' = [wpc EXCEPT ![w] = "copy"]
    BY <1>3 DEF DeqCas
  <2>2. head < tail
    BY <1>1, <1>3 DEF RingInv, WorkerLocals
  <2>3. \A v \in Workers : wpc'[v] = IF v = w THEN "copy" ELSE wpc[v]
    BY <2>1 DEF RingInv, TypeOK
  <2>4. \A p \in Nat : Occupied(p)' <=> Occupied(p)
    <3> SUFFICES ASSUME NEW p \in Nat PROVE Occupied(p)' <=> Occupied(p)
      OBVIOUS
    <3>1. Occupied(p)' <=> \/ head + 1 <= p /\ p < tail
                           \/ p = pos[w]
                           \/ \E v \in Workers : wpc[v] = "copy" /\ pos[v] = p
      BY <1>1, <2>1, <2>3 DEF Occupied
    <3> QED BY <3>1, <1>2, <1>3, <2>2 DEF Occupied
  <2>5. OccupiedCells' /\ ReadyMeansOccupied'
    BY <1>1, <1>2, <2>4 DEF RingInv, OccupiedCells, ReadyMeansOccupied
  <2>6. WorkerLocals'
    <3> SUFFICES ASSUME NEW v \in Workers
                 PROVE  /\ wpc'[v] \in {"probe", "recheck", "cas"} => pos[v] <= head + 1
                        /\ wpc'[v] = "cas" /\ pos[v] = head + 1 => head + 1 < tail
                        /\ wpc'[v] = "copy" =>
                              \A f \in Fields \ wtodo'[v] : got[v][f] = enq[pos[v] + 1]
      BY <1>1, <2>1 DEF WorkerLocals
    <3>1. pos[v] \in Nat
      BY DEF RingInv, TypeOK
    <3>2. CASE v = w
      BY <3>2, <2>1, <2>3 DEF RingInv, TypeOK
    <3>3. CASE v # w
      <4>1. wpc'[v] = wpc[v] /\ wtodo'[v] = wtodo[v]
        BY <3>3, <2>1, <2>3 DEF RingInv, TypeOK
      <4> QED BY <4>1, <3>1, <1>2 DEF RingInv, WorkerLocals
    <3> QED BY <3>2, <3>3
  <2> QED BY <1>1, <1>2, <2>1, <2>2, <2>5, <2>6
      DEF CellInv, RingInv, producerVars, ProducerOwnsCell, Delivery
<1>4. CASE head # pos[w]
  <2>1. /\ UNCHANGED <<head, wtodo>>
        /\ pos' = [pos EXCEPT ![w] = head]
        /\ wpc' = [wpc EXCEPT ![w] = "probe"]
    BY <1>4 DEF DeqCas
  <2>2. \A v \in Workers : /\ wpc'[v] = "copy" <=> wpc[v] = "copy"
                           /\ wpc[v] = "copy" => pos'[v] = pos[v]
    BY <1>1, <2>1 DEF RingInv, TypeOK
  <2>3. \A p : Occupied(p)' <=> Occupied(p)
    BY <1>1, <2>1, <2>2 DEF Occupied
  <2>4. OccupiedCells' /\ ReadyMeansOccupied'
    BY <1>1, <2>3 DEF RingInv, OccupiedCells, ReadyMeansOccupied
  <2>5. WorkerLocals'
    BY <1>1, <1>2, <2>1 DEF RingInv, TypeOK, WorkerLocals
  <2> QED BY <1>1, <2>1, <2>4, <2>5
      DEF CellInv, RingInv, producerVars, ProducerOwnsCell, Delivery
<1> QED BY <1>3, <1>4

\* A field is copied from the entry that was claimed.
LEMMA DeqCopyCells ==
    ASSUME RingInv, NEW w \in Workers, NEW f \in Fields, DeqCopy(w, f)
    PROVE  CellInv'
<1>1. /\ UNCHANGED <<queueVars, producerVars, wpc, pos, enq, handed>>
      /\ wpc[w] = "copy"
      /\ got' = [got EXCEPT ![w][f] = data[slot(pos[w])][f]]
      /\ wtodo' = [wtodo EXCEPT ![w] = @ \ {f}]
  BY DEF DeqCopy
<1>2. \A p : Occupied(p)' <=> Occupied(p)
  BY <1>1 DEF Occupied, queueVars
<1>3. data[slot(pos[w])][f] = enq[pos[w] + 1]
  <2>1. pos[w] \in Nat /\ Occupied(pos[w])
    BY <1>1 DEF Occupied, RingInv, TypeOK
  <2>2. data[slot(pos[w])] = Payload(enq[pos[w] + 1])
    BY <2>1, OccupiedPlaces DEF RingInv, OccupiedCells
  <2> QED BY <2>2 DEF Payload
<1>4. WorkerLocals'
  <2> SUFFICES ASSUME NEW v \in Workers, wpc[v] = "copy", NEW g \in Fields \ wtodo'[v]
               PROVE  got'[v][g] = enq[pos[v] + 1]
    BY <1>1 DEF RingInv, WorkerLocals, queueVars
  <2>1. CASE v = w /\ g = f
    BY <1>1, <1>3, <2>1 DEF RingInv, TypeOK
  <2>2. CASE ~(v = w /\ g = f)
    <3>1. g \in Fields \ wtodo[v] /\ got'[v][g] = got[v][g]
      BY <1>1, <2>2 DEF RingInv, TypeOK
    <3> QED BY <3>1 DEF RingInv, WorkerLocals
  <2> QED BY <2>1, <2>2
<1>5. OccupiedCells' /\ ReadyMeansOccupied'
  BY <1>1, <1>2 DEF RingInv, queueVars, OccupiedCells, ReadyMeansOccupied
<1> QED BY <1>1, <1>4, <1>5
    DEF CellInv, RingInv, queueVars, producerVars, ProducerOwnsCell, Delivery

\* The releasing store frees the cell of the copied entry and no other one.
LEMMA DeqReleaseCells ==
    ASSUME RingInv, NEW w \in Workers, DeqRelease(w)
    PROVE  CellInv'
<1>1. /\ UNCHANGED <<data, head, tail, producerVars, pos, got, wtodo, enq>>
      /\ wpc[w] = "copy" /\ wtodo[w] = {}
      /\ ready' = [ready EXCEPT ![slot(pos[w])] = FALSE]
      /\ wpc' = [wpc EXCEPT ![w] = "idle"]
      /\ handed' = handed \cup {[pos |-> pos[w], got |-> got[w]]}
  BY DEF DeqRelease
<1>2. /\ pos[w] \in Nat /\ head \in Nat /\ tail \in Nat /\ head <= tail
      /\ pos[w] < head /\ slot(pos[w]) \in Slots
      /\ ready \in [Slots -> BOOLEAN] /\ tail = Len(enq)
  BY <1>1, SlotInRing DEF RingInv, TypeOK, ClaimsDistinct
<1>3. Occupied(pos[w])
  BY <1>1 DEF Occupied
<1>4. \A p \in Nat : Occupied(p)' <=> (Occupied(p) /\ p # pos[w])
  <2> SUFFICES ASSUME NEW p \in Nat
               PROVE  Occupied(p)' <=> (Occupied(p) /\ p # pos[w])
    OBVIOUS
  <2>1. \A v \in Workers : wpc'[v] = "copy" <=> (wpc[v] = "copy" /\ v # w)
    BY <1>1 DEF RingInv, TypeOK
  <2>2. \A v \in Workers \ {w} : wpc[v] = "copy" => pos[v] # pos[w]
    BY <1>1 DEF RingInv, ClaimsDistinct
  <2> QED BY <1>1, <1>2, <2>1, <2>2 DEF Occupied
<1>5. OccupiedCells'
  <2> SUFFICES ASSUME NEW p \in 0 .. tail - 1, Occupied(p)'
               PROVE  /\ tail <= p + Capacity
                      /\ ready'[slot(p)]
                      /\ data[slot(p)] = Payload(enq[p + 1])
    BY <1>1 DEF OccupiedCells
  <2>1. p \in Nat /\ Occupied(p) /\ p # pos[w] /\ slot(p) \in Slots
    BY <1>2, <1>4, SlotInRing
  <2>2. slot(p) # slot(pos[w])
    BY <2>1, <1>2, <1>3, OccupiedApart
  <2>3. /\ tail <= p + Capacity /\ ready[slot(p)]
        /\ data[slot(p)] = Payload(enq[p + 1])
    BY <2>1 DEF RingInv, OccupiedCells
  <2> QED BY <1>1, <1>2, <2>1, <2>2, <2>3
<1>6. ReadyMeansOccupied'
  <2> SUFFICES ASSUME NEW i \in Slots, ready'[i]
               PROVE  \E p \in 0 .. tail - 1 : Occupied(p)' /\ slot(p) = i
    BY <1>1 DEF ReadyMeansOccupied
  <2>1. ready[i] /\ i # slot(pos[w])
    BY <1>1, <1>2
  <2>2. PICK p \in 0 .. tail - 1 : Occupied(p) /\ slot(p) = i
    BY <2>1 DEF RingInv, ReadyMeansOccupied
  <2> QED BY <2>1, <2>2, <1>2, <1>4
<1>7. ProducerOwnsCell'
  <2> SUFFICES ASSUME ppc = "copy"
               PROVE  /\ ~ready'[slot(tail)]
                      /\ \A f \in Fields \ ptodo : data[slot(tail)][f] = cur
    BY <1>1 DEF ProducerOwnsCell, producerVars
  <2>1. slot(tail) \in Slots /\ ~ready[slot(tail)]
    BY <1>2, SlotInRing DEF RingInv, ProducerOwnsCell
  <2> QED BY <1>1, <1>2, <2>1 DEF RingInv, ProducerOwnsCell
<1>8. WorkerLocals'
  BY <1>1 DEF RingInv, TypeOK, WorkerLocals
<1>9. Delivery'
  <2>1. got[w] = Payload(enq[pos[w] + 1])
    <3>1. \A f \in Fields : got[w][f] = enq[pos[w] + 1]
      BY <1>1 DEF RingInv, WorkerLocals
    <3>2. got[w] \in [Fields -> Conn]
      BY DEF RingInv, TypeOK
    <3> QED BY <3>1, <3>2 DEF Payload
  <2> QED BY <1>1, <1>2, <2>1 DEF RingInv, Delivery
<1> QED BY <1>1, <1>2, <1>5, <1>6, <1>7, <1>8, <1>9 DEF CellInv

\* The invariant is inductive as long as no worker is lapped.
LEMMA RingStep == RingInv /\ [TimelyNext]_vars => RingInv'
<1> SUFFICES ASSUME RingInv, [TimelyNext]_vars PROVE RingInv'
  OBVIOUS
<1>1. TypeOK' /\ ClaimsDistinct' /\ HandedBehindHead'
  BY TypeStep, ClaimStep DEF RingInv, TimelyNext
<1>2. NotLapped'
  BY DEF TimelyNext, RingInv, NotLapped, vars, queueVars, workerVars
<1>3. CellInv'
  <2>1. CASE UNCHANGED vars
    BY <2>1 DEF vars, queueVars, producerVars, workerVars, CellInv, RingInv, OccupiedCells,
       Occupied, ReadyMeansOccupied, ProducerOwnsCell, WorkerLocals, Delivery
  <2>2. CASE Next
    BY <1>1, <2>2, AcceptCells, EnqCheckReadyCells, EnqCopyCells, EnqPublishCells,
       DeqLookCells, DeqCasCells, DeqCopyCells, DeqReleaseCells
    DEF Next, Producer, Consumer
  <2> QED BY <2>1, <2>2 DEF TimelyNext
<1> QED BY <1>1, <1>2, <1>3 DEF RingInv, CellInv

\* As long as no worker is overtaken by a whole ring, every dequeue returns
\* exactly the connection published at the position it claimed.
THEOREM WholePayloads == TimelySpec => []Delivery
<1>1. RingInv => Delivery
  BY DEF RingInv
<1> QED BY RingInit, RingStep, <1>1, PTL DEF TimelySpec

-----------------------------------------------------------------------------
(* The ring implements the queue. *)

\* accept4 numbers connections afresh, so a new one was never queued or dropped.
LEMMA KnownStep ==
    ASSUME TypeOK, TypeOK', CurIsNew, [Next]_vars
    PROVE  CurIsNew'
<1> USE MaxConnsAssumption DEF Fifo!Known
<1>1. \A c \in Fifo!Known : c \in 1 .. MaxConns
  <2>1. \A i \in 1 .. Len(enq) : enq[i] \in 1 .. MaxConns
    BY DEF TypeOK
  <2>2. \A c \in dropped : c \in 1 .. MaxConns
    BY DEF TypeOK
  <2> QED BY <2>1, <2>2
<1>2. cur \in 0 .. MaxConns /\ (ppc # "accept" => cur > 0)
  BY DEF TypeOK
<1>3. CASE Accept
  <2>1. cur' = cur + 1 /\ UNCHANGED <<enq, dropped>>
    BY <1>3 DEF Accept
  <2>2. Fifo!Known' = Fifo!Known
    BY <2>1
  <2> HIDE DEF Fifo!Known
  <2>3. \A c \in Fifo!Known : c <= cur
    BY DEF CurIsNew
  <2>4. \A c \in Fifo!Known : c < cur'
    BY <1>1, <1>2, <2>1, <2>3
  <2> QED BY <1>1, <1>2, <2>1, <2>2, <2>4 DEF CurIsNew
<1>4. CASE EnqCheckReady
  <2>1. /\ dropped' \subseteq dropped \cup {cur} /\ UNCHANGED <<enq, cur>>
        /\ ppc = "check"
        /\ ppc' # "accept" => dropped' = dropped
    <3>1. CASE ready[slot(tail)]
      BY <1>4, <3>1 DEF EnqCheckReady
    <3>2. CASE ~ready[slot(tail)]
      BY <1>4, <3>2 DEF EnqCheckReady
    <3> QED BY <3>1, <3>2
  <2>2. \A c \in Fifo!Known' : c \in Fifo!Known \/ (c = cur /\ ppc' = "accept")
    BY <2>1
  <2> QED BY <1>1, <1>2, <2>1, <2>2 DEF CurIsNew
<1>5. CASE EnqPublish
  <2>1. /\ enq' = Append(enq, cur) /\ UNCHANGED <<dropped, cur>>
        /\ ppc = "copy" /\ ppc' = "accept" /\ enq \in Seq(1 .. MaxConns)
    BY <1>5 DEF EnqPublish, TypeOK
  <2>2. \A c \in Fifo!Known' : c \in Fifo!Known \/ c = cur
    <3> SUFFICES ASSUME NEW i \in 1 .. Len(enq')
                 PROVE  enq'[i] = cur \/ \E j \in 1 .. Len(enq) : enq'[i] = enq[j]
      BY <2>1
    <3>1. CASE i = Len(enq) + 1
      BY <2>1, <3>1
    <3>2. CASE i \in 1 .. Len(enq)
      BY <2>1, <3>2
    <3> QED BY <2>1, <3>1, <3>2
  <2> QED BY <1>1, <1>2, <2>1, <2>2 DEF CurIsNew
<1>6. ASSUME UNCHANGED <<ppc, cur, enq, dropped>> PROVE CurIsNew'
  BY <1>6 DEF CurIsNew
<1> QED
  BY <1>3, <1>4, <1>5, <1>6
  DEF Next, Producer, Consumer, EnqCopy, DeqStart, DeqProbe, DeqRecheck, DeqCas,
      DeqCopy, DeqRelease, producerVars, vars

\* The empty ring is the empty queue.
LEMMA RefineInit == Init => Fifo!FifoInit
BY DEF Init, Fifo!FifoInit, Hold, Given

\* The cell at tail is ready exactly when the queue is full.
LEMMA RefuseStep ==
    ASSUME RingInv, CurIsNew, EnqCheckReady
    PROVE  [Fifo!FifoNext]_Fifo!fifoVars
<1>1. /\ UNCHANGED <<head, enq, wpc, pos, handed, cur>> /\ ppc = "check"
  BY DEF EnqCheckReady, queueVars, workerVars
<1>2. UNCHANGED <<Hold, Given>>
  BY <1>1 DEF Hold, Given
<1>3. CASE ~ready[slot(tail)]
  <2>1. UNCHANGED dropped
    BY <1>3 DEF EnqCheckReady
  <2> QED BY <1>1, <1>2, <2>1 DEF Fifo!fifoVars
<1>4. CASE ready[slot(tail)]
  <2>1. dropped' = dropped \cup {cur} /\ cur \in 1 .. MaxConns /\ cur \notin Fifo!Known
    <3>1. cur \in 1 .. MaxConns
      BY <1>1, MaxConnsAssumption DEF RingInv, TypeOK
    <3>2. cur \notin Fifo!Known
      BY <3>1, <1>1 DEF CurIsNew
    <3> QED BY <1>4, <3>1, <3>2 DEF EnqCheckReady
  <2>2. tail \in Nat /\ head \in Nat /\ tail = Len(enq)
    BY DEF RingInv, TypeOK
  <2>3. PICK p \in 0 .. tail - 1 : Occupied(p) /\ slot(p) = slot(tail)
    BY <1>4, <2>2, SlotInRing DEF RingInv, ReadyMeansOccupied
  <2>4. tail <= p + Capacity
    BY <2>3 DEF RingInv, OccupiedCells
  <2>5. p = tail - Capacity
    BY <2>2, <2>3, <2>4, SlotInjective, CapacityAssumption
  <2>6. Fifo!Full
    BY <2>2, <2>3, <2>5 DEF Fifo!Full, Fifo!Blocking, Occupied, Hold
  <2>7. Fifo!Refuse(cur)
    BY <1>1, <1>2, <2>1, <2>6 DEF Fifo!Refuse
  <2> QED BY <2>1, <2>7 DEF Fifo!FifoNext
<1> QED BY <1>3, <1>4

\* The publishing store is the queue's put.
LEMMA PutStep ==
    ASSUME RingInv, CurIsNew, EnqPublish
    PROVE  Fifo!FifoNext
<1>1. /\ UNCHANGED <<head, wpc, pos, handed, dropped>> /\ ppc = "copy"
      /\ enq' = Append(enq, cur)
  BY DEF EnqPublish, workerVars
<1>2. UNCHANGED <<Hold, Given>>
  BY <1>1 DEF Hold, Given
<1>3. cur \in 1 .. MaxConns /\ cur \notin Fifo!Known
  BY <1>1, MaxConnsAssumption DEF RingInv, TypeOK, CurIsNew
<1>4. tail \in Nat /\ head \in Nat /\ tail = Len(enq)
  BY DEF RingInv, TypeOK
<1>5. ~Fifo!Full
  <2> SUFFICES ASSUME Fifo!Full PROVE FALSE
    OBVIOUS
  <2> DEFINE p == tail - Capacity
  <2>1. p \in Nat /\ Occupied(p)
    <3>1. CASE p >= head
      BY <1>4, <3>1, CapacityAssumption DEF Occupied
    <3>2. CASE p \in Hold
      BY <3>2 DEF Hold, Occupied, RingInv, TypeOK
    <3> QED BY <1>4, <3>1, <3>2 DEF Fifo!Full, Fifo!Blocking
  <2>2. tail < p + Capacity
    BY <1>1, <2>1, FillingApart
  <2> QED BY <1>4, <2>2, CapacityAssumption
<1>6. Fifo!Put(cur)
  BY <1>1, <1>2, <1>3, <1>5 DEF Fifo!Put
<1> QED BY <1>3, <1>6 DEF Fifo!FifoNext

\* The exchange of head is the queue's take, or no step when it fails.
LEMMA TakeStep ==
    ASSUME RingInv, NEW w \in Workers, DeqCas(w)
    PROVE  [Fifo!FifoNext]_Fifo!fifoVars
<1>1. UNCHANGED <<enq, dropped, handed>> /\ wpc[w] = "cas"
  BY DEF DeqCas
<1>2. UNCHANGED Given
  BY <1>1 DEF Given
<1>3. CASE head = pos[w]
  <2>1. head' = head + 1 /\ UNCHANGED pos /\ wpc' = [wpc EXCEPT ![w] = "copy"]
    BY <1>3 DEF DeqCas
  <2>2. head < Len(enq)
    BY <1>1, <1>3 DEF RingInv, WorkerLocals
  <2>3. \A v \in Workers : wpc'[v] = "copy" <=> (wpc[v] = "copy" \/ v = w)
    BY <2>1 DEF RingInv, TypeOK
  <2>4. Hold' = Hold \cup {head}
    BY <1>3, <2>1, <2>3 DEF Hold
  <2>5. Fifo!Take
    BY <1>1, <1>2, <2>1, <2>2, <2>4 DEF Fifo!Take
  <2> QED BY <2>5 DEF Fifo!FifoNext
<1>4. CASE head # pos[w]
  <2>1. UNCHANGED head
    BY <1>4 DEF DeqCas
  <2>2. \A v \in Workers : /\ wpc'[v] = "copy" <=> wpc[v] = "copy"
                           /\ wpc[v] = "copy" => pos'[v] = pos[v]
    BY <1>1, <1>4 DEF DeqCas, RingInv, TypeOK
  <2>3. UNCHANGED Hold
    BY <2>2 DEF Hold
  <2> QED BY <1>1, <1>2, <2>1, <2>3 DEF Fifo!fifoVars
<1> QED BY <1>3, <1>4

\* The releasing store gives the taker what was put in at its place.
LEMMA GiveStep ==
    ASSUME RingInv, RingInv', NEW w \in Workers, DeqRelease(w)
    PROVE  Fifo!FifoNext
<1>1. /\ UNCHANGED <<enq, dropped, head, pos>> /\ wpc[w] = "copy"
      /\ wpc' = [wpc EXCEPT ![w] = "idle"]
      /\ handed' = handed \cup {[pos |-> pos[w], got |-> got[w]]}
  BY DEF DeqRelease
<1>2. pos[w] \in Hold
  BY <1>1 DEF Hold
<1>3. Hold' = Hold \ {pos[w]}
  <2>1. \A v \in Workers : wpc'[v] = "copy" <=> (wpc[v] = "copy" /\ v # w)
    BY <1>1 DEF RingInv, TypeOK
  <2>2. \A v \in Workers \ {w} : wpc[v] = "copy" => pos[v] # pos[w]
    BY <1>1 DEF RingInv, ClaimsDistinct
  <2> QED BY <1>1, <2>1, <2>2 DEF Hold
<1>4. got[w]["fd"] = enq[pos[w] + 1]
  <2> DEFINE h == [pos |-> pos[w], got |-> got[w]]
  <2>1. h \in handed' /\ h.pos = pos[w] /\ h.got = got[w]
    BY <1>1
  <2> HIDE DEF h
  <2>2. h.got = Payload(enq'[h.pos + 1])
    BY <2>1 DEF RingInv, Delivery
  <2> QED BY <1>1, <2>1, <2>2, FieldsAssumption DEF Payload
<1>5. Given' = Given \cup {enq[pos[w] + 1]}
  <2> DEFINE h == [pos |-> pos[w], got |-> got[w]]
  <2>1. handed' = handed \cup {h} /\ h.got["fd"] = enq[pos[w] + 1]
    BY <1>1, <1>4
  <2> HIDE DEF h
  <2> QED BY <2>1 DEF Given
<1>6. Fifo!Give(pos[w])
  BY <1>1, <1>2, <1>3, <1>5 DEF Fifo!Give
<1> QED BY <1>2, <1>6 DEF Fifo!FifoNext

\* Every step of the ring is a step of the queue or leaves it unchanged.
LEMMA RefineStep ==
    ASSUME RingInv, RingInv', CurIsNew, [Next]_vars
    PROVE  [Fifo!FifoNext]_Fifo!fifoVars
<1>1. ASSUME UNCHANGED <<enq, head, dropped, handed>>,
             \A v \in Workers : /\ wpc'[v] = "copy" <=> wpc[v] = "copy"
                                /\ wpc[v] = "copy" => pos'[v] = pos[v]
      PROVE  UNCHANGED Fifo!fifoVars
  BY <1>1 DEF Fifo!fifoVars, Hold, Given
<1>2. CASE UNCHANGED vars
  BY <1>1, <1>2 DEF vars, queueVars, workerVars
<1>3. CASE Accept \/ \E f \in Fields : EnqCopy(f)
  BY <1>1, <1>3 DEF Accept, EnqCopy, queueVars, workerVars
<1>4. ASSUME NEW w \in Workers, DeqStart(w) \/ DeqProbe(w) \/ DeqRecheck(w)
      PROVE  UNCHANGED Fifo!fifoVars
  <2>1. UNCHANGED <<enq, head, dropped, handed>>
    BY <1>4 DEF DeqStart, DeqProbe, DeqRecheck, queueVars
  <2>2. \A v \in Workers : /\ wpc'[v] = "copy" <=> wpc[v] = "copy"
                           /\ wpc[v] = "copy" => pos'[v] = pos[v]
    BY <1>4 DEF DeqStart, DeqProbe, DeqRecheck, RingInv, TypeOK
  <2> QED BY <1>1, <2>1, <2>2
<1>5. ASSUME NEW w \in Workers, NEW f \in Fields, DeqCopy(w, f)
      PROVE  UNCHANGED Fifo!fifoVars
  BY <1>1, <1>5 DEF DeqCopy, queueVars
<1> QED
  BY <1>2, <1>3, <1>4, <1>5, RefuseStep, PutStep, TakeStep, GiveStep
  DEF Next, Producer, Consumer

\* As long as no worker is overtaken by a whole ring, the ring is the bounded
\* first-in first-out queue of ConnFifo.
THEOREM RingIsFifo == TimelySpec => ImplementsFifo
<1>1. Init => RingInv /\ CurIsNew /\ Fifo!FifoInit
  BY RingInit, RefineInit DEF Init, CurIsNew, Fifo!Known
<1>2. RingInv /\ CurIsNew /\ [TimelyNext]_vars => (RingInv /\ CurIsNew)'
  BY RingStep, KnownStep DEF RingInv, TimelyNext
<1>3. RingInv /\ RingInv' /\ CurIsNew /\ [TimelyNext]_vars
        => [Fifo!FifoNext]_Fifo!fifoVars
  BY RefineStep DEF TimelyNext
<1> QED BY <1>1, <1>2, <1>3, PTL DEF TimelySpec, ImplementsFifo, Fifo!FifoSpec

=============================================================================
