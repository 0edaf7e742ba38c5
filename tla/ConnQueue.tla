----------------------------- MODULE ConnQueue -----------------------------
(***************************************************************************)
(* The ring of accepted connections (src/connection.c): one producer, the  *)
(* accept thread, and many consumers, the workers.  A ring cell carries    *)
(* its own ready flag; the producer looks only at the flag of the cell at  *)
(* tail, a consumer claims a position by a compare-and-swap on head and    *)
(* releases the cell by clearing the flag once it has copied the payload.  *)
(*                                                                         *)
(* Every atomic access of the C code is a step of its own, and a payload   *)
(* is copied one field at a time.  Atomics are sequentially consistent     *)
(* here.  A connection is the number of the accept that produced it; every *)
(* field of its payload holds that number, so that a payload mixed from    *)
(* two connections is visible.                                             *)
(***************************************************************************)
EXTENDS Integers, Sequences, FiniteSets

CONSTANTS
    Workers,    \* the consumer threads
    Fields,     \* the fields of a payload that are copied separately
    Capacity,   \* q->capacity
    MaxConns    \* bound: accepts of the listening socket

ASSUME FieldsAssumption == "fd" \in Fields

\* config.h asserts TINY_QUEUE_SIZE >= 2; `pos & (capacity - 1)' is then a
\* remainder because the size is a power of two.
ASSUME CapacityAssumption == Capacity \in Nat /\ Capacity >= 2

ASSUME MaxConnsAssumption == MaxConns \in Nat

NoConn == -1     \* what zeroed memory holds before the first payload

VARIABLES
    data,       \* q->data: cell -> payload
    ready,      \* q->data[i].ready
    head,       \* q->head_id
    tail,       \* q->tail_id
    ppc,        \* where the accept thread is
    cur,        \* the connection it last accepted
    ptodo,      \* the fields it has still to copy into the cell
    wpc,        \* where each worker is in dequeue_connection
    pos,        \* its local variable pos
    got,        \* its local payload *c
    wtodo,      \* the fields it has still to copy out of the cell
    enq,        \* history: the connections published, position p at enq[p+1]
    dropped,    \* history: the connections refused because their cell was ready
    handed      \* history: [pos, got] of every successful dequeue

queueVars == <<data, ready, head, tail>>
producerVars == <<ppc, cur, ptodo>>
workerVars == <<wpc, pos, got, wtodo>>
vars == <<queueVars, producerVars, workerVars, enq, dropped, handed>>

Slots == 0 .. Capacity - 1
slot(p) == p % Capacity
Payload(c) == [f \in Fields |-> c]
Conn == {NoConn} \cup 1 .. MaxConns

Init ==
    /\ data = [i \in Slots |-> Payload(NoConn)]
    /\ ready = [i \in Slots |-> FALSE]
    /\ head = 0
    /\ tail = 0
    /\ ppc = "accept"
    /\ cur = 0
    /\ ptodo = {}
    /\ wpc = [w \in Workers |-> "idle"]
    /\ pos = [w \in Workers |-> 0]
    /\ got = [w \in Workers |-> Payload(NoConn)]
    /\ wtodo = [w \in Workers |-> {}]
    /\ enq = <<>>
    /\ dropped = {}
    /\ handed = {}

-----------------------------------------------------------------------------
(***************************************************************************)
(* The accept thread.                                                      *)
(***************************************************************************)

\* accept4 returned a new descriptor.  (On an error the loop just tries again.)
Accept ==
    /\ ppc = "accept"
    /\ cur < MaxConns
    /\ cur' = cur + 1
    /\ ppc' = "check"
    /\ UNCHANGED <<queueVars, workerVars, ptodo, enq, dropped, handed>>

\* enqueue_connection loads the flag of the cell at tail: set means full, and
\* the descriptor is closed.
EnqCheckReady ==
    /\ ppc = "check"
    /\ IF ready[slot(tail)]
         THEN /\ dropped' = dropped \cup {cur}
              /\ ppc' = "accept"
              /\ UNCHANGED ptodo
         ELSE /\ ptodo' = Fields
              /\ ppc' = "copy"
              /\ UNCHANGED dropped
    /\ UNCHANGED <<queueVars, workerVars, cur, enq, handed>>

\* connection_copy_payload into the cell, one field.
EnqCopy(f) ==
    /\ ppc = "copy"
    /\ f \in ptodo
    /\ data' = [data EXCEPT ![slot(tail)][f] = cur]
    /\ ptodo' = ptodo \ {f}
    /\ UNCHANGED <<ready, head, tail, ppc, cur, workerVars, enq, dropped, handed>>

\* Variant to be rejected: the flag is published before the copy is complete.
EnqPublishEarly ==
    /\ ppc = "copy"
    /\ ready' = [ready EXCEPT ![slot(tail)] = TRUE]
    /\ tail' = IF ptodo = {} THEN tail + 1 ELSE tail
    /\ enq' = IF ptodo = {} THEN Append(enq, cur) ELSE enq
    /\ ppc' = IF ptodo = {} THEN "accept" ELSE "copy"
    /\ UNCHANGED <<data, head, cur, ptodo, workerVars, dropped, handed>>

\* Variant to be rejected: tail_id is advanced first, so that the flag goes to
\* the cell after the one that was filled.
EnqPublishSwapped ==
    /\ ppc = "copy"
    /\ ptodo = {}
    /\ ready' = [ready EXCEPT ![slot(tail + 1)] = TRUE]
    /\ tail' = tail + 1
    /\ enq' = Append(enq, cur)
    /\ ppc' = "accept"
    /\ UNCHANGED <<data, head, cur, ptodo, workerVars, dropped, handed>>

\* The release store of ready and tail_id++ (no other thread reads tail_id).
EnqPublish ==
    /\ ppc = "copy"
    /\ ptodo = {}
    /\ ready' = [ready EXCEPT ![slot(tail)] = TRUE]
    /\ tail' = tail + 1
    /\ enq' = Append(enq, cur)
    /\ ppc' = "accept"
    /\ UNCHANGED <<data, head, cur, ptodo, workerVars, dropped, handed>>

-----------------------------------------------------------------------------
(***************************************************************************)
(* A worker in dequeue_connection.                                         *)
(***************************************************************************)

\* The first relaxed load of head_id.
DeqStart(w) ==
    /\ wpc[w] = "idle"
    /\ pos' = [pos EXCEPT ![w] = head]
    /\ wpc' = [wpc EXCEPT ![w] = "probe"]
    /\ UNCHANGED <<queueVars, producerVars, got, wtodo, enq, dropped, handed>>

\* The acquire load of the flag of the cell at pos.
DeqProbe(w) ==
    /\ wpc[w] = "probe"
    /\ wpc' = [wpc EXCEPT ![w] = IF ready[slot(pos[w])] THEN "cas" ELSE "recheck"]
    /\ UNCHANGED <<queueVars, producerVars, pos, got, wtodo, enq, dropped, handed>>

\* The flag was clear: follow head if another worker moved it, else return 0.
DeqRecheck(w) ==
    /\ wpc[w] = "recheck"
    /\ pos' = [pos EXCEPT ![w] = head]
    /\ wpc' = [wpc EXCEPT ![w] = IF head # pos[w] THEN "probe" ELSE "idle"]
    /\ UNCHANGED <<queueVars, producerVars, got, wtodo, enq, dropped, handed>>

\* Variant to be rejected: a plain store of head in place of the exchange.
DeqCasPlainStore(w) ==
    /\ wpc[w] = "cas"
    /\ head' = pos[w] + 1
    /\ wtodo' = [wtodo EXCEPT ![w] = Fields]
    /\ wpc' = [wpc EXCEPT ![w] = "copy"]
    /\ UNCHANGED <<data, ready, tail, producerVars, pos, got, enq, dropped, handed>>

\* The compare-and-exchange: on failure pos receives the head it found.
DeqCas(w) ==
    /\ wpc[w] = "cas"
    /\ IF head = pos[w]
         THEN /\ head' = head + 1
              /\ wtodo' = [wtodo EXCEPT ![w] = Fields]
              /\ wpc' = [wpc EXCEPT ![w] = "copy"]
              /\ UNCHANGED pos
         ELSE /\ pos' = [pos EXCEPT ![w] = head]
              /\ wpc' = [wpc EXCEPT ![w] = "probe"]
              /\ UNCHANGED <<head, wtodo>>
    /\ UNCHANGED <<data, ready, tail, producerVars, got, enq, dropped, handed>>

\* connection_copy_payload out of the cell, one field.
DeqCopy(w, f) ==
    /\ wpc[w] = "copy"
    /\ f \in wtodo[w]
    /\ got' = [got EXCEPT ![w][f] = data[slot(pos[w])][f]]
    /\ wtodo' = [wtodo EXCEPT ![w] = @ \ {f}]
    /\ UNCHANGED <<queueVars, producerVars, wpc, pos, enq, dropped, handed>>

\* Variant to be rejected: the cell is released before it has been copied.
DeqReleaseEarly(w) ==
    /\ wpc[w] = "copy"
    /\ ready' = [ready EXCEPT ![slot(pos[w])] = FALSE]
    /\ wpc' = [wpc EXCEPT ![w] = IF wtodo[w] = {} THEN "idle" ELSE "copy"]
    /\ handed' = IF wtodo[w] = {}
                   THEN handed \cup {[pos |-> pos[w], got |-> got[w]]}
                   ELSE handed
    /\ UNCHANGED <<data, head, tail, producerVars, pos, got, wtodo, enq, dropped>>

\* The release store that frees the cell; dequeue_connection returns 1.
DeqRelease(w) ==
    /\ wpc[w] = "copy"
    /\ wtodo[w] = {}
    /\ ready' = [ready EXCEPT ![slot(pos[w])] = FALSE]
    /\ wpc' = [wpc EXCEPT ![w] = "idle"]
    /\ handed' = handed \cup {[pos |-> pos[w], got |-> got[w]]}
    /\ UNCHANGED <<data, head, tail, producerVars, pos, got, wtodo, enq, dropped>>

-----------------------------------------------------------------------------
Producer ==
    \/ Accept
    \/ EnqCheckReady
    \/ \E f \in Fields : EnqCopy(f)
    \/ EnqPublish

Consumer(w) ==
    \/ DeqStart(w)
    \/ DeqProbe(w)
    \/ DeqRecheck(w)
    \/ DeqCas(w)
    \/ \E f \in Fields : DeqCopy(w, f)
    \/ DeqRelease(w)

Next == Producer \/ \E w \in Workers : Consumer(w)

Spec == Init /\ [][Next]_vars

(***************************************************************************)
(* The timing the ring relies on.  Nothing in dequeue_connection stops the *)
(* other workers from draining the rest of the ring while one of them sits *)
(* between its compare-and-swap and the store that clears the flag; once   *)
(* head comes round to the cell it holds, the flag found there is the old  *)
(* one.  NotLapped says that no worker is overtaken by a whole ring.       *)
(***************************************************************************)
NotLapped ==
    \A w \in Workers : wpc[w] = "copy" => head < pos[w] + Capacity

TimelyNext == Next /\ NotLapped'

TimelySpec == Init /\ [][TimelyNext]_vars

\* Every worker keeps running, and one that found the ring empty looks again.
\* Nothing is assumed of the accept thread.
Fairness == \A w \in Workers : WF_vars(Consumer(w) /\ NotLapped')

LiveSpec == TimelySpec /\ Fairness

-----------------------------------------------------------------------------
\* Every variable keeps its type: descriptors are valid, program counters and
\* the fields still to copy are known ones.
TypeOK ==
    /\ data \in [Slots -> [Fields -> Conn]]
    /\ ready \in [Slots -> BOOLEAN]
    /\ head \in Nat
    /\ tail \in Nat
    /\ ppc \in {"accept", "check", "copy"}
    /\ cur \in 0 .. MaxConns
    /\ (ppc # "accept") => cur > 0
    /\ ptodo \in SUBSET Fields
    /\ wpc \in [Workers -> {"idle", "probe", "recheck", "cas", "copy"}]
    /\ pos \in [Workers -> Nat]
    /\ got \in [Workers -> [Fields -> Conn]]
    /\ wtodo \in [Workers -> SUBSET Fields]
    /\ enq \in Seq(1 .. MaxConns)
    /\ dropped \in SUBSET (1 .. MaxConns)
    /\ handed \in SUBSET [pos : Nat, got : [Fields -> Conn]]

\* The compare-and-swap gives a position to one worker only: no two workers
\* are copying the same position, and none copies one already handed out.
ClaimsDistinct ==
    \A w \in Workers : wpc[w] = "copy" =>
        /\ pos[w] < head
        /\ \A v \in Workers \ {w} : wpc[v] = "copy" => pos[v] # pos[w]
        /\ \A h \in handed : h.pos # pos[w]

\* Every dequeue returns a whole payload: the connection published at the
\* position it claimed, never an old one and never a mixture of two.
Delivery ==
    \A h \in handed :
        /\ h.pos < Len(enq)
        /\ h.got = Payload(enq[h.pos + 1])

\* No connection is given to two workers: each accepted descriptor has one
\* owner ("One worker epoll owns both ends", src/worker.c:25).
HandedOnce ==
    \A g, h \in handed : g.got["fd"] = h.got["fd"] => g = h

\* Every published connection is eventually handed to some worker, for as
\* long as workers keep polling.
EventuallyHanded ==
    \A c \in 1 .. MaxConns :
        (\E i \in 1 .. Len(enq) : enq[i] = c) ~> (\E h \in handed : h.got["fd"] = c)

(***************************************************************************)
(* The inductive invariant behind Delivery and ImplementsFifo.  A position *)
(* occupies its cell from the publishing store to the releasing one: while *)
(* it waits in the ring and while the worker that claimed it copies it.    *)
(***************************************************************************)
Occupied(p) ==
    \/ head <= p /\ p < tail
    \/ \E w \in Workers : wpc[w] = "copy" /\ pos[w] = p

\* An occupied cell is marked ready and holds what was published there, and
\* the occupied positions are less than a ring apart.
OccupiedCells ==
    \A p \in 0 .. tail - 1 : Occupied(p) =>
        /\ tail <= p + Capacity
        /\ ready[slot(p)]
        /\ data[slot(p)] = Payload(enq[p + 1])

\* A ready flag never outlives its entry.
ReadyMeansOccupied ==
    \A i \in Slots : ready[i] =>
        \E p \in 0 .. tail - 1 : Occupied(p) /\ slot(p) = i

\* The cell being filled belongs to the accept thread alone.
ProducerOwnsCell ==
    ppc = "copy" =>
        /\ ~ready[slot(tail)]
        /\ \A f \in Fields \ ptodo : data[slot(tail)][f] = cur

\* A worker about to swap head either has a stale head or a published entry,
\* and what it has copied so far is of the entry it claimed.
WorkerLocals ==
    \A w \in Workers :
        /\ wpc[w] \in {"probe", "recheck", "cas"} => pos[w] <= head
        /\ wpc[w] = "cas" /\ pos[w] = head => head < tail
        /\ wpc[w] = "copy" =>
              \A f \in Fields \ wtodo[w] : got[w][f] = enq[pos[w] + 1]

\* Positions are handed out behind head only.
HandedBehindHead == \A h \in handed : h.pos < head

\* The conjunction, with the positions of the producer and the consumers in order.
RingInv ==
    /\ TypeOK
    /\ NotLapped
    /\ ClaimsDistinct
    /\ HandedBehindHead
    /\ tail = Len(enq)
    /\ head <= tail
    /\ OccupiedCells
    /\ ReadyMeansOccupied
    /\ ProducerOwnsCell
    /\ WorkerLocals
    /\ Delivery

(***************************************************************************)
(* The ring as a queue: a position is held from the compare-and-swap that  *)
(* claims it to the store that releases its cell.                          *)
(***************************************************************************)
Hold == {pos[w] : w \in {v \in Workers : wpc[v] = "copy"}}
Given == {h.got["fd"] : h \in handed}

Fifo == INSTANCE ConnFifo WITH
    Conns <- 1 .. MaxConns,
    log <- enq,
    next <- head,
    hold <- Hold,
    given <- Given,
    lost <- dropped

\* The connection in the accept thread's hands is a new one.
CurIsNew ==
    \A c \in Fifo!Known : c <= cur /\ (ppc # "accept" => c < cur)

\* The ring implements the queue of ConnFifo: order, one taker per entry,
\* whole payloads, and no refusal while the cell at tail is free.
ImplementsFifo == Fifo!FifoSpec

=============================================================================
