----------------------------- MODULE WorkerPool -----------------------------
(***************************************************************************)
(* The accept thread (tiny_run and tiny_runtime_destroy in src/runtime.c)  *)
(* and the workers (src/worker.c): start-up, the hand-over of connections  *)
(* through the queue and one eventfd shared by every worker's epoll, the   *)
(* worker loop with its slots, its free stack, its batch of events and its *)
(* deadline sweep, and shutdown.                                           *)
(*                                                                         *)
(* The queue is the bounded first-in first-out queue of ConnFifo, taken    *)
(* from in one step.  What a client or an upstream sends is left open: an  *)
(* event may keep the connection, renew its deadline, or end it.  Time is  *)
(* left open too: any deadline may pass at any moment.                     *)
(***************************************************************************)
EXTENDS Integers, Sequences, FiniteSets, SequencesExt

CONSTANTS
    NWorkers,       \* TINY_WORKERS
    NSlots,         \* TINY_CONNS_PER_WORKER
    QueueSize,      \* TINY_QUEUE_SIZE
    SweepEvery,     \* DEADLINE_SWEEP_EVERY
    EventsMax,      \* TINY_EPOLL_EVENTS_MAX
    MaxConns,       \* bound: connections accepted
    MaxDisturb,     \* bound: waits interrupted by a signal, in all
    Faults          \* which calls may fail: "create", "init", "wait"

ASSUME SizesAssumption ==
    /\ NWorkers \in Nat \ {0}
    /\ NSlots \in Nat \ {0}
    /\ QueueSize \in Nat \ {0}
    /\ SweepEvery \in Nat \ {0}
    /\ EventsMax \in Nat \ {0}
    /\ MaxConns \in Nat
    /\ MaxDisturb \in Nat

ASSUME FaultsAssumption == Faults \subseteq {"create", "init", "wait"}

Workers == 0 .. NWorkers - 1
Slots == 0 .. NSlots - 1
Conns == 1 .. MaxConns
Vacant == 0                 \* a slot whose active flag is clear

Sides == {"client", "upstream"}
Wake == [side |-> "wake"]   \* the event of TINY_WORKER_WAKE_IDX

VARIABLES
    mpc,        \* where the main thread is
    k,          \* its loop variable over the workers
    started,    \* rt->workers_started
    accepted,   \* connections accepted so far
    queue,      \* rt->queue
    wake,       \* whether the eventfd counter is not zero
    stop,       \* rt->stop
    status,     \* w->status
    wpc,        \* where each worker is
    slots,      \* the connection in each slot, or Vacant
    free,       \* w->free_stack and w->free_top
    nactive,    \* the worker's count of active slots
    loop,       \* loop_i % SweepEvery
    batch,      \* the events of the last epoll_wait not yet handled
    expired,    \* the slots whose deadline has passed
    closed,     \* the connections closed so far
    disturb     \* interruptions left

mainVars == <<mpc, k, started, accepted, status>>
slotVars == <<slots, free, nactive, expired>>
vars == <<mainVars, queue, wake, stop, wpc, slotVars, loop, batch, closed, disturb>>

Init ==
    /\ mpc = "create"
    /\ k = 0
    /\ started = 0
    /\ accepted = 0
    /\ queue = <<>>
    /\ wake = FALSE
    /\ stop = FALSE
    /\ status = [w \in Workers |-> 0]
    /\ wpc = [w \in Workers |-> "none"]
    /\ slots = [w \in Workers |-> [i \in Slots |-> Vacant]]
    /\ free = [w \in Workers |-> <<>>]
    /\ nactive = [w \in Workers |-> 0]
    /\ loop = [w \in Workers |-> 0]
    /\ batch = [w \in Workers |-> {}]
    /\ expired = [w \in Workers |-> {}]
    /\ closed = {}
    /\ disturb = MaxDisturb

-----------------------------------------------------------------------------
(***************************************************************************)
(* The main thread.                                                        *)
(***************************************************************************)

\* pthread_create, worker by worker.  A failure sets stop and leaves tiny_run
\* after one notification.
CreateWorker ==
    /\ mpc = "create"
    /\ \/ /\ k < NWorkers
          /\ wpc' = [wpc EXCEPT ![k] = "init"]
          /\ started' = k + 1
          /\ k' = IF k + 1 = NWorkers THEN 0 ELSE k + 1
          /\ mpc' = IF k + 1 = NWorkers THEN "await" ELSE "create"
          /\ UNCHANGED stop
       \/ /\ "create" \in Faults
          /\ started' = k
          /\ stop' = TRUE
          /\ mpc' = "failed"
          /\ UNCHANGED <<wpc, k>>
    /\ UNCHANGED <<accepted, status, queue, wake, slotVars, loop, batch, closed, disturb>>

\* The loop that waits for every worker to report its status.
AwaitWorker ==
    /\ mpc = "await"
    /\ \/ /\ status[k] = 1
          /\ k' = IF k + 1 = NWorkers THEN 0 ELSE k + 1
          /\ mpc' = IF k + 1 = NWorkers THEN "accept" ELSE "await"
          /\ UNCHANGED stop
       \/ /\ status[k] = -1
          /\ stop' = TRUE
          /\ mpc' = "failed"
          /\ UNCHANGED k
    /\ UNCHANGED <<started, accepted, status, queue, wake, wpc, slotVars, loop, batch,
                   closed, disturb>>

\* tiny_runtime_notify on the failure paths of tiny_run, which then returns.
NotifyFailure ==
    /\ mpc = "failed"
    /\ wake' = TRUE
    /\ mpc' = "destroy"
    /\ UNCHANGED <<k, started, accepted, status, queue, stop, wpc, slotVars, loop, batch,
                   closed, disturb>>

\* Variant to be rejected: the descriptor of a dropped connection stays open.
AcceptLeaks ==
    /\ mpc = "accept"
    /\ ~stop
    /\ accepted < MaxConns
    /\ accepted' = accepted + 1
    /\ \/ /\ Len(queue) < QueueSize
          /\ queue' = Append(queue, accepted')
          /\ mpc' = "notify"
       \/ /\ Len(queue) >= QueueSize
          /\ UNCHANGED <<queue, mpc>>
    /\ UNCHANGED <<k, started, status, wake, stop, wpc, slotVars, loop, batch, closed, disturb>>

\* accept4 and enqueue_connection: a full queue closes the connection.
AcceptConn ==
    /\ mpc = "accept"
    /\ ~stop
    /\ accepted < MaxConns
    /\ accepted' = accepted + 1
    /\ \/ /\ Len(queue) < QueueSize
          /\ queue' = Append(queue, accepted')
          /\ mpc' = "notify"
          /\ UNCHANGED closed
       \/ /\ Len(queue) >= QueueSize
          /\ closed' = closed \cup {accepted'}
          /\ UNCHANGED <<queue, mpc>>
    /\ UNCHANGED <<k, started, status, wake, stop, wpc, slotVars, loop, batch, disturb>>

\* Variant to be rejected: the notification is left out.
NotifyQueuedNot ==
    /\ mpc = "notify"
    /\ mpc' = "accept"
    /\ UNCHANGED <<k, started, accepted, status, queue, wake, stop, wpc, slotVars, loop, batch,
                   closed, disturb>>

\* tiny_runtime_notify after a connection was queued.
NotifyQueued ==
    /\ mpc = "notify"
    /\ wake' = TRUE
    /\ mpc' = "accept"
    /\ UNCHANGED <<k, started, accepted, status, queue, stop, wpc, slotVars, loop, batch,
                   closed, disturb>>

\* tiny_runtime_destroy: stop, notify once, join the started workers in order.
DestroyStop ==
    /\ mpc = "destroy"
    /\ stop' = TRUE
    /\ mpc' = "destroyNotify"
    /\ UNCHANGED <<k, started, accepted, status, queue, wake, wpc, slotVars, loop, batch,
                   closed, disturb>>

DestroyNotify ==
    /\ mpc = "destroyNotify"
    /\ wake' = TRUE
    /\ k' = 0
    /\ mpc' = "join"
    /\ UNCHANGED <<started, accepted, status, queue, stop, wpc, slotVars, loop, batch,
                   closed, disturb>>

JoinWorker ==
    /\ mpc = "join"
    /\ \/ /\ k < started
          /\ wpc[k] = "done"
          /\ k' = k + 1
          /\ UNCHANGED mpc
       \/ /\ k = started
          /\ mpc' = "done"
          /\ UNCHANGED k
    /\ UNCHANGED <<started, accepted, status, queue, wake, stop, wpc, slotVars, loop, batch,
                   closed, disturb>>

-----------------------------------------------------------------------------
(***************************************************************************)
(* A worker.                                                               *)
(***************************************************************************)

\* Allocation, epoll_create1 and the registration of the eventfd; the free
\* stack starts with slot 0 on top.
InitWorker(w) ==
    /\ wpc[w] = "init"
    /\ \/ /\ free' = [free EXCEPT ![w] = [i \in 1 .. NSlots |-> NSlots - i]]
          /\ status' = [status EXCEPT ![w] = 1]
          /\ wpc' = [wpc EXCEPT ![w] = "loop"]
       \/ /\ "init" \in Faults
          /\ status' = [status EXCEPT ![w] = -1]
          /\ wpc' = [wpc EXCEPT ![w] = "done"]
          /\ UNCHANGED free
    /\ UNCHANGED <<mpc, k, started, accepted, queue, wake, stop, slots, nactive, expired, loop,
                   batch, closed, disturb>>

\* Variant to be rejected: stop is not looked at.
LoopTopIgnoresStop(w) ==
    /\ wpc[w] = "loop"
    /\ wpc' = [wpc EXCEPT ![w] = "accept"]
    /\ UNCHANGED <<mainVars, queue, wake, stop, slotVars, loop, batch, closed, disturb>>

\* while (!rt->stop)
LoopTop(w) ==
    /\ wpc[w] = "loop"
    /\ wpc' = [wpc EXCEPT ![w] = IF stop THEN "exit" ELSE "accept"]
    /\ UNCHANGED <<mainVars, queue, wake, stop, slotVars, loop, batch, closed, disturb>>

Active(w) == {i \in Slots : slots[w][i] # Vacant}

\* The slots of A in the order of the loops over all slots.
Ascending(A) ==
    CHOOSE s \in [1 .. Cardinality(A) -> A] :
        \A i, j \in 1 .. Cardinality(A) : i < j => s[i] < s[j]

\* Variant of slot_close to be rejected: the count of active slots is not
\* decremented.
SlotCloseKeepsCount(w, S) ==
    LET A == S \cap Active(w) IN
    /\ slots' = [slots EXCEPT ![w] = [i \in Slots |-> IF i \in A THEN Vacant ELSE @[i]]]
    /\ free' = [free EXCEPT ![w] = @ \o Ascending(A)]
    /\ expired' = [expired EXCEPT ![w] = @ \ A]
    /\ closed' = closed \cup {slots[w][i] : i \in A}
    /\ UNCHANGED nactive

\* slot_close on each slot of S in ascending order; it skips inactive slots.
SlotClose(w, S) ==
    LET A == S \cap Active(w) IN
    /\ slots' = [slots EXCEPT ![w] = [i \in Slots |-> IF i \in A THEN Vacant ELSE @[i]]]
    /\ free' = [free EXCEPT ![w] = @ \o Ascending(A)]
    /\ nactive' = [nactive EXCEPT ![w] = IF @ >= Cardinality(A) THEN @ - Cardinality(A) ELSE 0]
    /\ expired' = [expired EXCEPT ![w] = @ \ A]
    /\ closed' = closed \cup {slots[w][i] : i \in A}

\* sweep_deadlines: nothing to do for a worker that counts no active slot.
Sweep(w) ==
    IF nactive[w] = 0
      THEN UNCHANGED <<slotVars, closed>>
      ELSE SlotClose(w, expired[w])

\* try_accept_one.  Without a free slot or a queued connection the accept loop
\* ends.  A connection that waited too long, that epoll refuses, or whose first
\* read ends it is closed and its slot is back on the stack.
TryAccept(w) ==
    /\ wpc[w] = "accept"
    /\ \/ /\ free[w] = <<>> \/ queue = <<>>
          /\ wpc' = [wpc EXCEPT ![w] = "wait"]
          /\ UNCHANGED <<queue, slotVars, closed>>
       \/ /\ free[w] # <<>> /\ queue # <<>>
          /\ queue' = Tail(queue)
          /\ closed' = closed \cup {Head(queue)}
          /\ UNCHANGED <<wpc, slotVars>>
       \/ /\ free[w] # <<>> /\ queue # <<>>
          /\ queue' = Tail(queue)
          /\ slots' = [slots EXCEPT ![w][Last(free[w])] = Head(queue)]
          /\ free' = [free EXCEPT ![w] = Front(@)]
          /\ nactive' = [nactive EXCEPT ![w] = @ + 1]
          /\ UNCHANGED <<wpc, expired, closed>>
    /\ UNCHANGED <<mainVars, wake, stop, loop, batch, disturb>>

\* Readiness events epoll can report: the sockets of active slots, and the
\* eventfd, level-triggered, while its counter is not zero.
Ready(w) ==
    [side : Sides, slot : Active(w)] \cup (IF wake THEN {Wake} ELSE {})

Reported(w, e) ==
    IF e = Wake THEN e ELSE [side |-> e.side, slot |-> e.slot, conn |-> slots[w][e.slot]]

\* epoll_wait returns some of the ready events.  An event is tagged with the
\* connection it was reported for; the code keeps only the slot index.
WaitEvents(w) ==
    /\ wpc[w] = "wait"
    /\ \E B \in SUBSET Ready(w) \ {{}} :
          /\ Cardinality(B) <= EventsMax
          /\ batch' = [batch EXCEPT ![w] = {Reported(w, e) : e \in B}]
    /\ loop' = [loop EXCEPT ![w] = (@ + 1) % SweepEvery]
    /\ wpc' = [wpc EXCEPT ![w] = "events"]
    /\ UNCHANGED <<mainVars, queue, wake, stop, slotVars, closed, disturb>>

\* Variant to be rejected: after the sweep the worker waits again without a look
\* at the queue.
WaitTimeoutLooksNot(w) ==
    /\ wpc[w] = "wait"
    /\ nactive[w] > 0
    /\ ~wake
    /\ loop' = [loop EXCEPT ![w] = (@ + 1) % SweepEvery]
    /\ Sweep(w)
    /\ UNCHANGED <<mainVars, queue, wake, stop, wpc, batch, disturb>>

\* epoll_wait returns 0: only a worker with active slots gives it a timeout.
\* The sweep follows.
WaitTimeout(w) ==
    /\ wpc[w] = "wait"
    /\ nactive[w] > 0
    /\ ~wake
    /\ loop' = [loop EXCEPT ![w] = (@ + 1) % SweepEvery]
    /\ Sweep(w)
    /\ wpc' = [wpc EXCEPT ![w] = "loop"]
    /\ UNCHANGED <<mainVars, queue, wake, stop, batch, disturb>>

\* EINTR: back to the top of the loop, without a sweep.
WaitInterrupted(w) ==
    /\ wpc[w] = "wait"
    /\ disturb > 0
    /\ disturb' = disturb - 1
    /\ loop' = [loop EXCEPT ![w] = (@ + 1) % SweepEvery]
    /\ wpc' = [wpc EXCEPT ![w] = "loop"]
    /\ UNCHANGED <<mainVars, queue, wake, stop, slotVars, batch, closed>>

\* Any other error of epoll_wait leaves the loop.
WaitFails(w) ==
    /\ wpc[w] = "wait"
    /\ "wait" \in Faults
    /\ wpc' = [wpc EXCEPT ![w] = "exit"]
    /\ UNCHANGED <<mainVars, queue, wake, stop, slotVars, loop, batch, closed, disturb>>

\* drain_wake reads the counter back to zero, for every worker at once.
HandleWake(w) ==
    /\ wpc[w] = "events"
    /\ Wake \in batch[w]
    /\ wake' = FALSE
    /\ batch' = [batch EXCEPT ![w] = @ \ {Wake}]
    /\ UNCHANGED <<mainVars, queue, stop, wpc, slotVars, loop, closed, disturb>>

\* Variant to be rejected: a closed slot is refilled from the queue inside
\* the event loop, while the batch may still name the slot.
HandleEventRefills(w) ==
    /\ wpc[w] = "events"
    /\ \E e \in batch[w] \ {Wake} :
        /\ batch' = [batch EXCEPT ![w] = @ \ {e}]
        /\ \/ UNCHANGED <<slotVars, closed, queue>>
           \/ /\ queue # <<>> /\ e.slot \in Active(w)
              /\ closed' = closed \cup {slots[w][e.slot]}
              /\ slots' = [slots EXCEPT ![w][e.slot] = Head(queue)]
              /\ queue' = Tail(queue)
              /\ expired' = [expired EXCEPT ![w] = @ \ {e.slot}]
              /\ UNCHANGED <<free, nactive>>
    /\ UNCHANGED <<mainVars, wake, stop, wpc, loop, disturb>>

\* An event of a slot: skipped when the slot is no longer active; otherwise
\* the handler keeps the connection, renews its deadline, or closes it.  A client
\* that keeps asking has its deadline renewed without end.
HandleEvent(w) ==
    /\ wpc[w] = "events"
    /\ \E e \in batch[w] \ {Wake} :
        /\ batch' = [batch EXCEPT ![w] = @ \ {e}]
        /\ \/ UNCHANGED <<slotVars, closed>>
           \/ /\ e.slot \in Active(w)
              /\ expired' = [expired EXCEPT ![w] = @ \ {e.slot}]
              /\ UNCHANGED <<slots, free, nactive, closed>>
           \/ SlotClose(w, {e.slot})
    /\ UNCHANGED <<mainVars, queue, wake, stop, wpc, loop, disturb>>

\* Variant to be rejected: the sweep runs only when the wait timed out.
EndBatchNoSweep(w) ==
    /\ wpc[w] = "events"
    /\ batch[w] = {}
    /\ wpc' = [wpc EXCEPT ![w] = "loop"]
    /\ UNCHANGED <<mainVars, queue, wake, stop, slotVars, loop, batch, closed, disturb>>

\* The end of the event loop: every SweepEvery-th round sweeps the deadlines.
EndBatch(w) ==
    /\ wpc[w] = "events"
    /\ batch[w] = {}
    /\ IF loop[w] = 0
         THEN Sweep(w)
         ELSE UNCHANGED <<slotVars, closed>>
    /\ wpc' = [wpc EXCEPT ![w] = "loop"]
    /\ UNCHANGED <<mainVars, queue, wake, stop, loop, batch, disturb>>

\* Leaving the loop closes every slot.
ExitWorker(w) ==
    /\ wpc[w] = "exit"
    /\ SlotClose(w, Slots)
    /\ wpc' = [wpc EXCEPT ![w] = "done"]
    /\ UNCHANGED <<mainVars, queue, wake, stop, loop, batch, disturb>>

\* Time: the deadline of an active slot passes.
Expire(w) ==
    /\ \E i \in Active(w) \ expired[w] :
          expired' = [expired EXCEPT ![w] = @ \cup {i}]
    /\ UNCHANGED <<mainVars, queue, wake, stop, wpc, slots, free, nactive, loop, batch, closed,
                   disturb>>

-----------------------------------------------------------------------------
\* What the main thread does of itself; accepting depends on clients.
Main ==
    \/ CreateWorker
    \/ AwaitWorker
    \/ NotifyFailure
    \/ NotifyQueued
    \/ DestroyStop
    \/ DestroyNotify
    \/ JoinWorker

\* What a worker does of itself once it is not asleep in epoll_wait.
Run(w) ==
    \/ InitWorker(w)
    \/ LoopTop(w)
    \/ TryAccept(w)
    \/ HandleWake(w)
    \/ HandleEvent(w)
    \/ EndBatch(w)
    \/ ExitWorker(w)

Wait(w) ==
    \/ WaitEvents(w)
    \/ WaitTimeout(w)
    \/ WaitInterrupted(w)
    \/ WaitFails(w)

Next ==
    \/ Main
    \/ AcceptConn
    \/ \E w \in Workers : Run(w) \/ Wait(w) \/ Expire(w)

Spec == Init /\ [][Next]_vars

(***************************************************************************)
(* Fairness.  Every thread that can run is scheduled.  A worker asleep in  *)
(* epoll_wait returns when its timeout, given only if it has active slots, *)
(* elapses or while the eventfd is readable.  Deadlines pass.  Nothing is  *)
(* assumed of the clients: no accept and no socket event ever has to come. *)
(***************************************************************************)
Awake(w) == WaitTimeout(w) \/ (wake /\ WaitEvents(w))

Fairness ==
    /\ WF_vars(Main)
    /\ \A w \in Workers :
          WF_vars(Run(w)) /\ WF_vars(Awake(w)) /\ WF_vars(Expire(w))

LiveSpec == Spec /\ Fairness

-----------------------------------------------------------------------------
Events == {Wake} \cup [side : Sides, slot : Slots, conn : Conns]

\* Every variable keeps its type: the queue stays within its size, and slot
\* indices and the count of active slots within the worker's slots.
TypeOK ==
    /\ mpc \in {"create", "await", "failed", "accept", "notify", "destroy",
                "destroyNotify", "join", "done"}
    /\ k \in 0 .. NWorkers
    /\ started \in 0 .. NWorkers
    /\ accepted \in 0 .. MaxConns
    /\ queue \in Seq(Conns)
    /\ Len(queue) <= QueueSize
    /\ wake \in BOOLEAN
    /\ stop \in BOOLEAN
    /\ status \in [Workers -> {-1, 0, 1}]
    /\ wpc \in [Workers -> {"none", "init", "loop", "accept", "wait", "events", "exit", "done"}]
    /\ slots \in [Workers -> [Slots -> Conns \cup {Vacant}]]
    /\ free \in [Workers -> Seq(Slots)]
    /\ nactive \in [Workers -> 0 .. NSlots]
    /\ loop \in [Workers -> 0 .. SweepEvery - 1]
    /\ batch \in [Workers -> SUBSET Events]
    /\ expired \in [Workers -> SUBSET Slots]
    /\ closed \in SUBSET Conns
    /\ disturb \in 0 .. MaxDisturb

\* Every accepted connection is in exactly one place: the queue, one slot of
\* one worker, or closed.  None leaks and none has two owners.
OnePlace ==
    LET inQueue(c) == {j \in 1 .. Len(queue) : queue[j] = c}
        inSlots(c) == {at \in Workers \X Slots : slots[at[1]][at[2]] = c}
    IN  \A c \in 1 .. accepted :
            Cardinality(inQueue(c)) + Cardinality(inSlots(c))
                + (IF c \in closed THEN 1 ELSE 0) = 1

\* A worker's free stack holds each inactive slot exactly once, and its count of
\* active slots is exact.
Exact(w) ==
    /\ Len(free[w]) = NSlots - nactive[w]
    /\ nactive[w] = Cardinality(Active(w))
    /\ ToSet(free[w]) = Slots \ Active(w)

\* The free stack and the count of active slots, which decides whether epoll_wait
\* gets a timeout and whether the sweep runs, are exact from the moment a worker
\* reports that it is up; and the types are kept.
SlotsAccounted ==
    /\ TypeOK
    /\ \A w \in Workers : status[w] = 1 => Exact(w)

\* An event acts only on the connection it was reported for: within a batch a
\* slot may be closed, but it is never given to another connection.
BatchNotStale ==
    \A w \in Workers : \A e \in batch[w] \ {Wake} :
        slots[w][e.slot] \in {Vacant, e.conn}

-----------------------------------------------------------------------------
(***************************************************************************)
(* The invariant behind OnePlace, SlotsAccounted and BatchNotStale.        *)
(***************************************************************************)
Running(w) == wpc[w] \in {"loop", "accept", "wait", "events", "exit"}

\* A worker has slots and events only while it runs, and its thread is created
\* but once.
LifeCycle ==
    /\ mpc \in {"create", "await"} => k < NWorkers
    /\ mpc = "create" => \A w \in Workers : w >= k => wpc[w] = "none"
    /\ \A w \in Workers :
         /\ Running(w) => status[w] = 1
         /\ wpc[w] \in {"none", "init"} => status[w] = 0
         /\ status[w] # 1 => nactive[w] = 0 /\ \A i \in Slots : slots[w][i] = Vacant
         /\ wpc[w] # "events" => batch[w] = {}

\* Where connections are: in the queue, in slots and among the closed ones,
\* nowhere twice, and nobody but accepted ones.
Queued == {queue[j] : j \in 1 .. Len(queue)}
Held == {slots[at[1]][at[2]] : at \in Workers \X Slots} \ {Vacant}

Places ==
    /\ Queued \cup Held \cup closed = 1 .. accepted
    /\ Queued \cap Held = {} /\ Queued \cap closed = {} /\ Held \cap closed = {}
    /\ \A i, j \in 1 .. Len(queue) : queue[i] = queue[j] => i = j
    /\ \A w, v \in Workers : \A i, j \in Slots :
         slots[w][i] = slots[v][j] /\ slots[w][i] # Vacant => w = v /\ i = j

PoolInv == SlotsAccounted /\ LifeCycle /\ BatchNotStale /\ Places

-----------------------------------------------------------------------------
\* Nobody is about to move: the accept thread is in accept4, the eventfd is
\* drained, and every worker sleeps in epoll_wait or has ended.
Quiescent ==
    /\ mpc = "accept"
    /\ ~wake
    /\ \A w \in Workers : wpc[w] \in {"wait", "done"}

\* A connection is left in the queue only if some worker ran out of slots: as
\* long as none has, a wake-up is never lost.
QueuedOnlyWhenSomeFull ==
    Quiescent /\ queue # <<>> => \E w \in Workers : free[w] = <<>>

\* Why: until tiny_run fails nobody leaves its loop, and when the eventfd is drained
\* with a connection queued, somebody is still on the way to the queue.
NoLostWakeup ==
    /\ mpc \in {"create", "await", "accept", "notify"} => ~stop /\ \A w \in Workers : wpc[w] # "exit"
    /\ mpc \in {"create", "await"} => queue = <<>>
    /\ mpc = "accept" /\ queue # <<>> /\ ~wake =>
         \E w \in Workers : wpc[w] \in {"loop", "accept", "events"} \/ free[w] = <<>>

\* A connection is left in the queue for good only if some worker is full for good,
\* its clients asking on and on: whoever frees a slot looks at the queue, though no
\* event tells it to, the eventfd having long been drained.  That a worker with a free
\* slot takes it instead is not so: drain_wake of the full one took its wake-up away.
QueueDrains ==
    \A c \in Conns :
        <>[](c \in ToSet(queue)) => \E w \in Workers : <>[](free[w] = <<>>)

\* A connection past its deadline is eventually closed or renewed, however
\* busy the other sockets of its worker are.
ExpiredIsSwept ==
    \A w \in Workers, i \in Slots : i \in expired[w] ~> i \notin expired[w]

\* After a failed start tiny_runtime_destroy joins every worker and returns.
ShutdownCompletes == stop ~> mpc = "done"

=============================================================================
