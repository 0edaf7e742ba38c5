------------------------------ MODULE LogQueue ------------------------------
(***************************************************************************)
(* The logger (src/logger.c): any thread formats a line and puts it in a   *)
(* ring by a compare-and-swap on the tail; one logger thread writes the    *)
(* lines to standard output, and drains the ring once logger_run is clear. *)
(*                                                                         *)
(* Every atomic access is a step.  Ring ids are unsigned and wrap at 2^W   *)
(* (W = 32 in the code).  A line is a record naming its producer and its   *)
(* number; its length and its text are copied separately.                  *)
(***************************************************************************)
EXTENDS Integers, Sequences, FiniteSets

CONSTANTS
    Producers,      \* the threads that call tiny_log
    Joined,         \* those of them that have ended when log_shutdown is called
    MaxLines,       \* bound: lines logged by each of them
    QueueSize,      \* LOG_QUEUE_SIZE
    W,              \* width of head_id and tail_id
    StartId,        \* an id at which the ring was last found empty
    FlushEvery      \* LOG_FLUSH_EVERY

ASSUME RingAssumption ==
    /\ W \in Nat /\ QueueSize \in Nat \ {0} /\ FlushEvery \in Nat \ {0}
    /\ 2^W \in Nat /\ QueueSize < 2^W /\ (2^W) % QueueSize = 0
    /\ StartId \in 0 .. 2^W - 1

ASSUME MaxLinesAssumption == MaxLines \in Nat

ASSUME JoinedAssumption == Joined \subseteq Producers

VARIABLES
    head, tail,     \* logs.head_id, logs.tail_id
    len, text,      \* logs.data[i].len and .message, as the line they are of
    ready,          \* logs.data[i].ready
    run,            \* logger_run
    ppc,            \* where each producer is
    n,              \* the lines it has begun
    t,              \* its current_tail_id
    seen,           \* history: how many lines had a place when it loaded that
    lpc,            \* where the logger thread is
    h,              \* its current_head_id
    l,              \* its local entry: [len, text]
    draining,       \* whether it is in its second loop
    since,          \* since_flush
    placed,         \* history: the lines that got a place, in the order of places
    refused,        \* history: the lines dropped
    out,            \* history: what fwrite was given
    flushed         \* history: how many of them have been flushed

ring == <<head, tail, len, text, ready>>
prod == <<ppc, n, t, seen>>
logr == <<lpc, h, l, since, draining>>
hist == <<placed, refused, out, flushed>>
vars == <<ring, run, prod, logr, hist>>

Slots == 0 .. QueueSize - 1
slot(id) == id % QueueSize
Inc(id) == (id + 1) % 2^W           \* unsigned increment
Diff(a, b) == (a - b) % 2^W         \* unsigned subtraction

NoLine == [by |-> "none", no |-> 0]
Line(p) == [by |-> p, no |-> n[p]]

Init ==
    /\ head = StartId /\ tail = StartId
    /\ len = [i \in Slots |-> NoLine] /\ text = [i \in Slots |-> NoLine]
    /\ ready = [i \in Slots |-> FALSE]
    /\ run = TRUE
    /\ ppc = [p \in Producers |-> "idle"]
    /\ n = [p \in Producers |-> 0]
    /\ t = [p \in Producers |-> StartId]
    /\ seen = [p \in Producers |-> 0]
    /\ lpc = "top" /\ h = StartId /\ l = [len |-> NoLine, text |-> NoLine] /\ since = 0
    /\ draining = FALSE
    /\ placed = <<>> /\ refused = {} /\ out = <<>> /\ flushed = 0

-----------------------------------------------------------------------------
(***************************************************************************)
(* tiny_log and enqueue_log.                                               *)
(***************************************************************************)

\* A new line is formatted and enqueue_log loads tail_id.
EnqBegin(p) ==
    /\ ppc[p] = "idle"
    /\ run \/ p \notin Joined
    /\ n[p] < MaxLines
    /\ n' = [n EXCEPT ![p] = @ + 1]
    /\ t' = [t EXCEPT ![p] = tail]
    /\ seen' = [seen EXCEPT ![p] = Len(placed)]
    /\ ppc' = [ppc EXCEPT ![p] = "check"]
    /\ UNCHANGED <<ring, run, logr, hist>>

\* Variant to be rejected: the ring counts as full while it has one place left.
EnqCheckEarly(p) ==
    /\ ppc[p] = "check"
    /\ IF Diff(t[p], head) >= QueueSize - 1
         THEN refused' = refused \cup {Line(p)} /\ ppc' = [ppc EXCEPT ![p] = "idle"]
         ELSE ppc' = [ppc EXCEPT ![p] = "cas"] /\ UNCHANGED refused
    /\ UNCHANGED <<ring, run, n, t, seen, logr, placed, out, flushed>>

\* It loads head_id; the difference is unsigned, so a tail that fell behind
\* head counts as full as well.
EnqCheck(p) ==
    /\ ppc[p] = "check"
    /\ IF Diff(t[p], head) >= QueueSize
         THEN refused' = refused \cup {Line(p)} /\ ppc' = [ppc EXCEPT ![p] = "idle"]
         ELSE ppc' = [ppc EXCEPT ![p] = "cas"] /\ UNCHANGED refused
    /\ UNCHANGED <<ring, run, n, t, seen, logr, placed, out, flushed>>

\* The compare-and-exchange of tail_id; on failure the loop loads it again.
EnqCas(p) ==
    /\ ppc[p] = "cas"
    /\ IF tail = t[p]
         THEN /\ tail' = Inc(tail)
              /\ placed' = Append(placed, Line(p))
              /\ ppc' = [ppc EXCEPT ![p] = "len"]
              /\ UNCHANGED <<t, seen>>
         ELSE /\ t' = [t EXCEPT ![p] = tail]
              /\ seen' = [seen EXCEPT ![p] = Len(placed)]
              /\ ppc' = [ppc EXCEPT ![p] = "check"]
              /\ UNCHANGED <<tail, placed>>
    /\ UNCHANGED <<head, len, text, ready, run, n, logr, refused, out, flushed>>

\* The entry is filled in.
EnqLen(p) ==
    /\ ppc[p] = "len"
    /\ len' = [len EXCEPT ![slot(t[p])] = Line(p)]
    /\ ppc' = [ppc EXCEPT ![p] = "text"]
    /\ UNCHANGED <<head, tail, text, ready, run, n, t, seen, logr, hist>>

EnqText(p) ==
    /\ ppc[p] = "text"
    /\ text' = [text EXCEPT ![slot(t[p])] = Line(p)]
    /\ ppc' = [ppc EXCEPT ![p] = "publish"]
    /\ UNCHANGED <<head, tail, len, ready, run, n, t, seen, logr, hist>>

\* The release store of ready.
EnqPublish(p) ==
    /\ ppc[p] = "publish"
    /\ ready' = [ready EXCEPT ![slot(t[p])] = TRUE]
    /\ ppc' = [ppc EXCEPT ![p] = "idle"]
    /\ UNCHANGED <<head, tail, len, text, run, n, t, seen, logr, hist>>

\* log_shutdown.  main calls it after tiny_runtime_destroy has joined the
\* workers (Joined = Producers).
Shutdown ==
    /\ run
    /\ \A p \in Joined : ppc[p] = "idle"
    /\ run' = FALSE
    /\ UNCHANGED <<ring, prod, logr, hist>>

-----------------------------------------------------------------------------
(***************************************************************************)
(* The logger thread: one loop while logger_run is set, then a second one  *)
(* that drains the ring and ends at the first empty dequeue_log.           *)
(***************************************************************************)

\* while (logger_run), or while (dequeue_log(&l))
LoggerTop ==
    /\ lpc = "top"
    /\ draining' = (draining \/ ~run)
    /\ lpc' = "load"
    /\ UNCHANGED <<ring, run, prod, h, l, since, hist>>

\* Variant to be rejected: an idle logger does not flush.
DequeueEmptyNoFlush ==
    /\ lpc' = IF draining THEN "done" ELSE "top"
    /\ UNCHANGED <<since, flushed>>

\* dequeue_log returned 0: the first loop flushes what it wrote and sleeps,
\* the second one flushes and ends.
DequeueEmpty ==
    /\ lpc' = IF draining THEN "done" ELSE "top"
    /\ IF draining \/ since > 0
         THEN since' = 0 /\ flushed' = Len(out)
         ELSE UNCHANGED <<since, flushed>>

\* dequeue_log loads head_id and tail_id.
DeqLoad ==
    /\ lpc = "load"
    /\ h' = head
    /\ IF head = tail
         THEN DequeueEmpty
         ELSE lpc' = "spin" /\ UNCHANGED <<since, flushed>>
    /\ UNCHANGED <<ring, run, prod, draining, l, placed, refused, out>>

\* Variant to be rejected: the entry is taken without looking at its flag.
DeqSpinNot ==
    /\ lpc = "spin"
    /\ lpc' = "len"
    /\ UNCHANGED <<ring, run, prod, draining, h, l, since, hist>>

\* The spin on the entry's flag, which a producer sets after its exchange.
DeqSpin ==
    /\ lpc = "spin"
    /\ ready[slot(h)]
    /\ lpc' = "len"
    /\ UNCHANGED <<ring, run, prod, draining, h, l, since, hist>>

\* Variant to be rejected: the spin is never given up.
DeqGiveUpNever ==
    /\ lpc = "spin"
    /\ FALSE
    /\ UNCHANGED vars

\* The spin is given up once logger_run is clear and the flag is still not set.
DeqGiveUp ==
    /\ lpc = "spin"
    /\ ~run
    /\ ~ready[slot(h)]
    /\ DequeueEmpty
    /\ UNCHANGED <<ring, run, prod, draining, h, l, placed, refused, out>>

\* The entry is copied out.
DeqCopyLen ==
    /\ lpc = "len"
    /\ l' = [l EXCEPT !.len = len[slot(h)]]
    /\ lpc' = "text"
    /\ UNCHANGED <<ring, run, prod, draining, h, since, hist>>

DeqCopyText ==
    /\ lpc = "text"
    /\ l' = [l EXCEPT !.text = text[slot(h)]]
    /\ lpc' = "clear"
    /\ UNCHANGED <<ring, run, prod, draining, h, since, hist>>

\* ready = 0, before the store of head_id lets a producer into the entry.
DeqClear ==
    /\ lpc = "clear"
    /\ ready' = [ready EXCEPT ![slot(h)] = FALSE]
    /\ lpc' = "advance"
    /\ UNCHANGED <<head, tail, len, text, run, prod, draining, h, l, since, hist>>

\* The release store of head_id; dequeue_log returns 1.
DeqAdvance ==
    /\ lpc = "advance"
    /\ head' = Inc(h)
    /\ lpc' = "write"
    /\ UNCHANGED <<tail, len, text, ready, run, prod, draining, h, l, since, hist>>

\* fwrite; the first loop flushes after every FlushEvery lines.
WriteLine ==
    /\ lpc = "write"
    /\ out' = Append(out, l)
    /\ IF draining
         THEN UNCHANGED <<since, flushed>>
         ELSE IF since + 1 >= FlushEvery
                THEN since' = 0 /\ flushed' = Len(out')
                ELSE since' = since + 1 /\ UNCHANGED flushed
    /\ lpc' = "top"
    /\ UNCHANGED <<ring, run, prod, draining, h, l, placed, refused>>

-----------------------------------------------------------------------------
Producer(p) ==
    EnqBegin(p) \/ EnqCheck(p) \/ EnqCas(p) \/ EnqLen(p) \/ EnqText(p) \/ EnqPublish(p)

Logger ==
    \/ LoggerTop \/ DeqLoad \/ DeqSpin \/ DeqGiveUp
    \/ DeqCopyLen \/ DeqCopyText \/ DeqClear \/ DeqAdvance \/ WriteLine

Next == (\E p \in Producers : Producer(p)) \/ Shutdown \/ Logger

Spec == Init /\ [][Next]_vars

\* The compare-and-swap compares ids that wrap: it tells that no line was placed
\* since tail_id was loaded only while fewer than 2^W have been.
NotLapped ==
    \A p \in Producers : ppc[p] \in {"check", "cas"} => Len(placed) < seen[p] + 2^W

TimelyNext == Next /\ NotLapped'

TimelySpec == Init /\ [][TimelyNext]_vars

\* A joined thread in the middle of enqueue_log goes on, and so does the logger;
\* no thread has to log anything, and the server need not be shut down.
Fairness ==
    /\ \A p \in Joined : WF_vars(ppc[p] # "idle" /\ Producer(p))
    /\ WF_vars(Logger)

LiveSpec == Spec /\ Fairness

-----------------------------------------------------------------------------
Lines == [by : Producers, no : 1 .. MaxLines] \cup {NoLine}

\* Every variable keeps its type: ring ids stay below 2^W and no more lines are
\* flushed than written.
TypeOK ==
    /\ head \in 0 .. 2^W - 1 /\ tail \in 0 .. 2^W - 1
    /\ len \in [Slots -> Lines] /\ text \in [Slots -> Lines]
    /\ ready \in [Slots -> BOOLEAN]
    /\ run \in BOOLEAN /\ draining \in BOOLEAN
    /\ ppc \in [Producers -> {"idle", "check", "cas", "len", "text", "publish"}]
    /\ n \in [Producers -> 0 .. MaxLines]
    /\ t \in [Producers -> 0 .. 2^W - 1]
    /\ seen \in [Producers -> Nat]
    /\ lpc \in {"top", "load", "spin", "len", "text", "clear", "advance", "write", "done"}
    /\ h \in 0 .. 2^W - 1
    /\ l \in [len : Lines, text : Lines]
    /\ since \in 0 .. FlushEvery - 1
    /\ placed \in Seq(Lines) /\ refused \in SUBSET Lines
    /\ out \in Seq([len : Lines, text : Lines])
    /\ flushed \in 0 .. Len(out)

\* How many lines have left the ring.
Taken == Len(out) + (IF lpc = "write" THEN 1 ELSE 0)

\* The output is the lines that got a place, whole and in the order of their
\* places: none twice, none skipped, none with another one's length; and the types
\* are kept, the ids across their wrap too.
OutputInOrder ==
    /\ TypeOK
    /\ Len(out) <= Len(placed)
    /\ \A i \in 1 .. Len(out) : out[i] = [len |-> placed[i], text |-> placed[i]]

\* Once the logger thread has ended, everything written is flushed, and the
\* first line left in the ring, if any, is of a thread log_shutdown did not
\* wait for: nothing of the joined threads is given up on its own account.
DrainedAtExit ==
    lpc = "done" =>
        /\ flushed = Len(out)
        /\ Len(out) < Len(placed) => placed[Len(out) + 1].by \notin Joined

\* A line is dropped only if the ring holds QueueSize lines, counted from the start
\* and not by the ids that wrap, or another thread has taken the place this one
\* had in view: a logger that keeps up loses no line of a thread on its own.
RefusedForCause ==
    [][\A p \in Producers : Line(p) \in refused' \ refused =>
          t[p] # tail \/ Len(placed) - Taken = QueueSize]_vars

-----------------------------------------------------------------------------
(***************************************************************************)
(* The invariant behind OutputInOrder, DrainedAtExit and RefusedForCause.  *)
(* Places are counted from 0 and do not wrap; those from Taken up to       *)
(* Len(placed) are in the ring.                                            *)
(***************************************************************************)
Id(j) == (StartId + j) % 2^W
Cell(j) == slot(Id(j))

\* p has a place and fills it in: the place is seen[p].
Writing(p) == ppc[p] \in {"len", "text", "publish"}
Owned(j) == \E p \in Producers : Writing(p) /\ seen[p] = j

\* The ids stand for the places, and no more are in the ring than it has entries.
RingIds ==
    /\ Taken <= Len(placed) /\ Len(placed) <= Taken + QueueSize
    /\ head = Id(Taken) /\ tail = Id(Len(placed))
    /\ \A p \in Producers :
         /\ ppc[p] # "idle" => n[p] > 0 /\ t[p] = Id(seen[p]) /\ seen[p] <= Len(placed)
         /\ ppc[p] = "cas" /\ seen[p] = Len(placed) => Len(placed) < Taken + QueueSize
    /\ lpc \in {"spin", "len", "text", "clear", "advance"} => h = head /\ Taken < Len(placed)

\* A place is filled in by the one thread whose line it is.
Writers ==
    /\ \A p \in Producers : Writing(p) =>
         seen[p] \in Taken .. Len(placed) - 1 /\ placed[seen[p] + 1] = Line(p)
    /\ \A p, q \in Producers : Writing(p) /\ Writing(q) /\ seen[p] = seen[q] => p = q

\* What the entries hold: an entry is ready just if its place is taken and filled
\* in, and until the logger clears it.
CellAt(j, i) ==
    /\ j >= Len(placed) \/ Owned(j) => ~ready[i]
    /\ \A p \in Producers : Writing(p) /\ seen[p] = j =>
         /\ ppc[p] # "len" => len[i] = Line(p)
         /\ ppc[p] = "publish" => text[i] = Line(p)
    /\ j < Len(placed) /\ ~Owned(j) =>
         /\ len[i] = placed[j + 1] /\ text[i] = placed[j + 1]
         /\ ready[i] = ~(j = Taken /\ lpc = "advance")

Cells == \A j \in Taken .. Taken + QueueSize - 1 : CellAt(j, Cell(j))

\* What the logger thread has copied.
Copied ==
    /\ lpc \in {"len", "text", "clear"} => ready[slot(h)]
    /\ lpc = "advance" => ~Owned(Taken)
    /\ lpc \in {"text", "clear", "advance"} => l.len = placed[Taken + 1]
    /\ lpc \in {"clear", "advance"} => l.text = placed[Taken + 1]
    /\ lpc = "write" => Taken <= Len(placed) /\ l = [len |-> placed[Taken], text |-> placed[Taken]]

\* Shutdown finds the joined threads idle and they stay so.
ShutDown ==
    /\ draining => ~run
    /\ ~run => \A p \in Joined : ppc[p] = "idle"
    /\ lpc = "done" => draining

RingInv ==
    OutputInOrder /\ RingIds /\ Writers /\ Cells /\ Copied /\ ShutDown /\ DrainedAtExit

-----------------------------------------------------------------------------
\* A thread that was not joined sits between its compare-and-swap and its store
\* of ready; the lines behind its place wait for it.
Blocked == \E p \in Producers \ Joined : ppc[p] \in {"len", "text", "publish"}

\* Whatever got a place is eventually flushed, also when no further line comes
\* to fill up a group of FlushEvery, unless a thread stopped in the middle of
\* enqueue_log or the logger was shut down before.
EventuallyFlushed ==
    \A i \in 1 .. Cardinality(Producers) * MaxLines :
        Len(placed) >= i ~> flushed >= i \/ Blocked \/ lpc = "done"

\* log_shutdown returns, even if a thread that was not joined stopped between
\* its compare-and-swap and its store of ready ("wait briefly, then back off",
\* src/logger.c:132).
LoggerEnds == ~run ~> lpc = "done"

=============================================================================
