------------------------------ MODULE ConnFifo ------------------------------
(***************************************************************************)
(* What the connection queue promises its users, the accept thread and the *)
(* workers: a bounded first-in first-out queue.  Connections are taken in  *)
(* the order they were put in, each by one taker, and a taker receives     *)
(* exactly what was put in.  A put is refused only while the entry put     *)
(* Capacity places earlier is still in the queue or in a taker's hands.    *)
(***************************************************************************)
EXTENDS Integers, Sequences

CONSTANTS
    Conns,      \* the connections that may be put in
    Capacity    \* the number of entries

VARIABLES
    log,        \* all connections ever put in, in order
    next,       \* how many of them have been taken
    hold,       \* places taken and not yet released
    given,      \* connections takers have received
    lost        \* connections refused

fifoVars == <<log, next, hold, given, lost>>

Known == {log[i] : i \in 1 .. Len(log)} \cup lost

\* The place whose entry must be gone before the next one can be put in.
Blocking == Len(log) - Capacity

Full == Blocking >= next \/ Blocking \in hold

FifoInit ==
    /\ log = <<>>
    /\ next = 0
    /\ hold = {}
    /\ given = {}
    /\ lost = {}

Put(c) ==
    /\ c \notin Known
    /\ ~Full
    /\ log' = Append(log, c)
    /\ UNCHANGED <<next, hold, given, lost>>

Refuse(c) ==
    /\ c \notin Known
    /\ Full
    /\ lost' = lost \cup {c}
    /\ UNCHANGED <<log, next, hold, given>>

Take ==
    /\ next < Len(log)
    /\ hold' = hold \cup {next}
    /\ next' = next + 1
    /\ UNCHANGED <<log, given, lost>>

Give(p) ==
    /\ p \in hold
    /\ hold' = hold \ {p}
    /\ given' = given \cup {log[p + 1]}
    /\ UNCHANGED <<log, next, lost>>

FifoNext ==
    \/ \E c \in Conns : Put(c) \/ Refuse(c)
    \/ Take
    \/ \E p \in hold : Give(p)

FifoSpec == FifoInit /\ [][FifoNext]_fifoVars

=============================================================================
