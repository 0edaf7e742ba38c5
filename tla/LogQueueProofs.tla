--------------------------- MODULE LogQueueProofs ---------------------------
(***************************************************************************)
(* Proofs about the logger's ring, for any set of producers, any size of   *)
(* the ring and any width of the ids, across any number of wraps.  They    *)
(* are of TimelySpec: no thread sits between its load of tail_id and its   *)
(* compare-and-swap while 2^W lines are placed.                            *)
(***************************************************************************)
EXTENDS LogQueue, FiniteSetTheorems, TLAPS

-----------------------------------------------------------------------------
(* Remainders, for ids that wrap. *)

\* Quotient and remainder.
LEMMA DivMod ==
    ASSUME NEW N \in Nat \ {0}, NEW a \in Int
    PROVE  /\ a \div N \in Int /\ a % N \in 0 .. N - 1
           /\ a = N * (a \div N) + (a % N)
OBVIOUS

\* They are the only ones.
LEMMA ModUnique ==
    ASSUME NEW N \in Nat \ {0}, NEW a \in Int, NEW q \in Int, NEW r \in 0 .. N - 1,
           a = N * q + r
    PROVE  a % N = r
<1> DEFINE D == (a \div N) - q
           R == a % N
<1>1. /\ a \div N \in Int /\ R \in Int /\ 0 <= R /\ R < N
      /\ a = N * (a \div N) + R
  BY DivMod
<1>2. D \in Int /\ N * D = r - R
  BY <1>1
<1> HIDE DEF D, R
<1>3. CASE D >= 1
  <2>1. N * D >= N
    BY <1>2, <1>3
  <2> QED BY <2>1, <1>1, <1>2
<1>4. CASE D <= -1
  <2>1. N * D <= -N
    BY <1>2, <1>4
  <2> QED BY <2>1, <1>1, <1>2
<1>5. CASE D = 0
  BY <1>1, <1>2, <1>5 DEF R
<1> QED BY <1>2, <1>3, <1>4, <1>5

\* Numbers a multiple of N apart have the same remainder.
LEMMA ModShift ==
    ASSUME NEW N \in Nat \ {0}, NEW a \in Int, NEW b \in Int, NEW q \in Int, a = b + N * q
    PROVE  a % N = b % N
<1> DEFINE B == b \div N
           R == b % N
<1>1. B \in Int /\ R \in 0 .. N - 1 /\ b = N * B + R
  BY DivMod
<1> HIDE DEF B, R
<1>2. a = N * (B + q) + R
  BY <1>1
<1>3. a % N = R
  BY <1>1, <1>2, ModUnique
<1> QED BY <1>3 DEF R

\* Numbers less than N apart have the same remainder only if they are the same.
LEMMA ModApart ==
    ASSUME NEW N \in Nat \ {0}, NEW a \in Int, NEW b \in Int, a <= b, b < a + N,
           a % N = b % N
    PROVE  a = b
<1> DEFINE D == (b \div N) - (a \div N)
<1>1. a \div N \in Int /\ a % N \in Int /\ a = N * (a \div N) + (a % N)
  BY DivMod
<1>2. b \div N \in Int /\ b % N \in Int /\ b = N * (b \div N) + (b % N)
  BY DivMod
<1>3. D \in Int /\ b - a = N * D
  BY <1>1, <1>2
<1> HIDE DEF D
<1>4. CASE D >= 1
  <2>1. N * D >= N
    BY <1>3, <1>4
  <2> QED BY <2>1, <1>3
<1>5. CASE D <= -1
  <2>1. N * D <= -N
    BY <1>3, <1>5
  <2> QED BY <2>1, <1>3
<1>6. CASE D = 0
  BY <1>3, <1>6
<1> QED BY <1>3, <1>4, <1>5, <1>6

\* A remainder may be taken before an addition.
LEMMA ModAdd ==
    ASSUME NEW N \in Nat \ {0}, NEW a \in Int, NEW b \in Int
    PROVE  ((a % N) + b) % N = (a + b) % N
<1> DEFINE A == a \div N
           R == a % N
<1>1. A \in Int /\ R \in Int /\ a = N * A + R
  BY DivMod
<1> HIDE DEF A, R
<1>2. a + b = (R + b) + N * A
  BY <1>1
<1>3. (a + b) % N = (R + b) % N
  <2>1. R + b \in Int /\ a + b \in Int
    BY <1>1
  <2> QED BY <1>1, <1>2, <2>1, ModShift
<1> QED BY <1>3 DEF R

\* Counting up by one, and going round once.
LEMMA ModNext ==
    ASSUME NEW N \in Nat \ {0}, NEW a \in Int
    PROVE  ((a % N) + 1) % N = (a + 1) % N /\ (a + N) % N = a % N
<1>1. \A b \in Int : ((a % N) + b) % N = (a + b) % N
  BY ModAdd
<1>2. a + N \in Int /\ \E q \in Int : a + N = a + N * q
  <2>1. a + N = a + N * 1
    OBVIOUS
  <2> QED BY <2>1
<1>3. (a + N) % N = a % N
  BY <1>2, ModShift
<1>4. 1 \in Int
  OBVIOUS
<1> QED BY <1>1, <1>3, <1>4

\* The remainders of two numbers less than N apart give back their difference.
LEMMA ModDiff ==
    ASSUME NEW N \in Nat \ {0}, NEW a \in Int, NEW b \in Int, a <= b, b < a + N
    PROVE  ((b % N) - (a % N)) % N = b - a
<1> DEFINE A == a \div N
           B == b \div N
           Q == a % N
           R == b % N
<1>1. A \in Int /\ Q \in Int /\ a = N * A + Q
  BY DivMod
<1>2. B \in Int /\ R \in Int /\ b = N * B + R
  BY DivMod
<1> HIDE DEF A, B, Q, R
<1>3. R - Q \in Int /\ R - Q = N * (A - B) + (b - a) /\ A - B \in Int
  BY <1>1, <1>2
<1>4. b - a \in 0 .. N - 1
  OBVIOUS
<1>5. (R - Q) % N = b - a
  BY <1>3, <1>4, ModUnique
<1> QED BY <1>5 DEF Q, R

\* If N divides M, a remainder by M may be taken before the one by N.
LEMMA ModMod ==
    ASSUME NEW N \in Nat \ {0}, NEW M \in Nat \ {0}, M % N = 0, NEW a \in Int
    PROVE  (a % M) % N = a % N
<1> DEFINE A == a \div M
           R == a % M
           D == M \div N
<1>1. A \in Int /\ R \in Int /\ a = M * A + R
  BY DivMod
<1>2. D \in Int /\ M = N * D
  BY DivMod
<1> HIDE DEF A, R, D
<1> DEFINE P == D * A
<1>3. P \in Int /\ a = R + N * P
  BY <1>1, <1>2
<1> HIDE DEF P
<1>4. R \in Int
  BY <1>1
<1>5. a % N = R % N
  BY <1>3, <1>4, ModShift
<1> QED BY <1>5 DEF R

-----------------------------------------------------------------------------
(* Places, ids and entries. *)

\* The ids of the places are ids, and unsigned increment and subtraction do to
\* them what addition and subtraction do to the places.
LEMMA Ids ==
    ASSUME NEW i \in Nat, NEW j \in Nat
    PROVE  /\ Id(i) \in 0 .. 2^W - 1
           /\ Inc(Id(i)) = Id(i + 1)
           /\ i <= j /\ j < i + 2^W => Diff(Id(j), Id(i)) = j - i
           /\ i <= j /\ j < i + 2^W /\ Id(i) = Id(j) => i = j
<1> DEFINE M == 2^W
<1>1. M \in Nat \ {0} /\ StartId \in Nat
  BY RingAssumption
<1> HIDE DEF M
<1> DEFINE a == StartId + i
           b == StartId + j
<1>2. a \in Int /\ b \in Int /\ a + 1 = StartId + (i + 1) /\ b - a = j - i
  BY <1>1
<1>3. i <= j /\ j < i + M <=> a <= b /\ b < a + M
  BY <1>1
<1>4. a = b => i = j
  BY <1>1
<1> HIDE DEF a, b
<1>5. a % M \in 0 .. M - 1
  BY <1>1, <1>2, DivMod
<1>6. ((a % M) + 1) % M = (a + 1) % M
  BY <1>1, <1>2, ModNext
<1>7. a <= b /\ b < a + M => ((b % M) - (a % M)) % M = b - a
  BY <1>1, <1>2, ModDiff
<1>8. a <= b /\ b < a + M /\ a % M = b % M => a = b
  BY <1>1, <1>2, ModApart
<1>9. Id(i) = a % M /\ Id(j) = b % M /\ Id(i + 1) = (StartId + (i + 1)) % M
  BY DEF Id, M, a, b
<1>10. Id(i + 1) = (a + 1) % M
  BY <1>2, <1>9
<1>11. Inc(Id(i)) = ((a % M) + 1) % M /\ Diff(Id(j), Id(i)) = ((b % M) - (a % M)) % M
  BY <1>9 DEF Inc, Diff, M
<1>12. i <= j /\ j < i + M => Diff(Id(j), Id(i)) = j - i
  BY <1>2, <1>3, <1>7, <1>11
<1>13. i <= j /\ j < i + M /\ Id(i) = Id(j) => i = j
  BY <1>3, <1>4, <1>8, <1>9
<1>14. Id(i) \in 0 .. M - 1 /\ Inc(Id(i)) = Id(i + 1)
  BY <1>5, <1>6, <1>9, <1>10, <1>11
<1> QED BY <1>12, <1>13, <1>14 DEF M

\* Places less than a ring apart have different entries, and a ring apart the same:
\* the wrap of the ids does not show, because the ring's size divides 2^W.
LEMMA CellsApart ==
    ASSUME NEW i \in Nat, NEW j \in Nat
    PROVE  /\ Cell(i) \in Slots
           /\ i <= j /\ j < i + QueueSize /\ Cell(i) = Cell(j) => i = j
           /\ Cell(i + QueueSize) = Cell(i)
<1> DEFINE M == 2^W
           Q == QueueSize
           s == StartId
<1>1. M \in Nat \ {0} /\ Q \in Nat \ {0} /\ M % Q = 0 /\ s \in Nat
  BY RingAssumption
<1>2. \A k \in Nat : Cell(k) = ((s + k) % M) % Q
  BY DEF Cell, slot, Id
<1> HIDE DEF M, Q, s
<1>3. ASSUME NEW k \in Nat PROVE Cell(k) = (s + k) % Q
  <2>1. s + k \in Int
    BY <1>1
  <2>2. ((s + k) % M) % Q = (s + k) % Q
    BY <1>1, <2>1, ModMod
  <2> QED BY <1>2, <2>2
<1>4. s + i \in Int /\ s + j \in Int /\ s + (i + Q) = (s + i) + Q /\ i + Q \in Nat /\ s + (i + Q) \in Int
  BY <1>1
<1>5. (s + i) % Q \in 0 .. Q - 1
  BY <1>1, <1>4, DivMod
<1>6. (s + (i + Q)) % Q = (s + i) % Q
  <2>1. ((s + i) + Q) % Q = (s + i) % Q
    BY <1>1, <1>4, ModNext
  <2> QED BY <1>4, <2>1
<1>7. ASSUME i <= j, j < i + Q, (s + i) % Q = (s + j) % Q PROVE i = j
  <2>1. s + i <= s + j /\ s + j < (s + i) + Q
    BY <1>1, <1>7
  <2>2. s + i = s + j
    BY <1>1, <1>4, <1>7, <2>1, ModApart
  <2> QED BY <1>1, <2>2
<1>8. Cell(i) \in 0 .. Q - 1 /\ Cell(i + Q) = Cell(i)
  BY <1>3, <1>4, <1>5, <1>6
<1>9. i <= j /\ j < i + Q /\ Cell(i) = Cell(j) => i = j
  BY <1>3, <1>7
<1> QED BY <1>8, <1>9 DEF Slots, Q

-----------------------------------------------------------------------------
(* Types. *)

\* Sizes as numbers.
LEMMA Sizes ==
    /\ 2^W \in Nat /\ QueueSize \in Nat /\ QueueSize > 0 /\ QueueSize < 2^W
    /\ FlushEvery \in Nat /\ FlushEvery > 0 /\ StartId \in 0 .. 2^W - 1 /\ MaxLines \in Nat
BY RingAssumption, MaxLinesAssumption

LEMMA TypeInit == Init => TypeOK
<1> SUFFICES ASSUME Init PROVE TypeOK
  OBVIOUS
<1> USE DEF Init
<1>1. NoLine \in Lines
  BY DEF Lines
<1>2. placed \in Seq(Lines) /\ out \in Seq([len : Lines, text : Lines]) /\ Len(out) = 0
  OBVIOUS
<1>3. l \in [len : Lines, text : Lines] /\ len \in [Slots -> Lines] /\ text \in [Slots -> Lines]
  BY <1>1
<1>4. since \in 0 .. FlushEvery - 1 /\ flushed \in 0 .. Len(out) /\ n \in [Producers -> 0 .. MaxLines]
  BY <1>2, Sizes
<1> QED BY <1>2, <1>3, <1>4, Sizes DEF TypeOK

\* A new id is an id, a cell is a cell, and a line in the making is a line.
LEMMA StepTypes ==
    ASSUME TypeOK
    PROVE  /\ \A i \in 0 .. 2^W - 1 : Inc(i) \in 0 .. 2^W - 1 /\ slot(i) \in Slots
           /\ \A p \in Producers : ppc[p] # "idle" /\ n[p] > 0 => Line(p) \in Lines
<1>1. ASSUME NEW i \in 0 .. 2^W - 1 PROVE Inc(i) \in 0 .. 2^W - 1
  <2> DEFINE M == 2^W
  <2>1. M \in Nat \ {0} /\ i + 1 \in Int
    BY Sizes
  <2> HIDE DEF M
  <2>2. (i + 1) % M \in 0 .. M - 1
    BY <2>1, DivMod
  <2> QED BY <2>2 DEF Inc, M
<1>2. ASSUME NEW i \in 0 .. 2^W - 1 PROVE slot(i) \in Slots
  <2>1. i % QueueSize \in 0 .. QueueSize - 1
    BY Sizes, DivMod
  <2> QED BY <2>1 DEF slot, Slots
<1>3. ASSUME NEW p \in Producers, n[p] > 0 PROVE Line(p) \in Lines
  <2>1. n[p] \in 1 .. MaxLines
    BY <1>3, Sizes DEF TypeOK
  <2> QED BY <2>1 DEF Line, Lines
<1> QED BY <1>1, <1>2, <1>3


\* Every step of a producer keeps the types.
LEMMA ProducerTypes ==
    ASSUME TypeOK, NEW p \in Producers, ppc[p] # "idle" => n[p] > 0, Producer(p)
    PROVE  TypeOK'
<1> DEFINE Pcs == {"idle", "check", "cas", "len", "text", "publish"}
<1>0. ppc[p] # "idle" => Line(p) \in Lines
  BY StepTypes
<1>1. t[p] \in 0 .. 2^W - 1 /\ slot(t[p]) \in Slots
  <2>1. t[p] \in 0 .. 2^W - 1
    BY DEF TypeOK
  <2> QED BY <2>1, StepTypes
<1>2. CASE EnqBegin(p)
  <2>1. n' \in [Producers -> 0 .. MaxLines]
    <3>1. n \in [Producers -> 0 .. MaxLines] /\ n[p] < MaxLines /\ n' = [n EXCEPT ![p] = n[p] + 1]
      BY <1>2 DEF EnqBegin, TypeOK
    <3>2. n[p] + 1 \in 0 .. MaxLines
      BY <3>1, Sizes
    <3> QED BY <3>1, <3>2
  <2>2. t' \in [Producers -> 0 .. 2^W - 1] /\ ppc' \in [Producers -> Pcs]
    BY <1>2 DEF EnqBegin, TypeOK
  <2>3. seen' \in [Producers -> Nat]
    BY <1>2 DEF EnqBegin, TypeOK
  <2> QED BY <1>2, <2>1, <2>2, <2>3 DEF EnqBegin, TypeOK, ring, logr, hist
<1>3. CASE EnqCheck(p)
  <2>1. ppc' \in [Producers -> Pcs] /\ refused' \in SUBSET Lines
    BY <1>0, <1>3 DEF EnqCheck, TypeOK
  <2> QED BY <1>3, <2>1 DEF EnqCheck, TypeOK, ring, logr
<1>4. CASE EnqCas(p)
  <2>1. t' \in [Producers -> 0 .. 2^W - 1] /\ ppc' \in [Producers -> Pcs]
    BY <1>4 DEF EnqCas, TypeOK
  <2>2. seen' \in [Producers -> Nat]
    <3>1. Len(placed) \in Nat /\ seen \in [Producers -> Nat]
      BY DEF TypeOK
    <3>2. seen' = seen \/ seen' = [seen EXCEPT ![p] = Len(placed)]
      BY <1>4 DEF EnqCas
    <3> QED BY <3>1, <3>2
  <2>3. tail' \in 0 .. 2^W - 1
    BY <1>4, StepTypes DEF EnqCas, TypeOK
  <2>4. placed' \in Seq(Lines)
    <3>1. Line(p) \in Lines
      BY <1>0, <1>4 DEF EnqCas
    <3>2. placed' = placed \/ placed' = Append(placed, Line(p))
      BY <1>4 DEF EnqCas
    <3>3. placed \in Seq(Lines)
      BY DEF TypeOK
    <3> QED BY <3>1, <3>2, <3>3
  <2> QED BY <1>4, <2>1, <2>2, <2>3, <2>4 DEF EnqCas, TypeOK, logr
<1>5. CASE EnqLen(p)
  <2>1. len' \in [Slots -> Lines] /\ ppc' \in [Producers -> Pcs]
    BY <1>0, <1>1, <1>5 DEF EnqLen, TypeOK
  <2> QED BY <1>5, <2>1 DEF EnqLen, TypeOK, logr, hist
<1>6. CASE EnqText(p)
  <2>1. text' \in [Slots -> Lines] /\ ppc' \in [Producers -> Pcs]
    BY <1>0, <1>1, <1>6 DEF EnqText, TypeOK
  <2> QED BY <1>6, <2>1 DEF EnqText, TypeOK, logr, hist
<1>7. CASE EnqPublish(p)
  <2>1. ready' \in [Slots -> BOOLEAN] /\ ppc' \in [Producers -> Pcs]
    BY <1>1, <1>7 DEF EnqPublish, TypeOK
  <2> QED BY <1>7, <2>1 DEF EnqPublish, TypeOK, logr, hist
<1> QED BY <1>2, <1>3, <1>4, <1>5, <1>6, <1>7 DEF Producer

\* Every other step keeps them too.
LEMMA LoggerTypes ==
    ASSUME TypeOK, Shutdown \/ Logger \/ UNCHANGED vars
    PROVE  TypeOK'
<1> USE DEF ring, prod, logr, hist
<1> DEFINE Pcs == {"top", "load", "spin", "len", "text", "clear", "advance", "write", "done"}
<1>0. h \in 0 .. 2^W - 1 /\ slot(h) \in Slots /\ Inc(h) \in 0 .. 2^W - 1
  <2>1. h \in 0 .. 2^W - 1
    BY DEF TypeOK
  <2> QED BY <2>1, StepTypes
<1>1. CASE Shutdown \/ UNCHANGED vars
  BY <1>1 DEF Shutdown, vars, TypeOK
<1>2. CASE LoggerTop
  <2>1. draining' \in BOOLEAN /\ lpc' \in Pcs
    BY <1>2 DEF LoggerTop
  <2> QED BY <1>2, <2>1 DEF LoggerTop, TypeOK
<1>3. ASSUME DequeueEmpty
      PROVE  lpc' \in Pcs /\ since' \in 0 .. FlushEvery - 1 /\ flushed' \in 0 .. Len(out)
  <2>1. Len(out) \in Nat
    BY DEF TypeOK
  <2>2. since' \in 0 .. FlushEvery - 1
    BY <1>3, Sizes DEF DequeueEmpty, TypeOK
  <2>3. flushed' \in 0 .. Len(out)
    BY <1>3, <2>1 DEF DequeueEmpty, TypeOK
  <2> QED BY <1>3, <2>2, <2>3 DEF DequeueEmpty
<1>4. CASE DeqLoad
  <2>1. lpc' \in Pcs /\ since' \in 0 .. FlushEvery - 1 /\ flushed' \in 0 .. Len(out)
    BY <1>3, <1>4 DEF DeqLoad, TypeOK
  <2> QED BY <1>4, <2>1 DEF DeqLoad, TypeOK
<1>5. CASE DeqGiveUp
  BY <1>3, <1>5 DEF DeqGiveUp, TypeOK
<1>6. CASE DeqSpin
  BY <1>6 DEF DeqSpin, TypeOK
<1>7. CASE DeqCopyLen \/ DeqCopyText
  <2>1. l' \in [len : Lines, text : Lines]
    BY <1>0, <1>7 DEF DeqCopyLen, DeqCopyText, TypeOK
  <2> QED BY <1>7, <2>1 DEF DeqCopyLen, DeqCopyText, TypeOK
<1>8. CASE DeqClear
  <2>1. ready' \in [Slots -> BOOLEAN]
    BY <1>8 DEF DeqClear, TypeOK
  <2> QED BY <1>8, <2>1 DEF DeqClear, TypeOK
<1>9. CASE DeqAdvance
  BY <1>0, <1>9 DEF DeqAdvance, TypeOK
<1>10. CASE WriteLine
  <2>1. out' \in Seq([len : Lines, text : Lines]) /\ Len(out') = Len(out) + 1 /\ Len(out) \in Nat
    <3>1. /\ l \in [len : Lines, text : Lines] /\ out \in Seq([len : Lines, text : Lines])
          /\ out' = Append(out, l)
      BY <1>10 DEF WriteLine, TypeOK
    <3> QED BY <3>1
  <2>2. since' \in 0 .. FlushEvery - 1
    BY <1>10, Sizes DEF WriteLine, TypeOK
  <2>3. flushed' \in 0 .. Len(out')
    BY <1>10, <2>1 DEF WriteLine, TypeOK
  <2> QED BY <1>10, <2>1, <2>2, <2>3 DEF WriteLine, TypeOK
<1> QED BY <1>1, <1>2, <1>4, <1>5, <1>6, <1>7, <1>8, <1>9, <1>10 DEF Logger


-----------------------------------------------------------------------------
(* The steps of a producer. *)

LEMMA Counts ==
    ASSUME TypeOK
    PROVE  Len(placed) \in Nat /\ Len(out) \in Nat /\ Taken \in Nat
<1>1. Len(placed) \in Nat /\ Len(out) \in Nat
  BY DEF TypeOK
<1> QED BY <1>1 DEF Taken

\* The entries' contents carry over a step that leaves them, their owners and the
\* places alone.
LEMMA CellsFrame ==
    ASSUME Writers, Cells, UNCHANGED <<len, text, ready, placed>>, Taken' = Taken,
           lpc' = "advance" <=> lpc = "advance",
           \A q \in Producers : Writing(q)' <=> Writing(q),
           \A q \in Producers : Writing(q) =>
               ppc'[q] = ppc[q] /\ seen'[q] = seen[q] /\ Line(q)' = Line(q)
    PROVE  Writers' /\ Cells'
<1>1. \A j : Owned(j)' <=> Owned(j)
  BY DEF Owned
<1>2. Writers'
  BY DEF Writers
<1>3. ASSUME NEW j \in Taken .. Taken + QueueSize - 1 PROVE CellAt(j, Cell(j))'
  <2>1. Cell(j)' = Cell(j)
    BY DEF Cell, slot, Id
  <2>2. CellAt(j, Cell(j))
    BY DEF Cells
  <2> QED BY <1>1, <2>1, <2>2 DEF CellAt
<1> QED BY <1>2, <1>3 DEF Cells

\* Loading tail_id, first or again.
LEMMA LoadInv ==
    ASSUME TypeOK, RingIds, Writers, Cells, NEW p \in Producers,
           EnqBegin(p) \/ (EnqCas(p) /\ tail # t[p])
    PROVE  RingIds' /\ Writers' /\ Cells' /\ placed' = placed
<1>1. /\ UNCHANGED <<ring, placed, lpc, h, out>> /\ Taken' = Taken
      /\ t' = [t EXCEPT ![p] = tail] /\ seen' = [seen EXCEPT ![p] = Len(placed)]
      /\ ppc' = [ppc EXCEPT ![p] = "check"] /\ ~Writing(p)
      /\ (n' = n \/ n' = [n EXCEPT ![p] = n[p] + 1])
      /\ n'[p] > 0
  <2>1. n[p] \in Nat /\ (ppc[p] = "cas" => n[p] > 0)
    BY DEF TypeOK, RingIds
  <2> QED BY <2>1 DEF EnqBegin, EnqCas, ring, logr, hist, Taken, Writing, TypeOK
<1>2. \A q \in Producers \ {p} :
        ppc'[q] = ppc[q] /\ seen'[q] = seen[q] /\ t'[q] = t[q] /\ n'[q] = n[q]
  BY <1>1 DEF TypeOK
<1>3. ppc'[p] = "check" /\ seen'[p] = Len(placed) /\ t'[p] = tail
  BY <1>1 DEF TypeOK
<1>4. Writers' /\ Cells'
  <2>1. \A q \in Producers : Writing(q)' <=> Writing(q)
    BY <1>1, <1>2, <1>3 DEF Writing
  <2>2. \A q \in Producers : Writing(q) =>
            ppc'[q] = ppc[q] /\ seen'[q] = seen[q] /\ Line(q)' = Line(q)
    BY <1>1, <1>2 DEF Line
  <2> QED BY <1>1, <2>1, <2>2, CellsFrame DEF ring
<1>5. RingIds'
  <2>1. \A j : Id(j)' = Id(j)
    BY DEF Id
  <2>2. Len(placed) <= Len(placed)
    BY Counts
  <2>3. \A q \in Producers :
         /\ ppc'[q] # "idle" => n'[q] > 0 /\ t'[q] = Id(seen'[q]) /\ seen'[q] <= Len(placed)
         /\ ppc'[q] = "cas" /\ seen'[q] = Len(placed) => Len(placed) < Taken + QueueSize
    BY <1>1, <1>2, <1>3, <2>2 DEF RingIds
  <2> QED BY <1>1, <2>3 DEF RingIds, ring, Id
<1> QED BY <1>1, <1>4, <1>5

\* The test of the difference: it lets a thread through only if the ring has room,
\* or if the place it has in view is gone.
LEMMA CheckInv ==
    ASSUME TypeOK, RingIds, Writers, Cells, NEW p \in Producers, EnqCheck(p)
    PROVE  RingIds' /\ Writers' /\ Cells' /\ placed' = placed
<1>1. /\ UNCHANGED <<ring, placed, lpc, h, out, t, seen, n>> /\ Taken' = Taken
      /\ ppc[p] = "check" /\ ~Writing(p)
      /\ \/ ppc' = [ppc EXCEPT ![p] = "idle"]
         \/ ppc' = [ppc EXCEPT ![p] = "cas"] /\ ~(Diff(t[p], head) >= QueueSize)
  BY DEF EnqCheck, ring, logr, hist, Taken, Writing
<1>2. \A q \in Producers \ {p} : ppc'[q] = ppc[q]
  BY <1>1 DEF TypeOK
<1>3. ppc'[p] = "idle" \/ (ppc'[p] = "cas" /\ ~(Diff(t[p], head) >= QueueSize))
  BY <1>1 DEF TypeOK
<1>4. Writers' /\ Cells'
  <2>1. \A q \in Producers : Writing(q)' <=> Writing(q)
    BY <1>1, <1>2, <1>3 DEF Writing
  <2>2. \A q \in Producers : Writing(q) =>
            ppc'[q] = ppc[q] /\ seen'[q] = seen[q] /\ Line(q)' = Line(q)
    BY <1>1, <1>2 DEF Line
  <2> QED BY <1>1, <2>1, <2>2, CellsFrame DEF ring
<1>5. RingIds'
  <2>1. ASSUME ppc'[p] = "cas", seen[p] = Len(placed) PROVE Len(placed) < Taken + QueueSize
    <3>1. t[p] = Id(Len(placed)) /\ head = Id(Taken) /\ Taken <= Len(placed)
          /\ Len(placed) <= Taken + QueueSize
      BY <1>1, <2>1 DEF RingIds
    <3>2. Diff(t[p], head) = Len(placed) - Taken
      <4>1. Len(placed) \in Nat /\ Taken \in Nat /\ Len(placed) < Taken + 2^W
        BY <3>1, Counts, Sizes
      <4> QED BY <3>1, <4>1, Ids
    <3>3. ~(Len(placed) - Taken >= QueueSize)
      BY <1>3, <2>1, <3>2
    <3> QED BY <3>3, Counts, Sizes
  <2>2. \A q \in Producers :
         /\ ppc'[q] # "idle" => n'[q] > 0 /\ t'[q] = Id(seen'[q]) /\ seen'[q] <= Len(placed)
         /\ ppc'[q] = "cas" /\ seen'[q] = Len(placed) => Len(placed) < Taken + QueueSize
    BY <1>1, <1>2, <1>3, <2>1 DEF RingIds
  <2> QED BY <1>1, <2>2 DEF RingIds, ring, Id
<1> QED BY <1>1, <1>4, <1>5

\* The compare-and-swap succeeds only if no line was placed since tail_id was
\* loaded; then the ring has room, and the new place's entry is not ready.
LEMMA PlaceInv ==
    ASSUME TypeOK, RingIds, Writers, Cells, NotLapped,
           NEW p \in Producers, EnqCas(p), tail = t[p]
    PROVE  /\ RingIds' /\ Writers' /\ Cells'
           /\ placed' = Append(placed, Line(p)) /\ seen[p] = Len(placed)
<1> DEFINE P == Len(placed)
<1>0. P \in Nat /\ Taken \in Nat /\ QueueSize \in Nat /\ 2^W \in Nat
  BY Counts, Sizes
<1>1. /\ UNCHANGED <<head, len, text, ready, lpc, h, out, t, seen, n>> /\ Taken' = Taken
      /\ ppc[p] = "cas" /\ ppc' = [ppc EXCEPT ![p] = "len"]
      /\ tail' = Inc(tail) /\ placed' = Append(placed, Line(p))
  BY DEF EnqCas, logr, Taken
<1>2. ppc'[p] = "len" /\ \A q \in Producers \ {p} : ppc'[q] = ppc[q]
  BY <1>1 DEF TypeOK
<1>3. /\ Len(placed') = P + 1 /\ placed'[P + 1] = Line(p)
      /\ \A j \in 1 .. P : placed'[j] = placed[j]
  <2>1. placed \in Seq(Lines)
    BY DEF TypeOK
  <2> QED BY <1>1, <2>1
<1>4. seen[p] = P /\ P < Taken + QueueSize /\ Taken <= P
  <2>1. seen[p] \in Nat
    BY DEF TypeOK
  <2>2. t[p] = Id(seen[p]) /\ seen[p] <= P /\ tail = Id(P)
    BY <1>1 DEF RingIds
  <2>3. P < seen[p] + 2^W
    BY <1>1 DEF NotLapped
  <2>4. seen[p] = P
    BY <1>0, <2>1, <2>2, <2>3, Ids
  <2> QED BY <1>1, <2>4 DEF RingIds
<1> HIDE DEF P
<1>5. \A q \in Producers : Writing(q)' <=> Writing(q) \/ q = p
  BY <1>1, <1>2 DEF Writing
<1>6. ~Writing(p) /\ \A q \in Producers : Line(q)' = Line(q)
  BY <1>1 DEF Writing, Line
<1>7. \A q \in Producers : seen[q] \in Nat
  BY DEF TypeOK
<1>8. \A q \in Producers : Writing(q) => seen[q] \in Taken .. P - 1 /\ placed[seen[q] + 1] = Line(q)
  BY DEF Writers, P
<1>9. RingIds'
  <2>1. Taken' <= Len(placed') /\ Len(placed') <= Taken' + QueueSize
    BY <1>0, <1>1, <1>3, <1>4
  <2>2. head' = Id(Taken') /\ tail' = Id(Len(placed'))
    BY <1>0, <1>1, <1>3, Ids DEF RingIds, P
  <2>3. ASSUME NEW q \in Producers
        PROVE  /\ ppc'[q] # "idle" => n'[q] > 0 /\ t'[q] = Id(seen'[q]) /\ seen'[q] <= P
               /\ ppc'[q] # "idle" => seen'[q] <= P + 1 /\ seen'[q] # P + 1
    BY <1>0, <1>1, <1>2, <1>7 DEF RingIds, P
  <2>4. lpc' \in {"spin", "len", "text", "clear", "advance"} => h' = head' /\ Taken' < Len(placed')
    BY <1>0, <1>1, <1>3, <1>4 DEF RingIds
  <2> QED BY <1>3, <2>1, <2>2, <2>3, <2>4 DEF RingIds, Id
<1>10. Writers'
  <2>1. ASSUME NEW q \in Producers, Writing(q)'
        PROVE  seen'[q] \in Taken' .. Len(placed') - 1 /\ placed'[seen'[q] + 1] = Line(q)'
    <3>1. CASE q = p
      BY <1>0, <1>1, <1>3, <1>4, <1>6, <3>1
    <3>2. CASE Writing(q)
      <4>1. seen[q] \in Taken .. P - 1 /\ placed[seen[q] + 1] = Line(q) /\ seen[q] + 1 \in 1 .. P
        BY <1>0, <1>7, <1>8, <3>2
      <4> QED BY <1>0, <1>1, <1>3, <1>6, <4>1
    <3> QED BY <1>5, <2>1, <3>1, <3>2
  <2>2. ASSUME NEW q \in Producers, NEW r \in Producers, Writing(q)', Writing(r)', seen'[q] = seen'[r]
        PROVE  q = r
    <3>1. \A u \in Producers : Writing(u) => seen[u] # P
      BY <1>0, <1>8
    <3> QED BY <1>1, <1>4, <1>5, <2>2, <3>1 DEF Writers
  <2> QED BY <2>1, <2>2 DEF Writers
<1>11. ASSUME NEW j \in Taken .. Taken + QueueSize - 1 PROVE CellAt(j, Cell(j))'
  <2>0. Cell(j)' = Cell(j) /\ j \in Nat
    BY <1>0 DEF Cell, slot, Id
  <2>1. CellAt(j, Cell(j))
    BY DEF Cells
  <2>2. Owned(j)' <=> Owned(j) \/ j = P
    BY <1>1, <1>4, <1>5 DEF Owned
  <2>3. ~Owned(P)
    BY <1>0, <1>8 DEF Owned
  <2>4. CASE j = P
    <3>1. ~ready[Cell(j)]
      BY <1>0, <2>1, <2>4 DEF CellAt, P
    <3>2. \A q \in Producers : Writing(q)' /\ seen'[q] = j => ppc'[q] = "len"
      BY <1>1, <1>2, <1>5, <2>3, <2>4 DEF Owned
    <3>3. Owned(j)'
      BY <2>2, <2>4
    <3> QED BY <1>1, <2>0, <3>1, <3>2, <3>3 DEF CellAt
  <2>5. CASE j # P
    <3>1. (j >= Len(placed') => j >= P) /\ (j < Len(placed') => j < P)
      BY <1>0, <1>3, <2>0, <2>5
    <3>2. j < P => placed'[j + 1] = placed[j + 1]
      <4>1. j < P => j + 1 \in 1 .. P
        BY <1>0, <2>0
      <4> QED BY <1>3, <4>1
    <3>3. \A q \in Producers : Writing(q)' /\ seen'[q] = j => Writing(q) /\ ppc'[q] = ppc[q]
      BY <1>1, <1>2, <1>4, <1>5, <2>5
    <3> QED BY <1>1, <1>6, <2>0, <2>1, <2>2, <2>5, <3>1, <3>2, <3>3 DEF CellAt, P
  <2> QED BY <2>4, <2>5
<1> QED BY <1>1, <1>4, <1>9, <1>10, <1>11 DEF Cells, P


\* A place in the ring and an entry that is not its own.
LEMMA OtherCell ==
    ASSUME TypeOK, NEW i \in Taken .. Taken + QueueSize - 1,
           NEW j \in Taken .. Taken + QueueSize - 1, i # j
    PROVE  Cell(i) # Cell(j)
<1>1. Taken \in Nat /\ QueueSize \in Nat
  BY Counts, Sizes
<1>2. i \in Nat /\ j \in Nat /\ i < j + QueueSize /\ j < i + QueueSize /\ (i <= j \/ j <= i)
  BY <1>1
<1> QED BY <1>2, CellsApart

\* Where a writing thread writes.
LEMMA OwnCell ==
    ASSUME TypeOK, RingIds, Writers, NEW p \in Producers, Writing(p)
    PROVE  /\ slot(t[p]) = Cell(seen[p]) /\ Cell(seen[p]) \in Slots
           /\ seen[p] \in Taken .. Taken + QueueSize - 1 /\ seen[p] < Len(placed)
<1>1. t[p] = Id(seen[p]) /\ seen[p] \in Taken .. Len(placed) - 1 /\ Len(placed) <= Taken + QueueSize
  BY DEF RingIds, Writers, Writing
<1>2. Len(placed) \in Nat /\ Taken \in Nat /\ QueueSize \in Nat
  BY Counts, Sizes
<1>3. seen[p] \in Nat /\ seen[p] \in Taken .. Taken + QueueSize - 1 /\ seen[p] < Len(placed)
  BY <1>1, <1>2
<1> QED BY <1>1, <1>3, CellsApart DEF Cell

\* Filling in the entry touches no other place's entry.
LEMMA FillInv ==
    ASSUME TypeOK, RingIds, Writers, Cells, NEW p \in Producers, EnqLen(p) \/ EnqText(p)
    PROVE  RingIds' /\ Writers' /\ Cells' /\ placed' = placed
<1> DEFINE c == Cell(seen[p])
<1>0. Writing(p)
  BY DEF EnqLen, EnqText, Writing
<1>1. /\ UNCHANGED <<head, tail, ready, placed, lpc, h, out, t, seen, n>> /\ Taken' = Taken
      /\ \/ /\ ppc[p] = "len" /\ ppc' = [ppc EXCEPT ![p] = "text"]
            /\ len' = [len EXCEPT ![c] = Line(p)] /\ text' = text
         \/ /\ ppc[p] = "text" /\ ppc' = [ppc EXCEPT ![p] = "publish"]
            /\ text' = [text EXCEPT ![c] = Line(p)] /\ len' = len
  BY <1>0, OwnCell DEF EnqLen, EnqText, logr, hist, Taken
<1>2. /\ c \in Slots /\ seen[p] \in Taken .. Taken + QueueSize - 1
  BY <1>0, OwnCell
<1> HIDE DEF c
<1>3. \A q \in Producers \ {p} : ppc'[q] = ppc[q]
  BY <1>1 DEF TypeOK
<1>4. \/ ppc[p] = "len" /\ ppc'[p] = "text" /\ len'[c] = Line(p)
      \/ ppc[p] = "text" /\ ppc'[p] = "publish" /\ text'[c] = Line(p) /\ len'[c] = len[c]
  BY <1>1, <1>2 DEF TypeOK
<1>5. \A i \in Slots \ {c} : len'[i] = len[i] /\ text'[i] = text[i]
  BY <1>1, <1>2 DEF TypeOK
<1>6. \A q \in Producers : (Writing(q)' <=> Writing(q)) /\ Line(q)' = Line(q)
  BY <1>0, <1>1, <1>3, <1>4 DEF Writing, Line
<1>7. \A j : Owned(j)' <=> Owned(j)
  BY <1>1, <1>6 DEF Owned
<1>8. Writers'
  BY <1>1, <1>6 DEF Writers
<1>9. RingIds'
  <2>1. \A q \in Producers : (ppc'[q] = "cas" => ppc[q] = "cas") /\ (ppc'[q] # "idle" => ppc[q] # "idle")
    BY <1>3, <1>4
  <2> QED BY <1>1, <2>1 DEF RingIds, Id
<1>10. ASSUME NEW j \in Taken .. Taken + QueueSize - 1 PROVE CellAt(j, Cell(j))'
  <2>0. Cell(j)' = Cell(j)
    BY DEF Cell, slot, Id
  <2>1. CellAt(j, Cell(j))
    BY DEF Cells
  <2>2. CASE j = seen[p]
    <3>1. c = Cell(j) /\ Owned(j)
      BY <1>0, <2>2 DEF c, Owned
    <3>2. \A q \in Producers : Writing(q) /\ seen[q] = j => q = p
      BY <1>0, <2>2 DEF Writers
    <3>3. (ppc'[p] # "len" => len'[c] = Line(p)) /\ (ppc'[p] = "publish" => text'[c] = Line(p))
      BY <1>0, <1>4, <2>1, <2>2, <3>1 DEF CellAt
    <3> QED BY <1>1, <1>6, <1>7, <2>0, <2>1, <3>1, <3>2, <3>3 DEF CellAt
  <2>3. CASE j # seen[p]
    <3>1. Cell(j) # c
      BY <1>2, <2>3, OtherCell DEF c
    <3>2. Cell(j) \in Slots
      <4>1. j \in Nat
        BY Counts, Sizes
      <4> QED BY <4>1, CellsApart
    <3>3. len'[Cell(j)] = len[Cell(j)] /\ text'[Cell(j)] = text[Cell(j)]
      BY <1>5, <3>1, <3>2
    <3>4. \A q \in Producers : Writing(q) /\ seen[q] = j => ppc'[q] = ppc[q]
      BY <1>3, <2>3
    <3> QED BY <1>1, <1>6, <1>7, <2>0, <2>1, <3>3, <3>4 DEF CellAt
  <2> QED BY <2>2, <2>3
<1> QED BY <1>1, <1>8, <1>9, <1>10 DEF Cells

\* Setting ready hands the entry, filled in, to the logger thread.
LEMMA PublishInv ==
    ASSUME TypeOK, RingIds, Writers, Cells, Copied, NEW p \in Producers, EnqPublish(p)
    PROVE  /\ RingIds' /\ Writers' /\ Cells' /\ placed' = placed
           /\ \A i \in Slots : ready[i] => ready'[i]
<1> DEFINE c == Cell(seen[p])
<1>0. Writing(p) /\ ppc[p] = "publish"
  BY DEF EnqPublish, Writing
<1>1. /\ UNCHANGED <<head, tail, len, text, placed, lpc, h, out, t, seen, n>> /\ Taken' = Taken
      /\ ppc' = [ppc EXCEPT ![p] = "idle"] /\ ready' = [ready EXCEPT ![c] = TRUE]
  BY <1>0, OwnCell DEF EnqPublish, logr, hist, Taken
<1>2. c \in Slots /\ seen[p] \in Taken .. Taken + QueueSize - 1 /\ seen[p] < Len(placed)
  BY <1>0, OwnCell
<1> HIDE DEF c
<1>3. ppc'[p] = "idle" /\ \A q \in Producers \ {p} : ppc'[q] = ppc[q]
  BY <1>1 DEF TypeOK
<1>4. ready'[c] = TRUE /\ \A i \in Slots \ {c} : ready'[i] = ready[i]
  BY <1>1, <1>2 DEF TypeOK
<1>5. \A q \in Producers : (Writing(q)' <=> Writing(q) /\ q # p) /\ Line(q)' = Line(q)
  BY <1>1, <1>3 DEF Writing, Line
<1>6. Writers'
  BY <1>1, <1>5 DEF Writers
<1>7. RingIds'
  <2>1. \A q \in Producers : (ppc'[q] = "cas" => ppc[q] = "cas") /\ (ppc'[q] # "idle" => ppc[q] # "idle")
    BY <1>0, <1>3
  <2> QED BY <1>1, <2>1 DEF RingIds, Id
<1>8. \A q \in Producers : Writing(q) /\ seen[q] = seen[p] => q = p
  BY <1>0 DEF Writers
<1>9. ASSUME NEW j \in Taken .. Taken + QueueSize - 1 PROVE CellAt(j, Cell(j))'
  <2>0. Cell(j)' = Cell(j)
    BY DEF Cell, slot, Id
  <2>1. CellAt(j, Cell(j))
    BY DEF Cells
  <2>2. CASE j = seen[p]
    <3>1. c = Cell(j) /\ Owned(j)
      BY <1>0, <2>2 DEF c, Owned
    <3>2. ~Owned(j)' /\ \A q \in Producers : ~(Writing(q)' /\ seen'[q] = j)
      BY <1>1, <1>5, <1>8, <2>2 DEF Owned
    <3>3. placed[j + 1] = Line(p) /\ len[c] = Line(p) /\ text[c] = Line(p)
      BY <1>0, <2>1, <2>2, <3>1 DEF CellAt, Writers
    <3>4. ~(j = Taken /\ lpc = "advance")
      BY <3>1 DEF Copied
    <3>5. ~(j >= Len(placed))
      <4>1. Taken \in Nat /\ QueueSize \in Nat /\ Len(placed) \in Nat
        BY Counts, Sizes
      <4> QED BY <1>2, <2>2, <4>1
    <3> QED BY <1>1, <1>4, <2>0, <3>1, <3>2, <3>3, <3>4, <3>5 DEF CellAt
  <2>3. CASE j # seen[p]
    <3>1. Cell(j) # c
      BY <1>2, <2>3, OtherCell DEF c
    <3>2. Cell(j) \in Slots
      <4>1. j \in Nat
        BY Counts, Sizes
      <4> QED BY <4>1, CellsApart
    <3>3. ready'[Cell(j)] = ready[Cell(j)]
      BY <1>4, <3>1, <3>2
    <3>4. \A q \in Producers : Writing(q) /\ seen[q] = j => ppc'[q] = ppc[q]
      BY <1>3, <2>3
    <3>5. Owned(j)' <=> Owned(j)
      BY <1>1, <1>5, <2>3 DEF Owned
    <3> QED BY <1>1, <1>5, <2>0, <2>1, <3>3, <3>4, <3>5 DEF CellAt
  <2> QED BY <2>2, <2>3
<1>10. \A i \in Slots : ready[i] => ready'[i]
  BY <1>4
<1> QED BY <1>1, <1>6, <1>7, <1>9, <1>10 DEF Cells


\* A producer's step: the ring's part of the invariant, and what the logger thread
\* relies on.
LEMMA ProducerRing ==
    ASSUME RingInv, NotLapped, NEW p \in Producers, Producer(p)
    PROVE  /\ RingIds' /\ Writers' /\ Cells'
           /\ \/ placed' = placed
              \/ placed' = Append(placed, Line(p)) /\ ppc[p] # "idle"
           /\ \A i \in Slots : ready[i] => ready'[i]
           /\ \A j \in Nat : j < Len(placed) /\ Owned(j)' => Owned(j)
<1>0. TypeOK /\ RingIds /\ Writers /\ Cells /\ Copied
  BY DEF RingInv, OutputInOrder
<1>1. CASE EnqBegin(p) \/ (EnqCas(p) /\ tail # t[p])
  <2>1. RingIds' /\ Writers' /\ Cells' /\ placed' = placed
    BY <1>0, <1>1, LoadInv
  <2>2. ready' = ready /\ ppc' = [ppc EXCEPT ![p] = "check"] /\ seen' = [seen EXCEPT ![p] = Len(placed)]
    BY <1>1 DEF EnqBegin, EnqCas, ring
  <2>3. \A q \in Producers : Writing(q)' => Writing(q) /\ seen'[q] = seen[q]
    BY <1>0, <2>2 DEF Writing, TypeOK
  <2> QED BY <2>1, <2>2, <2>3 DEF Owned
<1>2. CASE EnqCheck(p)
  <2>1. RingIds' /\ Writers' /\ Cells' /\ placed' = placed
    BY <1>0, <1>2, CheckInv
  <2>2. /\ ready' = ready /\ seen' = seen
        /\ (ppc' = [ppc EXCEPT ![p] = "idle"] \/ ppc' = [ppc EXCEPT ![p] = "cas"])
    BY <1>2 DEF EnqCheck, ring
  <2>3. \A q \in Producers : Writing(q)' => Writing(q)
    BY <1>0, <2>2 DEF Writing, TypeOK
  <2> QED BY <2>1, <2>2, <2>3 DEF Owned
<1>3. CASE EnqCas(p) /\ tail = t[p]
  <2>1. /\ RingIds' /\ Writers' /\ Cells'
        /\ placed' = Append(placed, Line(p)) /\ seen[p] = Len(placed)
    BY <1>0, <1>3, PlaceInv
  <2>2. ready' = ready /\ seen' = seen /\ ppc' = [ppc EXCEPT ![p] = "len"] /\ ppc[p] # "idle"
    BY <1>3 DEF EnqCas
  <2>3. \A q \in Producers : Writing(q)' => Writing(q) \/ q = p
    BY <1>0, <2>2 DEF Writing, TypeOK
  <2>4. \A j \in Nat : j < Len(placed) => j # Len(placed)
    BY <1>0, Counts
  <2> QED BY <2>1, <2>2, <2>3, <2>4 DEF Owned
<1>4. CASE EnqLen(p) \/ EnqText(p)
  <2>1. RingIds' /\ Writers' /\ Cells' /\ placed' = placed
    BY <1>0, <1>4, FillInv
  <2>2. /\ ready' = ready /\ seen' = seen /\ Writing(p)
        /\ (ppc' = [ppc EXCEPT ![p] = "text"] \/ ppc' = [ppc EXCEPT ![p] = "publish"])
    BY <1>4 DEF EnqLen, EnqText, Writing
  <2>3. \A q \in Producers : Writing(q)' => Writing(q)
    BY <1>0, <2>2 DEF Writing, TypeOK
  <2> QED BY <2>1, <2>2, <2>3 DEF Owned
<1>5. CASE EnqPublish(p)
  <2>1. /\ RingIds' /\ Writers' /\ Cells' /\ placed' = placed
        /\ \A i \in Slots : ready[i] => ready'[i]
    BY <1>0, <1>5, PublishInv
  <2>2. seen' = seen /\ ppc' = [ppc EXCEPT ![p] = "idle"]
    BY <1>5 DEF EnqPublish
  <2>3. \A q \in Producers : Writing(q)' => Writing(q)
    BY <1>0, <2>2 DEF Writing, TypeOK
  <2> QED BY <2>1, <2>2, <2>3 DEF Owned
<1> QED BY <1>1, <1>2, <1>3, <1>4, <1>5 DEF Producer

\* A producer's step keeps the whole invariant.
LEMMA ProducerInv ==
    ASSUME RingInv, NotLapped, NEW p \in Producers, Producer(p)
    PROVE  RingInv'
<1> DEFINE P == Len(placed)
<1>0. /\ TypeOK /\ RingIds /\ Copied /\ ShutDown /\ DrainedAtExit
      /\ Len(out) <= P /\ \A i \in 1 .. Len(out) : out[i] = [len |-> placed[i], text |-> placed[i]]
      /\ P \in Nat /\ Len(out) \in Nat /\ Taken \in Nat
  BY Counts DEF RingInv, OutputInOrder
<1>1. /\ UNCHANGED <<run, lpc, h, l, draining, out, flushed>> /\ Taken' = Taken
  BY DEF Producer, EnqBegin, EnqCheck, EnqCas, EnqLen, EnqText, EnqPublish, logr, hist, Taken
<1>2. /\ RingIds' /\ Writers' /\ Cells'
      /\ \A i \in Slots : ready[i] => ready'[i]
      /\ \A j \in Nat : j < P /\ Owned(j)' => Owned(j)
  BY ProducerRing
<1>3. \/ Len(placed') = P /\ placed' = placed
      \/ /\ Len(placed') = P + 1 /\ placed'[P + 1] = Line(p) /\ ppc[p] # "idle"
         /\ \A i \in 1 .. P : placed'[i] = placed[i]
  <2>1. placed \in Seq(Lines)
    BY <1>0 DEF TypeOK
  <2>2. CASE placed' = placed
    BY <2>2
  <2>3. CASE placed' = Append(placed, Line(p)) /\ ppc[p] # "idle"
    BY <2>1, <2>3
  <2> QED BY <2>2, <2>3, ProducerRing
<1> HIDE DEF P
<1>4. P <= Len(placed') /\ \A i \in 1 .. P : placed'[i] = placed[i]
  BY <1>0, <1>3
<1>5. TypeOK'
  <2>1. ppc[p] # "idle" => n[p] > 0
    BY <1>0 DEF RingIds
  <2> QED BY <1>0, <2>1, ProducerTypes
<1>6. OutputInOrder'
  <2>1. \A i \in 1 .. Len(out) : i \in 1 .. P
    BY <1>0
  <2>2. Len(placed') \in Nat /\ Len(out) <= Len(placed')
    BY <1>0, <1>3
  <2> QED BY <1>0, <1>1, <1>4, <1>5, <2>1, <2>2 DEF OutputInOrder
<1>7. Copied'
  <2>1. slot(h) \in Slots /\ slot(h)' = slot(h)
    <3>1. h \in 0 .. 2^W - 1
      BY <1>0 DEF TypeOK
    <3> QED BY <1>0, <1>1, <3>1, StepTypes DEF slot
  <2>2. lpc \in {"len", "text", "clear"} => ready'[slot(h)]
    BY <1>0, <1>2, <2>1 DEF Copied
  <2>3. lpc \in {"text", "clear", "advance"} => Taken < P /\ placed'[Taken + 1] = placed[Taken + 1]
    <3>1. lpc \in {"text", "clear", "advance"} => Taken < P
      BY <1>0 DEF RingIds, P
    <3>2. Taken < P => Taken + 1 \in 1 .. P
      BY <1>0
    <3> QED BY <1>4, <3>1, <3>2
  <2>4. lpc = "advance" => ~Owned(Taken)'
    BY <1>0, <1>1, <1>2, <2>3 DEF Copied, Owned
  <2>5. lpc = "write" => /\ Taken <= Len(placed') /\ placed'[Taken] = placed[Taken]
    <3>1. lpc = "write" => Taken \in 1 .. P
      BY <1>0 DEF Taken, Copied, P
    <3>2. Len(placed') \in Nat
      BY <1>0, <1>3
    <3> QED BY <1>0, <1>4, <3>1, <3>2
  <2> QED BY <1>0, <1>1, <2>1, <2>2, <2>3, <2>4, <2>5 DEF Copied, Owned, Writing
<1>8. ShutDown'
  <2>1. \A q \in Joined : q \in Producers
    BY JoinedAssumption
  <2>2. ~run /\ p \in Joined => FALSE
    BY <1>0 DEF ShutDown, Producer, EnqBegin, EnqCheck, EnqCas, EnqLen, EnqText, EnqPublish
  <2>3. \A q \in Producers \ {p} : ppc'[q] = ppc[q]
    <3>1. \E x : ppc' = [ppc EXCEPT ![p] = x]
      BY DEF Producer, EnqBegin, EnqCheck, EnqCas, EnqLen, EnqText, EnqPublish
    <3> QED BY <1>0, <3>1 DEF TypeOK
  <2> QED BY <1>0, <1>1, <2>1, <2>2, <2>3 DEF ShutDown
<1>9. DrainedAtExit'
  <2> SUFFICES ASSUME lpc = "done"
               PROVE  /\ flushed = Len(out)
                      /\ Len(out) < Len(placed') => placed'[Len(out) + 1].by \notin Joined
    BY <1>1 DEF DrainedAtExit
  <2>1. flushed = Len(out) /\ (Len(out) < P => placed[Len(out) + 1].by \notin Joined)
    BY <1>0 DEF DrainedAtExit, P
  <2>2. CASE Len(out) < P
    <3>1. Len(out) + 1 \in 1 .. P
      BY <1>0, <2>2
    <3> QED BY <1>4, <2>1, <2>2, <3>1
  <2>3. CASE Len(out) = P /\ placed' = placed
    BY <2>1, <2>3 DEF P
  <2>4. CASE Len(out) = P /\ placed'[P + 1] = Line(p) /\ ppc[p] # "idle"
    <3>1. p \notin Joined
      BY <1>0, <2>4 DEF ShutDown
    <3>2. Line(p).by = p
      BY DEF Line
    <3> QED BY <2>1, <2>4, <3>1, <3>2
  <2> QED BY <1>0, <1>3, <2>2, <2>3, <2>4
<1> QED BY <1>2, <1>6, <1>7, <1>8, <1>9 DEF RingInv


-----------------------------------------------------------------------------
(* The steps of the logger thread. *)

\* Most of them leave ring and producers alone.
LEMMA QuietRing ==
    ASSUME RingInv, UNCHANGED <<ring, prod, placed>>, Taken' = Taken,
           lpc # "advance", lpc' # "advance",
           lpc' \in {"spin", "len", "text", "clear"} => h' = head /\ Taken < Len(placed)
    PROVE  RingIds' /\ Writers' /\ Cells'
<1>0. RingIds /\ Writers /\ Cells
  BY DEF RingInv
<1>1. \A q \in Producers : (Writing(q)' <=> Writing(q)) /\ Line(q)' = Line(q)
  BY DEF Writing, Line, prod
<1>2. Writers' /\ Cells'
  BY <1>0, <1>1, CellsFrame DEF ring, prod
<1>3. RingIds'
  BY <1>0 DEF RingIds, Id, ring, prod
<1> QED BY <1>2, <1>3

\* What the invariant says of the entry at head.
LEMMA AtHead ==
    ASSUME RingInv, lpc \in {"spin", "len", "text", "clear", "advance"}
    PROVE  /\ slot(h) = Cell(Taken) /\ Cell(Taken) \in Slots /\ h = Id(Taken)
           /\ Taken \in Taken .. Taken + QueueSize - 1 /\ Taken \in Nat
           /\ CellAt(Taken, slot(h)) /\ Taken < Len(placed)
<1>1. /\ TypeOK /\ h = Id(Taken) /\ Taken < Len(placed) /\ Cells
  BY DEF RingInv, OutputInOrder, RingIds
<1>2. Taken \in Nat /\ QueueSize \in Nat /\ QueueSize > 0
  BY <1>1, Counts, Sizes
<1>3. Taken \in Taken .. Taken + QueueSize - 1
  BY <1>2
<1>4. slot(h) = Cell(Taken)
  BY <1>1 DEF Cell
<1> QED BY <1>1, <1>2, <1>3, <1>4, CellsApart DEF Cells

\* logger_run, the loops' tops and an empty or abandoned dequeue_log.
LEMMA IdleInv ==
    ASSUME RingInv, Shutdown \/ LoggerTop \/ DeqLoad \/ DeqSpin \/ DeqGiveUp \/ UNCHANGED vars
    PROVE  RingInv'
<1>0. /\ TypeOK /\ RingIds /\ Copied /\ ShutDown /\ DrainedAtExit /\ OutputInOrder
      /\ Writers /\ Cells
      /\ Len(placed) \in Nat /\ Len(out) \in Nat /\ Taken \in Nat
  BY Counts DEF RingInv, OutputInOrder
<1>1. TypeOK'
  BY <1>0, LoggerTypes DEF Logger
<1>2. CASE UNCHANGED vars
  <2>1. UNCHANGED <<head, tail, len, text, ready, run, ppc, n, t, seen, lpc, h, l, since, draining,
                    placed, refused, out, flushed>>
    BY <1>2 DEF vars, ring, prod, logr, hist
  <2>2. Taken' = Taken
    BY <2>1 DEF Taken
  <2>3. \A q \in Producers : (Writing(q)' <=> Writing(q)) /\ Line(q)' = Line(q)
    BY <2>1 DEF Writing, Line
  <2>4. Writers' /\ Cells'
    BY <1>0, <2>1, <2>2, <2>3, CellsFrame
  <2>5. RingIds'
    BY <1>0, <2>1, <2>2 DEF RingIds, Id
  <2>6. Copied' /\ ShutDown' /\ DrainedAtExit' /\ OutputInOrder'
    BY <1>0, <1>1, <2>1, <2>2, <2>3 DEF Copied, ShutDown, DrainedAtExit, OutputInOrder, Owned, slot
  <2> QED BY <2>4, <2>5, <2>6 DEF RingInv
<1>3. CASE Shutdown
  <2>1. UNCHANGED <<head, tail, len, text, ready, ppc, n, t, seen, lpc, h, l, since, draining,
                    placed, refused, out, flushed>>
    BY <1>3 DEF Shutdown, ring, prod, logr, hist
  <2>2. Taken' = Taken
    BY <2>1 DEF Taken
  <2>3. \A q \in Producers : (Writing(q)' <=> Writing(q)) /\ Line(q)' = Line(q)
    BY <2>1 DEF Writing, Line
  <2>4. Writers' /\ Cells'
    BY <1>0, <2>1, <2>2, <2>3, CellsFrame
  <2>5. RingIds'
    BY <1>0, <2>1, <2>2 DEF RingIds, Id
  <2>6. Copied' /\ DrainedAtExit' /\ OutputInOrder'
    BY <1>0, <1>1, <2>1, <2>2, <2>3 DEF Copied, DrainedAtExit, OutputInOrder, Owned, slot
  <2>7. ShutDown'
    BY <1>0, <1>3, <2>1 DEF Shutdown, ShutDown
  <2> QED BY <2>4, <2>5, <2>6, <2>7 DEF RingInv
<1>4. CASE LoggerTop \/ DeqLoad \/ DeqSpin \/ DeqGiveUp
  <2>1. UNCHANGED <<ring, prod, placed, out, l, run>>
    BY <1>4 DEF LoggerTop, DeqLoad, DeqSpin, DeqGiveUp, hist
  <2>2. lpc \in {"top", "load", "spin"} /\ lpc' \in {"top", "load", "spin", "len", "done"}
    BY <1>4 DEF LoggerTop, DeqLoad, DeqSpin, DeqGiveUp, DequeueEmpty
  <2>3. Taken' = Taken /\ Taken = Len(out)
    BY <1>0, <2>1, <2>2 DEF Taken
  <2>4. head = tail <=> Taken = Len(placed)
    <3>1. /\ head = Id(Taken) /\ tail = Id(Len(placed)) /\ Taken <= Len(placed)
          /\ Len(placed) <= Taken + QueueSize
      BY <1>0 DEF RingIds
    <3>2. Len(placed) < Taken + 2^W
      <4>1. Len(placed) \in Nat /\ Taken \in Nat
        BY <1>0
      <4> QED BY <3>1, <4>1, Sizes
    <3> QED BY <1>0, <3>1, <3>2, Ids
  <2>5. lpc' \in {"spin", "len"} => h' = head /\ Taken < Len(placed)
    <3>1. CASE DeqLoad
      <4>1. Taken <= Len(placed)
        BY <1>0 DEF RingIds
      <4> QED BY <1>0, <2>4, <3>1, <4>1 DEF DeqLoad, DequeueEmpty
    <3>2. CASE DeqSpin
      BY <1>0, <3>2 DEF DeqSpin, RingIds
    <3>3. CASE LoggerTop \/ DeqGiveUp
      BY <3>3 DEF LoggerTop, DeqGiveUp, DequeueEmpty
    <3> QED BY <1>4, <3>1, <3>2, <3>3
  <2>6. RingIds' /\ Writers' /\ Cells'
    BY <2>1, <2>2, <2>3, <2>5, QuietRing
  <2>7. Copied'
    <3>1. lpc' = "len" => ready'[slot(h')]
      BY <1>4, <2>1 DEF LoggerTop, DeqLoad, DeqSpin, DeqGiveUp, DequeueEmpty, ring
    <3> QED BY <2>2, <3>1 DEF Copied, slot
  <2>8. ShutDown'
    <3>1. (draining' => ~run) /\ (lpc' = "done" => draining')
      <4>1. (draining => ~run) /\ run \in BOOLEAN /\ draining \in BOOLEAN
        BY <1>0 DEF ShutDown, TypeOK
      <4>2. CASE LoggerTop
        BY <4>1, <4>2 DEF LoggerTop
      <4>3. CASE DeqLoad \/ DeqSpin \/ DeqGiveUp
        BY <4>1, <4>3 DEF DeqLoad, DeqSpin, DeqGiveUp, DequeueEmpty
      <4> QED BY <1>4, <4>2, <4>3
    <3> QED BY <1>0, <2>1, <3>1 DEF ShutDown, prod
  <2>9. OutputInOrder'
    BY <1>0, <1>1, <2>1 DEF OutputInOrder
  <2>10. DrainedAtExit'
    <3> SUFFICES ASSUME lpc' = "done"
                 PROVE  /\ flushed' = Len(out)
                        /\ Len(out) < Len(placed) => placed[Len(out) + 1].by \notin Joined
      BY <2>1 DEF DrainedAtExit
    <3>1. DequeueEmpty /\ (DeqGiveUp \/ head = tail)
      BY <1>4 DEF LoggerTop, DeqLoad, DeqSpin, DeqGiveUp
    <3>2. draining /\ flushed' = Len(out)
      BY <3>1 DEF DequeueEmpty
    <3>3. CASE head = tail
      BY <1>0, <2>3, <2>4, <3>2, <3>3
    <3>4. CASE DeqGiveUp
      <4>1. lpc = "spin" /\ ~run /\ ~ready[slot(h)]
        BY <3>4 DEF DeqGiveUp
      <4>2. CellAt(Taken, slot(h)) /\ Taken < Len(placed)
        BY <4>1, AtHead
      <4>3. Owned(Taken)
        BY <4>1, <4>2 DEF CellAt
      <4>4. PICK p \in Producers : Writing(p) /\ seen[p] = Taken
        BY <4>3 DEF Owned
      <4>5. p \notin Joined
        BY <1>0, <4>1, <4>4 DEF ShutDown, Writing
      <4>6. placed[Taken + 1] = Line(p) /\ Line(p).by = p
        BY <1>0, <4>4 DEF Writers, Line
      <4> QED BY <2>3, <3>2, <4>5, <4>6
    <3> QED BY <3>1, <3>3, <3>4
  <2> QED BY <2>6, <2>7, <2>8, <2>9, <2>10 DEF RingInv
<1> QED BY <1>2, <1>3, <1>4

\* Copying the entry out, and writing the line.
LEMMA CopyInv ==
    ASSUME RingInv, DeqCopyLen \/ DeqCopyText \/ WriteLine
    PROVE  RingInv'
<1>0. /\ TypeOK /\ RingIds /\ Copied /\ ShutDown /\ OutputInOrder
      /\ Len(placed) \in Nat /\ Len(out) \in Nat /\ Taken \in Nat
  BY Counts DEF RingInv, OutputInOrder
<1>1. TypeOK'
  BY <1>0, LoggerTypes DEF Logger
<1>2. /\ UNCHANGED <<ring, prod, placed, run, draining, h>>
      /\ lpc \in {"len", "text", "write"} /\ lpc' \in {"text", "clear", "top"}
  BY DEF DeqCopyLen, DeqCopyText, WriteLine, hist
<1>3. ShutDown' /\ DrainedAtExit'
  BY <1>0, <1>2 DEF ShutDown, DrainedAtExit, prod
<1>4. l \in [len : Lines, text : Lines]
  BY <1>0 DEF TypeOK
<1>5. CASE DeqCopyLen \/ DeqCopyText
  <2>1. Taken' = Taken /\ out' = out /\ lpc # "write" /\ lpc' # "write" /\ lpc' # "top"
    BY <1>5 DEF DeqCopyLen, DeqCopyText, Taken, hist
  <2>2. h = head /\ Taken < Len(placed) /\ lpc \in {"len", "text"}
    BY <1>0, <1>2, <2>1 DEF RingIds
  <2>3. RingIds' /\ Writers' /\ Cells'
    BY <1>2, <2>1, <2>2, QuietRing
  <2>4. ready[slot(h)] /\ len[slot(h)] = placed[Taken + 1] /\ text[slot(h)] = placed[Taken + 1]
    <3>1. ready[slot(h)]
      BY <1>0, <2>2 DEF Copied
    <3>2. CellAt(Taken, slot(h)) /\ Taken < Len(placed)
      BY <2>2, AtHead
    <3> QED BY <3>1, <3>2 DEF CellAt
  <2>5. Copied'
    <3>1. slot(h)' = slot(h)
      BY <1>2 DEF slot
    <3>2. CASE DeqCopyLen
      <4>1. lpc' = "text" /\ l'.len = placed[Taken + 1]
        BY <1>4, <2>4, <3>2 DEF DeqCopyLen
      <4> QED BY <1>2, <2>1, <2>4, <3>1, <4>1 DEF Copied, ring
    <3>3. CASE DeqCopyText
      <4>1. l.len = placed[Taken + 1]
        BY <1>0, <3>3 DEF Copied, DeqCopyText
      <4>2. lpc' = "clear" /\ l'.len = placed[Taken + 1] /\ l'.text = placed[Taken + 1]
        BY <1>4, <2>4, <3>3, <4>1 DEF DeqCopyText
      <4> QED BY <1>2, <2>1, <2>4, <3>1, <4>2 DEF Copied, ring
    <3> QED BY <1>5, <3>2, <3>3
  <2>6. OutputInOrder'
    BY <1>0, <1>1, <1>2, <2>1 DEF OutputInOrder
  <2> QED BY <1>3, <2>3, <2>5, <2>6 DEF RingInv
<1>6. CASE WriteLine
  <2>1. lpc = "write" /\ lpc' = "top" /\ out' = Append(out, l) /\ Taken = Len(out) + 1
    BY <1>6 DEF WriteLine, Taken
  <2>2. Len(out') = Len(out) + 1 /\ out'[Len(out) + 1] = l /\ \A i \in 1 .. Len(out) : out'[i] = out[i]
    <3>1. out \in Seq([len : Lines, text : Lines])
      BY <1>0 DEF TypeOK
    <3> QED BY <1>4, <2>1, <3>1
  <2>3. Taken' = Taken
    BY <1>0, <2>1, <2>2 DEF Taken
  <2>4. RingIds' /\ Writers' /\ Cells'
    BY <1>2, <2>1, <2>3, QuietRing
  <2>5. Copied'
    BY <2>1 DEF Copied
  <2>6. OutputInOrder'
    <3>1. Taken <= Len(placed) /\ l = [len |-> placed[Taken], text |-> placed[Taken]]
      BY <1>0, <2>1 DEF Copied
    <3>2. Len(out') <= Len(placed')
      BY <1>2, <2>1, <2>2, <3>1
    <3>3. ASSUME NEW i \in 1 .. Len(out') PROVE out'[i] = [len |-> placed[i], text |-> placed[i]]
      <4>1. i \in 1 .. Len(out) \/ i = Len(out) + 1
        BY <1>0, <2>2
      <4> QED BY <1>0, <2>1, <2>2, <3>1, <4>1 DEF OutputInOrder
    <3> QED BY <1>1, <1>2, <3>2, <3>3 DEF OutputInOrder
  <2> QED BY <1>3, <2>4, <2>5, <2>6 DEF RingInv
<1> QED BY <1>5, <1>6


\* Clearing ready, and the store of head_id that gives the entry back to the
\* producers: nobody writes to it in between, and its next place finds it clear.
LEMMA ReleaseInv ==
    ASSUME RingInv, DeqClear \/ DeqAdvance
    PROVE  RingInv'
<1>0. /\ TypeOK /\ RingIds /\ Writers /\ Cells /\ Copied /\ ShutDown /\ OutputInOrder
      /\ Len(placed) \in Nat /\ Len(out) \in Nat /\ Taken \in Nat /\ QueueSize \in Nat /\ QueueSize > 0
  BY Counts, Sizes DEF RingInv, OutputInOrder
<1>1. TypeOK'
  BY <1>0, LoggerTypes DEF Logger
<1>2. /\ UNCHANGED <<tail, len, text, ppc, n, t, seen, placed, run, draining, h, l, out>>
      /\ lpc \in {"clear", "advance"} /\ lpc' \in {"advance", "write"}
  BY DEF DeqClear, DeqAdvance, hist, prod
<1>3. ShutDown' /\ DrainedAtExit' /\ OutputInOrder'
  BY <1>0, <1>1, <1>2 DEF ShutDown, DrainedAtExit, OutputInOrder
<1>4. /\ slot(h) = Cell(Taken) /\ Cell(Taken) \in Slots /\ h = Id(Taken)
      /\ Taken \in Taken .. Taken + QueueSize - 1
      /\ CellAt(Taken, slot(h)) /\ Taken < Len(placed)
  BY <1>2, AtHead
<1>5. \A q \in Producers : (Writing(q)' <=> Writing(q)) /\ Line(q)' = Line(q)
  BY <1>2 DEF Writing, Line
<1>6. \A j : (\E q \in Producers : Writing(q)' /\ seen'[q] = j) <=> Owned(j)
  BY <1>2, <1>5 DEF Owned
<1>7. CASE DeqClear
  <2>1. /\ lpc = "clear" /\ lpc' = "advance" /\ head' = head /\ Taken' = Taken
        /\ ready' = [ready EXCEPT ![Cell(Taken)] = FALSE]
    BY <1>4, <1>7 DEF DeqClear, Taken, hist
  <2>2. ~ready'[Cell(Taken)] /\ \A i \in Slots \ {Cell(Taken)} : ready'[i] = ready[i]
    BY <1>0, <1>4, <2>1 DEF TypeOK
  <2>3. ~Owned(Taken)
    <3>1. ready[slot(h)]
      BY <1>0, <2>1 DEF Copied
    <3> QED BY <1>4, <3>1 DEF CellAt
  <2>4. RingIds'
    BY <1>0, <1>2, <2>1 DEF RingIds, Id
  <2>5. Writers'
    BY <1>0, <1>2, <1>5, <2>1 DEF Writers
  <2>6. ASSUME NEW j \in Taken .. Taken + QueueSize - 1 PROVE CellAt(j, Cell(j))'
    <3>0. Cell(j)' = Cell(j) /\ CellAt(j, Cell(j)) /\ (Owned(j)' <=> Owned(j))
      BY <1>0, <1>2, <1>5 DEF Cells, Cell, slot, Id, Owned
    <3>1. CASE j = Taken
      <4>1. len[Cell(j)] = placed[j + 1] /\ text[Cell(j)] = placed[j + 1]
        BY <1>4, <2>3, <3>0, <3>1 DEF CellAt
      <4>2. \A q \in Producers : ~(Writing(q) /\ seen[q] = j)
        BY <2>3, <3>1 DEF Owned
      <4>3. ready'[Cell(j)] = FALSE
        BY <1>0, <1>4, <2>1, <3>1 DEF TypeOK
      <4> QED BY <1>2, <1>5, <2>1, <3>0, <3>1, <4>1, <4>2, <4>3 DEF CellAt
    <3>2. CASE j # Taken
      <4>1. Cell(j) # Cell(Taken)
        BY <1>0, <1>4, <3>2, OtherCell
      <4>2. Cell(j) \in Slots
        <5>1. j \in Nat
          BY <1>0
        <5> QED BY <5>1, CellsApart
      <4>3. ready'[Cell(j)] = ready[Cell(j)]
        BY <2>2, <4>1, <4>2
      <4> QED BY <1>2, <1>5, <2>1, <3>0, <3>2, <4>3 DEF CellAt
    <3> QED BY <3>1, <3>2
  <2>7. Copied'
    <3>1. ~Owned(Taken)'
      BY <1>6, <2>1, <2>3 DEF Owned
    <3> QED BY <1>0, <1>2, <2>1, <3>1 DEF Copied
  <2> QED BY <1>3, <2>1, <2>4, <2>5, <2>6, <2>7 DEF RingInv, Cells
<1>8. CASE DeqAdvance
  <2>1. lpc = "advance" /\ lpc' = "write" /\ head' = Inc(h) /\ ready' = ready
    BY <1>8 DEF DeqAdvance
  <2>2. Taken' = Taken + 1
    BY <1>0, <1>2, <2>1 DEF Taken
  <2>3. ~Owned(Taken) /\ ~ready[Cell(Taken)]
    <3>1. ~Owned(Taken)
      BY <1>0, <2>1 DEF Copied
    <3>2. ready[Cell(Taken)] = FALSE
      BY <1>4, <2>1, <3>1 DEF CellAt
    <3> QED BY <3>1, <3>2
  <2>4. \A q \in Producers : seen[q] \in Nat
    BY <1>0 DEF TypeOK
  <2>5. RingIds'
    <3>1. Taken' <= Len(placed) /\ Len(placed) <= Taken' + QueueSize
      BY <1>0, <1>4, <2>2 DEF RingIds
    <3>2. head' = Id(Taken')
      BY <1>0, <1>4, <2>1, <2>2, Ids
    <3>3. Len(placed) < Taken + QueueSize => Len(placed) < Taken' + QueueSize
      BY <1>0, <2>2
    <3>4. \A q \in Producers :
            /\ ppc[q] # "idle" => n[q] > 0 /\ t[q] = Id(seen[q]) /\ seen[q] <= Len(placed)
            /\ ppc[q] = "cas" /\ seen[q] = Len(placed) => Len(placed) < Taken' + QueueSize
      BY <1>0, <3>3 DEF RingIds
    <3>5. tail = Id(Len(placed))
      BY <1>0 DEF RingIds
    <3> QED BY <1>2, <2>1, <3>1, <3>2, <3>4, <3>5 DEF RingIds, Id
  <2>6. Writers'
    <3>1. ASSUME NEW q \in Producers, Writing(q) PROVE seen[q] \in Taken + 1 .. Len(placed) - 1
      <4>1. seen[q] \in Taken .. Len(placed) - 1 /\ seen[q] # Taken
        BY <1>0, <2>3, <3>1 DEF Writers, Owned
      <4> QED BY <1>0, <4>1
    <3> QED BY <1>0, <1>2, <1>5, <2>2, <3>1 DEF Writers
  <2>7. ASSUME NEW j \in Taken' .. Taken' + QueueSize - 1 PROVE CellAt(j, Cell(j))'
    <3>0. Cell(j)' = Cell(j) /\ (Owned(j)' <=> Owned(j)) /\ j \in Nat
      BY <1>0, <1>2, <1>5, <2>2 DEF Cell, slot, Id, Owned
    <3>1. CASE j < Taken + QueueSize
      <4>1. j \in Taken .. Taken + QueueSize - 1 /\ j # Taken
        BY <1>0, <2>2, <3>1
      <4>2. CellAt(j, Cell(j))
        BY <1>0, <4>1 DEF Cells
      <4> QED BY <1>2, <1>5, <2>1, <3>0, <4>1, <4>2 DEF CellAt
    <3>2. CASE j = Taken + QueueSize
      <4>1. ~ready[Cell(j)]
        BY <1>0, <2>3, <3>2, CellsApart
      <4>2. j >= Len(placed) /\ ~(j < Len(placed))
        BY <1>0, <3>2 DEF RingIds
      <4>3. \A q \in Producers : ~(Writing(q) /\ seen[q] = j)
        BY <1>0, <2>4, <4>2 DEF Writers
      <4> QED BY <1>2, <1>5, <2>1, <3>0, <4>1, <4>2, <4>3 DEF CellAt
    <3> QED BY <1>0, <2>2, <3>1, <3>2
  <2>8. Copied'
    <3>1. Taken + 1 <= Len(placed)
      BY <1>0, <1>4
    <3>2. l.len = placed[Taken + 1] /\ l.text = placed[Taken + 1] /\ l \in [len : Lines, text : Lines]
      BY <1>0, <2>1 DEF Copied, TypeOK
    <3>3. l = [len |-> placed[Taken + 1], text |-> placed[Taken + 1]]
      BY <3>2
    <3> QED BY <1>2, <2>1, <2>2, <3>1, <3>3 DEF Copied
  <2> QED BY <1>3, <2>5, <2>6, <2>7, <2>8 DEF RingInv, Cells
<1> QED BY <1>7, <1>8

-----------------------------------------------------------------------------
(* The theorems. *)

LEMMA RingInit == Init => RingInv /\ NotLapped
<1> SUFFICES ASSUME Init PROVE RingInv /\ NotLapped
  OBVIOUS
<1>0. TypeOK
  BY TypeInit
<1>1. Taken = 0 /\ Len(placed) = 0 /\ Len(out) = 0
  BY DEF Init, Taken
<1>2. \A p \in Producers : ppc[p] = "idle" /\ ~Writing(p)
  BY DEF Init, Writing
<1>3. OutputInOrder /\ Writers /\ Copied /\ ShutDown /\ DrainedAtExit /\ NotLapped
  BY <1>0, <1>1, <1>2, JoinedAssumption
  DEF Init, OutputInOrder, Writers, Copied, ShutDown, DrainedAtExit, NotLapped
<1>4. RingIds
  <2>1. Id(0) = StartId
    <3> DEFINE M == 2^W
    <3>1. M \in Nat \ {0} /\ StartId \in 0 .. M - 1 /\ StartId + 0 = M * 0 + StartId /\ StartId + 0 \in Int
      BY Sizes
    <3> HIDE DEF M
    <3>2. (StartId + 0) % M = StartId
      BY <3>1, ModUnique
    <3> QED BY <3>2 DEF Id, M
  <2> QED BY <1>1, <1>2, <2>1, Sizes DEF Init, RingIds
<1>5. ASSUME NEW j \in Taken .. Taken + QueueSize - 1 PROVE CellAt(j, Cell(j))
  <2>1. j \in Nat /\ ~(j < Len(placed))
    BY <1>1, Sizes
  <2>2. ~ready[Cell(j)]
    BY <2>1, CellsApart DEF Init
  <2> QED BY <1>2, <2>1, <2>2 DEF CellAt
<1> QED BY <1>3, <1>4, <1>5 DEF RingInv, Cells

LEMMA RingStep == RingInv /\ NotLapped /\ [TimelyNext]_vars => RingInv' /\ NotLapped'
<1> SUFFICES ASSUME RingInv, NotLapped, [TimelyNext]_vars PROVE RingInv' /\ NotLapped'
  OBVIOUS
<1>1. NotLapped'
  <2>1. CASE UNCHANGED vars
    BY <2>1 DEF NotLapped, vars, prod, hist
  <2> QED BY <2>1 DEF TimelyNext
<1>2. RingInv'
  BY ProducerInv, IdleInv, CopyInv, ReleaseInv DEF TimelyNext, Next, Logger
<1> QED BY <1>1, <1>2

\* The invariant of the ring, for every size and width and across the wrap of ids.
THEOREM RingInvariant == TimelySpec => []RingInv
<1> QED BY RingInit, RingStep, PTL DEF TimelySpec

\* What the logger thread writes is the lines that enqueue_log gave a place, whole
\* and in the order of their places.
THEOREM LinesInOrder == TimelySpec => []OutputInOrder
<1>1. RingInv => OutputInOrder
  BY DEF RingInv
<1> QED BY <1>1, RingInvariant, PTL

\* log_shutdown leaves nothing unflushed, and the first line it leaves in the ring,
\* if any, is of a thread that had not been joined.
THEOREM NothingJoinedIsLost == TimelySpec => []DrainedAtExit
<1>1. RingInv => DrainedAtExit
  BY DEF RingInv
<1> QED BY <1>1, RingInvariant, PTL

\* enqueue_log drops a line only if the ring really is full, or if another thread
\* took the place in view between its two loads.
THEOREM DroppedForCause == TimelySpec => RefusedForCause
<1> DEFINE Cause == \A p \in Producers : Line(p) \in refused' \ refused =>
                        t[p] # tail \/ Len(placed) - Taken = QueueSize
<1>1. RingInv /\ NotLapped /\ [TimelyNext]_vars => [Cause]_vars
  <2> SUFFICES ASSUME RingInv, NotLapped, Next,
                      NEW p \in Producers, Line(p) \in refused' \ refused, t[p] = tail
               PROVE  Len(placed) - Taken = QueueSize
    BY DEF TimelyNext
  <2>1. PICK q \in Producers : EnqCheck(q)
    BY DEF Next, Producer, EnqBegin, EnqCas, EnqLen, EnqText, EnqPublish, Shutdown, Logger, LoggerTop,
       DeqLoad, DeqSpin, DeqGiveUp, DeqCopyLen, DeqCopyText, DeqClear, DeqAdvance, WriteLine, hist
  <2>2. Line(p) = Line(q)
    BY <2>1 DEF EnqCheck
  <2>3. p = q
    <3>1. Line(p).by = p /\ Line(q).by = q
      BY DEF Line
    <3> QED BY <2>2, <3>1
  <2>4. ppc[p] = "check" /\ Diff(t[p], head) >= QueueSize
    BY <2>1, <2>3 DEF EnqCheck
  <2>5. /\ TypeOK /\ head = Id(Taken) /\ tail = Id(Len(placed)) /\ Taken <= Len(placed)
        /\ Len(placed) <= Taken + QueueSize
    BY DEF RingInv, OutputInOrder, RingIds
  <2>6. Len(placed) \in Nat /\ Taken \in Nat /\ QueueSize \in Nat /\ Len(placed) < Taken + 2^W
    <3>1. Len(placed) \in Nat /\ Taken \in Nat
      BY <2>5, Counts
    <3> QED BY <2>5, <3>1, Sizes
  <2>7. Diff(t[p], head) = Len(placed) - Taken
    BY <2>5, <2>6, Ids
  <2> QED BY <2>4, <2>5, <2>6, <2>7
<1>2. TimelySpec => [][Cause]_vars
  BY <1>1, RingInit, RingStep, PTL DEF TimelySpec
<1> QED BY <1>2 DEF RefusedForCause
=============================================================================
