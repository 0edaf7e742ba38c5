--------------------------- MODULE HttpConnProofs ---------------------------
(***************************************************************************)
(* Theorems about HttpConn.  First the parser: what it makes of a buffer   *)
(* that grows; then the connection, along ConnInv.                         *)
(***************************************************************************)
EXTENDS HttpConn, FiniteSetTheorems, TLAPS, SequenceTheorems

-----------------------------------------------------------------------------
(* Numbers. *)

\* Every nonempty set of naturals has a least element.
LEMMA LeastNatural ==
    ASSUME NEW T \in SUBSET Nat, T # {}
    PROVE  \E x \in T : \A y \in T : x <= y
<1>1. \E x \in T : \A y \in T : ~(<<y, x>> \in OpToRel(<, Nat))
  BY WFMin, NatLessThanWellFounded
<1>2. PICK x \in T : \A y \in T : ~(<<y, x>> \in OpToRel(<, Nat))
  BY <1>1
<1>3. \A y \in T : y < x => <<y, x>> \in OpToRel(<, Nat)
  BY DEF OpToRel
<1>4. \A y \in T : ~(y < x)
  BY <1>2, <1>3, Zenon
<1> QED BY <1>4

-----------------------------------------------------------------------------
(* The parser. *)

\* What memchr finds.
LEMMA FirstOfFacts ==
    ASSUME NEW S, NEW buf \in Seq(S), NEW k, NEW p \in Nat \ {0}
    PROVE  \/ /\ FirstOf(buf, k, p) = 0
              /\ \A i \in p .. Len(buf) : buf[i].k # k
           \/ /\ FirstOf(buf, k, p) \in p .. Len(buf)
              /\ buf[FirstOf(buf, k, p)].k = k
              /\ \A i \in p .. FirstOf(buf, k, p) - 1 : buf[i].k # k
<1> DEFINE hits == {i \in p .. Len(buf) : buf[i].k = k}
<1>1. CASE hits = {}
  BY <1>1 DEF FirstOf
<1>2. CASE hits # {}
  <2>1. hits \in SUBSET Nat
    OBVIOUS
  <2>2. \E i \in hits : \A j \in hits : i <= j
    BY <1>2, <2>1, LeastNatural
  <2>3. PICK f \in hits : f = FirstOf(buf, k, p) /\ \A j \in hits : f <= j
    <3> DEFINE f == CHOOSE i \in hits : \A j \in hits : i <= j
    <3>1. f \in hits /\ \A j \in hits : f <= j
      BY <2>2
    <3>2. FirstOf(buf, k, p) = f
      BY <1>2 DEF FirstOf
    <3> QED BY <3>1, <3>2
  <2>4. \A i \in p .. f - 1 : i \notin hits
    BY <2>1, <2>3
  <2> QED BY <2>3, <2>4
<1> QED BY <1>1, <1>2

\* What find_crlf says of the line that begins at p: none ends yet, a bad end, or
\* the position of its CR.
Ends(buf, p, cr) ==
    /\ cr \in p .. Len(buf) - 1 /\ buf[cr].k = "CR" /\ buf[cr + 1] = LF
    /\ \A i \in p .. cr - 1 : buf[i].k # "CR"

LEMMA FindCrlfFacts ==
    ASSUME NEW S, NEW buf \in Seq(S), NEW p \in Nat \ {0}
    PROVE  \/ /\ FindCrlf(buf, p) = Incomplete
              /\ \A i \in p .. Len(buf) - 1 : buf[i].k # "CR"
           \/ /\ FindCrlf(buf, p) = Bad
              /\ \E i \in p .. Len(buf) : buf[i].k = "LF"
              /\ \A i \in p .. Len(buf) : buf[i].k # "CR"
           \/ /\ FindCrlf(buf, p) = Bad
              /\ \E cr \in p .. Len(buf) - 1 : buf[cr].k = "CR" /\ buf[cr + 1] # LF
                                               /\ \A i \in p .. cr - 1 : buf[i].k # "CR"
           \/ \E cr \in p .. Len(buf) - 1 : FindCrlf(buf, p) = [v |-> "eol", at |-> cr] /\ Ends(buf, p, cr)
<1> DEFINE cr == FirstOf(buf, "CR", p)
           lf == FirstOf(buf, "LF", p)
<1>1. \/ cr = 0 /\ \A i \in p .. Len(buf) : buf[i].k # "CR"
      \/ cr \in p .. Len(buf) /\ buf[cr].k = "CR" /\ \A i \in p .. cr - 1 : buf[i].k # "CR"
  BY FirstOfFacts
<1>2. \/ lf = 0 /\ \A i \in p .. Len(buf) : buf[i].k # "LF"
      \/ lf \in p .. Len(buf) /\ buf[lf].k = "LF"
  BY FirstOfFacts
<1>3. FindCrlf(buf, p) =
         CASE cr = 0 -> IF lf # 0 THEN Bad ELSE Incomplete
          [] cr # 0 /\ cr = Len(buf) -> Incomplete
          [] cr # 0 /\ cr # Len(buf) /\ buf[cr + 1] # LF -> Bad
          [] OTHER -> [v |-> "eol", at |-> cr]
  BY DEF FindCrlf
<1> HIDE DEF cr, lf
<1>4. Len(buf) \in Nat
  OBVIOUS
<1>5. CASE cr = 0
  <2>1. \A i \in p .. Len(buf) : buf[i].k # "CR"
    BY <1>1, <1>5
  <2>2. CASE lf # 0
    BY <1>2, <1>3, <1>5, <2>1, <2>2
  <2>3. CASE lf = 0
    BY <1>3, <1>4, <1>5, <2>1, <2>3
  <2> QED BY <2>2, <2>3
<1>6. CASE cr # 0
  <2>1. cr \in p .. Len(buf) /\ buf[cr].k = "CR" /\ \A i \in p .. cr - 1 : buf[i].k # "CR"
    BY <1>1, <1>6
  <2>2. CASE cr = Len(buf)
    BY <1>3, <1>6, <2>1, <2>2
  <2>3. CASE cr # Len(buf) /\ buf[cr + 1] # LF
    BY <1>3, <1>4, <1>6, <2>1, <2>3
  <2>4. CASE cr # Len(buf) /\ buf[cr + 1] = LF
    <3>1. cr \in p .. Len(buf) - 1
      BY <1>4, <2>1, <2>4
    <3>2. FindCrlf(buf, p) = [v |-> "eol", at |-> cr]
      BY <1>3, <1>6, <2>4
    <3> QED BY <2>1, <2>4, <3>1, <3>2 DEF Ends
  <2> QED BY <2>2, <2>3, <2>4
<1> QED BY <1>5, <1>6

\* The loop over the lines ends, at the first line that is not a field.
LEMMA NFieldsFacts ==
    ASSUME NEW S, NEW buf \in Seq(S)
    PROVE  /\ NFields(buf) \in 0 .. Len(buf)
           /\ ~IsField(buf, 4 + 3 * NFields(buf))
           /\ \A i \in 0 .. NFields(buf) - 1 : IsField(buf, 4 + 3 * i)
<1> DEFINE T == {k \in Nat : ~IsField(buf, 4 + 3 * k)}
<1>1. Len(buf) \in T
  BY DEF IsField
<1>2. PICK n \in T : \A m \in T : n <= m
  BY <1>1, LeastNatural
<1>3. n \in 0 .. Len(buf)
  BY <1>1, <1>2
<1>4. \A i \in 0 .. n - 1 : IsField(buf, 4 + 3 * i)
  BY <1>2
<1>5. ~IsField(buf, 4 + 3 * n)
  BY <1>2
<1> QED BY <1>3, <1>4, <1>5 DEF NFields

\* The line that ends at cr ends nowhere else.
LEMMA EndsFound ==
    ASSUME NEW S, NEW buf \in Seq(S), NEW p \in Nat \ {0}, NEW cr, Ends(buf, p, cr)
    PROVE  FindCrlf(buf, p) = [v |-> "eol", at |-> cr]
<1>1. cr \in p .. Len(buf) - 1 /\ buf[cr].k = "CR" /\ buf[cr + 1] = LF
      /\ (\A i \in p .. cr - 1 : buf[i].k # "CR") /\ Len(buf) \in Nat
  BY DEF Ends
<1>2. PICK d \in p .. Len(buf) - 1 : FindCrlf(buf, p) = [v |-> "eol", at |-> d] /\ Ends(buf, p, d)
  <2>1. cr \in p .. Len(buf)
    BY <1>1
  <2>2. ASSUME NEW d \in p .. Len(buf) - 1, buf[d].k = "CR", buf[d + 1] # LF,
               \A i \in p .. d - 1 : buf[i].k # "CR"
        PROVE  FALSE
    <3>1. d = cr
      BY <1>1, <2>2
    <3> QED BY <1>1, <2>2, <3>1
  <2> QED BY <1>1, <2>1, <2>2, FindCrlfFacts
<1>3. d = cr
  BY <1>1, <1>2 DEF Ends
<1> QED BY <1>2, <1>3

\* c is b with more behind it.
Grows(b, c) == Len(b) <= Len(c) /\ \A i \in 1 .. Len(b) : c[i] = b[i]

LEMMA EndsStay ==
    ASSUME NEW S, NEW b \in Seq(S), NEW c \in Seq(S), Grows(b, c), NEW p \in Nat \ {0},
           NEW cr, Ends(b, p, cr)
    PROVE  Ends(c, p, cr)
  BY DEF Grows, Ends

\* A line that was refused is refused, or waited with; it may have got an end, behind
\* the LF it was refused for.
LEMMA RefusalGrows ==
    ASSUME NEW S, NEW b \in Seq(S), NEW c \in Seq(S), Grows(b, c), NEW p \in Nat \ {0},
           FindCrlf(b, p) = Bad
    PROVE  \/ FindCrlf(c, p) \in {Bad, Incomplete}
           \/ \E cr \in p + 1 .. Len(c) - 1 : /\ FindCrlf(c, p) = [v |-> "eol", at |-> cr]
                                              /\ Len(b) < cr /\ b[p].k # "CR"
                                              /\ \E i \in p .. cr - 1 : i <= Len(b) /\ c[i].k = "LF"
<1> SUFFICES ASSUME FindCrlf(c, p) \notin {Bad, Incomplete}
             PROVE  \E cr \in p + 1 .. Len(c) - 1 : /\ FindCrlf(c, p) = [v |-> "eol", at |-> cr]
                                              /\ Len(b) < cr /\ b[p].k # "CR"
                                              /\ \E i \in p .. cr - 1 : i <= Len(b) /\ c[i].k = "LF"
  OBVIOUS
<1>1. PICK cr \in p .. Len(c) - 1 : FindCrlf(c, p) = [v |-> "eol", at |-> cr] /\ Ends(c, p, cr)
  BY FindCrlfFacts
<1>2. /\ c[cr].k = "CR" /\ c[cr + 1] = LF /\ \A i \in p .. cr - 1 : c[i].k # "CR"
      /\ Len(b) \in Nat /\ Len(c) \in Nat /\ Len(b) <= Len(c) /\ \A i \in 1 .. Len(b) : c[i] = b[i]
  BY <1>1 DEF Ends, Grows
<1>3. ASSUME NEW d \in p .. Len(b) - 1, b[d].k = "CR", b[d + 1] # LF,
             \A i \in p .. d - 1 : b[i].k # "CR"
      PROVE  FALSE
  <2>0. d \in 1 .. Len(b) /\ d + 1 \in 1 .. Len(b) /\ \A i \in p .. d - 1 : i \in 1 .. Len(b)
    BY <1>2
  <2>1. c[d].k = "CR" /\ c[d + 1] # LF /\ \A i \in p .. d - 1 : c[i].k # "CR"
    BY <1>2, <1>3, <2>0
  <2>2. d = cr
    BY <1>1, <1>2, <2>1
  <2> QED BY <1>2, <2>1, <2>2
<1>4. /\ \E i \in p .. Len(b) : b[i].k = "LF"
      /\ \A i \in p .. Len(b) : b[i].k # "CR"
  <2>1. Bad # Incomplete /\ \A d : Bad # [v |-> "eol", at |-> d]
    BY DEF Bad, Incomplete
  <2> QED BY <1>3, <2>1, FindCrlfFacts
<1>5. PICK i \in p .. Len(b) : b[i].k = "LF"
  BY <1>4
<1>6. Len(b) < cr
  BY <1>1, <1>2, <1>4
<1>7. cr \in p + 1 .. Len(c) - 1 /\ i \in p .. cr - 1 /\ i <= Len(b) /\ i \in 1 .. Len(b)
      /\ p \in p .. Len(b)
  BY <1>1, <1>2, <1>5, <1>6
<1>8. c[i].k = "LF" /\ b[p].k # "CR"
  BY <1>2, <1>4, <1>5, <1>7
<1> QED BY <1>1, <1>6, <1>7, <1>8

\* No field begins with CR or LF.
LEMMA FieldKindsFacts == "CR" \notin FieldKinds /\ "LF" \notin FieldKinds
  BY DEF FieldKinds

\* A field stays one.
LEMMA IsFieldStays ==
    ASSUME NEW S, NEW b \in Seq(S), NEW c \in Seq(S), Grows(b, c), NEW p \in Nat \ {0},
           IsField(b, p)
    PROVE  IsField(c, p)
  BY DEF Grows, IsField

\* How the loop over the lines goes on a longer buffer: it comes past the same fields at
\* least, and if it was not for want of bytes that it ended, it ends there.
LEMMA LoopGrows ==
    ASSUME NEW S, NEW b \in Seq(S), NEW c \in Seq(S), Grows(b, c)
    PROVE  /\ NFields(b) <= NFields(c)
           /\ \A i \in 1 .. NFields(b) : Fields(b, NFields(b))[i] = Fields(c, NFields(c))[i]
           /\ End(b, NFields(b)) # Incomplete =>
                /\ NFields(c) = NFields(b)
                /\ \/ End(c, NFields(b)) = End(b, NFields(b))
                   \/ End(c, NFields(b)) = Incomplete /\ End(b, NFields(b)) = Bad
<1> DEFINE n == NFields(b)
           m == NFields(c)
           p == 4 + 3 * n
<1>1. n \in Nat /\ ~IsField(b, p) /\ \A i \in 0 .. n - 1 : IsField(b, 4 + 3 * i)
  BY NFieldsFacts
<1>2. m \in Nat /\ ~IsField(c, 4 + 3 * m) /\ \A i \in 0 .. m - 1 : IsField(c, 4 + 3 * i)
  BY NFieldsFacts
<1>3. p \in Nat \ {0} /\ Len(b) \in Nat /\ Len(c) \in Nat
  BY <1>1
<1> HIDE DEF n, m
<1>4. ASSUME NEW i \in 0 .. n - 1 PROVE IsField(c, 4 + 3 * i)
  <2>1. 4 + 3 * i \in Nat \ {0} /\ IsField(b, 4 + 3 * i)
    BY <1>1
  <2> QED BY <2>1, IsFieldStays
<1>5. n <= m
  BY <1>1, <1>2, <1>4
<1>6. ASSUME NEW i \in 1 .. n PROVE Fields(b, n)[i] = Fields(c, m)[i]
  <2>1. i - 1 \in 0 .. n - 1 /\ i \in 1 .. m /\ 4 + 3 * (i - 1) = 1 + 3 * i
    BY <1>1, <1>2, <1>5
  <2>2. IsField(b, 1 + 3 * i)
    BY <1>1, <2>1
  <2>3. 1 + 3 * i \in 1 .. Len(b)
    BY <2>1, <2>2, <1>3 DEF IsField
  <2>4. c[1 + 3 * i] = b[1 + 3 * i]
    BY <2>3 DEF Grows
  <2> QED BY <2>1, <2>4 DEF Fields
<1>7. ASSUME End(b, n) # Incomplete
      PROVE  /\ ~IsField(c, p)
             /\ \/ End(c, n) = End(b, n)
                \/ End(c, n) = Incomplete /\ End(b, n) = Bad
  <2> DEFINE eb == FindCrlf(b, p)
             ec == FindCrlf(c, p)
  <2>1. /\ End(b, n) = IF eb.v = "eol" /\ eb.at # p THEN Bad ELSE eb
        /\ End(c, n) = IF ec.v = "eol" /\ ec.at # p THEN Bad ELSE ec
    BY DEF End
  <2> HIDE DEF p
  <2>2. /\ Bad.v # "eol" /\ Incomplete.v # "eol"
        /\ \A d : [v |-> "eol", at |-> d].v = "eol" /\ [v |-> "eol", at |-> d].at = d
    BY DEF Bad, Incomplete
  <2>3. \/ eb = Bad
        \/ \E cr \in p .. Len(b) - 1 : eb = [v |-> "eol", at |-> cr] /\ Ends(b, p, cr)
    <3>1. eb # Incomplete
      BY <1>7, <2>1, <2>2
    <3> QED BY <1>3, <3>1, FindCrlfFacts
  <2>4. CASE eb = Bad
    <3>1. End(b, n) = Bad
      BY <2>1, <2>2, <2>4
    <3>2. \/ ec \in {Bad, Incomplete}
          \/ \E cr \in p + 1 .. Len(c) - 1 : /\ ec = [v |-> "eol", at |-> cr]
                                             /\ Len(b) < cr /\ b[p].k # "CR"
                                             /\ \E i \in p .. cr - 1 : i <= Len(b) /\ c[i].k = "LF"
      BY <1>3, <2>4, RefusalGrows
    <3>3. End(c, n) \in {Bad, Incomplete}
      BY <1>3, <2>1, <2>2, <3>2
    <3>4. ASSUME IsField(c, p) PROVE FALSE
      <4>1. /\ p + 2 <= Len(c) /\ c[p].k \in FieldKinds /\ c[p + 1] = CR /\ c[p + 2] = LF
        BY <3>4 DEF IsField
      <4>2. Ends(c, p, p + 1)
        BY <1>3, <4>1, FieldKindsFacts DEF Ends, CR
      <4>3. ec = [v |-> "eol", at |-> p + 1]
        BY <1>3, <4>2, EndsFound
      <4>4. ec \notin {Bad, Incomplete}
        BY <2>2, <4>3
      <4>5. PICK cr \in p + 1 .. Len(c) - 1 :
                /\ ec = [v |-> "eol", at |-> cr]
                /\ \E i \in p .. cr - 1 : i <= Len(b) /\ c[i].k = "LF"
        BY <3>2, <4>4
      <4>6. cr = p + 1
        BY <2>2, <4>3, <4>5
      <4>7. c[p].k = "LF"
        BY <1>3, <4>5, <4>6
      <4> QED BY <4>1, <4>7, FieldKindsFacts
    <3> QED BY <3>1, <3>3, <3>4
  <2>5. ASSUME NEW cr \in p .. Len(b) - 1, eb = [v |-> "eol", at |-> cr], Ends(b, p, cr)
        PROVE  ~IsField(c, p) /\ End(c, n) = End(b, n)
    <3>1. Ends(c, p, cr)
      BY <1>3, <2>5, EndsStay
    <3>2. ec = eb
      BY <1>3, <2>5, <3>1, EndsFound
    <3>3. ASSUME IsField(c, p) PROVE FALSE
      <4>1. /\ p + 2 <= Len(c) /\ c[p].k \in FieldKinds /\ c[p + 1] = CR /\ c[p + 2] = LF
        BY <3>3 DEF IsField
      <4>2. Ends(c, p, p + 1)
        BY <1>3, <4>1, FieldKindsFacts DEF Ends, CR
      <4>3. ec = [v |-> "eol", at |-> p + 1]
        BY <1>3, <4>2, EndsFound
      <4>4. cr = p + 1
        BY <2>2, <2>5, <3>2, <4>3
      <4>5. p + 2 <= Len(b) /\ p \in 1 .. Len(b) /\ p + 1 \in 1 .. Len(b) /\ p + 2 \in 1 .. Len(b)
        BY <1>3, <4>4
      <4>6. b[p] = c[p] /\ b[p + 1] = c[p + 1] /\ b[p + 2] = c[p + 2]
        BY <4>5 DEF Grows
      <4>7. IsField(b, p)
        BY <4>1, <4>5, <4>6 DEF IsField
      <4> QED BY <1>1, <4>7 DEF p
    <3> QED BY <2>1, <3>2, <3>3
  <2> QED BY <2>3, <2>4, <2>5
<1>8. ASSUME ~IsField(c, p) PROVE m = n
  <2>1. ~(n < m)
    BY <1>1, <1>2, <1>8
  <2> QED BY <1>1, <1>2, <1>5, <2>1
<1> QED BY <1>5, <1>6, <1>7, <1>8 DEF n, m

\* The cases of parse.
LEMMA ParseCases ==
    ASSUME NEW S, NEW buf \in Seq(S)
    PROVE  LET eol == FindCrlf(buf, 1)
           IN  \/ eol = Incomplete /\ Parse(buf) = Incomplete
               \/ eol = Bad /\ Parse(buf) = Bad
               \/ \E cr \in 1 .. Len(buf) - 1 :
                    /\ eol = [v |-> "eol", at |-> cr] /\ Ends(buf, 1, cr)
                    /\ cr # 2 \/ buf[1].k # "line" => Parse(buf) = Bad
                    /\ cr = 2 /\ buf[1].k = "line" =>
                         Parse(buf) = Judge(buf[1], Fields(buf, NFields(buf)), End(buf, NFields(buf)))
<1> DEFINE eol == FindCrlf(buf, 1)
           judged == Judge(buf[1], Fields(buf, NFields(buf)), End(buf, NFields(buf)))
<1>1. Parse(buf) = CASE eol.v # "eol" -> eol
                     [] eol.v = "eol" /\ (eol.at # 2 \/ buf[1].k # "line") -> Bad
                     [] OTHER -> judged
  BY DEF Parse
<1>2. \/ eol \in {Bad, Incomplete}
      \/ \E cr \in 1 .. Len(buf) - 1 : eol = [v |-> "eol", at |-> cr] /\ Ends(buf, 1, cr)
  BY FindCrlfFacts
<1>3. /\ Bad.v # "eol" /\ Incomplete.v # "eol"
      /\ \A d : [v |-> "eol", at |-> d].v = "eol" /\ [v |-> "eol", at |-> d].at = d
  BY DEF Bad, Incomplete
<1> HIDE DEF eol, judged
<1>4. CASE eol \in {Bad, Incomplete}
  <2>1. Parse(buf) = eol
    BY <1>1, <1>3, <1>4
  <2> QED BY <1>4, <2>1 DEF eol
<1>5. ASSUME NEW cr \in 1 .. Len(buf) - 1, eol = [v |-> "eol", at |-> cr], Ends(buf, 1, cr)
      PROVE  /\ cr # 2 \/ buf[1].k # "line" => Parse(buf) = Bad
             /\ cr = 2 /\ buf[1].k = "line" => Parse(buf) = judged
  <2>1. eol.v = "eol" /\ eol.at = cr
    BY <1>3, <1>5
  <2> QED BY <1>1, <2>1
<1> QED BY <1>2, <1>4, <1>5 DEF eol, judged

\* What was refused among the fields stays refused when more come.
LEMMA RefusedStays ==
    ASSUME NEW n \in Nat, NEW m \in Nat, n <= m, NEW f, NEW g, DOMAIN f = 1 .. n, DOMAIN g = 1 .. m,
           \A i \in 1 .. n : f[i] = g[i], FieldsRefused(f)
    PROVE  FieldsRefused(g)
<1>1. \A k : \A i \in Seen(f, k) : i \in Seen(g, k) /\ f[i] = g[i]
  BY DEF Seen
<1> QED BY <1>1, Zenon DEF FieldsRefused

\* parse has no second thoughts: whatever comes behind a buffer it has judged, it says
\* the same; or waits, where it had refused a bare LF.
LEMMA ParseGrows ==
    ASSUME NEW S, NEW b \in Seq(S), NEW c \in Seq(S), Grows(b, c), Parse(b) # Incomplete
    PROVE  Parse(c) = Parse(b) \/ (Parse(c) = Incomplete /\ Parse(b) = Bad)
<1> DEFINE n == NFields(b)
           m == NFields(c)
<1>0. /\ Bad # Incomplete /\ Len(b) \in Nat /\ Len(c) \in Nat
      /\ \A d : [v |-> "eol", at |-> d] \notin {Bad, Incomplete}
      /\ \A d, e : [v |-> "eol", at |-> d] = [v |-> "eol", at |-> e] => d = e
  <2>1. \A d : [v |-> "eol", at |-> d].at = d
    OBVIOUS
  <2>2. \A d, e : [v |-> "eol", at |-> d] = [v |-> "eol", at |-> e] => d = e
    BY <2>1, Zenon
  <2> QED BY <2>2 DEF Bad, Incomplete
<1>1. CASE FindCrlf(b, 1) = Bad
  <2>1. Parse(b) = Bad
    BY <1>0, <1>1, ParseCases
  <2>2. ASSUME NEW cr \in 2 .. Len(c) - 1, FindCrlf(c, 1) = [v |-> "eol", at |-> cr],
               NEW i \in 1 .. cr - 1, c[i].k = "LF"
        PROVE  Parse(c) = Bad
    <3>1. cr # 2 \/ c[1].k # "line"
      BY <2>2
    <3> QED BY <1>0, <2>2, <3>1, ParseCases
  <2>3. \/ FindCrlf(c, 1) \in {Bad, Incomplete}
        \/ \E cr \in 2 .. Len(c) - 1 : /\ FindCrlf(c, 1) = [v |-> "eol", at |-> cr]
                                       /\ \E i \in 1 .. cr - 1 : c[i].k = "LF"
    BY <1>1, RefusalGrows
  <2>4. CASE FindCrlf(c, 1) \in {Bad, Incomplete}
    BY <1>0, <2>1, <2>4, ParseCases
  <2> QED BY <2>1, <2>2, <2>3, <2>4
<1>2. ASSUME NEW cr \in 1 .. Len(b) - 1, FindCrlf(b, 1) = [v |-> "eol", at |-> cr], Ends(b, 1, cr)
      PROVE  Parse(c) = Parse(b) \/ (Parse(c) = Incomplete /\ Parse(b) = Bad)
  <2>1. FindCrlf(c, 1) = [v |-> "eol", at |-> cr]
    <3>1. Ends(c, 1, cr)
      BY <1>2, EndsStay
    <3> QED BY <3>1, EndsFound
  <2>2. b[1] = c[1]
    BY <1>0, <1>2 DEF Grows
  <2>3. CASE cr # 2 \/ b[1].k # "line"
    <3>1. Parse(b) = Bad
      BY <1>0, <1>2, <2>3, ParseCases
    <3>2. Parse(c) = Bad
      BY <1>0, <2>1, <2>2, <2>3, ParseCases
    <3> QED BY <3>1, <3>2
  <2>4. CASE cr = 2 /\ b[1].k = "line"
    <3>1. Parse(b) = Judge(b[1], Fields(b, n), End(b, n))
      BY <1>0, <1>2, <2>4, ParseCases
    <3>2. Parse(c) = Judge(b[1], Fields(c, m), End(c, m))
      BY <1>0, <2>1, <2>2, <2>4, ParseCases
    <3>3. /\ n \in Nat /\ m \in Nat /\ n <= m
          /\ \A i \in 1 .. n : Fields(b, n)[i] = Fields(c, m)[i]
          /\ End(b, n) # Incomplete => /\ m = n
                                       /\ \/ End(c, n) = End(b, n)
                                          \/ End(c, n) = Incomplete /\ End(b, n) = Bad
      BY LoopGrows, NFieldsFacts
    <3> HIDE DEF n, m
    <3>4. DOMAIN Fields(b, n) = 1 .. n /\ DOMAIN Fields(c, m) = 1 .. m
      BY DEF Fields
    <3>5. CASE FieldsRefused(Fields(b, n))
      <4>1. FieldsRefused(Fields(c, m))
        BY <3>3, <3>4, <3>5, RefusedStays
      <4> QED BY <3>1, <3>2, <3>5, <4>1 DEF Judge
    <3>6. CASE ~FieldsRefused(Fields(b, n))
      <4>1. End(b, n) # Incomplete
        BY <3>1, <3>6 DEF Judge, Incomplete
      <4>2. m = n /\ Fields(c, m) = Fields(b, n)
        <5>1. Fields(c, n) = [i \in 1 .. n |-> Fields(c, n)[i]]
              /\ Fields(b, n) = [i \in 1 .. n |-> Fields(b, n)[i]]
          BY DEF Fields
        <5> QED BY <3>3, <4>1, <5>1
      <4>3. CASE End(c, n) = End(b, n)
        BY <3>1, <3>2, <4>2, <4>3
      <4>4. CASE End(c, n) = Incomplete /\ End(b, n) = Bad
        <5>1. Parse(b) = Bad /\ Parse(c) = Incomplete
          BY <3>1, <3>2, <3>6, <4>2, <4>4 DEF Judge, Bad, Incomplete
        <5> QED BY <5>1
      <4> QED BY <3>3, <4>1, <4>3, <4>4
    <3> QED BY <3>5, <3>6
  <2> QED BY <2>3, <2>4
<1> QED BY <1>0, <1>1, <1>2, ParseCases

\* A request ends within the buffer.
LEMMA ParseBytes ==
    ASSUME NEW S, NEW buf \in Seq(S), Parse(buf).v = "request"
    PROVE  Parse(buf).bytes \in 0 .. Len(buf)
<1> DEFINE n == NFields(buf)
           end == End(buf, n)
<1>1. Bad.v # "request" /\ Incomplete.v # "request" /\ Unsupported.v # "request"
  BY DEF Bad, Incomplete, Unsupported
<1>2. Parse(buf) = Judge(buf[1], Fields(buf, n), end)
  BY <1>1, ParseCases
<1>3. n \in Nat /\ 4 + 3 * n \in Nat \ {0}
  BY NFieldsFacts
<1> HIDE DEF n
<1>4. end \in {Bad, Incomplete} \/ \E cr \in 1 .. Len(buf) - 1 : end = [v |-> "eol", at |-> cr]
  <2> DEFINE p == 4 + 3 * n
  <2>1. \/ FindCrlf(buf, p) \in {Bad, Incomplete}
        \/ \E cr \in p .. Len(buf) - 1 : FindCrlf(buf, p) = [v |-> "eol", at |-> cr]
    BY <1>3, FindCrlfFacts
  <2>2. end = Bad \/ end = FindCrlf(buf, p)
    BY DEF End
  <2>3. \A cr \in p .. Len(buf) - 1 : cr \in 1 .. Len(buf) - 1
    BY <1>3
  <2> HIDE DEF end, p
  <2> QED BY <2>1, <2>2, <2>3
<1> HIDE DEF end
<1>5. end.v = "eol" /\ Parse(buf).bytes = end.at + 1
  <2>1. end \in {Bad, Incomplete} => end.v # "eol" /\ end.v # "request"
    BY DEF Bad, Incomplete
  <2> QED BY <1>1, <1>2, <1>4, <2>1 DEF Judge
<1>6. PICK cr \in 1 .. Len(buf) - 1 : end = [v |-> "eol", at |-> cr]
  BY <1>4, <1>5 DEF Bad, Incomplete
<1> QED BY <1>5, <1>6

-----------------------------------------------------------------------------
(* The buffer is a piece of the stream. *)

LEMMA PieceFacts ==
    ASSUME NEW S, NEW s \in Seq(S), NEW a \in Nat, NEW b \in Nat, a <= b, b <= Len(s)
    PROVE  /\ SubSeq(s, a + 1, b) \in Seq(S) /\ Len(SubSeq(s, a + 1, b)) = b - a
           /\ \A i \in 1 .. b - a : SubSeq(s, a + 1, b)[i] = s[a + i]
<1>1. \A i \in a + 1 .. b : s[i] \in S
  OBVIOUS
<1>2. SubSeq(s, a + 1, b) = [i \in 1 .. b - a |-> s[i + (a + 1) - 1]]
  OBVIOUS
<1>3. \A i \in 1 .. b - a : i + (a + 1) - 1 = a + i /\ a + i \in a + 1 .. b
  OBVIOUS
<1>4. SubSeq(s, a + 1, b) = [i \in 1 .. b - a |-> s[a + i]]
  BY <1>2, <1>3
<1>5. SubSeq(s, a + 1, b) \in [1 .. b - a -> S]
  BY <1>1, <1>3, <1>4
<1>6. b - a \in Nat
  OBVIOUS
<1> QED BY <1>4, <1>5, <1>6

\* A read adds the next piece to the buffer.
LEMMA PieceJoin ==
    ASSUME NEW S, NEW s \in Seq(S), NEW a \in Nat, NEW b \in Nat, NEW c \in Nat,
           a <= b, b <= c, c <= Len(s)
    PROVE  SubSeq(s, a + 1, b) \o SubSeq(s, b + 1, c) = SubSeq(s, a + 1, c)
<1> DEFINE x == SubSeq(s, a + 1, b)
           y == SubSeq(s, b + 1, c)
           z == SubSeq(s, a + 1, c)
<1>1. x \in Seq(S) /\ Len(x) = b - a /\ \A i \in 1 .. b - a : x[i] = s[a + i]
  BY PieceFacts
<1>2. y \in Seq(S) /\ Len(y) = c - b /\ \A i \in 1 .. c - b : y[i] = s[b + i]
  BY PieceFacts
<1>3. z \in Seq(S) /\ Len(z) = c - a /\ \A i \in 1 .. c - a : z[i] = s[a + i]
  <2>1. a <= c
    OBVIOUS
  <2> QED BY <2>1, PieceFacts
<1> HIDE DEF x, y, z
<1>4. /\ x \o y \in Seq(S) /\ Len(x \o y) = c - a
      /\ \A i \in 1 .. c - a : (x \o y)[i] = IF i <= b - a THEN x[i] ELSE y[i - (b - a)]
  <2>1. (b - a) + (c - b) = c - a
    OBVIOUS
  <2>2. /\ x \o y \in Seq(S) /\ Len(x \o y) = Len(x) + Len(y)
        /\ \A i \in 1 .. Len(x) + Len(y) : (x \o y)[i] = IF i <= Len(x) THEN x[i] ELSE y[i - Len(x)]
    BY <1>1, <1>2, ConcatProperties
  <2> QED BY <1>1, <1>2, <2>1, <2>2
<1>5. ASSUME NEW i \in 1 .. c - a PROVE (x \o y)[i] = z[i]
  <2>1. CASE i <= b - a
    <3>1. i \in 1 .. b - a
      BY <2>1
    <3>2. (x \o y)[i] = x[i]
      BY <1>4, <2>1
    <3> QED BY <1>1, <1>3, <3>1, <3>2
  <2>2. CASE ~(i <= b - a)
    <3>1. i - (b - a) \in 1 .. c - b /\ b + (i - (b - a)) = a + i
      BY <2>2
    <3>2. y[i - (b - a)] = s[a + i]
      BY <1>2, <3>1
    <3> QED BY <1>3, <1>4, <2>2, <3>2
  <2> QED BY <2>1, <2>2
<1>6. x \o y = z
  BY <1>3, <1>4, <1>5, SeqEqual
<1> QED BY <1>6 DEF x, y, z

\* Reuse drops the request that was answered.
LEMMA PieceDrop ==
    ASSUME NEW S, NEW s \in Seq(S), NEW a \in Nat, NEW b \in Nat, a <= b, b <= Len(s),
           NEW n \in 0 .. b - a
    PROVE  Drop(SubSeq(s, a + 1, b), n) = SubSeq(s, a + n + 1, b)
<1> DEFINE x == SubSeq(s, a + 1, b)
           z == SubSeq(s, a + n + 1, b)
<1>1. x \in Seq(S) /\ Len(x) = b - a /\ \A i \in 1 .. b - a : x[i] = s[a + i]
  BY PieceFacts
<1>2. z \in Seq(S) /\ Len(z) = b - (a + n) /\ \A i \in 1 .. b - (a + n) : z[i] = s[a + n + i]
  <2>1. a + n \in Nat /\ a + n <= b
    OBVIOUS
  <2> QED BY <2>1, PieceFacts
<1> HIDE DEF x, z
<1>3. /\ SubSeq(x, n + 1, b - a) \in Seq(S) /\ Len(SubSeq(x, n + 1, b - a)) = b - a - n
      /\ \A i \in 1 .. b - a - n : SubSeq(x, n + 1, b - a)[i] = x[n + i]
  <2>1. n \in Nat /\ b - a \in Nat /\ n <= b - a /\ b - a <= Len(x)
    BY <1>1
  <2> QED BY <1>1, <2>1, PieceFacts
<1>4. ASSUME NEW i \in 1 .. b - a - n PROVE SubSeq(x, n + 1, b - a)[i] = z[i]
  <2>1. n + i \in 1 .. b - a /\ a + (n + i) = a + n + i /\ i \in 1 .. b - (a + n)
    OBVIOUS
  <2> QED BY <1>1, <1>2, <1>3, <2>1
<1>5. b - a - n = b - (a + n)
  OBVIOUS
<1>6. SubSeq(x, n + 1, b - a) = z
  BY <1>2, <1>3, <1>4, <1>5, SeqEqual
<1> QED BY <1>1, <1>6 DEF Drop, x, z

\* What has been read is the beginning of what would have been read later.
LEMMA PieceGrows ==
    ASSUME NEW S, NEW s \in Seq(S), NEW a \in Nat, NEW b \in Nat, NEW c \in Nat,
           a <= b, b <= c, c <= Len(s)
    PROVE  Grows(SubSeq(s, a + 1, b), SubSeq(s, a + 1, c))
<1>1. /\ Len(SubSeq(s, a + 1, b)) = b - a
      /\ \A i \in 1 .. b - a : SubSeq(s, a + 1, b)[i] = s[a + i]
  BY PieceFacts
<1>2. /\ Len(SubSeq(s, a + 1, c)) = c - a
      /\ \A i \in 1 .. c - a : SubSeq(s, a + 1, c)[i] = s[a + i]
  <2>1. a <= c
    OBVIOUS
  <2> QED BY <2>1, PieceFacts
<1>3. \A i \in 1 .. b - a : i \in 1 .. c - a
  OBVIOUS
<1> QED BY <1>1, <1>2, <1>3 DEF Grows

-----------------------------------------------------------------------------
(* Responses. *)

\* bump_alloc of bytes, which need no alignment.
LEMMA BumpFacts ==
    ASSUME NEW offset \in Nat \cup {NoRoom}, NEW size \in Nat
    PROVE  /\ BumpAlloc(offset, size, 1) \in 0 .. BumpSize \cup {NoRoom}
           /\ offset # NoRoom /\ offset + size <= BumpSize => BumpAlloc(offset, size, 1) = offset + size
<1>1. CASE offset = NoRoom
  BY <1>1 DEF BumpAlloc
<1>2. CASE offset # NoRoom
  <2>1. offset \in Nat
    BY <1>2
  <2>2. ((offset + 1 - 1) \div 1) * 1 = offset
    BY <2>1
  <2>3. BumpAlloc(offset, size, 1) = IF offset > BumpSize \/ size > BumpSize - offset THEN NoRoom
                                     ELSE offset + size
    BY <1>2, <2>2 DEF BumpAlloc
  <2> QED BY <1>2, <2>1, <2>3, ConnAssumption DEF NoRoom
<1> QED BY <1>1, <1>2

\* A response that was armed on h.
Answer(h, q) ==
    /\ DOMAIN q = HcFields /\ q.n = h.n + 1 /\ q.phase \in {"FIXED", "HDR"}
    /\ q.buf = h.buf /\ q.req = h.req /\ q.ttl = SendTime /\ q.keep \in BOOLEAN

LEMMA ArmFacts ==
    ASSUME NEW h, DOMAIN h = HcFields, NEW phase \in {"FIXED", "HDR"}, NEW status,
           NEW keep \in BOOLEAN, NEW parts
    PROVE  /\ Answer(h, Arm(h, phase, status, keep, parts))
           /\ Arm(h, phase, status, keep, parts).status = status
           /\ Arm(h, phase, status, keep, parts).keep = keep
<1> DEFINE left == [i \in 1 .. parts |-> [n |-> h.n + 1, status |-> status, part |-> i, of |-> parts]]
           q == [h EXCEPT !.phase = phase, !.status = status, !.keep = keep, !.ttl = SendTime,
                          !.n = h.n + 1, !.left = left]
<1>1. Arm(h, phase, status, keep, parts) = q
  BY DEF Arm
<1> HIDE DEF left
<1>2. /\ DOMAIN q = HcFields /\ q.n = h.n + 1 /\ q.phase = phase /\ q.buf = h.buf /\ q.req = h.req
      /\ q.ttl = SendTime /\ q.keep = keep /\ q.status = status
  BY DEF HcFields
<1> HIDE DEF q
<1> QED BY <1>1, <1>2 DEF Answer

LEMMA ArmCloseFacts ==
    ASSUME NEW h, DOMAIN h = HcFields, NEW status
    PROVE  /\ Answer(h, ArmClose(h, status)) /\ ArmClose(h, status).status = status
           /\ ~ArmClose(h, status).keep
<1> DEFINE left == [i \in 1 .. 2 |-> [n |-> h.n + 1, status |-> status, part |-> i, of |-> 2]]
           q == [h EXCEPT !.phase = "FIXED", !.status = status, !.keep = FALSE, !.ttl = SendTime,
                          !.n = h.n + 1, !.left = left]
<1>1. ArmClose(h, status) = q
  BY DEF ArmClose, Arm
<1> HIDE DEF left
<1>2. /\ DOMAIN q = HcFields /\ q.n = h.n + 1 /\ q.phase = "FIXED" /\ q.buf = h.buf /\ q.req = h.req
      /\ q.ttl = SendTime /\ q.keep = FALSE /\ q.status = status
  BY DEF HcFields
<1> HIDE DEF q
<1> QED BY <1>1, <1>2 DEF Answer

\* The arena holds what one request allocates: the paths, and a header or a redirect.
Fits == 2 * PathMax + HdrSize <= BumpSize /\ 2 * PathMax + 161 + LocSize <= BumpSize

\* static_serve answers, and keeps within the arena; if that is empty and large enough,
\* not with 500.
LEMMA ServeFacts ==
    ASSUME NEW h, DOMAIN h = HcFields, arena \in 0 .. BumpSize, Serve(h, arena)
    PROVE  /\ Answer(h, hc') /\ arena' \in 0 .. BumpSize
           /\ Fits /\ arena = 0 => hc'.status # 500
<1> DEFINE r == h.req
           one == BumpAlloc(arena, PathMax, 1)
           paths == PathsAt(arena)
           header == BumpAlloc(paths, HdrSize, 1)
           location == BumpAlloc(paths, 160 + LocSize + 1, 1)
           keep == ShouldKeepalive(r)
           Gives(q, end) == hc' = q /\ arena' = IF end = NoRoom THEN arena ELSE end
           parts == IF r.method = "GET" /\ r.res = "file" THEN 2 ELSE 1
<1>1. \/ Gives(ArmKeepable(h, 405), arena)
      \/ paths = NoRoom /\ Gives(ArmClose(h, 500), arena)
      \/ header = NoRoom /\ Gives(ArmClose(h, 500), paths)
      \/ Gives(Arm(h, "HDR", 200, keep, parts), header)
      \/ location = NoRoom /\ Gives(ArmClose(h, 500), paths)
      \/ Gives(Arm(h, "FIXED", 301, keep, 2), location)
      \/ Gives(ArmKeepable(h, 404), paths)
      \/ Gives(ArmClose(h, 400), paths)
  BY DEF Serve
<1>2. keep \in BOOLEAN
  BY DEF ShouldKeepalive
<1>3. /\ BumpSize \in Nat /\ PathMax \in Nat /\ HdrSize \in Nat /\ LocSize \in Nat
      /\ 160 + LocSize + 1 \in Nat /\ arena \in Nat
  BY ConnAssumption
<1>4. /\ one \in 0 .. BumpSize \cup {NoRoom}
      /\ arena + PathMax <= BumpSize => one = arena + PathMax
  BY <1>3, BumpFacts DEF NoRoom
<1> HIDE DEF one
<1>5. /\ paths \in 0 .. BumpSize \cup {NoRoom}
      /\ one # NoRoom /\ one + PathMax <= BumpSize => paths = one + PathMax
  <2>1. one \in Nat \cup {NoRoom}
    BY <1>3, <1>4
  <2>2. paths = BumpAlloc(one, PathMax, 1)
    BY DEF PathsAt, one
  <2> QED BY <1>3, <2>1, <2>2, BumpFacts
<1> HIDE DEF paths
<1>6. /\ header \in 0 .. BumpSize \cup {NoRoom} /\ location \in 0 .. BumpSize \cup {NoRoom}
      /\ paths # NoRoom /\ paths + HdrSize <= BumpSize => header = paths + HdrSize
      /\ paths # NoRoom /\ paths + (160 + LocSize + 1) <= BumpSize => location = paths + (160 + LocSize + 1)
  <2>1. paths \in Nat \cup {NoRoom}
    BY <1>3, <1>5
  <2> QED BY <1>3, <2>1, BumpFacts
<1> HIDE DEF header, location
<1>7. ASSUME Fits, arena = 0 PROVE paths # NoRoom /\ header # NoRoom /\ location # NoRoom
  <2>1. one = PathMax
    BY <1>3, <1>4, <1>7 DEF Fits
  <2>2. paths = 2 * PathMax
    BY <1>3, <1>5, <1>7, <2>1 DEF Fits, NoRoom
  <2>3. header = 2 * PathMax + HdrSize /\ location = 2 * PathMax + (160 + LocSize + 1)
    BY <1>3, <1>6, <1>7, <2>2 DEF Fits, NoRoom
  <2> QED BY <1>3, <2>2, <2>3 DEF NoRoom
<1>8. \A q, end : end \in 0 .. BumpSize \cup {NoRoom} /\ Gives(q, end) => hc' = q /\ arena' \in 0 .. BumpSize
  OBVIOUS
<1>9. arena \in 0 .. BumpSize \cup {NoRoom}
  OBVIOUS
<1> HIDE DEF keep, parts
<1>10. /\ \A st : Answer(h, ArmClose(h, st)) /\ ArmClose(h, st).status = st
       /\ \A st : Answer(h, ArmKeepable(h, st)) /\ ArmKeepable(h, st).status = st
       /\ \A p : /\ Answer(h, Arm(h, "HDR", 200, keep, p)) /\ Arm(h, "HDR", 200, keep, p).status = 200
                 /\ Answer(h, Arm(h, "FIXED", 301, keep, p)) /\ Arm(h, "FIXED", 301, keep, p).status = 301
  <2>1. \A st : ArmKeepable(h, st) = Arm(h, "FIXED", st, keep, 2)
    BY DEF ArmKeepable, keep
  <2> QED BY <1>2, <2>1, ArmFacts, ArmCloseFacts
<1>11. \/ hc' = ArmKeepable(h, 405) \/ hc' = ArmClose(h, 400) \/ hc' = ArmKeepable(h, 404)
       \/ hc' = Arm(h, "HDR", 200, keep, parts) \/ hc' = Arm(h, "FIXED", 301, keep, 2)
       \/ hc' = ArmClose(h, 500) /\ (paths = NoRoom \/ header = NoRoom \/ location = NoRoom)
  BY <1>1
<1>12. arena' \in 0 .. BumpSize
  BY <1>1, <1>5, <1>6, <1>8, <1>9
<1>13. Answer(h, hc')
  BY <1>10, <1>11
<1>14. ASSUME Fits, arena = 0 PROVE hc'.status # 500
  <2>1. \/ hc' = ArmKeepable(h, 405) \/ hc' = ArmClose(h, 400) \/ hc' = ArmKeepable(h, 404)
        \/ hc' = Arm(h, "HDR", 200, keep, parts) \/ hc' = Arm(h, "FIXED", 301, keep, 2)
    BY <1>7, <1>11, <1>14
  <2>2. hc'.status \in {405, 400, 404, 200, 301}
    BY <1>10, <2>1
  <2> QED BY <2>2
<1> QED BY <1>12, <1>13, <1>14

\* try_parse_buffer asks for more, or arms an answer to what it has read.
LEMMA TryParseFacts ==
    ASSUME NEW h, DOMAIN h = HcFields, h.req = NoReq, arena \in 0 .. BumpSize, NEW more,
           TryParse(h, more)
    PROVE  \/ hc' = h /\ pc' = more /\ arena' = arena
           \/ /\ pc' = "onwrite" /\ arena' \in 0 .. BumpSize
              /\ DOMAIN hc' = HcFields /\ hc'.n = h.n + 1 /\ hc'.phase \in {"FIXED", "HDR"}
              /\ hc'.buf = h.buf /\ hc'.ttl = SendTime /\ hc'.keep \in BOOLEAN
              /\ hc'.req # NoReq => h.buf # <<>> /\ hc'.req = Parse(h.buf) /\ hc'.req # Incomplete
              /\ hc'.keep => hc'.req.v = "request"
              /\ Fits /\ arena = 0 => hc'.status # 500
<1> DEFINE verdict == IF h.buf = <<>> THEN Incomplete ELSE Parse(h.buf)
           g == [h EXCEPT !.req = verdict]
<1>1. \/ hc' = ArmClose(h, 431) /\ pc' = "onwrite" /\ arena' = arena
      \/ hc' = h /\ pc' = more /\ arena' = arena
      \/ verdict # Incomplete /\ Dispatch(h, verdict)
  BY DEF TryParse
<1>2. CASE hc' = ArmClose(h, 431) /\ pc' = "onwrite" /\ arena' = arena
  <2>1. Answer(h, hc') /\ hc'.status = 431 /\ ~hc'.keep
    BY <1>2, ArmCloseFacts
  <2>2. 431 # 500
    OBVIOUS
  <2> QED BY <1>2, <2>1, <2>2 DEF Answer
<1>3. CASE verdict # Incomplete /\ Dispatch(h, verdict)
  <2>1. h.buf # <<>> /\ verdict = Parse(h.buf) /\ verdict # Incomplete
    BY <1>3
  <2>2. /\ pc' = "onwrite"
        /\ \/ arena' = arena /\ hc' = ArmClose(g, IF verdict = Bad THEN 400 ELSE 501)
           \/ verdict.v = "request" /\ Serve(g, arena)
    BY <1>3 DEF Dispatch
  <2> HIDE DEF verdict
  <2>3. DOMAIN g = HcFields /\ g.req = verdict /\ g.n = h.n /\ g.buf = h.buf
    BY DEF HcFields
  <2> HIDE DEF g
  <2>4. CASE arena' = arena /\ hc' = ArmClose(g, IF verdict = Bad THEN 400 ELSE 501)
    <3>1. PICK st \in {400, 501} : hc' = ArmClose(g, st)
      BY <2>4
    <3>2. Answer(g, hc') /\ hc'.status # 500 /\ ~hc'.keep
      BY <2>3, <3>1, ArmCloseFacts
    <3> QED BY <2>1, <2>2, <2>3, <2>4, <3>2 DEF Answer
  <2>5. CASE verdict.v = "request" /\ Serve(g, arena)
    <3>1. Answer(g, hc') /\ arena' \in 0 .. BumpSize /\ (Fits /\ arena = 0 => hc'.status # 500)
      BY <2>3, <2>5, ServeFacts
    <3> QED BY <2>1, <2>2, <2>3, <2>5, <3>1 DEF Answer
  <2> QED BY <2>2, <2>4, <2>5
<1> QED BY <1>1, <1>2, <1>3

-----------------------------------------------------------------------------
(* The steps. *)

\* What the theorems need of a step: the invariant, the deadline of a phase, and no 500.
Kept ==
    /\ ConnInv'
    /\ (hc'.n = hc.n /\ (hc'.phase = "READ" <=> hc.phase = "READ")) => (hc'.ttl <= hc.ttl)
    /\ Fits /\ hc.status # 500 => hc'.status # 500

LEMMA Times ==
    /\ SendTime \in 0 .. ReadTime + SendTime + KeepTime
    /\ ReadTime \in 0 .. ReadTime + SendTime + KeepTime
    /\ KeepTime \in 0 .. ReadTime + SendTime + KeepTime
    /\ HeaderCap \in Nat
  BY ConnAssumption

LEMMA InitInv == Init => ConnInv
<1> SUFFICES ASSUME Init PROVE ConnInv
  OBVIOUS
<1>1. stream \in Seq(ToSet(stream)) /\ Len(stream) \in Nat
  BY SentAssumption DEF Init
<1>2. /\ hc.phase = "READ" /\ hc.buf = <<>> /\ hc.req = NoReq /\ hc.keep = FALSE /\ hc.ttl = ReadTime
      /\ hc.n = 0 /\ DOMAIN hc = HcFields
  BY DEF Init, Fresh, HcFields
<1>3. TypeOK
  <2>1. Len(hc.buf) <= HeaderCap /\ hc.ttl \in 0 .. ReadTime + SendTime + KeepTime
    BY <1>2, Times
  <2>2. got \in 0 .. Len(stream) /\ base \in 0 .. got /\ arena \in 0 .. BumpSize
    BY <1>1, ConnAssumption DEF Init
  <2>3. /\ peer \in {"open", "fin", "rst"} /\ armed \in {"read", "write", "none"}
        /\ pc \in {"onread", "reading", "onwrite", "reuse", "parse", "wait", "closed"}
        /\ hc.phase \in {"READ", "FIXED", "HDR", "SENDFILE"} /\ hc.keep \in BOOLEAN
    BY <1>2 DEF Init
  <2> QED BY <2>1, <2>2, <2>3 DEF TypeOK
<1>4. hc.buf = SubSeq(stream, base + 1, got)
  <2>1. base + 1 \in Int /\ got \in Int /\ got < base + 1
    BY DEF Init
  <2> QED BY <1>2, <2>1, SubSeqEmpty
<1> QED BY <1>1, <1>2, <1>3, <1>4 DEF Init, ConnInv, Phases, Verdicts

\* The buffer has room for what it holds.
LEMMA BufFacts ==
    ASSUME ConnInv
    PROVE  /\ hc.buf \in Seq(ToSet(stream)) /\ Len(hc.buf) = got - base
           /\ base \in Nat /\ got \in Nat /\ base <= got /\ got <= Len(stream) /\ got - base <= HeaderCap
           /\ Len(stream) \in Nat
<1>1. stream \in Seq(ToSet(stream)) /\ hc.buf = SubSeq(stream, base + 1, got) /\ TypeOK
  BY DEF ConnInv
<1>2. Len(stream) \in Nat
  BY <1>1
<1>3. base \in Nat /\ got \in Nat /\ base <= got /\ got <= Len(stream)
  BY <1>1, <1>2 DEF TypeOK
<1>4. hc.buf \in Seq(ToSet(stream)) /\ Len(hc.buf) = got - base
  BY <1>1, <1>3, PieceFacts
<1> QED BY <1>1, <1>2, <1>3, <1>4 DEF TypeOK

\* A read, or none, and the parse of what is there.
LEMMA ParseStep ==
    ASSUME ConnInv, hc.phase = "READ", NEW h, DOMAIN h = HcFields, h.phase = "READ", h.req = hc.req,
           h.keep = hc.keep, h.ttl = hc.ttl, h.n = hc.n, h.status = hc.status,
           got' \in base .. Len(stream), got' - base <= HeaderCap, h.buf = SubSeq(stream, base + 1, got'),
           NEW more \in {"reading", "wait"}, more = "wait" => armed = "read",
           TryParse(h, more), UNCHANGED <<script, stream, peer, armed, recv, base>>
    PROVE  Kept
<1>1. /\ h.req = NoReq /\ arena = 0 /\ arena \in 0 .. BumpSize /\ h.n \in Nat
      /\ h.ttl \in 0 .. ReadTime + SendTime + KeepTime /\ h.keep \in BOOLEAN /\ ~h.keep
  <2>1. NoReq.v # "request"
    BY DEF NoReq
  <2> QED BY <2>1 DEF ConnInv, Verdicts, TypeOK
<1>2. /\ base \in Nat /\ got' \in Nat /\ base <= got' /\ got' <= Len(stream) /\ Len(h.buf) = got' - base
      /\ stream \in Seq(ToSet(stream)) /\ Len(h.buf) <= HeaderCap
  <2>1. base \in Nat /\ Len(stream) \in Nat /\ stream \in Seq(ToSet(stream))
    BY BufFacts DEF ConnInv
  <2>2. got' \in Nat /\ base <= got' /\ got' <= Len(stream)
    BY <2>1
  <2>3. Len(h.buf) = got' - base
    BY <2>1, <2>2, PieceFacts
  <2> QED BY <2>1, <2>2, <2>3
<1>3. peer \in {"open", "fin", "rst"} /\ armed \in {"read", "write", "none"} /\ base \in 0 .. got'
  BY <1>2 DEF ConnInv, TypeOK
<1>4. ToSet(stream)' = ToSet(stream)
  BY DEF ToSet
<1>5. CASE hc' = h /\ pc' = more /\ arena' = arena
  <2>1. TypeOK'
    <3>1. /\ got' \in 0 .. Len(stream') /\ base' \in 0 .. got' /\ Len(hc'.buf) <= HeaderCap
          /\ arena' \in 0 .. BumpSize
      BY <1>1, <1>2, <1>3, <1>5
    <3>2. /\ peer' \in {"open", "fin", "rst"} /\ armed' \in {"read", "write", "none"}
          /\ hc'.phase = "READ" /\ hc'.keep \in BOOLEAN /\ pc' \in {"reading", "wait"}
          /\ hc'.ttl \in 0 .. ReadTime + SendTime + KeepTime
      BY <1>1, <1>3, <1>5
    <3> QED BY <3>1, <3>2 DEF TypeOK
  <2>2. ConnInv'
    BY <1>1, <1>2, <1>4, <1>5, <2>1 DEF ConnInv, Phases, Verdicts
  <2> QED BY <1>1, <1>5, <2>2 DEF Kept
<1>6. CASE /\ pc' = "onwrite" /\ arena' \in 0 .. BumpSize
           /\ DOMAIN hc' = HcFields /\ hc'.n = h.n + 1 /\ hc'.phase \in {"FIXED", "HDR"}
           /\ hc'.buf = h.buf /\ hc'.ttl = SendTime /\ hc'.keep \in BOOLEAN
           /\ hc'.req # NoReq => h.buf # <<>> /\ hc'.req = Parse(h.buf) /\ hc'.req # Incomplete
           /\ hc'.keep => hc'.req.v = "request"
           /\ Fits /\ arena = 0 => hc'.status # 500
  <2>1. TypeOK'
    <3>0. stream' = stream /\ base' = base /\ Len(hc'.buf) = Len(h.buf)
      BY <1>6
    <3>1. /\ got' \in 0 .. Len(stream') /\ base' \in 0 .. got' /\ Len(hc'.buf) <= HeaderCap
          /\ hc'.ttl \in 0 .. ReadTime + SendTime + KeepTime
      <4>1. got' \in 0 .. Len(stream)
        BY <1>2
      <4>2. hc'.ttl \in 0 .. ReadTime + SendTime + KeepTime
        BY <1>6, Times
      <4> QED BY <1>2, <1>3, <3>0, <4>1, <4>2
    <3>2. /\ peer' \in {"open", "fin", "rst"} /\ armed' \in {"read", "write", "none"}
          /\ pc' \in {"onread", "reading", "onwrite", "reuse", "parse", "wait", "closed"}
          /\ hc'.phase \in {"READ", "FIXED", "HDR", "SENDFILE"}
      BY <1>3, <1>6
    <3> QED BY <1>6, <3>1, <3>2 DEF TypeOK
  <2>2. Phases' /\ Verdicts'
    BY <1>6 DEF Phases, Verdicts
  <2>3. /\ DOMAIN hc' = HcFields /\ hc'.n \in Nat
        /\ stream' \in Seq(ToSet(stream)') /\ hc'.buf = SubSeq(stream', base' + 1, got')
    <3>1. h.n + 1 \in Nat
      BY <1>1
    <3>2. stream' \in Seq(ToSet(stream)')
      BY <1>2, <1>4
    <3> QED BY <1>6, <3>1, <3>2
  <2>4. ConnInv'
    BY <2>1, <2>2, <2>3 DEF ConnInv
  <2>5. hc'.n # hc.n
    BY <1>1, <1>6
  <2> QED BY <1>1, <1>6, <2>4, <2>5 DEF Kept
<1> DEFINE Waits == hc' = h /\ pc' = more /\ arena' = arena
           Answers ==
               /\ pc' = "onwrite" /\ arena' \in 0 .. BumpSize
               /\ DOMAIN hc' = HcFields /\ hc'.n = h.n + 1 /\ hc'.phase \in {"FIXED", "HDR"}
               /\ hc'.buf = h.buf /\ hc'.ttl = SendTime /\ hc'.keep \in BOOLEAN
               /\ hc'.req # NoReq => h.buf # <<>> /\ hc'.req = Parse(h.buf) /\ hc'.req # Incomplete
               /\ hc'.keep => hc'.req.v = "request"
               /\ Fits /\ arena = 0 => hc'.status # 500
<1>7. Waits \/ Answers
  BY <1>1, TryParseFacts
<1>8. (Waits => Kept) /\ (Answers => Kept)
  BY <1>5, <1>6
<1> HIDE DEF Waits, Answers
<1> QED BY <1>7, <1>8

\* A step that leaves the request, its verdict and its buffer alone.
LEMMA SameRequest ==
    ASSUME ConnInv, DOMAIN hc' = HcFields, hc'.buf = hc.buf, hc'.req = hc.req, hc'.keep = hc.keep,
           hc'.status = hc.status, hc'.n = hc.n, hc'.ttl \in 0 .. hc.ttl,
           hc'.phase \in {"READ", "FIXED", "HDR", "SENDFILE"}, hc'.phase = "READ" <=> hc.phase = "READ",
           UNCHANGED <<stream, got, arena, base>>,
           peer' \in {"open", "fin", "rst"}, armed' \in {"read", "write", "none"},
           pc' \in {"onread", "reading", "onwrite", "reuse", "parse", "wait", "closed"}, Phases'
    PROVE  Kept
<1>1. hc.ttl \in Nat /\ hc'.ttl \in 0 .. ReadTime + SendTime + KeepTime /\ hc'.ttl <= hc.ttl
  BY ConnAssumption DEF ConnInv, TypeOK
<1>2. TypeOK'
  <2>1. got' \in 0 .. Len(stream') /\ base' \in 0 .. got' /\ arena' \in 0 .. BumpSize
    BY DEF ConnInv, TypeOK
  <2>2. Len(hc'.buf) <= HeaderCap /\ hc'.keep \in BOOLEAN
    BY DEF ConnInv, TypeOK
  <2> QED BY <1>1, <2>1, <2>2 DEF TypeOK
<1>3. Verdicts'
  BY DEF ConnInv, Verdicts
<1>4. ToSet(stream)' = ToSet(stream)
  BY DEF ToSet
<1>5. ConnInv'
  BY <1>2, <1>3, <1>4 DEF ConnInv
<1> QED BY <1>1, <1>5 DEF Kept

LEMMA CloseStep ==
    ASSUME ConnInv, Close, UNCHANGED <<stream, peer, got, arena, base>>
    PROVE  Kept
<1>1. hc' = [hc EXCEPT !.left = <<>>, !.ttl = 0] /\ pc' = "closed" /\ armed' = "none"
  BY DEF Close
<1>2. DOMAIN hc = HcFields /\ hc.ttl \in Nat
  BY ConnAssumption DEF ConnInv, TypeOK
<1>3. /\ DOMAIN hc' = HcFields /\ hc'.buf = hc.buf /\ hc'.req = hc.req /\ hc'.keep = hc.keep
      /\ hc'.status = hc.status /\ hc'.n = hc.n /\ hc'.ttl = 0 /\ hc'.phase = hc.phase
  BY <1>1, <1>2 DEF HcFields
<1>4. hc'.ttl \in 0 .. hc.ttl
  BY <1>2, <1>3
<1>5. Phases'
  BY <1>1 DEF Phases
<1>6. peer' \in {"open", "fin", "rst"} /\ hc.phase \in {"READ", "FIXED", "HDR", "SENDFILE"}
  BY DEF ConnInv, TypeOK
<1> QED BY <1>1, <1>3, <1>4, <1>5, <1>6, SameRequest

\* The client, an event, and a read that would block: hc stays as it is.
LEMMA StillStep ==
    ASSUME ConnInv, UNCHANGED <<stream, got, hc, arena, base>>,
           peer' \in {"open", "fin", "rst"}, armed' \in {"read", "write", "none"},
           pc' \in {"onread", "reading", "onwrite", "reuse", "parse", "wait", "closed"}, Phases'
    PROVE  Kept
<1>1. hc' = hc /\ DOMAIN hc = HcFields /\ hc.ttl \in Nat /\ hc.phase \in {"READ", "FIXED", "HDR", "SENDFILE"}
  BY ConnAssumption DEF ConnInv, TypeOK
<1>2. hc'.ttl \in 0 .. hc.ttl
  BY <1>1
<1> QED BY <1>1, <1>2, SameRequest

LEMMA TickStep ==
    ASSUME ConnInv, Tick
    PROVE  Kept
<1>1. /\ hc' = [hc EXCEPT !.ttl = hc.ttl - 1] /\ hc.ttl > 0
      /\ UNCHANGED <<stream, peer, got, arena, armed, pc, base>>
  BY DEF Tick
<1>2. DOMAIN hc = HcFields /\ hc.ttl \in Nat
  BY ConnAssumption DEF ConnInv, TypeOK
<1>3. /\ DOMAIN hc' = HcFields /\ hc'.buf = hc.buf /\ hc'.req = hc.req /\ hc'.keep = hc.keep
      /\ hc'.status = hc.status /\ hc'.n = hc.n /\ hc'.ttl = hc.ttl - 1 /\ hc'.phase = hc.phase
  BY <1>1, <1>2 DEF HcFields
<1>4. hc'.ttl \in 0 .. hc.ttl
  BY <1>1, <1>2, <1>3
<1>5. Phases'
  BY <1>1, <1>3 DEF ConnInv, Phases
<1>6. /\ peer' \in {"open", "fin", "rst"} /\ armed' \in {"read", "write", "none"}
      /\ pc' \in {"onread", "reading", "onwrite", "reuse", "parse", "wait", "closed"}
      /\ hc.phase \in {"READ", "FIXED", "HDR", "SENDFILE"}
  BY <1>1 DEF ConnInv, TypeOK
<1> QED BY <1>1, <1>3, <1>4, <1>5, <1>6, SameRequest

LEMMA OnReadStep ==
    ASSUME ConnInv, OnRead
    PROVE  Kept
<1>0. pc = "onread" /\ UNCHANGED <<script, stream, peer, got, recv, base>> /\ hc.phase = "READ"
  BY DEF OnRead, ConnInv, Phases
<1>1. CASE Close /\ UNCHANGED arena
  BY <1>0, <1>1, CloseStep
<1>2. CASE TryParse(hc, "reading") /\ UNCHANGED armed
  <2>1. /\ DOMAIN hc = HcFields /\ got' \in base .. Len(stream) /\ got' - base <= HeaderCap
        /\ hc.buf = SubSeq(stream, base + 1, got')
    BY <1>0, BufFacts DEF ConnInv
  <2> QED BY <1>0, <1>2, <2>1, ParseStep
<1> QED BY <1>1, <1>2 DEF OnRead

LEMMA ReuseParseStep ==
    ASSUME ConnInv, ReuseParse
    PROVE  Kept
<1>1. /\ pc = "parse" /\ hc.phase = "READ" /\ armed = "read" /\ TryParse(hc, "wait")
      /\ UNCHANGED <<script, stream, peer, got, armed, recv, base>>
  BY DEF ReuseParse, ConnInv, Phases
<1>2. /\ DOMAIN hc = HcFields /\ got' \in base .. Len(stream) /\ got' - base <= HeaderCap
      /\ hc.buf = SubSeq(stream, base + 1, got')
  BY <1>1, BufFacts DEF ConnInv
<1> QED BY <1>1, <1>2, ParseStep

LEMMA ReadingStep ==
    ASSUME ConnInv, Reading
    PROVE  Kept
<1>0. pc = "reading" /\ UNCHANGED <<script, stream, peer, recv, base>> /\ hc.phase = "READ"
  BY DEF Reading, ConnInv, Phases
<1>1. ASSUME NEW n \in 1 .. Len(stream) - got, n <= Room(hc), got' = got + n, UNCHANGED armed,
             TryParse([hc EXCEPT !.buf = hc.buf \o SubSeq(stream, got + 1, got + n)], "reading")
      PROVE  Kept
  <2> DEFINE h == [hc EXCEPT !.buf = hc.buf \o SubSeq(stream, got + 1, got + n)]
  <2>1. /\ base \in Nat /\ got \in Nat /\ base <= got /\ got <= Len(stream) /\ Len(hc.buf) = got - base
        /\ Len(stream) \in Nat /\ stream \in Seq(ToSet(stream)) /\ HeaderCap \in Nat
        /\ DOMAIN hc = HcFields /\ hc.buf = SubSeq(stream, base + 1, got)
    BY BufFacts, Times DEF ConnInv
  <2>2. got + n \in Nat /\ got <= got + n /\ got + n <= Len(stream)
    BY <2>1
  <2>3. hc.buf \o SubSeq(stream, got + 1, got + n) = SubSeq(stream, base + 1, got + n)
    BY <2>1, <2>2, PieceJoin
  <2>4. /\ DOMAIN h = HcFields /\ h.phase = hc.phase /\ h.req = hc.req /\ h.keep = hc.keep
        /\ h.ttl = hc.ttl /\ h.n = hc.n /\ h.status = hc.status
        /\ h.buf = SubSeq(stream, base + 1, got')
    BY <1>1, <2>1, <2>3 DEF HcFields
  <2>5. got' \in base .. Len(stream) /\ got' - base <= HeaderCap
    <3>1. n \in Nat /\ n <= HeaderCap - (got - base)
      BY <1>1, <2>1 DEF Room
    <3>2. got + n \in base .. Len(stream) /\ (got + n) - base <= HeaderCap
      BY <2>1, <2>2, <3>1
    <3> QED BY <1>1, <3>2
  <2>6. TryParse(h, "reading")
    BY <1>1
  <2> HIDE DEF h
  <2> QED BY <1>0, <1>1, <2>4, <2>5, <2>6, ParseStep
<1>2. CASE pc' = "wait" /\ armed' = "read" /\ UNCHANGED <<got, hc, arena>>
  <2>1. Phases'
    BY <1>0, <1>2 DEF Phases
  <2>2. peer' \in {"open", "fin", "rst"}
    BY <1>0 DEF ConnInv, TypeOK
  <2> QED BY <1>0, <1>2, <2>1, <2>2, StillStep
<1>3. CASE Close /\ UNCHANGED <<got, arena>>
  BY <1>0, <1>3, CloseStep
<1> QED BY <1>1, <1>2, <1>3 DEF Reading

LEMMA OnWriteStep ==
    ASSUME ConnInv, OnWrite
    PROVE  Kept
<1>0. pc = "onwrite" /\ UNCHANGED <<script, stream, peer, got, arena, base>> /\ hc.phase # "READ"
  BY DEF OnWrite, ConnInv, Phases
<1>1. CASE Close
  BY <1>0, <1>1, CloseStep
<1>2. ASSUME NEW n \in 0 .. Len(hc.left),
             hc' = [hc EXCEPT !.left = Drop(hc.left, n),
                              !.phase = IF hc.phase = "HDR" /\ n > 0 /\ n < Len(hc.left)
                                        THEN "SENDFILE" ELSE hc.phase],
             IF n = Len(hc.left) THEN pc' = "reuse" /\ UNCHANGED armed
             ELSE pc' = "wait" /\ armed' = "write"
      PROVE  Kept
  <2>1. /\ DOMAIN hc = HcFields /\ hc.ttl \in Nat /\ hc.phase \in {"READ", "FIXED", "HDR", "SENDFILE"}
        /\ peer' \in {"open", "fin", "rst"} /\ armed \in {"read", "write", "none"}
    BY <1>0, ConnAssumption DEF ConnInv, TypeOK
  <2>2. /\ DOMAIN hc' = HcFields /\ hc'.buf = hc.buf /\ hc'.req = hc.req /\ hc'.keep = hc.keep
        /\ hc'.status = hc.status /\ hc'.n = hc.n /\ hc'.ttl = hc.ttl
        /\ hc'.phase \in {hc.phase, "SENDFILE"}
    BY <1>2, <2>1 DEF HcFields
  <2>3. hc'.ttl \in 0 .. hc.ttl
    BY <2>1, <2>2
  <2>4. \/ pc' = "reuse" /\ armed' = armed
        \/ pc' = "wait" /\ armed' = "write"
    BY <1>2
  <2>5. hc'.phase \in {"FIXED", "HDR", "SENDFILE"}
    BY <1>0, <2>1, <2>2
  <2>6. Phases'
    BY <2>4, <2>5 DEF Phases
  <2>7. /\ pc' \in {"onread", "reading", "onwrite", "reuse", "parse", "wait", "closed"}
        /\ armed' \in {"read", "write", "none"}
    BY <2>1, <2>4
  <2>8. hc'.phase \in {"READ", "FIXED", "HDR", "SENDFILE"} /\ (hc'.phase = "READ" <=> hc.phase = "READ")
    BY <1>0, <2>5
  <2> QED BY <1>0, <2>1, <2>2, <2>3, <2>6, <2>7, <2>8, SameRequest
<1> QED BY <1>1, <1>2 DEF OnWrite

\* What is kept in the buffer is what follows the request that was answered.
LEMMA ReuseStep ==
    ASSUME ConnInv, Reuse
    PROVE  Kept
<1>0. pc = "reuse" /\ UNCHANGED <<script, stream, peer, got, recv>> /\ hc.phase # "READ"
  BY DEF Reuse, ConnInv, Phases
<1>1. CASE Close /\ UNCHANGED <<arena, base>>
  BY <1>0, <1>1, CloseStep
<1>2. CASE /\ hc.keep /\ base' = base + hc.req.bytes /\ armed' = "read" /\ pc' = "parse"
           /\ hc' = Fresh(Drop(hc.buf, hc.req.bytes), hc.n, KeepTime) /\ arena' = 0
  <2>1. hc.req.v = "request" /\ hc.req = Parse(hc.buf)
    <3>1. hc.req.v = "request"
      BY <1>2 DEF ConnInv, Verdicts
    <3>2. hc.req # NoReq
      BY <3>1 DEF NoReq
    <3> QED BY <3>1, <3>2 DEF ConnInv, Verdicts
  <2>2. /\ hc.buf \in Seq(ToSet(stream)) /\ Len(hc.buf) = got - base
        /\ base \in Nat /\ got \in Nat /\ base <= got /\ got <= Len(stream) /\ got - base <= HeaderCap
        /\ Len(stream) \in Nat /\ stream \in Seq(ToSet(stream)) /\ hc.buf = SubSeq(stream, base + 1, got)
        /\ hc.n \in Nat /\ peer \in {"open", "fin", "rst"}
    BY BufFacts DEF ConnInv, TypeOK
  <2> DEFINE n == hc.req.bytes
  <2>3. n \in 0 .. got - base
    BY <2>1, <2>2, ParseBytes
  <2> HIDE DEF n
  <2>4. Drop(hc.buf, n) = SubSeq(stream, base + n + 1, got)
    <3>1. Drop(SubSeq(stream, base + 1, got), n) = SubSeq(stream, base + n + 1, got)
      BY <2>2, <2>3, PieceDrop
    <3> QED BY <2>2, <3>1
  <2>5. base + n \in Nat /\ base + n <= got /\ got - (base + n) <= HeaderCap
    BY <2>2, <2>3, Times
  <2>6. Len(Drop(hc.buf, n)) = got - (base + n)
    BY <2>2, <2>4, <2>5, PieceFacts
  <2>7. /\ DOMAIN hc' = HcFields /\ hc'.phase = "READ" /\ hc'.buf = Drop(hc.buf, n) /\ hc'.req = NoReq
        /\ hc'.keep = FALSE /\ hc'.status = 0 /\ hc'.ttl = KeepTime /\ hc'.n = hc.n
    BY <1>2 DEF Fresh, HcFields, n
  <2>8. base' = base + n /\ got' = got /\ stream' = stream /\ arena' = 0 /\ peer' = peer
        /\ armed' = "read" /\ pc' = "parse"
    BY <1>0, <1>2 DEF n
  <2>9. TypeOK'
    <3>1. got' \in 0 .. Len(stream') /\ base' \in 0 .. got' /\ arena' \in 0 .. BumpSize
      BY <2>2, <2>5, <2>8, ConnAssumption
    <3>2. Len(hc'.buf) <= HeaderCap
      BY <2>5, <2>6, <2>7
    <3>3. hc'.ttl \in 0 .. ReadTime + SendTime + KeepTime
      BY <2>7, Times
    <3>4. /\ peer' \in {"open", "fin", "rst"} /\ armed' \in {"read", "write", "none"}
          /\ pc' \in {"onread", "reading", "onwrite", "reuse", "parse", "wait", "closed"}
          /\ hc'.phase \in {"READ", "FIXED", "HDR", "SENDFILE"} /\ hc'.keep \in BOOLEAN
      BY <2>2, <2>7, <2>8
    <3> QED BY <3>1, <3>2, <3>3, <3>4 DEF TypeOK
  <2>10. Phases' /\ Verdicts'
    BY <2>7, <2>8 DEF Phases, Verdicts
  <2>11. stream' \in Seq(ToSet(stream')) /\ hc'.buf = SubSeq(stream', base' + 1, got')
    BY <2>2, <2>4, <2>7, <2>8
  <2>12. ConnInv'
    BY <2>2, <2>7, <2>9, <2>10, <2>11 DEF ConnInv
  <2> QED BY <1>0, <2>7, <2>12 DEF Kept
<1> QED BY <1>1, <1>2 DEF Reuse

LEMMA ConnStep == ConnInv /\ [Next]_vars => Kept
<1> SUFFICES ASSUME ConnInv, [Next]_vars PROVE Kept
  OBVIOUS
<1>0. /\ peer \in {"open", "fin", "rst"} /\ armed \in {"read", "write", "none"} /\ Phases
      /\ pc \in {"onread", "reading", "onwrite", "reuse", "parse", "wait", "closed"}
  BY DEF ConnInv, TypeOK
<1>1. CASE ClientLeave
  <2>1. Phases'
    BY <1>0, <1>1 DEF ClientLeave, Phases
  <2> QED BY <1>0, <1>1, <2>1, StillStep DEF ClientLeave
<1>2. CASE EventRead
  <2>1. Phases'
    BY <1>0, <1>2 DEF EventRead, Phases
  <2> QED BY <1>0, <1>2, <2>1, StillStep DEF EventRead
<1>3. CASE EventWrite
  <2>1. CASE pc' = "onwrite" /\ UNCHANGED <<hc, armed>>
    <3>1. Phases'
      BY <1>0, <1>3, <2>1 DEF EventWrite, Phases
    <3> QED BY <1>0, <1>3, <2>1, <3>1, StillStep DEF EventWrite
  <2>2. CASE Close
    BY <1>3, <2>2, CloseStep DEF EventWrite
  <2> QED BY <1>3, <2>1, <2>2 DEF EventWrite
<1>4. CASE Sweep
  BY <1>4, CloseStep DEF Sweep
<1>5. CASE UNCHANGED vars
  <2>1. Phases'
    BY <1>0, <1>5 DEF vars, Phases
  <2> QED BY <1>0, <1>5, <2>1, StillStep DEF vars
<1> QED BY <1>1, <1>2, <1>3, <1>4, <1>5, TickStep, OnReadStep, ReadingStep, OnWriteStep, ReuseStep,
           ReuseParseStep DEF Next, Server, Loop

-----------------------------------------------------------------------------
\* Where the worker is, the phase, the verdict, the arena and the buffer agree
\* (http_conn and its callers), whatever requests the client sends, in whatever pieces.
THEOREM ConnInvariant == Spec => []ConnInv
<1>1. ConnInv /\ [Next]_vars => ConnInv'
  BY ConnStep DEF Kept
<1> QED BY <1>1, InitInv, PTL DEF Spec

\* A deadline is set when a phase begins and not moved by bytes that trickle in or out
\* (http_conn_on_read, http_conn_on_write).
THEOREM DeadlinesStay == Spec => DeadlineFixed
<1>1. ConnInv /\ [Next]_vars =>
        [(hc'.n = hc.n /\ (hc'.phase = "READ" <=> hc.phase = "READ")) => (hc'.ttl <= hc.ttl)]_vars
  BY ConnStep DEF Kept
<1> QED BY <1>1, ConnInvariant, PTL DEF Spec, DeadlineFixed

\* The parser's verdict on part of a header is its verdict on any more of it, whatever
\* follows and however it is cut; only a refusal may be early (http_parse_request).
THEOREM VerdictsAreFinal == Spec => []EarlyVerdictFinal
<1>1. ConnInv => EarlyVerdictFinal
  <2> SUFFICES ASSUME ConnInv, hc.req # NoReq, NEW e \in got .. Len(stream)
               PROVE  \/ Parse(SubSeq(stream, base + 1, e)) = hc.req
                      \/ Parse(SubSeq(stream, base + 1, e)) = Incomplete /\ hc.req = Bad
    BY DEF EarlyVerdictFinal
  <2> DEFINE b == SubSeq(stream, base + 1, got)
             c == SubSeq(stream, base + 1, e)
  <2>1. /\ base \in Nat /\ got \in Nat /\ base <= got /\ got <= Len(stream)
        /\ Len(stream) \in Nat /\ stream \in Seq(ToSet(stream))
    BY BufFacts DEF ConnInv
  <2>2. e \in Nat /\ got <= e /\ e <= Len(stream) /\ base <= e
    BY <2>1
  <2>3. b \in Seq(ToSet(stream)) /\ c \in Seq(ToSet(stream))
    BY <2>1, <2>2, PieceFacts
  <2>4. Grows(b, c)
    BY <2>1, <2>2, PieceGrows
  <2>5. hc.req = Parse(b) /\ Parse(b) # Incomplete
    BY DEF ConnInv, Verdicts
  <2> HIDE DEF b, c
  <2>6. Parse(c) = Parse(b) \/ (Parse(c) = Incomplete /\ Parse(b) = Bad)
    BY <2>3, <2>4, <2>5, ParseGrows
  <2> QED BY <2>5, <2>6 DEF c
<1> QED BY <1>1, ConnInvariant, PTL

\* If the arena holds what one request allocates, no request of a connection is answered
\* 500, the last as little as the first (bump_reset in http_conn_reuse).
THEOREM ArenaIsEnough ==
    ASSUME Fits
    PROVE  Spec => []ArenaSuffices
<1> DEFINE Served == hc.status # 500
<1>1. Init => Served
  BY DEF Init, Fresh
<1>2. ConnInv /\ Served /\ [Next]_vars => Served'
  BY ConnStep DEF Kept
<1>3. ConnInv /\ Served => ArenaSuffices
  BY DEF ConnInv, ArenaSuffices
<1> HIDE DEF Served
<1> QED BY <1>1, <1>2, <1>3, ConnInvariant, PTL DEF Spec
=============================================================================
