-------------------------- MODULE ProxyFlowProofs ---------------------------
(***************************************************************************)
(* Theorems about what flows through the slot of ProxySlot.                *)
(*                                                                         *)
(* A retry of a GET loses a body that was read, so they are proved for     *)
(* clients that send none (Bodyless).  Each layer has an inductive         *)
(* invariant: what of every request the upstreams have (GotInv and         *)
(* RequestInv), how the answer they send is cut between the socket, the    *)
(* buffers and the client (AnswerInv), what the client has (OutInv), and   *)
(* why the server answers in an upstream's place (CauseInv).               *)
(***************************************************************************)
EXTENDS ProxySlotProofs

-----------------------------------------------------------------------------
(* The request as the upstreams have it. *)

\* The units of a request, as an upstream is to have them.
LEMMA UpAt ==
    ASSUME script \in Scripts, NEW id \in DOMAIN script, NEW m \in 1 .. 2 + script[id].body
    PROVE  /\ m <= 2 => UpUnits(id)[m] = Unit("q", id, m)
           /\ m > 2 => UpUnits(id)[m] = Unit("b", id, m - 2)
           /\ UpUnits(id)[m].id = id
<1>1. /\ UpUnits(id)[1] = Unit("q", id, 1) /\ UpUnits(id)[2] = Unit("q", id, 2)
      /\ \A n \in 1 .. script[id].body : UpUnits(id)[2 + n] = Unit("b", id, n)
  BY UpUnitsFacts
<1>2. script[id].body \in Nat
  BY ScriptFacts
<1> DEFINE all == script[id].body
<1> HIDE DEF all
<1>3. CASE m <= 2
  <2>1. m = 1 \/ m = 2
    BY <1>2, <1>3 DEF all
  <2> QED BY <1>1, <1>3, <2>1 DEF Unit
<1>4. CASE m > 2
  <2>1. all \in Nat /\ m \in 1 .. 2 + all
    BY <1>2 DEF all
  <2>2. m - 2 \in 1 .. all /\ 2 + (m - 2) = m
    BY <1>4, <2>1
  <2>3. UpUnits(id)[m] = Unit("b", id, m - 2)
    BY <1>1, <2>2 DEF all
  <2> QED BY <1>4, <2>3 DEF Unit
<1> QED BY <1>2, <1>3, <1>4

\* An upstream that has the first n units at the end of what it has gets the next ones.
LEMMA EndsAdd ==
    ASSUME script \in Scripts, NEW id \in DOMAIN script, NEW s \in Seq(Units), NEW us \in Seq(Units), NEW n \in Nat,
           Ends(s, id, n), \A i \in DOMAIN us : us[i] = UpUnits(id)[n + i]
    PROVE  Ends(s \o us, id, n + Len(us))
<1> DEFINE t == s \o us
           a == Len(s)
           b == Len(us)
<1>1. s \in Seq(Units) /\ us \in Seq(Units)
  OBVIOUS
<1>2. t \in Seq(Units) /\ Len(t) = a + b /\ (\A i \in 1 .. a : t[i] = s[i]) /\ \A i \in 1 .. b : t[a + i] = us[i]
  BY <1>1, CatFacts
<1>3. a \in Nat /\ b \in Nat /\ DOMAIN us = 1 .. b
  BY DomFacts
<1>4. n <= a /\ (\A i \in 1 .. n : s[a - n + i] = UpUnits(id)[i]) /\ \A i \in 1 .. a - n : s[i].id # id
  BY DEF Ends
<1> HIDE DEF t, a, b
<1>5. ASSUME NEW i \in 1 .. n + b PROVE t[Len(t) - (n + b) + i] = UpUnits(id)[i]
  <2>1. CASE i <= n
    <3>1. i \in 1 .. n /\ a - n + i \in 1 .. a /\ Len(t) - (n + b) + i = a - n + i
      BY <1>2, <1>3, <1>4, <2>1
    <3> QED BY <1>2, <1>4, <3>1
  <2>2. CASE i > n
    <3>1. i - n \in 1 .. b /\ Len(t) - (n + b) + i = a + (i - n) /\ n + (i - n) = i
      BY <1>2, <1>3, <1>4, <2>2
    <3>2. us[i - n] = UpUnits(id)[n + (i - n)]
      BY <1>3, <3>1
    <3> QED BY <1>2, <3>1, <3>2
  <2> QED BY <1>3, <2>1, <2>2
<1>6. ASSUME NEW i \in 1 .. Len(t) - (n + b) PROVE t[i].id # id
  <2>1. i \in 1 .. a - n /\ i \in 1 .. a
    BY <1>2, <1>3, <1>4
  <2> QED BY <1>2, <1>4, <2>1
<1>7. n + b <= Len(t)
  BY <1>2, <1>3, <1>4
<1>8. Ends(t, id, n + b)
  BY <1>5, <1>6, <1>7 DEF Ends
<1> QED BY <1>8 DEF t, b

\* Then it has them in one piece.
LEMMA EndsHolds ==
    ASSUME NEW id, NEW s \in Seq(Units), NEW n \in Nat, Ends(s, id, n)
    PROVE  Holds(s, id, n)
<1> DEFINE a == Len(s)
<1>1. a \in Nat /\ DOMAIN s = 1 .. a
  BY DomFacts
<1>2. n <= a /\ (\A i \in 1 .. n : s[a - n + i] = UpUnits(id)[i]) /\ \A i \in 1 .. a - n : s[i].id # id
  BY DEF Ends
<1> HIDE DEF a
<1>3. a - n \in 0 .. a - n
  BY <1>1, <1>2
<1>4. ASSUME NEW i \in DOMAIN s, s[i].id = id PROVE i \in (a - n) + 1 .. (a - n) + n
  <2>1. i \in 1 .. a /\ ~(i \in 1 .. a - n)
    BY <1>1, <1>2, <1>4
  <2> QED BY <1>1, <1>2, <2>1
<1>5. \E at \in 0 .. a - n : /\ \A i \in 1 .. n : s[at + i] = UpUnits(id)[i]
                            /\ \A i \in DOMAIN s : s[i].id = id => i \in at + 1 .. at + n
  BY <1>2, <1>3, <1>4
<1> QED BY <1>5 DEF Holds, a

\* Units of another request leave it as it is.
LEMMA HoldsAdd ==
    ASSUME NEW id, NEW s \in Seq(Units), NEW us \in Seq(Units), NEW n \in Nat, Holds(s, id, n),
           \A i \in DOMAIN us : us[i].id # id
    PROVE  Holds(s \o us, id, n)
<1> DEFINE t == s \o us
           a == Len(s)
           b == Len(us)
<1>1. s \in Seq(Units) /\ us \in Seq(Units)
  OBVIOUS
<1>2. t \in Seq(Units) /\ Len(t) = a + b /\ (\A i \in 1 .. a : t[i] = s[i]) /\ \A i \in 1 .. b : t[a + i] = us[i]
  BY <1>1, CatFacts
<1>3. a \in Nat /\ b \in Nat /\ DOMAIN us = 1 .. b /\ DOMAIN s = 1 .. a /\ DOMAIN t = 1 .. Len(t)
  BY <1>2, DomFacts
<1>4. PICK at \in 0 .. a - n : /\ \A i \in 1 .. n : s[at + i] = UpUnits(id)[i]
                              /\ \A i \in DOMAIN s : s[i].id = id => i \in at + 1 .. at + n
  BY DEF Holds
<1> HIDE DEF t, a, b
<1>5. at \in 0 .. Len(t) - n
  BY <1>2, <1>3
<1>6. ASSUME NEW i \in 1 .. n PROVE t[at + i] = UpUnits(id)[i]
  <2>1. at + i \in 1 .. a
    BY <1>3, <1>4
  <2> QED BY <1>2, <1>4, <2>1
<1>7. ASSUME NEW i \in DOMAIN t, t[i].id = id PROVE i \in at + 1 .. at + n
  <2>1. CASE i <= a
    <3>1. i \in 1 .. a
      BY <1>3, <2>1
    <3> QED BY <1>2, <1>3, <1>4, <1>7, <3>1
  <2>2. CASE i > a
    <3>1. i - a \in 1 .. b /\ a + (i - a) = i
      BY <1>2, <1>3, <2>2
    <3>2. t[i] = us[i - a] /\ us[i - a].id # id
      BY <1>2, <1>3, <3>1
    <3> QED BY <1>7, <3>2
  <2> QED BY <1>2, <1>3, <2>1, <2>2
<1>8. Holds(t, id, n)
  BY <1>5, <1>6, <1>7 DEF Holds
<1> QED BY <1>8 DEF t

\* A step of an exchange sends the next units of the request, if any, and keeps count of them.
Advances(us) ==
    /\ Sent(us) /\ Gone(px, Cur) \in Nat /\ Gone(px, Cur) + Len(us) <= 2 + script[Cur].body
    /\ \A i \in DOMAIN us : us[i] = UpUnits(Cur)[Gone(px, Cur) + i]
    /\ px'.fd # NoUp =>
          px'.fd = px.fd /\ Whole(px', Cur) /\ Gone(px', Cur) = Gone(px, Cur) + Len(us)

\* How much is gone never exceeds the request.
LEMMA GoneFacts ==
    ASSUME SlotInv, px.fd # NoUp, Hand(px, Cur)
    PROVE  /\ Gone(px, Cur) \in Nat /\ Gone(px, Cur) <= 2 + script[Cur].body
           /\ px.phase \in Answering => Gone(px, Cur) = 2 + script[Cur].body
<1> DEFINE all == script[Cur].body
           g == Gone(px, Cur)
           k == Len(px.hdr)
           a == Len(px.buf)
           b == Len(px.body)
           left == px.bodyLeft
<1>1. all \in Nat /\ a \in Nat /\ b \in Nat /\ k \in Nat /\ left \in Nat
  BY HandTypes
<1>2. px.phase = "SEND_REQ" => k \in {1, 2} /\ g = 2 - k
  BY DEF Hand, Gone
<1>3. px.phase = "SEND_BODY" => a + b + left <= all /\ g = 2 + all - left - a - b
  BY DEF Hand, Gone
<1>4. px.phase \notin {"SEND_REQ", "SEND_BODY"} => g = 2 + all
  BY DEF Gone
<1> HIDE DEF all, g, k, a, b, left
<1>5. g \in Nat /\ g <= 2 + all /\ (px.phase \in Answering => g = 2 + all)
  BY <1>1, <1>2, <1>3, <1>4 DEF Answering
<1> QED BY <1>5 DEF g, all

\* A step that sends nothing.
LEMMA AdvanceNone ==
    ASSUME SlotInv, px.fd # NoUp, Hand(px, Cur), Unsent,
           px'.fd # NoUp => px'.fd = px.fd /\ Whole(px', Cur) /\ Gone(px', Cur) = Gone(px, Cur)
    PROVE  Advances(<<>>)
<1>1. Sent(<<>>)
  <2>1. \A c \in UpIds : up[c].got \o <<>> = up[c].got
    BY GotTypes
  <2> QED BY <2>1 DEF Sent, Unsent
<1> DEFINE g == Gone(px, Cur)
           h == Gone(px', Cur)
           all == script[Cur].body
<1>2. g \in Nat /\ g <= 2 + all /\ Len(<<>>) = 0 /\ DOMAIN <<>> = {}
  BY GoneFacts
<1>3. px'.fd # NoUp => px'.fd = px.fd /\ Whole(px', Cur) /\ h = g
  OBVIOUS
<1> HIDE DEF g, h, all
<1>4. g + Len(<<>>) = g
  BY <1>2
<1> QED BY <1>1, <1>2, <1>3, <1>4 DEF Advances, g, h, all

\* A step that leaves the request alone sends nothing.
LEMMA AdvanceContinues ==
    ASSUME SlotInv, px.fd # NoUp, Hand(px, Cur), Whole(px, Cur), Continues
    PROVE  Advances(<<>>)
<1> DEFINE p == px'
           all == script[Cur].body
<1>1. Unsent /\ p.fd = px.fd /\ p.body = px.body /\ p.bodyLeft = px.bodyLeft
  BY DEF Continues, SameBody
<1>2. \/ p.phase = px.phase /\ p.hdr = px.hdr /\ p.buf = px.buf
      \/ px.phase = "SEND_BODY" /\ px.buf = <<>> /\ px.body = <<>> /\ px.bodyLeft = 0 /\ p.phase = "RECV_HDR"
      \/ px.phase \in Answering /\ p.phase \in Answering
  BY DEF Continues
<1>3. all \in Nat
  BY HandTypes
<1> HIDE DEF p
<1>4. Whole(p, Cur) /\ Gone(p, Cur) = Gone(px, Cur)
  <2>1. CASE p.phase = px.phase /\ p.hdr = px.hdr /\ p.buf = px.buf
    BY <1>1, <2>1 DEF Whole, Gone
  <2>2. CASE px.phase = "SEND_BODY" /\ px.buf = <<>> /\ px.body = <<>> /\ px.bodyLeft = 0 /\ p.phase = "RECV_HDR"
    <3>1. Gone(px, Cur) = 2 + all - 0 - Len(<<>>) - Len(<<>>) /\ Gone(p, Cur) = 2 + all /\ Whole(p, Cur)
      BY <2>2 DEF Gone, Whole
    <3>2. 2 + all - 0 - Len(<<>>) - Len(<<>>) = 2 + all
      <4> HIDE DEF all
      <4> QED BY <1>3
    <3> QED BY <3>1, <3>2
  <2>3. CASE px.phase \in Answering /\ p.phase \in Answering
    BY <2>3 DEF Gone, Whole, Answering
  <2> QED BY <1>2, <2>1, <2>2, <2>3
<1> QED BY <1>1, <1>4, AdvanceNone DEF p

\* Nor does a read of the body.
LEMMA AdvanceReads ==
    ASSUME SlotInv, px.fd # NoUp, Hand(px, Cur), ReadsBody
    PROVE  Advances(<<>>)
<1> DEFINE p == px'
           all == script[Cur].body
           left == px.bodyLeft
<1>1. PICK n \in 1 .. Len(client.in) :
          p.fd = px.fd /\ p.phase = "SEND_BODY" /\ p.buf = Take(client.in, n) /\ p.body = px.body /\ p.bodyLeft = left - n
  BY DEF ReadsBody
<1>2. px.phase = "SEND_BODY" /\ px.buf = <<>> /\ px.body = <<>> /\ Unsent
  BY DEF ReadsBody
<1>3. all \in Nat /\ left \in Nat /\ client.in \in Seq(Units)
  BY HandTypes DEF SlotInv, Typed, ClientRecords
<1>4. Len(Take(client.in, n)) = n /\ n \in Nat
  BY <1>3, TakeFacts
<1> HIDE DEF p
<1>5. Whole(p, Cur)
  BY <1>1 DEF Whole
<1>6. Gone(px, Cur) = 2 + all - left - Len(<<>>) - Len(<<>>)
  BY <1>2 DEF Gone
<1>7. Gone(p, Cur) = 2 + all - (left - n) - n - Len(<<>>)
  BY <1>1, <1>2, <1>4 DEF Gone
<1>8. Gone(p, Cur) = Gone(px, Cur)
  <2> HIDE DEF all, left
  <2>1. 2 + all - (left - n) - n - Len(<<>>) = 2 + all - left - Len(<<>>) - Len(<<>>)
    BY <1>3, <1>4
  <2> QED BY <1>6, <1>7, <2>1
<1> QED BY <1>1, <1>2, <1>5, <1>8, AdvanceNone DEF p

\* The units at hand of a body are the ones that come next.
LEMMA NextPieces ==
    ASSUME script \in Scripts, NEW id \in DOMAIN script, NEW s \in Seq(Units), NEW left \in Nat, Pieces(s, id, left),
           Len(s) + left <= script[id].body, NEW n \in 0 .. Len(s), NEW g, g = 2 + script[id].body - left - Len(s)
    PROVE  /\ Take(s, n) \in Seq(Units) /\ Len(Take(s, n)) = n
           /\ \A i \in DOMAIN Take(s, n) : Take(s, n)[i] = UpUnits(id)[g + i]
<1> DEFINE t == Take(s, n)
           all == script[id].body
           m == Len(s)
<1>1. t \in Seq(Units) /\ Len(t) = n /\ \A i \in 1 .. n : t[i] = s[i]
  BY TakeFacts
<1>2. DOMAIN t = 1 .. n /\ DOMAIN s = 1 .. m /\ m \in Nat /\ all \in Nat
  BY <1>1, DomFacts, ScriptFacts
<1>3. \A k \in 1 .. 2 + all : k > 2 => UpUnits(id)[k] = Unit("b", id, k - 2)
  BY UpAt
<1>4. \A i \in DOMAIN s : s[i] = Unit("b", id, all - left - m + i)
  BY DEF Pieces
<1>5. m + left <= all /\ g = 2 + all - left - m
  OBVIOUS
<1> HIDE DEF t, all, m
<1>6. ASSUME NEW i \in DOMAIN t PROVE t[i] = UpUnits(id)[g + i]
  <2>1. i \in 1 .. n /\ i \in 1 .. m
    BY <1>2, <1>6
  <2>2. g + i \in 1 .. 2 + all /\ g + i > 2 /\ (g + i) - 2 = all - left - m + i
    BY <1>2, <1>5, <2>1
  <2>3. UpUnits(id)[g + i] = Unit("b", id, (g + i) - 2)
    BY <1>3, <2>2
  <2> QED BY <1>1, <1>2, <1>4, <2>1, <2>2, <2>3
<1> QED BY <1>1, <1>6 DEF t

\* A send of the next units of the request.
LEMMA AdvanceSends ==
    ASSUME SlotInv, px.fd # NoUp, NEW us \in Seq(Units), Sent(us), Gone(px, Cur) \in Nat,
           Gone(px, Cur) + Len(us) <= 2 + script[Cur].body,
           \A i \in DOMAIN us : us[i] = UpUnits(Cur)[Gone(px, Cur) + i],
           px'.fd # NoUp => px'.fd = px.fd /\ Whole(px', Cur) /\ Gone(px', Cur) = Gone(px, Cur) + Len(us)
    PROVE  Advances(us)
  BY DEF Advances

\* A piece of the body is the next units.
LEMMA AdvanceSendsBody ==
    ASSUME SlotInv, px.fd # NoUp, Hand(px, Cur), SendsBody
    PROVE  \E us \in Seq(Units) : Advances(us)
<1> DEFINE p == px'
           all == script[Cur].body
           left == px.bodyLeft
           a == Len(px.buf)
           b == Len(px.body)
           g == Gone(px, Cur)
<1>1. /\ px.phase = "SEND_BODY" /\ (px.buf = <<>> \/ px.body = <<>>)
      /\ Pieces(px.buf, Cur, left) /\ Pieces(px.body, Cur, left) /\ a + b + left <= all
  BY DEF Hand, SendsBody
<1>2. /\ px.buf \in Seq(Units) /\ px.body \in Seq(Units) /\ left \in Nat /\ script \in Scripts
      /\ Cur \in DOMAIN script /\ a \in Nat /\ b \in Nat /\ all \in Nat
  BY HandTypes
<1>3. g = 2 + all - left - a - b
  BY <1>1 DEF Gone
<1>4. g \in Nat /\ g <= 2 + all
  BY GoneFacts
<1>5. (px.buf = <<>> => a = 0) /\ (px.body = <<>> => b = 0)
  OBVIOUS
<1>6. CASE \E n \in 0 .. Len(px.buf) :
             /\ px.buf # <<>> /\ Sent(Take(px.buf, n))
             /\ \/ px'.fd = NoUp
                \/ px'.fd = px.fd /\ px'.phase = "SEND_BODY" /\ px'.buf = Drop(px.buf, n) /\ SameBody
  <2>1. PICK n \in 0 .. a :
             /\ px.buf # <<>> /\ Sent(Take(px.buf, n))
             /\ \/ p.fd = NoUp
                \/ /\ p.fd = px.fd /\ p.phase = "SEND_BODY" /\ p.buf = Drop(px.buf, n)
                   /\ p.body = px.body /\ p.bodyLeft = left
    BY <1>6 DEF SameBody
  <2> DEFINE us == Take(px.buf, n)
             t == Drop(px.buf, n)
  <2>2. b = 0
    BY <1>1, <1>5, <2>1
  <2>3. a + left <= all /\ g = 2 + all - left - a
    <3> HIDE DEF all, left, a, b, g
    <3> QED BY <1>1, <1>2, <1>3, <2>2
  <2>4. us \in Seq(Units) /\ Len(us) = n /\ \A i \in DOMAIN us : us[i] = UpUnits(Cur)[g + i]
    <3> DEFINE s == px.buf
    <3>1. /\ script \in Scripts /\ Cur \in DOMAIN script /\ s \in Seq(Units) /\ left \in Nat /\ Pieces(s, Cur, left)
          /\ Len(s) + left <= script[Cur].body /\ n \in 0 .. Len(s) /\ g = 2 + script[Cur].body - left - Len(s)
      BY <1>1, <1>2, <2>3
    <3> HIDE DEF g, s, left
    <3>2. Take(s, n) \in Seq(Units) /\ Len(Take(s, n)) = n /\ \A i \in DOMAIN Take(s, n) : Take(s, n)[i] = UpUnits(Cur)[g + i]
      BY <3>1, NextPieces
    <3> QED BY <3>2 DEF s
  <2>5. Len(t) = a - n
    BY <1>2, DropFacts
  <2>6. p.fd # NoUp => p.fd = px.fd /\ Whole(p, Cur) /\ Gone(p, Cur) = 2 + all - left - Len(t) - b
    <3> HIDE DEF p
    <3> QED BY <2>1 DEF Whole, Gone
  <2>7. g + Len(us) <= 2 + all /\ 2 + all - left - Len(t) - b = g + Len(us)
    <3> HIDE DEF all, left, a, b, g, us, t
    <3> QED BY <1>2, <2>2, <2>3, <2>4, <2>5
  <2>8. Sent(us)
    BY <2>1
  <2> HIDE DEF us, t
  <2> QED BY <1>4, <2>4, <2>6, <2>7, <2>8, AdvanceSends
<1>7. CASE \E n \in 0 .. Len(px.body) :
             /\ px.buf = <<>> /\ Sent(Take(px.body, n))
             /\ \/ px'.fd = NoUp
                \/ /\ px'.fd = px.fd /\ px'.phase = "SEND_BODY" /\ px'.buf = px.buf
                   /\ px'.body = Drop(px.body, n) /\ px'.bodyLeft = px.bodyLeft
  <2>1. PICK n \in 0 .. b :
             /\ px.buf = <<>> /\ Sent(Take(px.body, n))
             /\ \/ p.fd = NoUp
                \/ /\ p.fd = px.fd /\ p.phase = "SEND_BODY" /\ p.buf = px.buf
                   /\ p.body = Drop(px.body, n) /\ p.bodyLeft = left
    BY <1>7
  <2> DEFINE us == Take(px.body, n)
             t == Drop(px.body, n)
  <2>2. a = 0
    BY <1>5, <2>1
  <2>3. b + left <= all /\ g = 2 + all - left - b
    <3> HIDE DEF all, left, a, b, g
    <3> QED BY <1>1, <1>2, <1>3, <2>2
  <2>4. us \in Seq(Units) /\ Len(us) = n /\ \A i \in DOMAIN us : us[i] = UpUnits(Cur)[g + i]
    <3> DEFINE s == px.body
    <3>1. /\ script \in Scripts /\ Cur \in DOMAIN script /\ s \in Seq(Units) /\ left \in Nat /\ Pieces(s, Cur, left)
          /\ Len(s) + left <= script[Cur].body /\ n \in 0 .. Len(s) /\ g = 2 + script[Cur].body - left - Len(s)
      BY <1>1, <1>2, <2>3
    <3> HIDE DEF g, s, left
    <3>2. Take(s, n) \in Seq(Units) /\ Len(Take(s, n)) = n /\ \A i \in DOMAIN Take(s, n) : Take(s, n)[i] = UpUnits(Cur)[g + i]
      BY <3>1, NextPieces
    <3> QED BY <3>2 DEF s
  <2>5. Len(t) = b - n
    BY <1>2, DropFacts
  <2>6. p.fd # NoUp => p.fd = px.fd /\ Whole(p, Cur) /\ Gone(p, Cur) = 2 + all - left - a - Len(t)
    <3> HIDE DEF p
    <3> QED BY <2>1 DEF Whole, Gone
  <2>7. g + Len(us) <= 2 + all /\ 2 + all - left - a - Len(t) = g + Len(us)
    <3> HIDE DEF all, left, a, b, g, us, t
    <3> QED BY <1>2, <2>2, <2>3, <2>4, <2>5
  <2>8. Sent(us)
    BY <2>1
  <2> HIDE DEF us, t
  <2> QED BY <1>4, <2>4, <2>6, <2>7, <2>8, AdvanceSends
<1> QED BY <1>6, <1>7 DEF SendsBody

\* A piece of the header is the next units.
LEMMA AdvanceSendsHdr ==
    ASSUME SlotInv, px.fd # NoUp, Hand(px, Cur), Whole(px, Cur), SendsHdr
    PROVE  \E us \in Seq(Units) : Advances(us)
<1> DEFINE p == px'
           hdr == px.hdr
           all == script[Cur].body
           left == px.bodyLeft
           k == Len(px.hdr)
           b == Len(px.body)
           g == Gone(px, Cur)
<1>1. /\ px.phase = "SEND_REQ" /\ k \in {1, 2} /\ \A i \in DOMAIN hdr : hdr[i] = Unit("q", Cur, 2 - k + i)
  BY DEF Hand, SendsHdr
<1>2. b + left = all
  BY <1>1 DEF Whole
<1>3. /\ hdr \in Seq(Units) /\ px.body \in Seq(Units) /\ left \in Nat /\ script \in Scripts
      /\ Cur \in DOMAIN script /\ b \in Nat /\ all \in Nat
  BY HandTypes
<1>4. g = 2 - k /\ g \in Nat
  BY <1>1, GoneFacts DEF Gone
<1>5. PICK n \in 0 .. k :
          /\ Sent(Take(hdr, n))
          /\ \/ p.fd = NoUp
             \/ /\ p.fd = px.fd /\ p.hdr = Drop(hdr, n) /\ p.body = px.body /\ p.bodyLeft = left
                /\ \/ n < k /\ p.phase = "SEND_REQ" /\ p.buf = px.buf
                   \/ /\ n = k /\ p.buf = <<>>
                      /\ p.phase = IF BodyPending(px) THEN "SEND_BODY" ELSE "RECV_HDR"
  BY DEF SendsHdr, SameBody
<1> DEFINE us == Take(hdr, n)
           t == Drop(hdr, n)
<1>6. us \in Seq(Units) /\ Len(us) = n /\ \A i \in 1 .. n : us[i] = hdr[i]
  BY <1>3, TakeFacts
<1>7. DOMAIN us = 1 .. n /\ DOMAIN hdr = 1 .. k
  BY <1>3, <1>6, DomFacts
<1>8. Len(t) = k - n
  BY <1>3, DropFacts
<1>9. BodyPending(px) \/ (b = 0 /\ left = 0)
  BY <1>3 DEF BodyPending
<1> HIDE DEF us, t, hdr, p
<1>10. ASSUME NEW i \in DOMAIN us PROVE us[i] = UpUnits(Cur)[g + i]
  <2> HIDE DEF k, g, all
  <2>1. i \in 1 .. n /\ i \in DOMAIN hdr /\ i \in 1 .. k
    BY <1>1, <1>7, <1>10
  <2>2. g + i \in 1 .. 2 + all /\ g + i <= 2 /\ 2 - k + i = g + i
    BY <1>1, <1>3, <1>4, <2>1
  <2>3. UpUnits(Cur)[g + i] = Unit("q", Cur, g + i)
    BY <1>3, <2>2, UpAt DEF all
  <2> QED BY <1>1, <1>6, <2>1, <2>2, <2>3
<1>11. g + Len(us) <= 2 + all /\ (n = k => g + Len(us) = 2) /\ 2 - Len(t) = g + Len(us)
  <2> HIDE DEF k, g, all
  <2> QED BY <1>1, <1>3, <1>4, <1>6, <1>8
<1>12. p.fd # NoUp => p.fd = px.fd /\ Whole(p, Cur) /\ Gone(p, Cur) = g + Len(us)
  <2> SUFFICES ASSUME p.fd # NoUp
               PROVE  p.fd = px.fd /\ Whole(p, Cur) /\ Gone(p, Cur) = g + Len(us)
    OBVIOUS
  <2>1. /\ p.fd = px.fd /\ p.hdr = t /\ p.body = px.body /\ p.bodyLeft = left
        /\ \/ n < k /\ p.phase = "SEND_REQ" /\ p.buf = px.buf
           \/ /\ n = k /\ p.buf = <<>>
              /\ p.phase = IF BodyPending(px) THEN "SEND_BODY" ELSE "RECV_HDR"
    BY <1>5 DEF t
  <2>2. CASE p.phase = "SEND_REQ"
    <3>1. Gone(p, Cur) = 2 - Len(t) /\ Whole(p, Cur)
      BY <1>2, <2>1, <2>2 DEF Gone, Whole
    <3> QED BY <1>11, <2>1, <3>1
  <2>3. CASE n = k /\ p.buf = <<>> /\ p.phase = "SEND_BODY"
    <3>1. Gone(p, Cur) = 2 + all - left - Len(<<>>) - b /\ Whole(p, Cur)
      BY <2>1, <2>3 DEF Gone, Whole
    <3>2. 2 + all - left - Len(<<>>) - b = 2
      <4> HIDE DEF all, left, b
      <4> QED BY <1>2, <1>3
    <3> QED BY <1>11, <2>1, <2>3, <3>1, <3>2
  <2>4. CASE n = k /\ ~BodyPending(px) /\ p.phase = "RECV_HDR"
    <3>1. Gone(p, Cur) = 2 + all /\ Whole(p, Cur)
      BY <2>4 DEF Gone, Whole
    <3>2. 2 + all = 2
      <4> HIDE DEF all, left, b
      <4> QED BY <1>2, <1>3, <1>9, <2>4
    <3> QED BY <1>11, <2>1, <2>4, <3>1, <3>2
  <2> QED BY <2>1, <2>2, <2>3, <2>4
<1>13. Sent(us)
  BY <1>5 DEF us
<1> QED BY <1>4, <1>6, <1>10, <1>11, <1>12, <1>13, AdvanceSends DEF p

\* What a request is does not change.
LEMMA SameRequest ==
    ASSUME script' = script, NEW s, NEW id, NEW n, NEW p
    PROVE  /\ Holds(s, id, n)' <=> Holds(s, id, n)
           /\ Ends(s, id, n)' <=> Ends(s, id, n)
           /\ Gone(p, id)' = Gone(p, id)
           /\ Whole(p, id)' <=> Whole(p, id)
           /\ UpUnits(id)' = UpUnits(id)
<1>1. \A x : UpUnits(x)' = UpUnits(x)
  BY DEF UpUnits
<1>2. Holds(s, id, n)' <=> Holds(s, id, n)
  BY <1>1 DEF Holds
<1>3. Ends(s, id, n)' <=> Ends(s, id, n)
  BY <1>1 DEF Ends
<1>4. Gone(p, id)' = Gone(p, id)
  BY DEF Gone
<1>5. Whole(p, id)' <=> Whole(p, id)
  BY DEF Whole
<1> QED BY <1>1, <1>2, <1>3, <1>4, <1>5

\* Every upstream has a beginning of every request, got being what it has.
Orderly(got) == \A c \in UpIds : \A id \in DOMAIN script : \E n \in 0 .. Len(UpUnits(id)) : Holds(got[c], id, n)

\* RequestInv after a step, from the parts it is about.
LEMMA RequestNow ==
    ASSUME script' = script, NEW got, \A c \in UpIds : up'[c].got = got[c], NEW p, px' = p, NEW id, Cur' = id,
           p.fd \in UpIds \cup {NoUp}, Orderly(got),
           p.fd # NoUp => Whole(p, id) /\ Ends(got[p.fd], id, Gone(p, id))
    PROVE  RequestInv'
<1>1. \A s, n, x : Holds(s, x, n)' <=> Holds(s, x, n)
  BY SameRequest
<1>2. \A x : UpUnits(x)' = UpUnits(x)
  BY SameRequest
<1>3. ASSUME NEW c \in UpIds, NEW x \in DOMAIN script
      PROVE  \E n \in 0 .. Len(UpUnits(x)') : Holds(got[c], x, n)'
  BY <1>1, <1>2, <1>3 DEF Orderly
<1>4. (\A c \in UpIds : \A x \in DOMAIN script : \E n \in 0 .. Len(UpUnits(x)) : Carries(c, x, n))'
  <2>1. ASSUME NEW c \in UpIds, NEW x \in DOMAIN script
        PROVE  \E n \in 0 .. Len(UpUnits(x)') : Carries(c, x, n)'
    <3>1. \A n : Carries(c, x, n)' <=> Holds(got[c], x, n)'
      BY DEF Carries, Holds
    <3> QED BY <1>3, <3>1
  <2> QED BY <2>1
<1>5. p.fd # NoUp => Whole(p, id)' /\ Ends(got[p.fd], id, Gone(p, id))'
  <2>1. (Whole(p, id)' <=> Whole(p, id)) /\ Gone(p, id)' = Gone(p, id)
    BY SameRequest
  <2> QED BY <1>2, <2>1 DEF Ends
<1>6. SentInv'
  <2>1. p.fd # NoUp => up'[p.fd].got = got[p.fd]
    OBVIOUS
  <2> QED BY <1>5, <2>1 DEF SentInv
<1> QED BY <1>4, <1>6 DEF RequestInv

\* Sending the next units of the request keeps RequestInv.
LEMMA RequestAdvances ==
    ASSUME SlotInv, px.fd # NoUp, script' = script, hc'.buf = hc.buf, RequestInv, NEW us \in Seq(Units), Advances(us)
    PROVE  RequestInv'
<1> DEFINE f == px.fd
           s == up[f].got
           t == s \o us
           g == Gone(px, Cur)
           all == script[Cur].body
<1>1. f \in UpIds /\ script \in Scripts /\ Cur \in DOMAIN script /\ all \in Nat /\ Cur' = Cur
  BY SlotFacts, HandTypes DEF Cur
<1>2. s \in Seq(Units) /\ us \in Seq(Units)
  BY <1>1, GotTypes
<1>3. /\ g \in Nat /\ g + Len(us) <= 2 + all /\ (\A i \in DOMAIN us : us[i] = UpUnits(Cur)[g + i])
      /\ \A c \in UpIds : up'[c].got = IF c = f THEN t ELSE up[c].got
      /\ px'.fd # NoUp => px'.fd = f /\ Whole(px', Cur) /\ Gone(px', Cur) = g + Len(us)
  BY DEF Advances, Sent
<1>4. Ends(s, Cur, g)
  BY DEF RequestInv, SentInv
<1>5. \A c \in UpIds : \A id \in DOMAIN script : \E n \in 0 .. Len(UpUnits(id)) : Holds(up[c].got, id, n)
  BY DEF RequestInv, Carries
<1>6. \A id \in DOMAIN script : Len(UpUnits(id)) \in Nat
  BY <1>1, UpUnitsFacts, ScriptFacts
<1>7. Len(us) \in Nat /\ DOMAIN us = 1 .. Len(us)
  BY DomFacts
<1>8. t \in Seq(Units)
  BY <1>2, CatFacts
<1> HIDE DEF g, s
<1>9. Ends(t, Cur, g + Len(us)) /\ g + Len(us) \in Nat
  <2>1. Ends(t, Cur, g + Len(us))
    BY <1>1, <1>2, <1>3, <1>4, EndsAdd
  <2> QED BY <1>3, <1>7, <2>1
<1>10. ASSUME NEW i \in DOMAIN us PROVE us[i].id = Cur
  <2>1. g + i \in 1 .. 2 + all
    <3> HIDE DEF all
    <3> QED BY <1>1, <1>3, <1>7, <1>10
  <2> QED BY <1>1, <1>3, <2>1, UpAt
<1>11. ASSUME NEW id \in DOMAIN script PROVE \E n \in 0 .. Len(UpUnits(id)) : Holds(t, id, n)
  <2>1. CASE id = Cur
    <3>1. Holds(t, Cur, g + Len(us))
      <4> HIDE DEF t
      <4> QED BY <1>8, <1>9, EndsHolds
    <3>2. g + Len(us) \in 0 .. Len(UpUnits(Cur))
      <4>1. Len(UpUnits(Cur)) = 2 + all
        BY <1>1, UpUnitsFacts
      <4> HIDE DEF all
      <4> QED BY <1>1, <1>3, <1>9, <4>1
    <3> QED BY <2>1, <3>1, <3>2
  <2>2. CASE id # Cur
    <3>1. PICK n \in 0 .. Len(UpUnits(id)) : Holds(s, id, n)
      BY <1>1, <1>5, <1>11 DEF s
    <3>2. n \in Nat
      BY <1>6, <3>1
    <3>3. \A i \in DOMAIN us : us[i].id # id
      BY <1>10, <2>2
    <3>4. Holds(t, id, n)
      BY <1>2, <3>1, <3>2, <3>3, HoldsAdd
    <3> QED BY <3>4
  <2> QED BY <2>1, <2>2
<1> HIDE DEF t
<1> DEFINE got == [c \in UpIds |-> IF c = f THEN t ELSE up[c].got]
<1>12. (\A c \in UpIds : up'[c].got = got[c]) /\ got[f] = t
  BY <1>1, <1>3
<1>13. Orderly(got)
  <2>1. ASSUME NEW c \in UpIds, NEW id \in DOMAIN script PROVE \E n \in 0 .. Len(UpUnits(id)) : Holds(got[c], id, n)
    BY <1>5, <1>11
  <2> QED BY <2>1 DEF Orderly
<1> DEFINE p == px'
           id == Cur
<1>14. p.fd \in UpIds \cup {NoUp} /\ (p.fd # NoUp => Whole(p, id) /\ Ends(got[p.fd], id, Gone(p, id)))
  <2> HIDE DEF got, f
  <2> QED BY <1>1, <1>3, <1>9, <1>12
<1>15. px' = p /\ Cur' = id
  BY <1>1
<1> HIDE DEF got, p, id
<1> QED BY <1>12, <1>13, <1>14, <1>15, RequestNow

\* The socket is replaced before anything of the request is gone, or with a request that has no body.
LEMMA RequestRestarts ==
    ASSUME Bodyless, SlotInv, px.fd # NoUp, script' = script, hc'.buf = hc.buf, Hand(px, Cur), RequestInv, Restarts
    PROVE  RequestInv'
<1> DEFINE p == px'
           id == Cur
           all == script[Cur].body
           t == Take(UpUnits(Cur), 2)
           got == [c \in UpIds |-> up[c].got]
<1>1. /\ p.fd \in UpIds /\ p.phase = "SEND_REQ" /\ p.hdr = t /\ p.body = px.body /\ p.bodyLeft = px.bodyLeft
      /\ up[p.fd].got = <<>> /\ Unsent /\ (px.phase = "SEND_REQ" \/ (px.phase = "RECV_HDR" /\ MayRetry(px)))
  BY DEF Restarts, SameBody
<1>2. script \in Scripts /\ Cur \in DOMAIN script /\ all \in Nat
  BY HandTypes
<1>3. Len(t) = 2
  BY <1>2, HeadUnits
<1>4. Len(px.body) + px.bodyLeft = all
  <2>1. CASE px.phase = "SEND_REQ"
    BY <2>1 DEF RequestInv, SentInv, Whole
  <2>2. CASE px.phase = "RECV_HDR" /\ MayRetry(px)
    <3>1. px.body = <<>> /\ px.bodyLeft = 0
      BY <2>2 DEF Hand
    <3>2. all = 0
      BY <1>2, <2>2 DEF MayRetry, Bodyless, Req
    <3> QED BY <3>1, <3>2
  <2> QED BY <1>1, <2>1, <2>2
<1>5. (\A c \in UpIds : up'[c].got = got[c]) /\ px' = p /\ Cur' = id /\ got[p.fd] = <<>>
  BY <1>1 DEF Unsent, Cur
<1>6. Orderly(got)
  BY DEF RequestInv, Carries, Orderly
<1>7. Ends(<<>>, id, 0)
  BY DEF Ends
<1> HIDE DEF p, id, got, t
<1>8. Whole(p, id) /\ Gone(p, id) = 0
  BY <1>1, <1>3, <1>4 DEF Whole, Gone, id
<1> QED BY <1>1, <1>5, <1>6, <1>7, <1>8, RequestNow

\* A step of an exchange sends the next units of the request, or starts it again on a new socket.
LEMMA AdvanceStep ==
    ASSUME SlotInv, px.fd # NoUp, Hand(px, Cur), Whole(px, Cur), RequestStep
    PROVE  (\E us \in Seq(Units) : Advances(us)) \/ Restarts
<1>1. <<>> \in Seq(Units)
  OBVIOUS
<1>2. CASE Ceases
  <2>1. Advances(<<>>)
    BY <1>2, AdvanceNone DEF Ceases
  <2> QED BY <1>1, <2>1
<1>3. CASE Continues
  BY <1>1, <1>3, AdvanceContinues
<1>4. CASE ReadsBody
  BY <1>1, <1>4, AdvanceReads
<1> QED BY <1>2, <1>3, <1>4, AdvanceSendsHdr, AdvanceSendsBody DEF RequestStep

\* Every turn of the pump keeps RequestInv.
LEMMA RequestStepKeeps ==
    ASSUME Bodyless, SlotInv, HandInv, px.fd # NoUp, RequestInv, RequestStep
    PROVE  RequestInv'
<1>1. Hand(px, Cur) /\ Whole(px, Cur) /\ script' = script /\ hc'.buf = hc.buf
  BY DEF HandInv, RequestInv, SentInv, RequestStep
<1> QED BY <1>1, AdvanceStep, RequestAdvances, RequestRestarts

\* What the upstreams have stays as it is, and no exchange begins.
LEMMA RequestStays ==
    ASSUME SlotInv, RequestInv, script' = script, Unsent,
           px'.fd = NoUp \/ (px' = px /\ hc' = hc)
    PROVE  RequestInv'
<1> DEFINE p == px'
           id == Cur'
           got == [c \in UpIds |-> up[c].got]
<1>1. (\A c \in UpIds : up'[c].got = got[c]) /\ px' = p /\ Cur' = id
  BY DEF Unsent
<1>2. Orderly(got)
  BY DEF RequestInv, Carries, Orderly
<1>3. p.fd \in UpIds \cup {NoUp} /\ (p.fd # NoUp => p = px /\ p.fd \in UpIds /\ id = Cur)
  BY SlotFacts DEF Cur, SlotInv, TypeOK
<1>4. px.fd # NoUp => Whole(px, Cur) /\ Ends(up[px.fd].got, Cur, Gone(px, Cur))
  BY DEF RequestInv, SentInv
<1>5. p.fd # NoUp => Whole(p, id) /\ Ends(got[p.fd], id, Gone(p, id))
  BY <1>3, <1>4
<1> HIDE DEF p, id, got
<1> QED BY <1>1, <1>2, <1>3, <1>5, RequestNow

\* No upstream has anything of the request id or a later one; of a later one.
Before(id) == \A c \in UpIds : \A i \in DOMAIN up[c].got : up[c].got[i].id < id
UpTo(id) == \A c \in UpIds : \A i \in DOMAIN up[c].got : up[c].got[i].id <= id

\* A request begins: nothing of it has been sent to any upstream.
LEMMA RequestBegins ==
    ASSUME SlotInv, px.fd = NoUp, RequestInv, script' = script, NEW h \in HcRecords, h.buf # <<>>, NEW d \in UpIds, Begins(h, d),
           Before(h.buf[1].id)
    PROVE  RequestInv'
<1> DEFINE p == px'
           id == h.buf[1].id
           t == Take(UpUnits(id), 2)
           got == [c \in UpIds |-> up[c].got]
<1>1. script \in Scripts
  BY DEF SlotInv, Typed
<1>2. PICK old \in BOOLEAN : p = Fresh(h, d, old)
  BY DEF Begins
<1>3. /\ p.fd = d /\ p.phase = "SEND_REQ" /\ p.hdr = t /\ p.body = SubSeq(h.buf, 2, Have(h) + 1)
      /\ p.bodyLeft = script[id].body - Have(h)
  BY <1>1, <1>2, FreshFacts
<1>4. id \in DOMAIN script /\ Len(SubSeq(h.buf, 2, Have(h) + 1)) = Have(h) /\ Have(h) \in Nat /\ script[id].body \in Nat
  BY <1>1, HaveFacts
<1>5. Len(t) = 2
  BY <1>1, <1>4, HeadUnits
<1>6. hc'.buf = h.buf
  BY DEF Begins, HcRecords
<1>7. px' = p /\ Cur' = id /\ (\A c \in UpIds : up'[c].got = got[c])
  <2>1. up'[d].got = up[d].got /\ \A e \in UpIds : e # d => up'[e] = up[e]
    BY BegunUp
  <2>2. Cur' = id
    BY <1>6 DEF Cur
  <2>3. \A e \in UpIds : up'[e].got = up[e].got
    BY <2>1
  <2> QED BY <2>2, <2>3
<1>8. Orderly(got)
  BY DEF RequestInv, Carries, Orderly
<1>9. Ends(got[d], id, 0)
  <2>1. Len(up[d].got) \in Nat /\ DOMAIN up[d].got = 1 .. Len(up[d].got)
    BY GotTypes
  <2>2. \A i \in DOMAIN up[d].got : up[d].got[i].id # id
    <3>1. ASSUME NEW i \in DOMAIN up[d].got PROVE up[d].got[i].id # id
      <4>1. up[d].got[i].id < id /\ up[d].got[i].id \in DOMAIN script
        BY <3>1, GotTypes DEF Before
      <4>2. up[d].got[i].id \in Nat /\ id \in Nat
        BY <1>1, <1>4, <4>1, ScriptFacts
      <4> QED BY <4>1, <4>2
    <3> QED BY <3>1
  <2> DEFINE s == up[d].got
  <2>3. got[d] = s
    OBVIOUS
  <2> HIDE DEF got, s, id
  <2>4. 0 <= Len(s) /\ 1 .. Len(s) - 0 = DOMAIN s /\ 1 .. 0 = {}
    BY <2>1 DEF s
  <2>5. Ends(s, id, 0)
    BY <2>2, <2>4 DEF Ends, s
  <2> QED BY <2>3, <2>5
<1> HIDE DEF p, got, t
<1>10. Gone(p, id) = 0
  BY <1>3, <1>5 DEF Gone
<1>11. Whole(p, id)
  <2> DEFINE all == script[id].body
             have == Have(h)
  <2>1. Len(p.body) = have /\ p.bodyLeft = all - have /\ all \in Nat /\ have \in Nat
    BY <1>3, <1>4
  <2> HIDE DEF all, have
  <2>2. Len(p.body) + p.bodyLeft = all
    BY <2>1
  <2> QED BY <2>2 DEF Whole, all
<1> HIDE DEF id
<1> QED BY <1>3, <1>7, <1>8, <1>9, <1>10, <1>11, RequestNow

\* A request that no upstream has anything of begins well.
LEMMA RequestDispatch ==
    ASSUME SlotInv, px.fd = NoUp, RequestInv, script' = script, NEW h \in HcRecords, h.buf # <<>>, Dispatch(h),
           script[h.buf[1].id].target # "long" => Before(h.buf[1].id)
    PROVE  RequestInv' /\ hc'.buf = h.buf
<1>1. ASSUME NEW g, NEW io, g.buf = h.buf, Idles(g, io) PROVE RequestInv' /\ hc'.buf = h.buf
  <2>1. Unsent /\ hc'.buf = h.buf /\ px'.fd = NoUp
    BY <1>1, ResetFacts DEF Idles, Unsent
  <2> QED BY <2>1, RequestStays
<1>2. ASSUME script[h.buf[1].id].target # "long", NEW d \in UpIds, Begins(h, d)
      PROVE  RequestInv' /\ hc'.buf = h.buf
  <2>1. RequestInv'
    BY <1>2, RequestBegins
  <2>2. hc'.buf = h.buf
    BY <1>2 DEF Begins, HcRecords
  <2> QED BY <2>1, <2>2
<1>3. Static(h).buf = h.buf /\ ArmFixed(h).buf = h.buf
  BY DEF Static, ArmFixed, HcRecords
<1>4. ArmFixed(Excused(h)).buf = h.buf
  BY ExcusedFacts, ArmFacts
<1> QED BY <1>1, <1>2, <1>3, <1>4, DispatchEffect

\* The requests that the upstreams have, after a read or a dispatch.
LEMMA GotKept ==
    ASSUME GotInv, Unsent, hc'.buf = hc.buf,
           hc.buf = <<>> /\ client'.st # "rst" => client.st # "rst" /\ Unread(client') = Unread(client)
    PROVE  GotInv'
<1>1. \A c \in UpIds : up'[c].got = up[c].got
  BY DEF Unsent
<1>2. Cur' = Cur
  BY DEF Cur
<1>3. Unread(client)' = Unread(client')
  BY DEF Unread
<1> QED BY <1>1, <1>2, <1>3 DEF GotInv

\* GotInv when the buffer has a request and nothing later was sent.
LEMMA GotFront ==
    ASSUME Unsent, hc'.buf # <<>>, UpTo(hc'.buf[1].id)
    PROVE  GotInv'
<1>1. \A c \in UpIds : up'[c].got = up[c].got
  BY DEF Unsent
<1>2. Cur' = hc'.buf[1].id
  BY DEF Cur
<1> QED BY <1>1, <1>2 DEF GotInv, UpTo

\* GotInv when units of the current request are sent.
LEMMA GotAdds ==
    ASSUME SlotInv, px.fd # NoUp, GotInv, hc'.buf = hc.buf, NEW us \in Seq(Units), Sent(us), \A i \in DOMAIN us : us[i].id = Cur
    PROVE  GotInv'
<1>1. hc.buf # <<>> /\ Cur' = Cur /\ Cur \in Nat
  <2>1. script \in Scripts /\ Cur \in DOMAIN script /\ hc.buf # <<>>
    BY HandTypes
  <2> QED BY <2>1, ScriptFacts DEF Cur
<1>2. ASSUME NEW c \in UpIds, NEW i \in DOMAIN up'[c].got PROVE up'[c].got[i].id <= Cur
  <2>1. CASE \E j \in DOMAIN up[c].got : up'[c].got[i] = up[c].got[j]
    BY <1>1, <2>1 DEF GotInv
  <2>2. CASE \E j \in DOMAIN us : up'[c].got[i] = us[j]
    BY <1>1, <2>2
  <2> QED BY <2>1, <2>2, SentWhere
<1> QED BY <1>1, <1>2 DEF GotInv

\* A step of an exchange.
LEMMA GotStep ==
    ASSUME SlotInv, HandInv, SentInv, GotInv, px.fd # NoUp, RequestStep
    PROVE  GotInv'
<1>1. Hand(px, Cur) /\ Whole(px, Cur) /\ hc'.buf = hc.buf /\ hc.buf # <<>> /\ script \in Scripts /\ Cur \in DOMAIN script
  BY HandTypes DEF HandInv, SentInv, RequestStep
<1>2. ASSUME NEW us \in Seq(Units), Advances(us) PROVE GotInv'
  <2> DEFINE g == Gone(px, Cur)
             all == script[Cur].body
  <2>1. Sent(us) /\ g \in Nat /\ g + Len(us) <= 2 + all /\ \A i \in DOMAIN us : us[i] = UpUnits(Cur)[g + i]
    BY <1>2 DEF Advances
  <2>2. Len(us) \in Nat /\ DOMAIN us = 1 .. Len(us) /\ all \in Nat
    BY DomFacts, HandTypes
  <2> HIDE DEF g
  <2>3. ASSUME NEW i \in DOMAIN us PROVE us[i].id = Cur
    <3>1. g + i \in 1 .. 2 + all
      <4> HIDE DEF all
      <4> QED BY <2>1, <2>2, <2>3
    <3> QED BY <1>1, <2>1, <3>1, UpAt
  <2> QED BY <1>1, <2>1, <2>3, GotAdds
<1>3. CASE Restarts
  <2>1. Unsent
    BY <1>3 DEF Restarts
  <2> QED BY <1>1, <2>1, GotKept
<1> QED BY <1>1, <1>2, <1>3, AdvanceStep

\* The first byte that is parsed is the next one of the client's, or the one that was there.
LEMMA FilledFirst ==
    ASSUME SlotInv, HandInv, NEW n \in 1 .. Len(client.in), n <= HeaderCap - Len(hc.buf)
    PROVE  /\ client.st # "rst" /\ Filled(n).buf \in Seq(Units) /\ Filled(n).buf # <<>>
           /\ Filled(n).buf[1] = IF hc.buf = <<>> THEN Unread(client) ELSE hc.buf[1]
<1> DEFINE b == hc.buf
           us == Take(client.in, n)
           t == b \o us
<1>1. /\ Filled(n).buf = t /\ Filled(n).buf # <<>> /\ Filled(n) \in HcRecords /\ us \in Seq(Units) /\ Len(us) = n
      /\ (\A i \in 1 .. n : us[i] = client.in[i]) /\ b \in Seq(Units) /\ Len(b) \in Nat
  BY FilledFacts
<1>2. client.in \in Seq(Units) /\ Stream(b, client, px)
  BY DEF SlotInv, Typed, ClientRecords, HandInv, StreamInv
<1>3. client.in # <<>> /\ 1 \in 1 .. n
  BY <1>2, DomFacts
<1>4. client.st # "rst" /\ Unread(client) = client.in[1]
  BY <1>2, <1>3 DEF Stream, Unread
<1>5. us[1] = client.in[1]
  BY <1>1, <1>3
<1>6. Filled(n).buf \in Seq(Units)
  BY <1>1 DEF HcRecords
<1> HIDE DEF us
<1>7. b \in Seq(Units) /\ us \in Seq(Units)
  BY <1>1
<1>8. /\ \A i \in 1 .. Len(b) : (b \o us)[i] = b[i]
      /\ \A i \in 1 .. Len(us) : (b \o us)[Len(b) + i] = us[i]
  BY <1>7, CatFacts
<1> HIDE DEF b
<1>9. t[1] = IF b = <<>> THEN us[1] ELSE b[1]
  <2>1. CASE b = <<>>
    <3>1. Len(b) = 0 /\ 0 + 1 = 1
      BY <2>1
    <3> QED BY <1>1, <1>3, <1>8, <2>1, <3>1
  <2>2. CASE b # <<>>
    <3>1. 1 \in 1 .. Len(b)
      BY <1>1, <2>2, DomFacts
    <3> QED BY <1>8, <2>2, <3>1
  <2> QED BY <2>1, <2>2
<1> HIDE DEF t
<1> QED BY <1>1, <1>4, <1>5, <1>6, <1>9 DEF b

\* http_conn_on_read: the request that begins is a later one than those gone upstream.
LEMMA ReadBefore ==
    ASSUME SlotInv, HandInv, GotInv, px.fd = NoUp, pc = "onread", NEW n \in 1 .. Len(client.in), n <= HeaderCap - Len(hc.buf)
    PROVE  LET id == Filled(n).buf[1].id
           IN  UpTo(id) /\ (script[id].target # "long" => Before(id))
<1> DEFINE x == Filled(n).buf[1]
<1>1. /\ client.st # "rst" /\ Filled(n).buf \in Seq(Units) /\ Filled(n).buf # <<>>
      /\ x = IF hc.buf = <<>> THEN Unread(client) ELSE hc.buf[1]
  BY FilledFirst
<1>2. x.id \in DOMAIN script /\ script \in Scripts
  BY <1>1, CurFacts DEF SlotInv, Typed
<1>3. hc.buf # <<>> => script[Cur].target = "long"
  BY DEF SlotInv, Control, Req
<1> HIDE DEF x
<1>4. CASE hc.buf = <<>>
  <2>1. Before(x.id)
    BY <1>1, <1>4 DEF GotInv, Before
  <2>2. ASSUME NEW c \in UpIds, NEW i \in DOMAIN up[c].got PROVE up[c].got[i].id <= x.id
    <3>1. up[c].got[i].id < x.id /\ up[c].got[i].id \in DOMAIN script
      BY <2>1, <2>2, GotTypes DEF Before
    <3>2. up[c].got[i].id \in Nat /\ x.id \in Nat
      BY <1>2, <3>1, ScriptFacts
    <3> QED BY <3>1, <3>2
  <2> QED BY <2>1, <2>2 DEF UpTo, x
<1>5. CASE hc.buf # <<>>
  <2>1. x.id = Cur
    BY <1>1, <1>5 DEF Cur
  <2>2. UpTo(x.id)
    BY <1>5, <2>1 DEF GotInv, UpTo
  <2> QED BY <1>3, <1>5, <2>1, <2>2 DEF x
<1> QED BY <1>4, <1>5

\* http_conn_reuse: so is the next one that was read already, or is still to come.
LEMMA ReuseBefore ==
    ASSUME SlotInv, HandInv, GotInv, hc.buf # <<>>, hc.keep
    PROVE  /\ Before(Cur + 1) /\ UpTo(Cur + 1)
           /\ Len(hc.buf) > 1 => Tail(hc.buf)[1].id = Cur + 1
           /\ Len(hc.buf) = 1 /\ client.st # "rst" => Unread(client).id = Cur + 1
<1> DEFINE b == hc.buf
           m == Len(b)
<1>1. b \in Seq(Units) /\ m \in Nat /\ DOMAIN b = 1 .. m /\ script \in Scripts /\ Cur \in DOMAIN script /\ Cur = b[1].id
  BY DomFacts, CurFacts DEF SlotInv, Typed, HcRecords, Cur
<1>2. /\ script[Cur].body = 0 /\ NextUnit(b[1]) = FirstUnit(Cur + 1) /\ Follows(b)
  BY KeptFacts
<1>3. FirstUnit(Cur + 1).id = Cur + 1
  BY DEF FirstUnit, Unit
<1>4. Stream(b, client, px)
  BY DEF HandInv, StreamInv
<1>5. ASSUME NEW c \in UpIds, NEW i \in DOMAIN up[c].got PROVE up[c].got[i].id < Cur + 1 /\ up[c].got[i].id <= Cur + 1
  <2>1. up[c].got[i].id <= Cur /\ up[c].got[i].id \in DOMAIN script
    BY <1>5, GotTypes DEF GotInv
  <2>2. up[c].got[i].id \in Nat /\ Cur \in Nat
    BY <1>1, <2>1, ScriptFacts
  <2> QED BY <2>1, <2>2
<1>6. ASSUME m > 1 PROVE Tail(b)[1].id = Cur + 1
  <2>1. 1 \in DOMAIN b /\ 2 \in DOMAIN b /\ 1 < 2 /\ 2 = 1 + 1 /\ 1 \in 1 .. m - 1
    <3> HIDE DEF m
    <3> QED BY <1>1, <1>6
  <2>2. b[2] = NextUnit(b[1])
    BY <1>2, <2>1 DEF Follows
  <2>3. Tail(b)[1] = b[1 + 1]
    <3> HIDE DEF m
    <3> QED BY <1>1, <1>6, <2>1, TailFacts DEF m
  <2> QED BY <1>2, <1>3, <2>1, <2>2, <2>3
<1>7. ASSUME m = 1, client.st # "rst" PROVE Unread(client).id = Cur + 1
  <2>1. Unread(client) = NextUnit(b[m])
    BY <1>1, <1>2, <1>4, <1>7, StreamFront
  <2> QED BY <1>2, <1>3, <1>7, <2>1
<1> QED BY <1>5, <1>6, <1>7 DEF Before, UpTo

\* The client's own steps, and those of the upstreams, leave the next unread byte what it is.
LEMMA PeersUnread ==
    ASSUME SlotInv, Peers
    PROVE  client'.st # "rst" => client.st # "rst" /\ Unread(client') = Unread(client)
<1> DEFINE d == client'
<1>1. client \in ClientRecords /\ client.in \in Seq(Units) /\ script \in Scripts
  BY DEF SlotInv, Typed, ClientRecords
<1>2. CASE ClientSend
  <2> DEFINE x == client.next
             t == Append(client.in, x)
  <2>1. client.st = "open" /\ x \in Units /\ client' = [client EXCEPT !.next = NextUnit(x), !.in = t]
    BY <1>1, <1>2 DEF ClientSend, ClientRecords
  <2>2. t \in Seq(Units) /\ Len(t) = Len(client.in) + 1 /\ (\A i \in 1 .. Len(client.in) : t[i] = client.in[i]) /\ t[Len(client.in) + 1] = x
    BY <1>1, <2>1, AddFacts
  <2>3. Len(client.in) \in Nat /\ (client.in = <<>> <=> Len(client.in) = 0) /\ (t = <<>> <=> Len(t) = 0)
    BY <1>1, <2>2, DomFacts
  <2>4. d.in = t
    BY <1>1, <2>1 DEF ClientRecords
  <2> HIDE DEF d, t
  <2>5. t # <<>> /\ t[1] = Unread(client)
    <3>1. CASE client.in = <<>>
      BY <2>2, <2>3, <3>1 DEF Unread
    <3>2. CASE client.in # <<>>
      BY <2>2, <2>3, <3>2 DEF Unread
    <3> QED BY <3>1, <3>2
  <2>6. Unread(d) = Unread(client)
    BY <2>4, <2>5 DEF Unread
  <2> QED BY <2>1, <2>6 DEF d
<1>3. CASE ClientLeave
  <2>1. d.next = client.next /\ ((d.st = "fin" /\ d.in = client.in) \/ (d.st = "rst" /\ d.in = <<>>)) /\ client.st = "open"
    BY <1>1, <1>3, LeftClient DEF ClientLeave
  <2>2. d.st # "rst" => client.st # "rst" /\ d.in = client.in
    BY <2>1
  <2>3. d.next = client.next
    BY <2>1
  <2> HIDE DEF d
  <2>4. d.st # "rst" => Unread(d) = Unread(client)
    BY <2>2, <2>3 DEF Unread
  <2> QED BY <2>2, <2>4 DEF d
<1>4. CASE \E c \in UpIds : UpAnswer(c) \/ UpSend(c) \/ UpLeave(c)
  BY <1>4 DEF UpAnswer, UpSend, UpLeave
<1> QED BY <1>2, <1>3, <1>4 DEF Peers

\* The steps without a byte of a request.
LEMMA RestKeeps ==
    ASSUME SlotInv, GotInv, RequestInv, Peers \/ EpollWait \/ HandleEvent \/ Timeout \/ WorkerExit \/ UNCHANGED vars
    PROVE  GotInv' /\ RequestInv'
<1>1. Rests
  BY RestSteps
<1>2. script' = script /\ Unsent /\ hc' = hc /\ (px'.fd = NoUp \/ px' = px)
  BY <1>1, ResetFacts DEF Rests
<1>3. client'.st # "rst" => client.st # "rst" /\ Unread(client') = Unread(client)
  <2>1. CASE Peers
    BY <2>1, PeersUnread
  <2>2. CASE HandleEvent
    BY <2>2, HandleEffect
  <2>3. CASE EpollWait \/ Timeout \/ WorkerExit \/ UNCHANGED vars
    BY <2>3 DEF EpollWait, Timeout, WorkerExit, vars
  <2> QED BY <2>1, <2>2, <2>3
<1> QED BY <1>2, <1>3, GotKept, RequestStays

\* http_conn_on_read keeps the order of the requests and their units.
LEMMA ReadKeeps ==
    ASSUME Bodyless, SlotInv, Quiet, HandInv, GotInv, RequestInv, OnRead
    PROVE  GotInv' /\ RequestInv'
<1>1. /\ script' = script /\ pc = "onread"
      /\ px.fd # NoUp => RequestStep
      /\ px.fd = NoUp => Unsent
  BY OnReadSteps
<1>2. SentInv
  BY DEF RequestInv
<1>3. CASE px.fd # NoUp
  BY <1>1, <1>2, <1>3, GotStep, RequestStepKeeps
<1>4. CASE /\ px.fd = NoUp /\ client' = client
           /\ Idles(ArmFixed(hc), "write") \/ Idles(hc, "read") \/ Idles(hc, "close")
  <2>1. ArmFixed(hc).buf = hc.buf
    BY DEF ArmFixed, HcRecords, SlotInv, Typed
  <2>2. hc'.buf = hc.buf /\ px'.fd = NoUp
    BY <1>4, <2>1, ResetFacts DEF Idles
  <2> QED BY <1>1, <1>4, <2>2, GotKept, RequestStays
<1>5. CASE /\ px.fd = NoUp
           /\ \E n \in 1 .. Len(client.in) :
                 /\ n <= HeaderCap - Len(hc.buf) /\ client' = [client EXCEPT !.in = Drop(@, n)]
                 /\ Dispatch(Filled(n))
  <2>1. PICK n \in 1 .. Len(client.in) : n <= HeaderCap - Len(hc.buf) /\ Dispatch(Filled(n))
    BY <1>5
  <2> DEFINE h == Filled(n)
             id == h.buf[1].id
  <2>2. h \in HcRecords /\ h.buf # <<>>
    BY <2>1, FilledFacts
  <2>3. UpTo(id) /\ (script[id].target # "long" => Before(id))
    BY <1>1, <1>5, <2>1, ReadBefore
  <2>4. Dispatch(h)
    BY <2>1
  <2> HIDE DEF h
  <2>5. RequestInv' /\ hc'.buf = h.buf
    BY <1>1, <1>5, <2>2, <2>3, <2>4, RequestDispatch
  <2>6. GotInv'
    BY <1>1, <1>5, <2>2, <2>3, <2>5, GotFront
  <2> QED BY <2>5, <2>6
<1> QED BY <1>3, <1>4, <1>5, OnReadEffect

\* So does http_conn_reuse.
LEMMA ReuseKeeps ==
    ASSUME SlotInv, HandInv, GotInv, RequestInv, Reuse
    PROVE  GotInv' /\ RequestInv'
<1>1. script' = script /\ client' = client /\ Unsent /\ px.fd = NoUp /\ hc.buf # <<>>
  BY ReuseSteps
<1>2. CASE hc' = hc /\ Shut(CloseUp(up, px.fd))
  <2>1. px'.fd = NoUp
    BY <1>2, ResetFacts DEF Shut
  <2> QED BY <1>1, <1>2, <2>1, GotKept, RequestStays
<1>3. CASE hc.keep /\ Len(hc.buf) = 1 /\ Idles(HcReset(<<>>), "read")
  <2>1. Before(Cur + 1) /\ (client.st # "rst" => Unread(client).id = Cur + 1)
    BY <1>1, <1>3, ReuseBefore
  <2>2. hc'.buf = <<>> /\ px'.fd = NoUp
    BY <1>3, ResetFacts DEF Idles, HcReset
  <2>3. RequestInv'
    BY <1>1, <2>2, RequestStays
  <2>4. Unread(client)' = Unread(client) /\ client'.st = client.st /\ \A c \in UpIds : up'[c].got = up[c].got
    BY <1>1 DEF Unread, Unsent
  <2>5. GotInv'
    BY <2>1, <2>2, <2>4 DEF GotInv, Before
  <2> QED BY <2>3, <2>5
<1>4. CASE hc.keep /\ Len(hc.buf) > 1 /\ Dispatch(HcReset(Tail(hc.buf)))
  <2> DEFINE b == Tail(hc.buf)
  <2>1. hc.buf \in Seq(Units)
    BY DEF SlotInv, Typed, HcRecords
  <2>2. b \in Seq(Units) /\ Len(b) = Len(hc.buf) - 1 /\ Len(hc.buf) \in Nat
    BY <1>1, <2>1, TailFacts
  <2>3. Dispatch(HcReset(b)) /\ b[1].id = Cur + 1 /\ Before(Cur + 1) /\ UpTo(Cur + 1)
    BY <1>1, <1>4, ReuseBefore
  <2> HIDE DEF b
  <2>4. b # <<>>
    BY <1>4, <2>2
  <2> DEFINE h == HcReset(b)
  <2>5. h \in HcRecords /\ h.buf = b
    BY <2>2, HcResetFacts
  <2>6. Dispatch(h)
    BY <2>3
  <2> HIDE DEF h
  <2>7. RequestInv' /\ hc'.buf = b
    BY <1>1, <2>3, <2>4, <2>5, <2>6, RequestDispatch
  <2>8. GotInv'
    BY <1>1, <2>3, <2>4, <2>7, GotFront
  <2> QED BY <2>7, <2>8
<1> QED BY <1>2, <1>3, <1>4, ReuseEffect

\* GotInv and RequestInv are inductive, given HandInv, when a retry loses no body.
LEMMA RequestNext ==
    ASSUME Bodyless, SlotInv, Quiet, HandInv, GotInv, RequestInv, [Next]_vars
    PROVE  GotInv' /\ RequestInv'
<1>1. SentInv
  BY DEF RequestInv
<1>2. CASE Pump
  BY <1>1, <1>2, PumpFacts, RequestPump, GotStep, RequestStepKeeps
<1>3. CASE Peers \/ EpollWait \/ HandleEvent \/ Timeout \/ WorkerExit \/ UNCHANGED vars
  BY <1>3, RestKeeps
<1>4. CASE OnWrite
  <2>1. script' = script /\ client' = client /\ Unsent /\ px'.fd = NoUp /\ hc'.buf = hc.buf
    BY <1>4, OnWriteSteps
  <2> QED BY <2>1, GotKept, RequestStays
<1> QED BY <1>2, <1>3, <1>4, ReadKeeps, ReuseKeeps DEF Next

\* They hold at the start.
LEMMA RequestInit ==
    ASSUME Init
    PROVE  GotInv /\ RequestInv
<1>1. (\A c \in UpIds : up[c].got = <<>>) /\ px.fd = NoUp /\ script \in Scripts
  BY ResetFacts DEF Init
<1>2. ASSUME NEW c \in UpIds, NEW id \in DOMAIN script PROVE \E n \in 0 .. Len(UpUnits(id)) : Carries(c, id, n)
  <2>1. Ends(<<>>, id, 0)
    BY DEF Ends
  <2>2. <<>> \in Seq(Units) /\ 0 \in Nat
    OBVIOUS
  <2>3. Holds(<<>>, id, 0)
    BY <2>1, <2>2, EndsHolds
  <2>4. 0 \in 0 .. Len(UpUnits(id))
    BY <1>1, UpUnitsFacts, ScriptFacts
  <2> QED BY <1>1, <2>3, <2>4 DEF Carries
<1> QED BY <1>1, <1>2 DEF GotInv, RequestInv, SentInv

\* Once the answer is awaited, the upstream has all of the request.
LEMMA WholeRequest ==
    ASSUME SlotInv, HandInv, RequestInv
    PROVE  RequestIntact
<1>1. ASSUME px.fd # NoUp, px.phase \in Answering PROVE Carries(px.fd, Cur, Len(UpUnits(Cur)))
  <2> DEFINE all == 2 + script[Cur].body
             s == up[px.fd].got
  <2>1. script \in Scripts /\ Cur \in DOMAIN script /\ Hand(px, Cur) /\ px.fd \in UpIds
    BY <1>1, HandTypes, SlotFacts DEF HandInv
  <2>2. Gone(px, Cur) = all /\ Gone(px, Cur) \in Nat
    BY <1>1, <2>1, GoneFacts
  <2>3. Ends(s, Cur, all)
    BY <1>1, <2>2 DEF RequestInv, SentInv
  <2>4. Len(UpUnits(Cur)) = all
    BY <2>1, UpUnitsFacts
  <2>5. s \in Seq(Units)
    BY <2>1, GotTypes
  <2>6. Holds(s, Cur, all)
    <3> HIDE DEF all, s
    <3> QED BY <2>2, <2>3, <2>5, EndsHolds
  <2> QED BY <2>4, <2>6 DEF Carries
<1> QED BY <1>1 DEF RequestInv, RequestIntact, RequestWhole, Answering

\* The rewritten header and the body reach every upstream in order, without a gap and without a
\* repeated byte, whatever the pieces they are read and sent in, across retries and reused sockets;
\* a retry loses a body that was sent already, so GET and HEAD must have none.
THEOREM RequestIntactHolds ==
    ASSUME Bodyless
    PROVE  Spec /\ []Quiet => []RequestIntact
<1>1. Init => SlotInv /\ HandInv /\ GotInv /\ RequestInv
  BY SlotInit, HandInit, RequestInit
<1>2. (SlotInv /\ HandInv /\ GotInv /\ RequestInv) /\ Quiet /\ [Next]_vars => (SlotInv /\ HandInv /\ GotInv /\ RequestInv)'
  BY SlotNext, HandNext, RequestNext
<1>3. SlotInv /\ HandInv /\ RequestInv => RequestIntact
  BY WholeRequest
<1> QED BY <1>1, <1>2, <1>3, PTL DEF Spec

-----------------------------------------------------------------------------
(* Moving units from one sequence to the next. *)

\* Three pieces.
LEMMA CatAssoc ==
    ASSUME NEW a \in Seq(Units), NEW b \in Seq(Units), NEW c \in Seq(Units)
    PROVE  (a \o b) \o c = a \o (b \o c)
  BY ConcatAssociative

\* What is taken and what is left are the whole.
LEMMA TakeDrop ==
    ASSUME NEW s \in Seq(Units), NEW n \in 0 .. Len(s)
    PROVE  Take(s, n) \in Seq(Units) /\ Drop(s, n) \in Seq(Units) /\ Take(s, n) \o Drop(s, n) = s
<1>1. 1 \in 1 .. Len(s) + 1 /\ n \in 1 - 1 .. Len(s) /\ Len(s) \in n .. Len(s)
  BY DomFacts
<1>2. SubSeq(s, 1, n) \o SubSeq(s, n + 1, Len(s)) = SubSeq(s, 1, Len(s))
  BY <1>1, ConcatAdjacentSubSeq
<1>3. SubSeq(s, 1, Len(s)) = s
  BY SubSeqFull
<1>4. Take(s, n) \in Seq(Units) /\ Drop(s, n) \in Seq(Units)
  BY TakeFacts, DropFacts
<1> QED BY <1>2, <1>3, <1>4 DEF Take, Drop

\* The first units of the middle piece move to the first one, or the first ones of the last to
\* the middle one.
LEMMA MoveLeft ==
    ASSUME NEW a \in Seq(Units), NEW s \in Seq(Units), NEW b \in Seq(Units), NEW n \in 0 .. Len(s)
    PROVE  (a \o Take(s, n)) \o (Drop(s, n) \o b) = a \o (s \o b)
<1> DEFINE t == Take(s, n)
           d == Drop(s, n)
<1>1. t \in Seq(Units) /\ d \in Seq(Units)
  BY TakeDrop
<1>2. t \o d = s
  BY TakeDrop
<1> HIDE DEF t, d
<1>3. d \o b \in Seq(Units)
  BY <1>1, CatFacts
<1>4. (a \o t) \o (d \o b) = a \o (t \o (d \o b))
  BY <1>1, <1>3, CatAssoc, Zenon
<1>5. (t \o d) \o b = t \o (d \o b)
  BY <1>1, CatAssoc, Zenon
<1> QED BY <1>2, <1>4, <1>5 DEF t, d

\* A unit moves from the front of the second piece to the end of the first.
LEMMA MoveHead ==
    ASSUME NEW s \in Seq(Units), NEW t \in Seq(Units), t # <<>>
    PROVE  /\ Append(s, Head(t)) \in Seq(Units) /\ Tail(t) \in Seq(Units)
           /\ Append(s, Head(t)) \o Tail(t) = s \o t
<1> DEFINE x == Head(t)
           d == Tail(t)
           one == <<x>>
<1>1. x \in Units /\ d \in Seq(Units) /\ t = one \o d
  <2>1. Len(t) \in Nat \ {0} /\ x = t[1] /\ x \in Units /\ d \in Seq(Units)
    BY TailFacts
  <2>2. 1 \in 1 .. Len(t) /\ Len(t) \in 1 .. Len(t)
    BY <2>1
  <2>3. SubSeq(t, 1, Len(t)) = <<t[1]>> \o SubSeq(t, 1 + 1, Len(t))
    BY <2>2, SubSeqRecursiveFirst
  <2>4. SubSeq(t, 1, Len(t)) = t /\ d = SubSeq(t, 2, Len(t)) /\ 1 + 1 = 2
    BY SubSeqFull, TailIsSubSeq
  <2> QED BY <2>1, <2>3, <2>4
<1>2. one \in Seq(Units) /\ Append(s, x) = s \o one
  <2> HIDE DEF x
  <2> QED BY <1>1, AppendIsConcat
<1> HIDE DEF x, d, one
<1>3. (s \o one) \o d = s \o (one \o d)
  BY <1>1, <1>2, CatAssoc
<1>4. s \o one \in Seq(Units)
  BY <1>2, CatFacts
<1> QED BY <1>1, <1>2, <1>3, <1>4 DEF x, d

-----------------------------------------------------------------------------
(* What follows the first units of a sequence. *)

\* Where the units of two pieces are.
LEMMA WithinCat ==
    ASSUME NEW a \in Seq(Units), NEW b \in Seq(Units), NEW all \in Seq(Units), NEW k \in Nat, Within(a \o b, all, k)
    PROVE  /\ k + Len(a) + Len(b) <= Len(all) /\ Len(a) \in Nat /\ Len(b) \in Nat /\ Len(all) \in Nat
           /\ \A i \in 1 .. Len(a) : a[i] = all[k + i]
           /\ \A i \in 1 .. Len(b) : b[i] = all[k + Len(a) + i]
           /\ Within(a, all, k) /\ Within(b, all, k + Len(a))
<1> DEFINE t == a \o b
<1>1. /\ t \in Seq(Units) /\ Len(t) = Len(a) + Len(b) /\ (\A i \in 1 .. Len(a) : t[i] = a[i])
      /\ (\A i \in 1 .. Len(b) : t[Len(a) + i] = b[i])
  BY CatFacts
<1>2. /\ Len(a) \in Nat /\ Len(b) \in Nat /\ Len(all) \in Nat
      /\ DOMAIN a = 1 .. Len(a) /\ DOMAIN b = 1 .. Len(b)
  BY DomFacts
<1>3. Within(t, all, k)
  OBVIOUS
<1> HIDE DEF t
<1>4. DOMAIN t = 1 .. Len(t)
  BY <1>1, DomFacts
<1>5. k + Len(t) <= Len(all) /\ \A i \in 1 .. Len(t) : t[i] = all[k + i]
  BY <1>3, <1>4 DEF Within
<1>6. ASSUME NEW i \in 1 .. Len(a) PROVE a[i] = all[k + i]
  <2>1. i \in 1 .. Len(t)
    BY <1>1, <1>2
  <2> QED BY <1>1, <1>5, <2>1
<1>7. ASSUME NEW i \in 1 .. Len(b) PROVE b[i] = all[k + Len(a) + i]
  <2>1. Len(a) + i \in 1 .. Len(t) /\ k + (Len(a) + i) = k + Len(a) + i
    BY <1>1, <1>2
  <2> QED BY <1>1, <1>5, <2>1
<1>8. k + Len(a) + Len(b) <= Len(all) /\ k + Len(a) <= Len(all)
  BY <1>1, <1>2, <1>5
<1> QED BY <1>2, <1>6, <1>7, <1>8 DEF Within

\* A beginning of what follows.
LEMMA WithinTake ==
    ASSUME NEW s \in Seq(Units), NEW t \in Seq(Units), NEW all \in Seq(Units), NEW k \in Nat, Within(s, all, k),
           Len(t) <= Len(s), \A i \in 1 .. Len(t) : t[i] = s[i]
    PROVE  Within(t, all, k)
<1>1. /\ Len(s) \in Nat /\ Len(t) \in Nat /\ Len(all) \in Nat
      /\ DOMAIN s = 1 .. Len(s) /\ DOMAIN t = 1 .. Len(t)
  BY DomFacts
<1>2. k + Len(s) <= Len(all) /\ \A i \in 1 .. Len(s) : s[i] = all[k + i]
  BY <1>1 DEF Within
<1>3. k + Len(t) <= Len(all) /\ \A i \in 1 .. Len(t) : i \in 1 .. Len(s)
  BY <1>1, <1>2
<1> QED BY <1>1, <1>2, <1>3 DEF Within

-----------------------------------------------------------------------------
(* An exchange, as units move through it. *)

\* What the client has been sent, what was read and what is to come.
Line(us, p, u) == (us \o Shown(p)) \o (u.in \o u.plan)

\* The pieces are sequences of units.
LEMMA LineTypes ==
    ASSUME NEW us \in Seq(Units), NEW p \in PxRecords, NEW u \in UpRecords
    PROVE  /\ Shown(p) \in Seq(Units) /\ us \o Shown(p) \in Seq(Units)
           /\ u.in \o u.plan \in Seq(Units) /\ Line(us, p, u) \in Seq(Units)
<1>1. p.hdr \in Seq(Units) /\ p.buf \in Seq(Units)
  BY DEF PxRecords
<1>2. p.hdr \o p.buf \in Seq(Units) /\ <<>> \in Seq(Units)
  BY <1>1, CatFacts
<1>3. Shown(p) \in Seq(Units)
  BY <1>1, <1>2 DEF Shown
<1>4. u.in \in Seq(Units) /\ u.plan \in Seq(Units)
  BY DEF UpRecords
<1>5. us \o Shown(p) \in Seq(Units) /\ u.in \o u.plan \in Seq(Units)
  BY <1>3, <1>4, CatFacts
<1> QED BY <1>3, <1>5, CatFacts DEF Line

\* An exchange before the answer is forwarded: only the line matters.
LEMMA ExchangeEarly ==
    ASSUME NEW us, NEW p, NEW u, NEW id, Exchange(us, p, u, id), p.phase \in Early,
           NEW q, NEW w, q.phase \in Early, q.phase = "SEND_REQ" => p.phase = "SEND_REQ",
           q.overread = p.overread, q.bodyDone = p.bodyDone, w.answered = u.answered,
           Line(us, q, w) = Line(us, p, u)
    PROVE  Exchange(us, q, w, id)
  BY DEF Exchange, Line

\* An exchange while the answer is forwarded.
LEMMA ExchangeSame ==
    ASSUME NEW us, NEW p, NEW u, NEW id, Exchange(us, p, u, id), p.phase \notin Early,
           NEW vs, NEW q, NEW w, q.phase \notin Early,
           q.phase = "STREAM" => q.hdr = <<>> /\ (q.bodyDone => q.buf # <<>>),
           q.overread = p.overread, q.bodyDone = p.bodyDone, q.framing = p.framing, q.respLeft = p.respLeft,
           w.answered = u.answered, vs \o Shown(q) = us \o Shown(p), w.in \o w.plan = u.in \o u.plan
    PROVE  Exchange(vs, q, w, id)
<1> DEFINE read == us \o Shown(p)
           rest == u.in \o u.plan
<1>1. vs \o Shown(q) = read /\ w.in \o w.plan = rest
  OBVIOUS
<1>2. /\ u.answered = id
      /\ \E r \in Responses : \E k \in 0 .. r.info :
            /\ IF p.overread THEN p.bodyDone ELSE Within(read \o rest, Answer(id, r), k)
            /\ k = r.info /\ Within(read, RespUnits(id, r), k)
            /\ Framed(read, p, r, Len(RespUnits(id, r)) - k - Len(read))
  BY DEF Exchange
<1> HIDE DEF read, rest
<1>3. \A r, left : Framed(read, p, r, left) => Framed(read, q, r, left)
  BY DEF Framed
<1>4. q.phase # "SEND_REQ"
  BY DEF Early
<1> QED BY <1>1, <1>2, <1>3, <1>4 DEF Exchange

\* An exchange in the next state, from what is then sent, held and to come.
LEMMA ExchangeNow ==
    ASSUME script' = script, NEW us, Body(out') = us, NEW p, px' = p, NEW u, up'[p.fd] = u, NEW id, Cur' = id,
           Exchange(us, p, u, id)
    PROVE  Exchange(Body(out), px, up[px.fd], Cur)'
<1>1. \A x, r : RespUnits(x, r)' = RespUnits(x, r) /\ Answer(x, r)' = Answer(x, r)
  <2>1. \A x, r : RespUnits(x, r)' = RespUnits(x, r)
    BY DEF RespUnits, HasBody
  <2> QED BY <2>1 DEF Answer, Past, Unit
<1>2. \A s, all, k : Within(s, all, k)' <=> Within(s, all, k)
  BY DEF Within
<1>3. \A s, r, left : Framed(s, p, r, left)' <=> Framed(s, p, r, left)
  BY DEF Framed
<1>4. Shown(p)' = Shown(p)
  BY DEF Shown
<1>5. Exchange(us, p, u, id)'
  BY <1>1, <1>2, <1>3, <1>4, Zenon DEF Exchange
<1>6. Body(out)' = us /\ px' = p /\ up[px.fd]' = u
  BY DEF Body
<1> QED BY <1>5, <1>6

-----------------------------------------------------------------------------
(* Where a unit of a response is. *)

\* What the unit at place j of a response is.
LEMMA RespAt ==
    ASSUME NEW id \in DOMAIN script, NEW r \in Responses, NEW j \in 1 .. Len(RespUnits(id, r))
    PROVE  LET x == RespUnits(id, r)[j]
           IN  /\ x.id = id /\ (j <= r.info => x.k = "1xx")
               /\ j = r.info + 1 => x.k = "h" /\ x.n = 1
               /\ j = r.info + 2 => x.k = "hend" /\ x.n = 2 /\ x.r = r
               /\ j > r.info + 2 =>
                     /\ HasBody(id, r) /\ x.n = j - (r.info + 2)
                     /\ \/ x.k = "d"
                        \/ x.k = "z" /\ r.framing = "chunked" /\ j = Len(RespUnits(id, r))
                        \/ x.k = "x" /\ r.framing = "badchunk" /\ j = Len(RespUnits(id, r))
<1> DEFINE all == RespUnits(id, r)
           m == r.info
           d == r.len
           L == Len(all)
           e == Rest(id, r)
           x == all[j]
<1>1. /\ m \in Nat /\ d \in Nat /\ e \in Nat /\ L = m + 2 + e
      /\ \A n \in 1 .. m : all[n] = Unit("1xx", id, n)
      /\ all[m + 1] = Unit("h", id, 1)
      /\ all[m + 2] = [k |-> "hend", id |-> id, n |-> 2, r |-> r]
  BY RespFacts
<1>2. /\ HasBody(id, r) => \A n \in 1 .. d : all[m + 2 + n] = Unit("d", id, n)
      /\ HasBody(id, r) /\ r.framing = "chunked" => all[m + 2 + (d + 1)] = Unit("z", id, d + 1)
      /\ HasBody(id, r) /\ r.framing = "badchunk" => all[m + 2 + (d + 1)] = Unit("x", id, d + 1)
  BY RespFacts
<1>3. m \in Nat /\ d \in Nat /\ e \in Nat /\ L = m + 2 + e /\ j \in 1 .. L
  BY <1>1
<1>4. /\ ~HasBody(id, r) => e = 0
      /\ HasBody(id, r) /\ r.framing \in {"chunked", "badchunk"} => e = d + 1
      /\ HasBody(id, r) /\ r.framing \notin {"chunked", "badchunk"} => e = d
  BY DEF Rest
<1> HIDE DEF all, m, d, L, e
<1>5. /\ j \in Nat /\ j >= 1 /\ j <= L
      /\ j <= m => j \in 1 .. m /\ ~(j = m + 1) /\ ~(j = m + 2) /\ ~(j > m + 2)
      /\ j = m + 1 => ~(j <= m) /\ ~(j = m + 2) /\ ~(j > m + 2)
      /\ j = m + 2 => ~(j <= m) /\ ~(j = m + 1) /\ ~(j > m + 2)
      /\ j > m + 2 => ~(j <= m) /\ ~(j = m + 1) /\ ~(j = m + 2)
      /\ j <= m \/ j = m + 1 \/ j = m + 2 \/ j > m + 2
  BY <1>3
<1>6. CASE j <= m
  <2>1. x = Unit("1xx", id, j)
    BY <1>1, <1>5, <1>6
  <2>2. x.id = id /\ x.k = "1xx"
    BY <2>1 DEF Unit
  <2> QED BY <2>2, <1>5, <1>6 DEF all, m
<1>7. CASE j = m + 1
  <2>1. x.id = id /\ x.k = "h" /\ x.n = 1
    BY <1>1, <1>7 DEF Unit
  <2> QED BY <2>1, <1>5, <1>7 DEF all, m
<1>8. CASE j = m + 2
  <2>1. x.id = id /\ x.k = "hend" /\ x.n = 2 /\ x.r = r
    BY <1>1, <1>8
  <2> QED BY <2>1, <1>5, <1>8 DEF all, m
<1>9. CASE j > m + 2
  <2> DEFINE n == j - (m + 2)
  <2>1. n \in 1 .. e /\ j = m + 2 + n /\ n \in Nat /\ (n = e => j = L) /\ e # 0
    BY <1>3, <1>9
  <2>2. HasBody(id, r)
    BY <1>4, <2>1
  <2>3. n = j - (m + 2)
    OBVIOUS
  <2> HIDE DEF n
  <2>4. CASE n <= d
    <3>1. n \in 1 .. d
      BY <1>3, <2>1, <2>4
    <3>2. x = Unit("d", id, n)
      BY <1>2, <2>1, <2>2, <3>1
    <3>3. x.id = id /\ x.k = "d" /\ x.n = n
      BY <3>2 DEF Unit
    <3> QED BY <1>5, <1>9, <2>2, <2>3, <3>3 DEF all, m
  <2>5. CASE n > d
    <3>1. e # d
      BY <1>3, <2>1, <2>5
    <3>2. r.framing \in {"chunked", "badchunk"} /\ e = d + 1
      BY <1>4, <2>2, <3>1
    <3>3. n = d + 1 /\ n = e
      BY <1>3, <2>1, <2>5, <3>2
    <3>4. j = L /\ x = all[m + 2 + (d + 1)]
      BY <2>1, <3>3
    <3>5. /\ x.id = id /\ x.n = n
          /\ x.k = IF r.framing = "chunked" THEN "z" ELSE "x"
      BY <1>2, <2>2, <3>2, <3>3, <3>4 DEF Unit
    <3>6. (r.framing = "chunked" /\ x.k = "z") \/ (r.framing = "badchunk" /\ x.k = "x")
      BY <3>2, <3>5
    <3> QED BY <1>5, <1>9, <2>2, <2>3, <3>4, <3>5, <3>6 DEF all, m, L
  <2> QED BY <1>3, <2>1, <2>4, <2>5
<1> QED BY <1>5, <1>6, <1>7, <1>8, <1>9

\* What the unit at place j of all that an upstream sends for a request is.
LEMMA AnswerAt ==
    ASSUME NEW id \in DOMAIN script, NEW r \in Responses, NEW j \in 1 .. Len(Answer(id, r))
    PROVE  LET x == Answer(id, r)[j]
           IN  /\ j <= r.info => x.k = "1xx"
               /\ j = r.info + 1 => x.k = "h"
               /\ j = r.info + 2 => x.k = "hend" /\ x.r = r
               /\ j > r.info + 2 => x.k \in {"d", "z", "x", "o"}
<1> DEFINE F == RespUnits(id, r)
           A == Answer(id, r)
           L == Len(F)
           m == r.info
<1>1. m \in Nat /\ L \in Nat /\ L >= m + 2
  <2>1. Len(F) = r.info + 2 + Rest(id, r) /\ r.info \in Nat /\ Rest(id, r) \in Nat
    BY RespFacts
  <2> QED BY <2>1
<1>2. /\ r.over \in Nat /\ Len(A) = L + r.over
      /\ \A n \in 1 .. L : A[n] = F[n]
      /\ \A n \in 1 .. r.over : A[L + n] = Past(id, n)
  BY AnswerFacts
<1>3. j \in 1 .. Len(A)
  OBVIOUS
<1>4. ASSUME NEW i \in 1 .. L
      PROVE  /\ i <= m => F[i].k = "1xx"
             /\ i = m + 1 => F[i].k = "h"
             /\ i = m + 2 => F[i].k = "hend" /\ F[i].r = r
             /\ i > m + 2 => F[i].k \in {"d", "z", "x"}
  BY RespAt
<1> HIDE DEF F, A, L, m
<1>5. CASE j <= L
  <2>1. j \in 1 .. L /\ A[j] = F[j]
    BY <1>1, <1>2, <1>3, <1>5
  <2> QED BY <1>4, <2>1 DEF A, m
<1>6. CASE j > L
  <2> DEFINE n == j - L
  <2>1. n \in 1 .. r.over /\ j = L + n /\ j > m + 2 /\ j # m + 1 /\ j # m + 2 /\ ~(j <= m)
    BY <1>1, <1>2, <1>3, <1>6
  <2> HIDE DEF n
  <2>2. A[j].k = "o"
    <3>1. A[j] = Past(id, n)
      BY <1>2, <2>1
    <3> QED BY <3>1 DEF Past, Unit
  <2> QED BY <2>1, <2>2 DEF A, m
<1> QED BY <1>1, <1>2, <1>3, <1>5, <1>6

\* A piece of all that an upstream sends, and where it is framed.
LEMMA AnswerWithin ==
    ASSUME NEW id \in DOMAIN script, NEW r \in Responses, NEW s \in Seq(Units), NEW k \in Nat,
           k + Len(s) <= Len(RespUnits(id, r))
    PROVE  Within(s, Answer(id, r), k) <=> Within(s, RespUnits(id, r), k)
<1> DEFINE F == RespUnits(id, r)
           A == Answer(id, r)
           L == Len(F)
<1>1. L \in Nat /\ r.over \in Nat /\ Len(A) = L + r.over /\ \A n \in 1 .. L : A[n] = F[n]
  <2>1. Len(F) = r.info + 2 + Rest(id, r) /\ r.info \in Nat /\ Rest(id, r) \in Nat
    BY RespFacts
  <2>2. L \in Nat
    BY <2>1
  <2> QED BY <2>2, AnswerFacts
<1>2. DOMAIN s = 1 .. Len(s) /\ Len(s) \in Nat /\ k + Len(s) <= L
  BY DomFacts
<1> HIDE DEF F, A, L
<1>3. \A i \in 1 .. Len(s) : k + i \in 1 .. L /\ A[k + i] = F[k + i]
  BY <1>1, <1>2
<1>4. k + Len(s) <= Len(A)
  BY <1>1, <1>2
<1> QED BY <1>2, <1>3, <1>4 DEF Within, F, A, L

\* Where find_hdr_end finds nothing, no header block ends.
LEMMA HdrEndNone ==
    ASSUME NEW b \in Seq(Units), HdrEnd(b) = 0
    PROVE  \A i \in 1 .. Len(b) : b[i].k \notin {"1xx", "hend"}
<1> DEFINE ends == {i \in DOMAIN b : b[i].k \in {"1xx", "hend"}}
<1>1. DOMAIN b = 1 .. Len(b) /\ Len(b) \in Nat
  BY DomFacts
<1>2. CASE ends # {}
  <2>1. HdrEnd(b) = CHOOSE i \in ends : \A j \in ends : i <= j
    BY <1>2 DEF HdrEnd
  <2>2. ends \subseteq Nat
    BY <1>1
  <2>3. PICK m \in ends : \A j \in ends : m <= j
    BY <1>2, <2>2, LeastNatural
  <2>4. HdrEnd(b) \in ends
    BY <2>1, <2>3
  <2> QED BY <1>1, <2>4
<1> QED BY <1>1, <1>2

\* The header blocks in the buffer, when it holds a piece of an answer: an informational block is
\* the first unit, the final header the first two.
LEMMA HeaderPlace ==
    ASSUME NEW id \in DOMAIN script, NEW r \in Responses, NEW k \in 0 .. r.info, NEW b \in Seq(Units),
           Within(b, Answer(id, r), k)
    PROVE  /\ HdrEnd(b) = 0 => Len(b) <= 1
           /\ HdrEnd(b) # 0 => \/ HdrEnd(b) = 1 /\ b[1].k = "1xx" /\ k + 1 <= r.info
                               \/ HdrEnd(b) = 2 /\ k = r.info /\ b[2].k = "hend" /\ b[2].r = r /\ Len(b) >= 2
<1> DEFINE all == Answer(id, r)
           at == HdrEnd(b)
<1>1. all \in Seq(Units) /\ Len(all) \in Nat /\ r.info \in Nat
  <2>1. all \in Seq(Units) /\ r.info \in Nat
    BY AnswerFacts, RespFacts
  <2> HIDE DEF all
  <2> QED BY <2>1, DomFacts
<1>2. DOMAIN b = 1 .. Len(b) /\ Len(b) \in Nat /\ k \in Nat /\ k <= r.info
  BY <1>1, DomFacts
<1>3. k + Len(b) <= Len(all) /\ \A i \in 1 .. Len(b) : b[i] = all[k + i]
  BY <1>2 DEF Within
<1>4. ASSUME NEW i \in 1 .. Len(b)
      PROVE  /\ k + i <= r.info => b[i].k = "1xx"
             /\ k + i = r.info + 1 => b[i].k = "h"
             /\ k + i = r.info + 2 => b[i].k = "hend" /\ b[i].r = r
             /\ k + i > r.info + 2 => b[i].k \in {"d", "z", "x", "o"}
  <2>1. k + i \in 1 .. Len(all) /\ b[i] = all[k + i]
    BY <1>1, <1>2, <1>3
  <2> QED BY <2>1, AnswerAt
<1>5. ASSUME Len(b) > 1, HdrEnd(b) = 0 PROVE FALSE
  <2>1. 1 \in 1 .. Len(b) /\ 2 \in 1 .. Len(b)
    BY <1>2, <1>5
  <2>2. b[1].k \notin {"1xx", "hend"} /\ b[2].k \notin {"1xx", "hend"}
    BY <1>5, <2>1, HdrEndNone
  <2>3. CASE k + 1 <= r.info
    BY <1>4, <2>1, <2>2, <2>3
  <2>4. CASE k = r.info
    BY <1>1, <1>4, <2>1, <2>2, <2>4
  <2> QED BY <1>1, <1>2, <2>3, <2>4
<1>6. ASSUME at # 0
      PROVE  \/ at = 1 /\ b[1].k = "1xx" /\ k + 1 <= r.info
             \/ at = 2 /\ k = r.info /\ b[2].k = "hend" /\ b[2].r = r /\ Len(b) >= 2
  <2>1. /\ at \in 1 .. Len(b) /\ b[at].k \in {"1xx", "hend"}
        /\ \A i \in 1 .. Len(b) : i < at => b[i].k \notin {"1xx", "hend"}
    BY <1>6, HdrEndFacts
  <2>2. 1 \in 1 .. Len(b)
    BY <1>2, <2>1
  <2> HIDE DEF at
  <2>3. CASE k + 1 <= r.info
    <3>1. b[1].k = "1xx"
      BY <1>4, <2>2, <2>3
    <3>2. at = 1
      BY <2>1, <2>2, <3>1
    <3> QED BY <2>3, <3>1, <3>2
  <2>4. CASE k = r.info
    <3>1. at # 1 /\ ~(at > 2)
      <4>1. b[1].k = "h"
        BY <1>1, <1>4, <2>2, <2>4
      <4>2. ASSUME at > 2 PROVE FALSE
        <5>1. 2 \in 1 .. Len(b) /\ 2 < at
          BY <1>2, <2>1, <4>2
        <5>2. b[2].k = "hend"
          BY <1>1, <1>4, <2>4, <5>1
        <5> QED BY <2>1, <5>1, <5>2
      <4> QED BY <2>1, <4>1, <4>2
    <3>2. at = 2 /\ 2 \in 1 .. Len(b)
      BY <1>2, <2>1, <3>1
    <3>3. b[2].k = "hend" /\ b[2].r = r
      BY <1>1, <1>4, <2>4, <3>2
    <3> QED BY <1>2, <2>4, <3>2, <3>3
  <2> QED BY <1>1, <1>2, <2>3, <2>4
<1>7. HdrEnd(b) = 0 => Len(b) <= 1
  BY <1>2, <1>5
<1> QED BY <1>6, <1>7

\* Nothing before or after.
LEMMA CatNothing ==
    ASSUME NEW s \in Seq(Units)
    PROVE  <<>> \o s = s /\ s \o <<>> = s
  BY ConcatEmptySeq

\* What is read of a header moves from the socket to the buffer.
LEMMA ExchangeRead ==
    ASSUME NEW us \in Seq(Units), NEW p \in PxRecords, p.phase = "RECV_HDR", NEW u \in UpRecords, NEW id,
           Exchange(us, p, u, id), NEW n \in 0 .. Len(u.in),
           NEW q, q.phase = p.phase, q.overread = p.overread, q.bodyDone = p.bodyDone,
           q.buf = p.buf \o Take(u.in, n),
           NEW w, w.answered = u.answered, w.in = Drop(u.in, n), w.plan = u.plan
    PROVE  Exchange(us, q, w, id)
<1> DEFINE b == p.buf
           s == u.in
           t == Take(s, n)
           d == Drop(s, n)
           rest == u.plan
<1>1. b \in Seq(Units) /\ s \in Seq(Units) /\ rest \in Seq(Units)
  BY DEF PxRecords, UpRecords
<1>2. t \in Seq(Units)
  BY <1>1, TakeDrop
<1>3. Line(us, q, w) = (us \o (b \o t)) \o (d \o rest) /\ Line(us, p, u) = (us \o b) \o (s \o rest)
  BY DEF Line, Shown
<1>4. ((us \o b) \o t) \o (d \o rest) = (us \o b) \o (s \o rest)
  <2>1. us \o b \in Seq(Units) /\ n \in 0 .. Len(s)
    BY <1>1, CatFacts
  <2> HIDE DEF b, s, rest
  <2> QED BY <1>1, <2>1, MoveLeft
<1>5. us \o (b \o t) = (us \o b) \o t
  <2> HIDE DEF b, s, rest, t
  <2> QED BY <1>1, <1>2, CatAssoc, Zenon
<1>6. Line(us, q, w) = Line(us, p, u)
  <2> HIDE DEF b, s, rest, t, d
  <2> QED BY <1>3, <1>4, <1>5
<1>7. p.phase \in Early /\ q.phase \in Early /\ q.phase # "SEND_REQ"
  BY DEF Early
<1> QED BY <1>6, <1>7, ExchangeEarly

\* An exchange in which a header block is in the buffer: which answer it is of, and where.
LEMMA ExchangeHeader ==
    ASSUME NEW us \in Seq(Units), NEW p \in PxRecords, p.phase = "RECV_HDR", NEW u \in UpRecords,
           NEW id \in DOMAIN script, Exchange(us, p, u, id), HdrEnd(p.buf) # 0, p.buf[1].k # "o"
    PROVE  /\ us = <<>> /\ ~p.overread /\ ~p.bodyDone /\ u.answered = id
           /\ \E r \in Responses : \E k \in 0 .. r.info :
                 /\ Within(p.buf \o (u.in \o u.plan), Answer(id, r), k)
                 /\ \/ HdrEnd(p.buf) = 1 /\ p.buf[1].k = "1xx" /\ k + 1 <= r.info
                    \/ /\ HdrEnd(p.buf) = 2 /\ k = r.info /\ p.buf[2].k = "hend" /\ p.buf[2].r = r
                       /\ Len(p.buf) >= 2
<1> DEFINE b == p.buf
           rest == u.in \o u.plan
<1>1. b \in Seq(Units) /\ rest \in Seq(Units) /\ us = <<>> /\ ~p.overread /\ ~p.bodyDone
  BY LineTypes DEF PxRecords, Exchange, Early
<1>2. Shown(p) = b /\ <<>> \o b = b
  BY <1>1, CatNothing DEF Shown
<1>3. (us \o Shown(p)) \o rest = b \o rest
  <2> HIDE DEF rest, b
  <2> QED BY <1>1, <1>2
<1>4. b \o rest # <<>> /\ (b \o rest)[1].k # "o"
  <2>1. HdrEnd(b) \in 1 .. Len(b)
    BY <1>1, HdrEndFacts
  <2>2. b # <<>>
    BY <1>1, <2>1, DomFacts
  <2>3. 1 \in 1 .. Len(b) /\ b[1].k # "o"
    BY <1>1, <2>1, DomFacts
  <2> HIDE DEF rest, b
  <2>4. (b \o rest)[1] = b[1]
    BY <1>1, <2>3, CatFacts
  <2> QED BY <1>1, <2>2, <2>3, <2>4, EmptyCat
<1>5. u.answered = id /\ \E r \in Responses : \E k \in 0 .. r.info : Within(b \o rest, Answer(id, r), k)
  BY <1>1, <1>3, <1>4 DEF Exchange
<1>6. PICK r \in Responses : \E k \in 0 .. r.info : Within(b \o rest, Answer(id, r), k)
  BY <1>5
<1>10. PICK k \in 0 .. r.info : Within(b \o rest, Answer(id, r), k)
  BY <1>6
<1>7. Answer(id, r) \in Seq(Units) /\ k \in Nat
  <2>1. Answer(id, r) \in Seq(Units) /\ r.info \in Nat
    BY AnswerFacts, RespFacts
  <2> QED BY <2>1
<1>8. Within(b, Answer(id, r), k)
  <2> HIDE DEF rest, b
  <2> QED BY <1>1, <1>10, <1>7, WithinCat
<1>9. \/ HdrEnd(b) = 1 /\ b[1].k = "1xx" /\ k + 1 <= r.info
      \/ HdrEnd(b) = 2 /\ k = r.info /\ b[2].k = "hend" /\ b[2].r = r /\ Len(b) >= 2
  BY <1>1, <1>8, HeaderPlace
<1> QED BY <1>1, <1>5, <1>9, <1>10

\* An informational block is passed over.
LEMMA ExchangeInfo ==
    ASSUME NEW us \in Seq(Units), NEW p \in PxRecords, p.phase = "RECV_HDR", NEW u \in UpRecords,
           NEW id \in DOMAIN script, Exchange(us, p, u, id), HdrEnd(p.buf) # 0, p.buf[HdrEnd(p.buf)].k = "1xx",
           p.buf[1].k # "o"
    PROVE  Exchange(us, [p EXCEPT !.buf = Drop(p.buf, HdrEnd(p.buf))], u, id)
<1> DEFINE b == p.buf
           d == Drop(b, 1)
           t == Take(b, 1)
           rest == u.in \o u.plan
           q == [p EXCEPT !.buf = Drop(p.buf, HdrEnd(p.buf))]
<1>0. PICK r \in Responses : \E k \in 0 .. r.info :
          /\ Within(b \o rest, Answer(id, r), k)
          /\ \/ HdrEnd(b) = 1 /\ k + 1 <= r.info
             \/ HdrEnd(b) = 2 /\ b[2].k = "hend"
  BY ExchangeHeader, Zenon
<1>1. PICK k \in 0 .. r.info :
          /\ Within(b \o rest, Answer(id, r), k)
          /\ \/ HdrEnd(b) = 1 /\ k + 1 <= r.info
             \/ HdrEnd(b) = 2 /\ b[2].k = "hend"
  BY <1>0, Zenon
<1>2. us = <<>> /\ ~p.overread /\ ~p.bodyDone /\ u.answered = id
  BY ExchangeHeader
<1>3. HdrEnd(b) = 1 /\ k + 1 <= r.info
  BY <1>1
<1>4. b \in Seq(Units) /\ rest \in Seq(Units) /\ HdrEnd(b) \in 1 .. Len(b) /\ Len(b) \in Nat
  BY LineTypes, HdrEndFacts, DomFacts DEF PxRecords
<1>5. 1 \in 0 .. Len(b) /\ k \in Nat /\ r.info \in Nat /\ k + 1 \in 0 .. r.info
  <2>1. r.info \in Nat
    BY RespFacts
  <2> HIDE DEF b
  <2> QED BY <1>3, <1>4, <2>1
<1>6. t \in Seq(Units) /\ d \in Seq(Units) /\ t \o d = b /\ Len(t) = 1
  <2> HIDE DEF b
  <2> QED BY <1>4, <1>5, TakeDrop, TakeFacts
<1>7. Answer(id, r) \in Seq(Units) /\ d \o rest \in Seq(Units)
  <2> HIDE DEF d, rest
  <2> QED BY <1>4, <1>6, AnswerFacts, CatFacts
<1>8. Within(t \o (d \o rest), Answer(id, r), k)
  <2>1. t \o (d \o rest) = b \o rest
    <3> HIDE DEF t, d, rest, b
    <3>1. t \in Seq(Units) /\ d \in Seq(Units) /\ rest \in Seq(Units)
      BY <1>4, <1>6
    <3>2. (t \o d) \o rest = t \o (d \o rest)
      BY <3>1, CatAssoc, Zenon
    <3> QED BY <1>6, <3>2
  <2> QED BY <1>1, <2>1
<1>9. Within(d \o rest, Answer(id, r), k + 1)
  <2> HIDE DEF t, d, rest, b
  <2> QED BY <1>4, <1>5, <1>6, <1>7, <1>8, WithinCat
<1>10. /\ q.phase = "RECV_HDR" /\ q.overread = p.overread /\ q.bodyDone = p.bodyDone /\ q.buf = d
  BY <1>3 DEF PxRecords
<1>11. (us \o Shown(q)) \o rest = d \o rest
  <2>1. Shown(q) = d /\ <<>> \o d = d
    BY <1>6, <1>10, CatNothing DEF Shown
  <2> HIDE DEF q, d, rest
  <2> QED BY <1>2, <2>1
<1> HIDE DEF q, d, t, b
<1>12. \E m \in 0 .. r.info : Within((us \o Shown(q)) \o rest, Answer(id, r), m)
  BY <1>5, <1>9, <1>11
<1> QED BY <1>2, <1>10, <1>12 DEF Exchange, Early, q

\* note_body on a piece of what the upstream sends for the request, from inside the body that its
\* header announced: of the framed part nothing is cut off, of what is past it everything, and
\* what is left is known.
LEMMA NoteKeeps ==
    ASSUME NEW id \in DOMAIN script, NEW r \in Responses, NEW m \in Nat, m >= 2, NEW p \in PxRecords,
           Within(p.buf, Answer(id, r), r.info + m), ~p.overread, p.framing = r.framing,
           r.info + m <= Len(RespUnits(id, r)), r.over # 0 => r.info + m < Len(RespUnits(id, r)),
           p.framing = "cl" => p.respLeft = Len(RespUnits(id, r)) - r.info - m
    PROVE  LET q == NoteBody(p, p.buf)
               left == Len(RespUnits(id, r)) - r.info - m - Len(q.buf)
           IN  /\ q \in PxRecords /\ Within(q.buf, RespUnits(id, r), r.info + m)
               /\ Len(q.buf) <= Len(p.buf) /\ (\A e \in 1 .. Len(q.buf) : q.buf[e] = p.buf[e])
               /\ p.buf # <<>> => q.buf # <<>>
               /\ IF q.overread THEN q.bodyDone ELSE q.buf = p.buf
               /\ (q.bodyDone => left = 0) /\ (~q.bodyDone /\ r.over # 0 => left > 0)
               /\ q.framing = "cl" /\ ~q.bodyDone => q.respLeft = left
               /\ q.framing = p.framing /\ q.phase = p.phase /\ q.hdr = p.hdr
<1> DEFINE F == RespUnits(id, r)
           A == Answer(id, r)
           L == Len(F)
           i == r.info
           v == r.over
           us == p.buf
           n == Len(us)
           q == NoteBody(p, us)
<1>1. us \in Seq(Units) /\ n \in Nat /\ DOMAIN us = 1 .. n /\ p.respLeft \in Nat
  BY DomFacts DEF PxRecords
<1>2. i \in Nat /\ F \in Seq(Units) /\ r.len \in Nat /\ L = i + 2 + Rest(id, r)
  BY RespFacts
<1>3. L \in Nat
  <2> HIDE DEF F
  <2> QED BY <1>2, DomFacts
<1>4. /\ v \in Nat /\ Len(A) = L + v /\ (\A e \in 1 .. L : A[e] = F[e])
      /\ \A e \in 1 .. v : A[L + e] = Past(id, e)
  BY AnswerFacts
<1>5. PICK end \in 0 .. n : Ended(q, p, us, end)
  BY <1>1, NoteFacts
<1>6. (i + m) + n <= L + v /\ \A e \in 1 .. n : us[e] = A[(i + m) + e]
  BY <1>1, <1>4 DEF Within
<1>7. v # 0 => r.framing \in {"none", "cl", "chunked"}
  BY PeersAssumption
<1>8. /\ i + m <= L /\ (v # 0 => i + m < L)
      /\ p.framing = "cl" => p.respLeft = L - i - m
  OBVIOUS
<1>9. /\ ~HasBody(id, r) => Rest(id, r) = 0
      /\ HasBody(id, r) /\ r.framing = "chunked" => Rest(id, r) = r.len + 1 /\ F[i + 2 + (r.len + 1)] = Unit("z", id, r.len + 1)
  BY RespFacts DEF Rest
<1>10. \A j \in 1 .. L : F[j].k = "z" => j = L
  <2> SUFFICES ASSUME NEW j \in 1 .. L, F[j].k = "z" PROVE j = L
    OBVIOUS
  <2>1. j \in Nat
    BY <1>3
  <2>2. j <= i \/ j = i + 1 \/ j = i + 2 \/ j > i + 2
    BY <1>2, <2>1
  <2> QED BY <2>2, RespAt
<1>11. ~HasBody(id, r) => L = i + 2
  BY <1>2, <1>9
<1>12. v # 0 => HasBody(id, r) /\ r.framing \in {"cl", "chunked"}
  <2>1. v # 0 => HasBody(id, r)
    <3> HIDE DEF L, i
    <3> QED BY <1>2, <1>8, <1>11
  <2> QED BY <1>7, <2>1 DEF HasBody
<1>13. HasBody(id, r) /\ r.framing = "chunked" => F[L].k = "z"
  <2>1. HasBody(id, r) /\ r.framing = "chunked" => L = i + 2 + (r.len + 1) /\ F[i + 2 + (r.len + 1)].k = "z"
    BY <1>2, <1>9 DEF Unit
  <2> HIDE DEF F, L, i
  <2> QED BY <2>1
<1> HIDE DEF F, A, L, i, v, n, us, q
<1>14. end \in Nat /\ end <= n
  BY <1>1, <1>5
<1> DEFINE Sure == /\ (i + m) + end <= L /\ (q.bodyDone => (i + m) + end = L)
                   /\ v # 0 /\ ~q.bodyDone => (i + m) + end < L
                   /\ (end < n => q.bodyDone) /\ (n # 0 => end # 0)
                   /\ p.framing = "cl" => q.respLeft = L - i - m - end
<1>15. ASSUME Chunked(p) PROVE Sure
  <2>0. p.framing # "cl"
    BY <1>15 DEF Chunked
  <2>1. ASSUME \E e \in 1 .. n : us[e].k = "z" PROVE Sure
    <3>1. end # 0 /\ us[end].k = "z" /\ q.bodyDone
      BY <1>5, <1>15, <2>1 DEF Ended, n
    <3> DEFINE j == (i + m) + end
    <3>2. end \in 1 .. n /\ j \in 1 .. L + v
      <4>1. end \in 1 .. n
        BY <1>1, <1>14, <3>1
      <4> QED BY <1>1, <1>2, <1>3, <1>4, <1>6, <4>1
    <3>3. A[j].k = "z"
      BY <1>6, <3>1, <3>2
    <3>4. j = (i + m) + end
      OBVIOUS
    <3> HIDE DEF j
    <3>5. j <= L
      <4> SUFFICES ASSUME j > L PROVE FALSE
        BY <1>3, <1>4, <3>2
      <4> DEFINE e == j - L
      <4>1. e \in 1 .. v /\ j = L + e
        BY <1>3, <1>4, <3>2
      <4> HIDE DEF e
      <4>2. A[j] = Past(id, e)
        BY <1>4, <4>1
      <4>3. A[j].k = "o"
        BY <4>2 DEF Past, Unit
      <4> QED BY <3>3, <4>3
    <3>6. j = L
      <4>1. j \in 1 .. L
        BY <1>3, <1>4, <3>2, <3>5
      <4> QED BY <1>4, <1>10, <3>3, <4>1
    <3>7. (i + m) + end = L
      BY <3>4, <3>6
    <3> QED BY <1>2, <1>3, <2>0, <3>1, <3>7
  <2>2. ASSUME \A e \in 1 .. n : us[e].k # "z" PROVE Sure
    <3>1. end = n /\ ~q.bodyDone
      BY <1>5, <1>15, <2>0, <2>2 DEF Ended, n
    <3>2. v # 0 => (i + m) + n < L
      <4> SUFFICES ASSUME v # 0, (i + m) + n >= L PROVE FALSE
        BY <1>1, <1>2, <1>3
      <4> DEFINE e == L - (i + m)
      <4>1. e \in 1 .. n /\ (i + m) + e = L /\ L \in 1 .. L
        BY <1>1, <1>2, <1>3, <1>8
      <4> HIDE DEF e
      <4>2. us[e] = A[L] /\ A[L] = F[L]
        BY <1>4, <1>6, <4>1
      <4>3. F[L].k = "z"
        <5>1. r.framing # "cl"
          BY <2>0
        <5> QED BY <1>12, <1>13, <5>1
      <4> QED BY <2>2, <4>1, <4>2, <4>3
    <3>3. v = 0 => (i + m) + n <= L
      BY <1>3, <1>6
    <3> QED BY <1>1, <1>2, <1>3, <1>4, <2>0, <3>1, <3>2, <3>3
  <2> QED BY <2>1, <2>2
<1>16. ASSUME p.framing = "cl" PROVE Sure
  <2>1. p.respLeft = L - i - m
    BY <1>8, <1>16
  <2>2. /\ q.respLeft = p.respLeft - end /\ (q.bodyDone <=> p.respLeft = end)
        /\ \/ n <= p.respLeft /\ end = n
           \/ n > p.respLeft /\ end = p.respLeft
    BY <1>5, <1>16 DEF Ended, Chunked, n
  <2>3. n > p.respLeft => v # 0
    BY <1>1, <1>2, <1>3, <1>6, <2>1
  <2> DEFINE x == p.respLeft
  <2>4. x \in Nat /\ x = L - i - m /\ end \in Nat /\ n \in Nat /\ i \in Nat /\ L \in Nat /\ m \in Nat
    BY <1>1, <1>2, <1>3, <1>14, <2>1
  <2>5. \/ n <= x /\ end = n
        \/ n > x /\ end = x /\ v # 0
    BY <2>2, <2>3
  <2>6. v # 0 => i + m < L
    BY <1>8
  <2>7. q.respLeft = x - end /\ (q.bodyDone <=> x = end)
    BY <2>2
  <2> HIDE DEF x
  <2>8. end <= x /\ (v # 0 => x # 0)
    BY <2>4, <2>5, <2>6
  <2>9. /\ (i + m) + end <= L /\ (x = end => (i + m) + end = L)
        /\ x # end => (i + m) + end < L
        /\ x - end = L - i - m - end
    BY <2>4, <2>8
  <2>10. (end < n => x = end) /\ (n # 0 => end # 0)
    BY <2>4, <2>5, <2>8
  <2> QED BY <2>7, <2>9, <2>10
<1>17. ASSUME ~Chunked(p), p.framing # "cl" PROVE Sure
  <2>1. end = n /\ ~q.bodyDone
    BY <1>5, <1>17 DEF Ended, n
  <2>2. v = 0
    BY <1>12, <1>17 DEF Chunked
  <2> QED BY <1>1, <1>2, <1>3, <1>6, <1>17, <2>1, <2>2
<1>18. Sure
  BY <1>15, <1>16, <1>17
<1>19. /\ q \in PxRecords /\ q.buf = Take(us, end) /\ q.overread = (end < n)
       /\ q.framing = p.framing /\ q.phase = p.phase /\ q.hdr = p.hdr
  BY <1>5 DEF Ended, n
<1>20. Take(us, end) \in Seq(Units) /\ Len(Take(us, end)) = end /\ \A e \in 1 .. end : Take(us, end)[e] = us[e]
  BY <1>1, <1>14, TakeFacts DEF n
<1>21. q.buf \in Seq(Units) /\ Len(q.buf) = end /\ \A e \in 1 .. end : q.buf[e] = us[e]
  BY <1>19, <1>20
<1>22. Within(q.buf, F, i + m)
  <2>1. DOMAIN q.buf = 1 .. end
    BY <1>21, DomFacts
  <2>2. ASSUME NEW e \in 1 .. end PROVE q.buf[e] = F[(i + m) + e]
    <3>1. e \in 1 .. n /\ (i + m) + e \in 1 .. L
      BY <1>1, <1>2, <1>3, <1>14, <1>18
    <3> QED BY <1>4, <1>6, <1>21, <3>1
  <2>3. (i + m) + Len(q.buf) <= Len(F)
    BY <1>18, <1>21 DEF L
  <2> QED BY <2>1, <2>2, <2>3 DEF Within
<1>23. (us # <<>> => n # 0) /\ (end # 0 => q.buf # <<>>)
  BY <1>1, <1>21, DomFacts DEF n
<1>24. ~(end < n) => q.buf = us
  <2> SUFFICES ASSUME ~(end < n) PROVE q.buf = us
    OBVIOUS
  <2>1. end = n
    BY <1>1, <1>14
  <2>2. Take(us, n) = us
    BY <1>1, SubSeqFull DEF Take, n
  <2> QED BY <1>19, <2>1, <2>2
<1>25. /\ (q.bodyDone => L - i - m - end = 0) /\ (~q.bodyDone /\ v # 0 => L - i - m - end > 0)
       /\ q.framing = "cl" /\ ~q.bodyDone => q.respLeft = L - i - m - end
  BY <1>2, <1>3, <1>14, <1>18, <1>19
<1>26. IF q.overread THEN q.bodyDone ELSE q.buf = us
  BY <1>18, <1>19, <1>24
<1> QED BY <1>14, <1>18, <1>19, <1>21, <1>22, <1>23, <1>25, <1>26 DEF F, A, L, i, v, n, us, q

\* A piece of an answer that is not cut into malformed chunks has no such unit.
LEMMA NoBadUnit ==
    ASSUME NEW id \in DOMAIN script, NEW r \in Responses, r.framing # "badchunk", NEW s \in Seq(Units), NEW k \in Nat,
           Within(s, RespUnits(id, r), k)
    PROVE  \A i \in DOMAIN s : s[i].k # "x"
<1> DEFINE all == RespUnits(id, r)
<1>1. DOMAIN s = 1 .. Len(s) /\ Len(s) \in Nat
  BY DomFacts
<1>2. all \in Seq(Units) /\ r.info \in Nat
  BY RespFacts
<1>3. Len(all) \in Nat
  <2> HIDE DEF all
  <2> QED BY <1>2, DomFacts
<1>4. k + Len(s) <= Len(all) /\ \A i \in 1 .. Len(s) : s[i] = all[k + i]
  BY <1>1 DEF Within
<1>5. ASSUME NEW i \in 1 .. Len(s) PROVE s[i].k # "x"
  <2> DEFINE j == k + i
  <2>1. j \in 1 .. Len(all) /\ s[i] = all[j]
    <3> HIDE DEF all
    <3> QED BY <1>1, <1>3, <1>4
  <2>2. j \in Nat
    BY <1>1
  <2> HIDE DEF j
  <2>3. j <= r.info \/ j = r.info + 1 \/ j = r.info + 2 \/ j > r.info + 2
    BY <1>2, <2>2
  <2>4. all[j].k \in {"1xx", "h", "hend", "d", "z"} \/ r.framing = "badchunk"
    BY <2>1, <2>3, RespAt
  <2> QED BY <2>1, <2>4
<1> QED BY <1>1, <1>5

\* The final header is rewritten: the framing it announces, and of the framed body what is read of it.
LEMMA FinalKeeps ==
    ASSUME NEW p \in PxRecords, ~p.overread, ~p.bodyDone, Cur \in DOMAIN script, NEW r \in Responses,
           Within(p.buf, Answer(Cur, r), r.info), Len(p.buf) >= 2, p.buf[2].k = "hend", p.buf[2].r = r
    PROVE  LET q == FinalHeader(p, 2)
               d == Drop(p.buf, 2)
               left == Len(RespUnits(Cur, r)) - r.info - 2 - Len(q.buf)
           IN  /\ q.phase = "SEND_RESP" /\ q.hdr = Take(p.buf, 2) /\ q.framing = r.framing /\ q.buf \in Seq(Units)
               /\ Within(q.buf, RespUnits(Cur, r), r.info + 2)
               /\ Len(q.buf) <= Len(d) /\ (\A e \in 1 .. Len(q.buf) : q.buf[e] = d[e])
               /\ IF q.overread THEN q.bodyDone ELSE q.buf = d
               /\ (q.bodyDone => left = 0) /\ (~q.bodyDone /\ r.over # 0 => left > 0)
               /\ q.framing = "cl" /\ ~q.bodyDone => q.respLeft = left
               /\ NoBody(r) => q.buf = <<>>
<1> DEFINE b == p.buf
           N == Len(b)
           t == Take(b, 2)
           d == Drop(b, 2)
           F == RespUnits(Cur, r)
           A == Answer(Cur, r)
           L == Len(F)
           i == r.info
           q == FinalHeader(p, 2)
           a == Answered(p, 2)
<1>1. b \in Seq(Units) /\ N \in Nat /\ N >= 2
  BY DomFacts DEF PxRecords
<1>2. 2 \in 0 .. N /\ 2 \in 1 .. N
  <2> HIDE DEF N
  <2> QED BY <1>1
<1>3. t \in Seq(Units) /\ d \in Seq(Units) /\ t \o d = b /\ Len(t) = 2 /\ Len(d) = N - 2
  BY <1>1, <1>2, TakeDrop, TakeFacts, DropFacts
<1>4. F \in Seq(Units) /\ A \in Seq(Units) /\ i \in Nat /\ r.len \in Nat /\ Rest(Cur, r) \in Nat /\ L = i + 2 + Rest(Cur, r)
  BY RespFacts, AnswerFacts
<1>5. L \in Nat /\ i + 2 <= L /\ L - i - 2 = Rest(Cur, r)
  <2> DEFINE e == Rest(Cur, r)
  <2>1. i \in Nat /\ e \in Nat /\ L = i + 2 + e
    BY <1>4
  <2> HIDE DEF L, i, e
  <2>2. L \in Nat /\ i + 2 <= L /\ L - i - 2 = e
    BY <2>1
  <2> QED BY <2>2 DEF e
<1>6. /\ a \in PxRecords /\ a.phase = "SEND_RESP" /\ a.framing = r.framing /\ a.hdr = t /\ a.buf = d
      /\ a.respLeft = IF r.framing = "cl" THEN r.len ELSE 0
      /\ a.bodyDone = p.bodyDone /\ a.overread = p.overread
  BY <1>2, AnsweredFacts
<1>7. NoBody(r) => Rest(Cur, r) = 0
  BY DEF NoBody, Rest, HasBody, Req
<1>8. /\ ~NoBody(r) /\ r.framing = "cl" => Rest(Cur, r) = r.len /\ r.len # 0
      /\ ~NoBody(r) /\ r.framing = "chunked" => Rest(Cur, r) = r.len + 1
      /\ ~NoBody(r) => r.framing # "none"
  BY DEF NoBody, Rest, HasBody, Req
<1>9. ~NoBody(r) /\ r.over # 0 => Rest(Cur, r) > 0
  <2>1. r.over # 0 => r.framing \in {"none", "cl", "chunked"}
    BY PeersAssumption
  <2>2. ~NoBody(r) /\ r.over # 0 => r.framing = "cl" \/ r.framing = "chunked"
    BY <1>8, <2>1
  <2> QED BY <1>4, <1>8, <2>2
<1>10. Len(<<>>) = 0 /\ Within(<<>>, F, i + 2)
  <2>1. Len(<<>>) = 0 /\ DOMAIN <<>> = {}
    OBVIOUS
  <2> QED BY <1>4, <1>5, <2>1 DEF Within
<1>11. CASE NoBody(r)
  <2>1. q = Bare(p, 2)
    BY <1>11, FinalFacts
  <2>2. Bare(p, 2) = [a EXCEPT !.bodyDone = TRUE, !.buf = <<>>, !.overread = (d # <<>>), !.respLeft = 0]
    BY DEF Bare
  <2>3. Len(d) \in Nat /\ L - i - 2 - 0 = 0
    <3>1. Len(d) \in Nat
      BY <1>3, DomFacts
    <3>2. L - i - 2 = 0
      BY <1>5, <1>7, <1>11
    <3> HIDE DEF L, i, d
    <3> QED BY <1>4, <1>5, <3>1, <3>2
  <2> HIDE DEF a, d, t, q, L, i, N, F, A
  <2>4. /\ q.phase = "SEND_RESP" /\ q.framing = r.framing /\ q.hdr = t /\ q.buf = <<>> /\ q.bodyDone
        /\ q.overread = (d # <<>>)
    BY <1>6, <2>1, <2>2 DEF PxRecords
  <2>5. Len(q.buf) = 0 /\ q.buf \in Seq(Units) /\ Within(q.buf, F, i + 2)
    BY <1>10, <2>4
  <2>6. Len(q.buf) <= Len(d) /\ (\A e \in 1 .. Len(q.buf) : q.buf[e] = d[e]) /\ L - i - 2 - Len(q.buf) = 0
    BY <2>3, <2>5
  <2>7. IF q.overread THEN q.bodyDone ELSE q.buf = d
    BY <2>4
  <2> QED BY <2>4, <2>5, <2>6, <2>7 DEF d, t, q, L, i, N, F
<1>12. CASE ~NoBody(r) /\ d = <<>>
  <2>1. q = a
    BY <1>12, FinalFacts
  <2> HIDE DEF a, d, t, q, L, i, N, F, A
  <2>2. Len(q.buf) = 0 /\ Len(q.buf) <= Len(d) /\ q.buf \in Seq(Units) /\ Within(q.buf, F, i + 2) /\ q.buf = d
    <3>1. q.buf = d /\ d = <<>> /\ d \in Seq(Units)
      BY <1>3, <1>6, <1>12, <2>1
    <3>2. Len(d) = 0 /\ Within(d, F, i + 2)
      BY <1>10, <3>1
    <3> QED BY <3>1, <3>2
  <2>3. \A e \in 1 .. Len(q.buf) : q.buf[e] = d[e]
    BY <2>2
  <2>4. L - i - 2 - Len(q.buf) = Rest(Cur, r)
    BY <1>4, <1>5, <2>2
  <2>5. r.framing = "cl" => q.respLeft = Rest(Cur, r)
    BY <1>6, <1>8, <1>12, <2>1
  <2>6. r.over # 0 => Rest(Cur, r) > 0
    BY <1>9, <1>12
  <2>7. ~q.bodyDone /\ ~q.overread /\ q.phase = "SEND_RESP" /\ q.hdr = t /\ q.framing = r.framing
    BY <1>6, <2>1
  <2> QED BY <1>12, <2>2, <2>3, <2>4, <2>5, <2>6, <2>7 DEF d, t, q, L, i, N, F
<1>13. CASE ~NoBody(r) /\ d # <<>>
  <2>1. q = NoteBody(a, d)
    BY <1>13, FinalFacts
  <2>2. Within(t \o d, A, i)
    BY <1>3
  <2>3. Within(d, A, i + 2)
    <3> HIDE DEF t, d, A, i
    <3> QED BY <1>3, <1>4, <2>2, WithinCat
  <2>4. r.framing = "cl" => a.respLeft = L - i - 2
    <3> HIDE DEF L, i, a
    <3> QED BY <1>5, <1>6, <1>8, <1>13
  <2>5. r.over # 0 => i + 2 < L
    <3> HIDE DEF L, i
    <3> QED BY <1>4, <1>9, <1>13
  <2>6. a.buf = d /\ a.framing = r.framing /\ ~a.overread /\ a.phase = "SEND_RESP" /\ a.hdr = t /\ a \in PxRecords
    BY <1>6
  <2>7. Within(a.buf, A, i + 2) /\ (a.framing = "cl" => a.respLeft = L - i - 2) /\ q = NoteBody(a, a.buf)
    BY <2>1, <2>3, <2>4, <2>6
  <2>8. /\ q \in PxRecords /\ Within(q.buf, F, i + 2)
        /\ Len(q.buf) <= Len(d) /\ (\A e \in 1 .. Len(q.buf) : q.buf[e] = d[e])
        /\ IF q.overread THEN q.bodyDone ELSE q.buf = d
        /\ (q.bodyDone => L - i - 2 - Len(q.buf) = 0) /\ (~q.bodyDone /\ r.over # 0 => L - i - 2 - Len(q.buf) > 0)
        /\ q.framing = "cl" /\ ~q.bodyDone => q.respLeft = L - i - 2 - Len(q.buf)
        /\ q.framing = r.framing /\ q.phase = "SEND_RESP" /\ q.hdr = t
    <3> HIDE DEF a, d, t, q
    <3> QED BY <1>5, <2>5, <2>6, <2>7, NoteKeeps
  <2>9. q.buf \in Seq(Units)
    <3> HIDE DEF q
    <3> QED BY <2>8 DEF PxRecords
  <2> HIDE DEF a, d, t, q, L, i, N, F, A
  <2> QED BY <1>13, <2>8, <2>9 DEF d, t, q, L, i, N, F
<1> QED BY <1>11, <1>12, <1>13

\* The final header of an answer is not a malformed chunk.
LEMMA NoBadHeader ==
    ASSUME NEW id \in DOMAIN script, NEW r \in Responses, NEW t \in Seq(Units), Len(t) = 2,
           Within(t, RespUnits(id, r), r.info)
    PROVE  \A i \in DOMAIN t : t[i].k # "x"
<1> DEFINE all == RespUnits(id, r)
           m == r.info
<1>1. DOMAIN t = 1 .. 2 /\ m \in Nat /\ all \in Seq(Units)
  BY DomFacts, RespFacts
<1>2. Len(all) \in Nat
  <2> HIDE DEF all
  <2> QED BY <1>1, DomFacts
<1>3. m + 2 <= Len(all) /\ \A i \in 1 .. 2 : t[i] = all[m + i]
  BY <1>1 DEF Within
<1>4. ASSUME NEW i \in 1 .. 2 PROVE t[i].k # "x"
  <2>1. m + i \in 1 .. Len(all) /\ t[i] = all[m + i]
    <3> HIDE DEF m, all
    <3> QED BY <1>1, <1>2, <1>3
  <2>2. all[m + i].k \in {"h", "hend"}
    BY <2>1, RespAt
  <2> QED BY <2>1, <2>2
<1> QED BY <1>1, <1>4

\* Two consecutive pieces are one.
LEMMA WithinJoin ==
    ASSUME NEW a \in Seq(Units), NEW b \in Seq(Units), NEW all \in Seq(Units), NEW k \in Nat,
           Within(a, all, k), Within(b, all, k + Len(a))
    PROVE  Within(a \o b, all, k)
<1> DEFINE t == a \o b
<1>1. /\ t \in Seq(Units) /\ Len(t) = Len(a) + Len(b) /\ (\A i \in 1 .. Len(a) : t[i] = a[i])
      /\ (\A i \in 1 .. Len(b) : t[Len(a) + i] = b[i])
  BY CatFacts
<1>2. /\ DOMAIN a = 1 .. Len(a) /\ DOMAIN b = 1 .. Len(b) /\ Len(a) \in Nat /\ Len(b) \in Nat /\ Len(all) \in Nat
  BY DomFacts
<1>3. /\ \A i \in 1 .. Len(a) : a[i] = all[k + i]
      /\ (k + Len(a)) + Len(b) <= Len(all) /\ \A i \in 1 .. Len(b) : b[i] = all[(k + Len(a)) + i]
  BY <1>2 DEF Within
<1> HIDE DEF t
<1>4. DOMAIN t = 1 .. Len(t)
  BY <1>1, DomFacts
<1>5. ASSUME NEW i \in 1 .. Len(t) PROVE t[i] = all[k + i]
  <2>1. CASE i <= Len(a)
    <3>1. i \in 1 .. Len(a)
      BY <2>1, <1>2
    <3> QED BY <1>1, <1>3, <3>1
  <2>2. CASE i > Len(a)
    <3> DEFINE j == i - Len(a)
    <3>1. j \in 1 .. Len(b) /\ i = Len(a) + j
      BY <2>2, <1>1, <1>2
    <3> HIDE DEF j
    <3>2. (k + Len(a)) + j = k + i
      BY <1>2, <3>1
    <3> QED BY <1>1, <1>3, <3>1, <3>2
  <2> QED BY <1>1, <1>2, <2>1, <2>2
<1>6. k + Len(t) <= Len(all)
  BY <1>1, <1>2, <1>3
<1> QED BY <1>4, <1>5, <1>6 DEF Within, t

\* Two pieces without a malformed chunk.
LEMMA NoBadCat ==
    ASSUME NEW a \in Seq(Units), NEW b \in Seq(Units),
           \A i \in DOMAIN a : a[i].k # "x", \A i \in DOMAIN b : b[i].k # "x"
    PROVE  \A i \in DOMAIN (a \o b) : (a \o b)[i].k # "x"
<1> DEFINE t == a \o b
<1>1. /\ t \in Seq(Units) /\ Len(t) = Len(a) + Len(b) /\ (\A i \in 1 .. Len(a) : t[i] = a[i])
      /\ (\A i \in 1 .. Len(b) : t[Len(a) + i] = b[i])
  BY CatFacts
<1>2. /\ DOMAIN a = 1 .. Len(a) /\ DOMAIN b = 1 .. Len(b) /\ Len(a) \in Nat /\ Len(b) \in Nat
  BY DomFacts
<1> HIDE DEF t
<1>3. DOMAIN t = 1 .. Len(t)
  BY <1>1, DomFacts
<1>4. ASSUME NEW i \in 1 .. Len(t) PROVE t[i].k # "x"
  <2>1. CASE i <= Len(a)
    <3>1. i \in 1 .. Len(a)
      BY <2>1, <1>2
    <3> QED BY <1>1, <1>2, <3>1
  <2>2. CASE i > Len(a)
    <3> DEFINE j == i - Len(a)
    <3>1. j \in 1 .. Len(b) /\ i = Len(a) + j
      BY <2>2, <1>1, <1>2
    <3> HIDE DEF j
    <3> QED BY <1>1, <1>2, <3>1
  <2> QED BY <1>2, <2>1, <2>2
<1> QED BY <1>3, <1>4 DEF t

\* The final header ends the wait for the answer: what was read is of one answer, framed as it says.
LEMMA ExchangeFinal ==
    ASSUME NEW us \in Seq(Units), NEW p \in PxRecords, p.phase = "RECV_HDR", NEW u \in UpRecords,
           Cur \in DOMAIN script, Exchange(us, p, u, Cur), NEW at, at = HdrEnd(p.buf), at # 0, p.buf[at].k = "hend",
           p.buf[1].k # "o", p.buf[at].r.framing # "badhead",
           ~(p.buf[at].r.framing = "badchunk" /\ BadChunk(Drop(p.buf, at)) /\ Req.method # "HEAD")
    PROVE  Exchange(us, FinalHeader(p, at), u, Cur)
<1> DEFINE b == p.buf
           N == Len(b)
           t == Take(b, 2)
           d == Drop(b, 2)
           rest == u.in \o u.plan
           q == FinalHeader(p, 2)
           e == q.buf
<1>1. /\ us = <<>> /\ ~p.overread /\ ~p.bodyDone /\ u.answered = Cur
      /\ \E r \in Responses : \E k \in 0 .. r.info :
            /\ Within(b \o rest, Answer(Cur, r), k)
            /\ \/ HdrEnd(b) = 1 /\ b[1].k = "1xx" /\ k + 1 <= r.info
               \/ HdrEnd(b) = 2 /\ k = r.info /\ b[2].k = "hend" /\ b[2].r = r /\ N >= 2
  BY ExchangeHeader, Zenon
<1>2. PICK r \in Responses :
          Within(b \o rest, Answer(Cur, r), r.info) /\ at = 2 /\ b[2].k = "hend" /\ b[2].r = r /\ N >= 2
  BY <1>1
<1> DEFINE F == RespUnits(Cur, r)
           A == Answer(Cur, r)
           L == Len(F)
           i == r.info
<1>3. b \in Seq(Units) /\ rest \in Seq(Units) /\ F \in Seq(Units) /\ A \in Seq(Units) /\ i \in Nat
  BY LineTypes, RespFacts, AnswerFacts DEF PxRecords
<1>4. N \in Nat /\ L \in Nat /\ 2 \in 0 .. N
  <2>1. N \in Nat /\ L \in Nat /\ N >= 2
    <3> HIDE DEF b, F
    <3> QED BY <1>2, <1>3, DomFacts DEF b
  <2> HIDE DEF N
  <2> QED BY <2>1
<1>5. t \in Seq(Units) /\ d \in Seq(Units) /\ t \o d = b /\ Len(t) = 2
  BY <1>3, <1>4, TakeDrop, TakeFacts
<1>6. Within(b, A, i)
  <2> HIDE DEF b, A, i, rest
  <2> QED BY <1>2, <1>3, WithinCat DEF b, A, i, rest
<1>7. /\ q.phase = "SEND_RESP" /\ q.hdr = t /\ q.framing = r.framing /\ e \in Seq(Units) /\ Within(e, F, i + 2)
      /\ Len(e) <= Len(d) /\ (\A j \in 1 .. Len(e) : e[j] = d[j])
      /\ IF q.overread THEN q.bodyDone ELSE e = d
      /\ (q.bodyDone => L - i - 2 - Len(e) = 0) /\ (~q.bodyDone /\ r.over # 0 => L - i - 2 - Len(e) > 0)
      /\ q.framing = "cl" /\ ~q.bodyDone => q.respLeft = L - i - 2 - Len(e)
      /\ NoBody(r) => e = <<>>
  BY <1>1, <1>2, <1>6, FinalKeeps
<1>8. Within(t, F, i)
  <2>1. Within(t, A, i)
    <3>1. Within(t \o d, A, i)
      BY <1>5, <1>6
    <3> HIDE DEF t, d, A, i
    <3> QED BY <1>3, <1>5, <3>1, WithinCat
  <2>2. i + Len(t) <= L
    <3>1. L = i + 2 + Rest(Cur, r) /\ Rest(Cur, r) \in Nat
      BY RespFacts
    <3> HIDE DEF L, i, t
    <3> QED BY <1>3, <1>5, <3>1
  <2> HIDE DEF t
  <2> QED BY <1>3, <1>5, <2>1, <2>2, AnswerWithin
<1> DEFINE read == t \o e
<1>9. Within(read, F, i) /\ read \in Seq(Units) /\ Len(read) = 2 + Len(e) /\ Len(e) \in Nat
  <2> HIDE DEF t, e, F, i
  <2>1. Within(e, F, i + Len(t))
    BY <1>5, <1>7
  <2>2. Within(t \o e, F, i)
    BY <1>3, <1>5, <1>7, <1>8, <2>1, WithinJoin
  <2>3. t \o e \in Seq(Units) /\ Len(t \o e) = 2 + Len(e) /\ Len(e) \in Nat
    <3>1. t \in Seq(Units) /\ e \in Seq(Units) /\ Len(t) = 2
      BY <1>5, <1>7
    <3>2. t \o e \in Seq(Units) /\ Len(t \o e) = Len(t) + Len(e)
      BY <3>1, CatFacts
    <3>3. Len(e) \in Nat
      BY <3>1, DomFacts
    <3> QED BY <3>1, <3>2, <3>3
  <2> QED BY <2>2, <2>3
<1>10. \A j \in DOMAIN read : read[j].k # "x"
  <2>1. CASE r.framing = "badchunk"
    <3>1. ~BadChunk(d) \/ e = <<>>
      BY <1>2, <1>7, <2>1 DEF NoBody
    <3>2. DOMAIN e = 1 .. Len(e) /\ DOMAIN d = 1 .. Len(d) /\ Len(d) \in Nat
      <4> HIDE DEF e, d
      <4> QED BY <1>5, <1>7, DomFacts
    <3>3. \A j \in DOMAIN e : e[j].k # "x"
      <4>1. CASE e = <<>>
        <5> HIDE DEF e
        <5>1. DOMAIN e = {}
          BY <4>1
        <5> QED BY <5>1
      <4>2. CASE ~BadChunk(d)
        <5> SUFFICES ASSUME NEW j \in 1 .. Len(e) PROVE e[j].k # "x"
          BY <3>2
        <5>1. j \in DOMAIN d /\ e[j] = d[j]
          BY <1>7, <1>9, <3>2
        <5> QED BY <4>2, <5>1 DEF BadChunk
      <4> QED BY <3>1, <4>1, <4>2
    <3>4. \A j \in DOMAIN t : t[j].k # "x"
      BY <1>5, <1>8, NoBadHeader
    <3> HIDE DEF t, e
    <3> QED BY <1>5, <1>7, <3>3, <3>4, NoBadCat
  <2>2. CASE r.framing # "badchunk"
    <3> HIDE DEF read
    <3> QED BY <1>3, <1>9, <2>2, NoBadUnit
  <2> QED BY <2>1, <2>2
<1>11. us \o Shown(q) = read
  <2>1. Shown(q) = read
    BY <1>7 DEF Shown
  <2>2. <<>> \o read = read
    BY <1>9, CatNothing
  <2> HIDE DEF q, read
  <2> QED BY <1>1, <2>1, <2>2
<1>12. r.framing # "badhead" /\ i \in 0 .. i
  BY <1>2, <1>3
<1>13. IF q.overread THEN q.bodyDone ELSE Within(read \o rest, A, i)
  BY <1>2, <1>5, <1>7
<1> HIDE DEF q, b, t, d, e, rest, read
<1>14. L - i - Len(read) = L - i - 2 - Len(e) /\ Len(read) >= 2
  <2> DEFINE x == Len(e)
             y == Len(read)
  <2>1. i \in Nat /\ L \in Nat /\ x \in Nat /\ y = 2 + x
    BY <1>3, <1>4, <1>9
  <2> HIDE DEF L, i, x, y
  <2>2. L - i - y = L - i - 2 - x /\ y >= 2
    BY <2>1
  <2> QED BY <2>2 DEF x, y
<1>15. Framed(read, q, r, L - i - Len(read))
  BY <1>7, <1>10, <1>12, <1>14 DEF Framed
<1>16. Exchange(us, q, u, Cur)
  BY <1>1, <1>7, <1>9, <1>11, <1>12, <1>13, <1>15 DEF Exchange, Early, rest
<1> QED BY <1>2, <1>16 DEF q

\* A piece of the body is read while the answer streams.
LEMMA ExchangeStream ==
    ASSUME NEW us \in Seq(Units), NEW p \in PxRecords, p.phase = "STREAM", p.buf = <<>>, NEW u \in UpRecords,
           NEW id \in DOMAIN script, Exchange(us, p, u, id), NEW n \in 1 .. Len(u.in),
           NEW t, t = Take(u.in, n), ~(Chunked(p) /\ BadChunk(t)),
           NEW w, w.answered = u.answered, w.in = Drop(u.in, n), w.plan = u.plan
    PROVE  Exchange(us, NoteBody([p EXCEPT !.buf = t], t), w, id)
<1> DEFINE s == u.in
           d == Drop(s, n)
           plan == u.plan
           p1 == [p EXCEPT !.buf = t]
           q == NoteBody(p1, t)
           e == q.buf
           m == Len(us)
<1>1. s \in Seq(Units) /\ plan \in Seq(Units) /\ s \o plan \in Seq(Units) /\ m \in Nat
  BY CatFacts, DomFacts DEF UpRecords
<1>2. n \in 0 .. Len(s) /\ n \in Nat /\ n >= 1 /\ Len(s) \in Nat
  <2>1. Len(s) \in Nat
    BY <1>1, DomFacts
  <2> HIDE DEF s
  <2> QED BY <2>1 DEF s
<1>3. t \in Seq(Units) /\ d \in Seq(Units) /\ t \o d = s /\ Len(t) = n
  BY <1>1, <1>2, TakeDrop, TakeFacts
<1>4. u.answered = id
  BY DEF Exchange, Early
<1>5. PICK r \in Responses :
          /\ IF p.overread THEN p.bodyDone ELSE Within((us \o Shown(p)) \o (s \o plan), Answer(id, r), r.info)
          /\ Within(us \o Shown(p), RespUnits(id, r), r.info)
          /\ Framed(us \o Shown(p), p, r, Len(RespUnits(id, r)) - r.info - Len(us \o Shown(p)))
  BY DEF Exchange, Early
<1> DEFINE F == RespUnits(id, r)
           A == Answer(id, r)
           L == Len(F)
           i == r.info
<1>6. us \o Shown(p) = us /\ ~p.bodyDone /\ ~p.overread /\ p.hdr = <<>>
  <2>1. p.hdr = <<>> /\ ~p.bodyDone
    BY <1>5 DEF Framed
  <2> QED BY <1>5, <2>1, CatNothing DEF Shown
<1>7. Within(us \o (s \o plan), A, i) /\ Within(us, F, i) /\ Framed(us, p, r, L - i - m)
  BY <1>5, <1>6
<1>8. F \in Seq(Units) /\ A \in Seq(Units) /\ i \in Nat
  BY RespFacts, AnswerFacts
<1>9. L \in Nat /\ i + m \in Nat
  <2> HIDE DEF F
  <2> QED BY <1>1, <1>8, DomFacts
<1>10. d \o plan \in Seq(Units) /\ s \o plan = t \o (d \o plan)
  <2> HIDE DEF s, d, plan
  <2>1. t \in Seq(Units) /\ d \in Seq(Units) /\ plan \in Seq(Units)
    BY <1>1, <1>3
  <2>2. (t \o d) \o plan = t \o (d \o plan)
    BY <2>1, CatAssoc, Zenon
  <2>3. d \o plan \in Seq(Units)
    BY <2>1, CatFacts
  <2> QED BY <1>3, <2>2, <2>3
<1>11. Within(s \o plan, A, i + m)
  <2>1. us \in Seq(Units) /\ s \o plan \in Seq(Units) /\ A \in Seq(Units) /\ i \in Nat /\ Within(us \o (s \o plan), A, i)
    BY <1>1, <1>7, <1>8
  <2> HIDE DEF s, plan, A, i
  <2> QED BY <2>1, WithinCat
<1>12. Within(t, A, i + m)
  <2>1. t \in Seq(Units) /\ d \o plan \in Seq(Units) /\ A \in Seq(Units) /\ Within(t \o (d \o plan), A, i + m)
    BY <1>3, <1>8, <1>10, <1>11
  <2> HIDE DEF d, plan, A, i, m
  <2> QED BY <1>9, <2>1, WithinCat
<1>13. i + m <= L /\ m >= 2 /\ (r.over # 0 => L - i - m > 0) /\ (p.framing = "cl" => p.respLeft = L - i - m)
  BY <1>6, <1>7 DEF Framed, Within
<1>14. p.framing = r.framing /\ r.framing # "badhead" /\ \A j \in DOMAIN us : us[j].k # "x"
  BY <1>7 DEF Framed
<1>15. /\ p1 \in PxRecords /\ p1.buf = t /\ p1.overread = p.overread /\ p1.framing = p.framing /\ p1.hdr = p.hdr
       /\ p1.respLeft = p.respLeft /\ p1.phase = p.phase
  BY <1>3 DEF PxRecords
<1>16. /\ q \in PxRecords /\ Within(e, F, i + m) /\ Len(e) <= Len(t) /\ (\A j \in 1 .. Len(e) : e[j] = t[j])
       /\ t # <<>> => e # <<>>
       /\ IF q.overread THEN q.bodyDone ELSE e = t
       /\ (q.bodyDone => L - i - m - Len(e) = 0) /\ (~q.bodyDone /\ r.over # 0 => L - i - m - Len(e) > 0)
       /\ q.framing = "cl" /\ ~q.bodyDone => q.respLeft = L - i - m - Len(e)
       /\ q.framing = r.framing /\ q.phase = "STREAM" /\ q.hdr = <<>>
  <2>1. /\ Within(p1.buf, A, i + m) /\ ~p1.overread /\ p1.framing = r.framing
        /\ p1.framing = "cl" => p1.respLeft = L - i - m
        /\ q = NoteBody(p1, p1.buf) /\ i + m <= L /\ (r.over # 0 => i + m < L)
    <3>1. r.over # 0 => i + m < L
      <4> HIDE DEF i, m, L
      <4> QED BY <1>1, <1>8, <1>9, <1>13
    <3> QED BY <1>6, <1>12, <1>13, <1>14, <1>15, <3>1
  <2> HIDE DEF p1, q, m
  <2> QED BY <1>1, <1>6, <1>13, <1>14, <1>15, <2>1, NoteKeeps
<1>17. e \in Seq(Units) /\ Len(e) \in Nat /\ DOMAIN e = 1 .. Len(e) /\ DOMAIN t = 1 .. Len(t)
  <2>1. e \in Seq(Units)
    <3> HIDE DEF q
    <3> QED BY <1>16 DEF PxRecords
  <2> HIDE DEF e
  <2> QED BY <1>3, <2>1, DomFacts
<1> DEFINE read == us \o e
<1>18. read \in Seq(Units) /\ Len(read) = m + Len(e)
  <2> HIDE DEF e
  <2> QED BY <1>17, CatFacts
<1>19. Within(read, F, i)
  <2> HIDE DEF e, F, i
  <2> QED BY <1>7, <1>8, <1>16, <1>17, WithinJoin
<1>20. \A j \in DOMAIN read : read[j].k # "x"
  <2>1. CASE r.framing = "badchunk"
    <3>1. ~BadChunk(t)
      BY <1>14, <2>1 DEF Chunked
    <3> HIDE DEF e
    <3>2. \A j \in DOMAIN e : e[j].k # "x"
      <4> SUFFICES ASSUME NEW j \in 1 .. Len(e) PROVE e[j].k # "x"
        BY <1>17
      <4>1. j \in DOMAIN t /\ e[j] = t[j]
        BY <1>2, <1>3, <1>16, <1>17
      <4> QED BY <3>1, <4>1 DEF BadChunk
    <3> QED BY <1>14, <1>17, <3>2, NoBadCat
  <2>2. CASE r.framing # "badchunk"
    <3> HIDE DEF read
    <3> QED BY <1>8, <1>18, <1>19, <2>2, NoBadUnit
  <2> QED BY <2>1, <2>2
<1>21. us \o Shown(q) = read
  <2>1. <<>> \o e = e
    BY <1>17, CatNothing
  <2>2. Shown(q) = e
    <3> HIDE DEF q
    <3> QED BY <1>16, <2>1 DEF Shown
  <2> QED BY <2>2
<1>22. IF q.overread THEN q.bodyDone ELSE Within(read \o (d \o plan), A, i)
  <2>1. (us \o t) \o (d \o plan) = us \o (s \o plan)
    BY <1>1, <1>2, MoveLeft
  <2> HIDE DEF q, d, plan, s
  <2> QED BY <1>7, <1>16, <2>1
<1>23. e # <<>>
  <2>1. t # <<>>
    BY <1>2, <1>3, DomFacts
  <2> QED BY <1>16, <2>1
<1> HIDE DEF q, p1, s, d, plan, m, read
<1>24. Len(read) >= 2 /\ L - i - Len(read) = L - i - m - Len(e)
  <2> DEFINE x == Len(e)
             y == Len(read)
  <2>1. i \in Nat /\ L \in Nat /\ m \in Nat /\ m >= 2 /\ x \in Nat /\ y = m + x
    BY <1>1, <1>8, <1>9, <1>13, <1>17, <1>18
  <2> HIDE DEF L, i, x, y
  <2>2. y >= 2 /\ L - i - y = L - i - m - x
    BY <2>1
  <2> QED BY <2>2 DEF x, y
<1>25. Framed(read, q, r, L - i - Len(read))
  BY <1>14, <1>16, <1>20, <1>23, <1>24 DEF Framed
<1>26. w.in \o w.plan = d \o plan /\ w.answered = id
  BY <1>4 DEF d, s, plan
<1>27. q.phase # "SEND_REQ" /\ q.phase \notin Early /\ i \in 0 .. i
  BY <1>8, <1>16 DEF Early
<1>28. Exchange(us, q, w, id)
  BY <1>19, <1>21, <1>22, <1>25, <1>26, <1>27 DEF Exchange
<1> QED BY <1>28 DEF q, p1

\* The upstream leaves: less is to come of the answer.
LEMMA ExchangeLess ==
    ASSUME NEW us \in Seq(Units), NEW p \in PxRecords, NEW u \in UpRecords, NEW id \in DOMAIN script,
           Exchange(us, p, u, id), NEW w \in UpRecords, w.answered = u.answered,
           w.plan = <<>>, w.in = u.in \/ w.in = <<>>
    PROVE  Exchange(us, p, w, id)
<1> DEFINE read == us \o Shown(p)
           rest == u.in \o u.plan
           less == w.in \o w.plan
<1>1. read \in Seq(Units) /\ rest \in Seq(Units) /\ less \in Seq(Units)
  BY LineTypes
<1>2. u.in \in Seq(Units) /\ u.plan \in Seq(Units) /\ w.in \in Seq(Units)
  BY DEF UpRecords
<1>3. less = w.in
  BY <1>2, CatNothing
<1>4. \/ less = <<>>
      \/ Len(less) <= Len(rest) /\ \A j \in 1 .. Len(less) : less[j] = rest[j]
  <2>1. CASE w.in = u.in
    <3> DEFINE s == u.in
               t == u.plan
    <3>1. s \in Seq(Units) /\ t \in Seq(Units) /\ rest = s \o t /\ less = s
      BY <1>2, <1>3, <2>1
    <3> HIDE DEF s, t, less, rest
    <3>2. Len(rest) = Len(s) + Len(t) /\ \A j \in 1 .. Len(s) : rest[j] = s[j]
      BY <3>1, CatFacts
    <3>3. Len(s) \in Nat /\ Len(t) \in Nat
      BY <3>1, DomFacts
    <3>4. Len(less) <= Len(rest) /\ \A j \in 1 .. Len(less) : less[j] = rest[j]
      BY <3>1, <3>2, <3>3
    <3> QED BY <3>4
  <2> QED BY <1>3, <2>1
<1> HIDE DEF read, rest, less
<1>5. /\ read \o rest \in Seq(Units) /\ read \o less \in Seq(Units)
      /\ read \o rest = <<>> => read \o less = <<>>
  <2>1. rest = <<>> => less = <<>>
    <3>1. rest = <<>> => Len(rest) = 0
      BY <1>1, DomFacts
    <3>2. Len(less) = 0 => less = <<>>
      BY <1>1, DomFacts
    <3>3. Len(less) \in Nat
      BY <1>1, DomFacts
    <3> QED BY <1>4, <3>1, <3>2, <3>3
  <2> QED BY <1>1, <2>1, CatFacts, EmptyCat
<1>6. Len(read \o less) <= Len(read \o rest) /\ \A j \in 1 .. Len(read \o less) : (read \o less)[j] = (read \o rest)[j]
  <2> DEFINE a == read \o less
             b == read \o rest
  <2>1. /\ Len(a) = Len(read) + Len(less) /\ (\A j \in 1 .. Len(read) : a[j] = read[j])
        /\ \A j \in 1 .. Len(less) : a[Len(read) + j] = less[j]
    BY <1>1, CatFacts
  <2>2. /\ Len(b) = Len(read) + Len(rest) /\ (\A j \in 1 .. Len(read) : b[j] = read[j])
        /\ \A j \in 1 .. Len(rest) : b[Len(read) + j] = rest[j]
    BY <1>1, CatFacts
  <2>3. Len(read) \in Nat /\ Len(rest) \in Nat /\ Len(less) \in Nat /\ (less = <<>> => Len(less) = 0)
    BY <1>1, DomFacts
  <2> HIDE DEF a, b
  <2>4. Len(less) <= Len(rest) /\ \A j \in 1 .. Len(less) : less[j] = rest[j] /\ j \in 1 .. Len(rest)
    BY <1>4, <2>3
  <2>5. ASSUME NEW j \in 1 .. Len(a) PROVE a[j] = b[j]
    <3>1. CASE j <= Len(read)
      <4>1. j \in 1 .. Len(read)
        BY <2>3, <3>1
      <4> QED BY <2>1, <2>2, <4>1
    <3>2. CASE j > Len(read)
      <4> DEFINE e == j - Len(read)
      <4>1. e \in 1 .. Len(less) /\ j = Len(read) + e
        BY <2>1, <2>3, <3>2
      <4> HIDE DEF e
      <4> QED BY <2>1, <2>2, <2>4, <4>1
    <3> QED BY <2>1, <2>3, <3>1, <3>2
  <2>6. Len(a) <= Len(b)
    BY <2>1, <2>2, <2>3, <2>4
  <2> QED BY <2>5, <2>6 DEF a, b
<1>7. \A r \in Responses : \A k \in 0 .. r.info :
          Within(read \o rest, Answer(id, r), k) => Within(read \o less, Answer(id, r), k)
  <2> TAKE r \in Responses
  <2> TAKE k \in 0 .. r.info
  <2>1. Answer(id, r) \in Seq(Units) /\ r.info \in Nat
    BY RespFacts, AnswerFacts
  <2>2. k \in Nat
    BY <2>1
  <2> QED BY <1>5, <1>6, <2>1, <2>2, WithinTake
<1>8. read \o rest = <<>> \/ (read \o rest)[1].k = "o" => read \o less = <<>> \/ (read \o less)[1].k = "o"
  <2>1. CASE read \o less = <<>>
    BY <2>1
  <2>2. CASE read \o less # <<>>
    <3>1. 1 \in 1 .. Len(read \o less)
      BY <1>5, <2>2, DomFacts
    <3>2. (read \o less)[1] = (read \o rest)[1]
      BY <1>6, <3>1
    <3> QED BY <1>5, <2>2, <3>2
  <2> QED BY <2>1, <2>2
<1>9. /\ p.phase \in Early => us = <<>> /\ ~p.bodyDone /\ ~p.overread
      /\ \/ p.phase \in Early /\ u.answered <= id /\ (read \o rest = <<>> \/ (read \o rest)[1].k = "o")
         \/ /\ p.phase # "SEND_REQ" /\ u.answered = id
            /\ \E r \in Responses : \E k \in 0 .. r.info :
                  /\ IF p.overread THEN p.bodyDone ELSE Within(read \o rest, Answer(id, r), k)
                  /\ p.phase \notin Early =>
                        /\ k = r.info /\ Within(read, RespUnits(id, r), k)
                        /\ Framed(read, p, r, Len(RespUnits(id, r)) - k - Len(read))
  BY DEF Exchange, read, rest
<1>10. /\ p.phase \in Early => us = <<>> /\ ~p.bodyDone /\ ~p.overread
       /\ \/ p.phase \in Early /\ w.answered <= id /\ (read \o less = <<>> \/ (read \o less)[1].k = "o")
          \/ /\ p.phase # "SEND_REQ" /\ w.answered = id
             /\ \E r \in Responses : \E k \in 0 .. r.info :
                   /\ IF p.overread THEN p.bodyDone ELSE Within(read \o less, Answer(id, r), k)
                   /\ p.phase \notin Early =>
                         /\ k = r.info /\ Within(read, RespUnits(id, r), k)
                         /\ Framed(read, p, r, Len(RespUnits(id, r)) - k - Len(read))
  BY <1>7, <1>8, <1>9
<1> QED BY <1>10 DEF Exchange, read, less

\* The upstream answers: all of the answer is to come, behind what an earlier one left.
LEMMA ExchangeAnswer ==
    ASSUME script \in Scripts, NEW us \in Seq(Units), NEW p \in PxRecords, p.phase # "SEND_REQ", NEW u \in UpRecords, NEW id \in DOMAIN script,
           Exchange(us, p, u, id), u.answered < id, u.plan = <<>>, NEW r \in Responses,
           NEW w, w.answered = id, w.plan = Answer(id, r), w.in = u.in
    PROVE  Exchange(us, p, w, id)
<1> DEFINE read == us \o Shown(p)
           all == Answer(id, r)
           line == read \o (u.in \o u.plan)
           next == read \o (w.in \o w.plan)
<1>1. read \in Seq(Units) /\ u.in \in Seq(Units)
  BY LineTypes DEF UpRecords
<1>2. all \in Seq(Units) /\ r.info \in Nat
  BY RespFacts, AnswerFacts
<1>3. u.answered # id /\ id <= id
  <2>1. u.answered \in Nat
    BY DEF UpRecords
  <2>2. id \in Nat
    BY ScriptFacts
  <2> QED BY <2>1, <2>2
<1>4. /\ ~p.overread /\ p.phase \in Early /\ us = <<>> /\ ~p.bodyDone
      /\ line = <<>> \/ line[1].k = "o"
  BY <1>3 DEF Exchange
<1>5. line = read \o u.in /\ next = read \o (u.in \o all)
  <2>1. u.in \o u.plan = u.in
    BY <1>1, CatNothing
  <2> QED BY <2>1
<1> DEFINE s == u.in
<1> HIDE DEF read, all, line, next, s
<1>6. next = line \o all /\ line \in Seq(Units)
  <2>1. s \in Seq(Units) /\ line = read \o s /\ next = read \o (s \o all)
    BY <1>1, <1>5 DEF s
  <2>2. (read \o s) \o all = read \o (s \o all)
    BY <1>1, <1>2, <2>1, CatAssoc, Zenon
  <2>3. read \o s \in Seq(Units)
    BY <1>1, <2>1, CatFacts
  <2> QED BY <2>1, <2>2, <2>3
<1>7. CASE line = <<>>
  <2>1. next = all
    BY <1>2, <1>6, <1>7, CatNothing
  <2>2. Within(all, all, 0) /\ 0 \in 0 .. r.info
    <3>1. DOMAIN all = 1 .. Len(all) /\ Len(all) \in Nat
      BY <1>2, DomFacts
    <3>2. 0 + Len(all) <= Len(all) /\ \A j \in 1 .. Len(all) : 0 + j = j
      BY <3>1
    <3> QED BY <1>2, <3>1, <3>2 DEF Within
  <2>3. Within(read \o (w.in \o w.plan), Answer(id, r), 0) /\ 0 \in 0 .. r.info
    BY <2>1, <2>2 DEF next, all, read
  <2> QED BY <1>4, <2>3 DEF Exchange, read
<1>8. CASE line # <<>>
  <2>1. next[1] = line[1]
    <3>1. 1 \in 1 .. Len(line)
      BY <1>6, <1>8, DomFacts
    <3> QED BY <1>2, <1>6, <3>1, CatFacts
  <2>2. (read \o (w.in \o w.plan))[1].k = "o"
    BY <1>4, <1>8, <2>1 DEF next
  <2> QED BY <1>3, <1>4, <2>2 DEF Exchange, read
<1> QED BY <1>7, <1>8

-----------------------------------------------------------------------------
(* Every socket, and the exchange on the slot's. *)

\* The invariant in the next state, from the sockets, the slot, the pool and what was sent.
LEMMA AnswerNow ==
    ASSUME script' = script, NEW u, up' = u, NEW p, px' = p, NEW id, Cur' = id, NEW P, InPool' = P,
           NEW us, Body(out') = us, \A c \in UpIds : Idle(u[c], c = p.fd, id, c \in P),
           p.fd # NoUp => Exchange(us, p, u[p.fd], id) /\ (p.send100 => out' = <<>>)
    PROVE  AnswerInv'
<1>1. \A s, x, n : (Holds(s, x, n)' <=> Holds(s, x, n)) /\ UpUnits(x)' = UpUnits(x)
  BY SameRequest
<1>2. \A w, at, x, pooled : Idle(w, at, x, pooled)' <=> Idle(w, at, x, pooled)
  <2>1. \A s, x : PastOnly(s, x)' <=> PastOnly(s, x)
    BY DEF PastOnly, Past, Unit
  <2> QED BY <1>1, <2>1 DEF Idle
<1>3. (\A c \in UpIds : Idle(up[c], c = px.fd, Cur, c \in InPool))'
  BY <1>2
<1>4. ASSUME p.fd # NoUp PROVE Exchange(Body(out), px, up[px.fd], Cur)' /\ (px.send100 => out = <<>>)'
  <2> DEFINE w == u[p.fd]
  <2>1. up'[p.fd] = w /\ Exchange(us, p, w, id)
    BY <1>4
  <2> HIDE DEF w
  <2>2. Exchange(Body(out), px, up[px.fd], Cur)'
    BY <2>1, ExchangeNow
  <2> QED BY <1>4, <2>2
<1> QED BY <1>3, <1>4 DEF AnswerInv

\* No exchange: a socket that is not the slot's is left as it is.
LEMMA AnswerNone ==
    ASSUME script' = script, NEW u, up' = u, px'.fd = NoUp, NEW P, InPool' = P,
           \A c \in UpIds : Idle(u[c], FALSE, 0, c \in P)
    PROVE  AnswerInv'
<1>1. \A s, x, n : (Holds(s, x, n)' <=> Holds(s, x, n)) /\ UpUnits(x)' = UpUnits(x)
  BY SameRequest
<1>2. \A w, at, x, pooled : Idle(w, at, x, pooled)' <=> Idle(w, at, x, pooled)
  <2>1. \A s, x : PastOnly(s, x)' <=> PastOnly(s, x)
    BY DEF PastOnly, Past, Unit
  <2> QED BY <1>1, <2>1 DEF Idle
<1>3. \A w, x, pooled : Idle(w, FALSE, 0, pooled) => Idle(w, FALSE, x, pooled)
  BY DEF Idle
<1>4. ASSUME NEW c \in UpIds PROVE Idle(up[c], c = px.fd, Cur, c \in InPool)'
  <2>1. c # px'.fd
    BY DEF UpIds, NoUp
  <2>2. Idle(u[c], c = px'.fd, Cur', c \in P)
    <3> DEFINE x == Cur'
    <3>1. (c = px'.fd) = FALSE
      BY <2>1
    <3> HIDE DEF x
    <3> QED BY <1>3, <3>1 DEF x
  <2> QED BY <1>2, <2>2
<1> QED BY <1>4 DEF AnswerInv

\* The slot sends the units us on its socket, or reads from it; the other sockets are as they were.
Works(u, us) ==
    /\ u \in [UpIds -> UpRecords] /\ \A c \in UpIds : c # px.fd => u[c] = up[c]
    /\ us \in Seq(Units) /\ (\A i \in DOMAIN us : us[i].id = Cur) /\ u[px.fd].got = up[px.fd].got \o us
    /\ u[px.fd].mine = up[px.fd].mine /\ u[px.fd].answered = up[px.fd].answered

\* What was sent does not change what the socket was asked and answered.
LEMMA IdleWorks ==
    ASSUME SlotInv, px.fd # NoUp, AnswerInv, NEW u, NEW us, Works(u, us)
    PROVE  /\ Idle(u[px.fd], TRUE, Cur, FALSE) /\ px.fd \notin InPool /\ px.fd \in UpIds
           /\ u[px.fd].answered # 0 => \E i \in DOMAIN u[px.fd].got : u[px.fd].got[i].id = u[px.fd].answered
           /\ \A c \in UpIds : c # px.fd => Idle(u[c], FALSE, Cur, c \in InPool) /\ Idle(u[c], FALSE, 0, c \in InPool)
<1> DEFINE w == up[px.fd]
           s == w.got
           g == u[px.fd].got
           f == px.fd
<1>1. f \in UpIds /\ f \notin InPool /\ s \in Seq(Units) /\ us \in Seq(Units)
  BY SlotTypes DEF SlotInv, Owned, Works
<1>2. Idle(w, TRUE, Cur, FALSE)
  <2>1. Idle(up[f], f = px.fd, Cur, f \in InPool)
    BY <1>1 DEF AnswerInv
  <2>2. (f = px.fd) = TRUE /\ (f \in InPool) = FALSE
    BY <1>1
  <2> QED BY <2>1, <2>2
<1>3. \A c \in UpIds : c # f => Idle(u[c], FALSE, Cur, c \in InPool) /\ Idle(u[c], FALSE, 0, c \in InPool)
  <2> TAKE c \in UpIds
  <2> HAVE c # f
  <2>1. Idle(up[c], c = px.fd, Cur, c \in InPool) /\ (c = px.fd) = FALSE
    BY DEF AnswerInv, f
  <2>2. Idle(up[c], FALSE, Cur, c \in InPool) /\ u[c] = up[c]
    BY <2>1 DEF Works
  <2> QED BY <2>2 DEF Idle
<1>4. g = s \o us /\ u[f].mine = w.mine /\ u[f].answered = w.answered /\ \A i \in DOMAIN us : us[i].id = Cur
  BY DEF Works
<1>5. /\ w.answered # 0 => \E i \in DOMAIN s : s[i].id = w.answered
      /\ w.mine => \A i \in DOMAIN s : s[i].id <= w.answered \/ s[i].id = Cur
  BY <1>2 DEF Idle
<1> HIDE DEF s, g
<1>6. /\ g \in Seq(Units) /\ Len(g) = Len(s) + Len(us) /\ (\A i \in 1 .. Len(s) : g[i] = s[i])
      /\ (\A i \in 1 .. Len(us) : g[Len(s) + i] = us[i])
  BY <1>1, <1>4, CatFacts
<1>7. /\ DOMAIN s = 1 .. Len(s) /\ DOMAIN us = 1 .. Len(us) /\ DOMAIN g = 1 .. Len(g)
      /\ Len(s) \in Nat /\ Len(us) \in Nat
  BY <1>1, <1>6, DomFacts
<1>8. w.answered # 0 => \E i \in DOMAIN g : g[i].id = w.answered
  <2>1. \A i \in DOMAIN s : i \in DOMAIN g /\ g[i] = s[i]
    BY <1>6, <1>7
  <2> QED BY <1>5, <2>1
<1>9. w.mine => \A i \in DOMAIN g : g[i].id <= w.answered \/ g[i].id = Cur
  <2> SUFFICES ASSUME w.mine, NEW i \in 1 .. Len(g) PROVE g[i].id <= w.answered \/ g[i].id = Cur
    BY <1>7
  <2>1. CASE i <= Len(s)
    <3>1. i \in 1 .. Len(s)
      BY <2>1, <1>7
    <3> QED BY <1>5, <1>6, <1>7, <3>1
  <2>2. CASE i > Len(s)
    <3> DEFINE j == i - Len(s)
    <3>1. j \in 1 .. Len(us) /\ i = Len(s) + j
      BY <2>2, <1>6, <1>7
    <3> HIDE DEF j
    <3>2. g[i] = us[j]
      BY <1>6, <3>1
    <3> QED BY <1>4, <1>7, <3>1, <3>2
  <2> QED BY <1>7, <2>1, <2>2
<1>10. Idle(u[f], TRUE, Cur, FALSE)
  BY <1>4, <1>8, <1>9 DEF Idle, g
<1> QED BY <1>1, <1>3, <1>4, <1>8, <1>10 DEF g

\* Only some fields of the slot matter to an exchange.
LEMMA ExchangeLike ==
    ASSUME NEW us, NEW p, NEW u, NEW id, Exchange(us, p, u, id),
           NEW q, q.phase = p.phase, q.overread = p.overread, q.bodyDone = p.bodyDone, q.framing = p.framing,
           q.respLeft = p.respLeft, q.hdr = p.hdr, q.buf = p.buf,
           NEW w, w.answered = u.answered, w.in = u.in, w.plan = u.plan
    PROVE  Exchange(us, q, w, id)
<1>1. Shown(q) = Shown(p)
  BY DEF Shown
<1>2. \A s, r, left : Framed(s, q, r, left) <=> Framed(s, p, r, left)
  BY DEF Framed
<1> QED BY <1>1, <1>2 DEF Exchange

\* The slot goes on with its socket.
LEMMA AnswerGoes ==
    ASSUME SlotInv, px.fd # NoUp, AnswerInv, script' = script, pool' = pool, NEW u, NEW us, Works(u, us),
           NEW p, p.fd = px.fd, Goes(u, p), NEW b, Body(out') = b, Exchange(b, p, u[px.fd], Cur),
           p.send100 => out' = <<>>
    PROVE  AnswerInv'
<1> DEFINE f == px.fd
           id == Cur
           q == px'
<1>1. up' = u /\ q.fd = f /\ Like(q, p) /\ hc' = hc
  BY DEF Goes, Like
<1>2. Cur' = id /\ InPool' = InPool
  BY <1>1 DEF Cur, InPool
<1>3. \A c \in UpIds : Idle(u[c], c = f, id, c \in InPool)
  <2> TAKE c \in UpIds
  <2>1. CASE c = f
    <3>1. Idle(u[f], TRUE, id, FALSE) /\ c \notin InPool
      BY <2>1, IdleWorks
    <3>2. (c = f) = TRUE /\ (c \in InPool) = FALSE
      BY <2>1, <3>1
    <3> QED BY <2>1, <3>1, <3>2
  <2>2. CASE c # f
    <3>1. (c = f) = FALSE
      BY <2>2
    <3> QED BY <2>2, <3>1, IdleWorks
  <2> QED BY <2>1, <2>2
<1>4. Exchange(b, q, u[f], id) /\ (q.send100 => out' = <<>>)
  <2> DEFINE w == u[f]
  <2>1. Exchange(b, p, w, id)
    OBVIOUS
  <2>2. /\ q.phase = p.phase /\ q.overread = p.overread /\ q.bodyDone = p.bodyDone /\ q.framing = p.framing
        /\ q.respLeft = p.respLeft /\ q.hdr = p.hdr /\ q.buf = p.buf /\ q.send100 = p.send100
    BY <1>1 DEF Like
  <2> HIDE DEF w, q, id
  <2>3. Exchange(b, q, w, id)
    BY <2>1, <2>2, ExchangeLike
  <2> QED BY <2>2, <2>3 DEF w
<1>5. px' = q
  OBVIOUS
<1> HIDE DEF q, id, f
<1>6. \A c \in UpIds : Idle(u[c], c = q.fd, id, c \in InPool)
  BY <1>1, <1>3
<1>7. q.fd # NoUp => Exchange(b, q, u[q.fd], id) /\ (q.send100 => out' = <<>>)
  BY <1>1, <1>4
<1> DEFINE P == InPool
<1>8. InPool' = P /\ \A c \in UpIds : Idle(u[c], c = q.fd, id, c \in P)
  BY <1>2, <1>6
<1> HIDE DEF P
<1> QED BY <1>1, <1>2, <1>5, <1>7, <1>8, AnswerNow

\* The exchange is given up, answered or not: the socket is closed.
LEMMA AnswerFalls ==
    ASSUME SlotInv, px.fd # NoUp, AnswerInv, script' = script, pool' = pool, NEW u, NEW us, Works(u, us),
           NEW p, NEW cause, Falls(u, p, cause)
    PROVE  AnswerInv'
<1> DEFINE g == CloseUp(u, px.fd)
<1>1. up' = g /\ px' = PxReset
  BY DEF Falls, Drops, Shut
<1>2. px'.fd = NoUp /\ InPool' = InPool
  BY <1>1, ResetFacts DEF InPool
<1>3. /\ px.fd \in UpIds /\ px.fd \notin InPool
      /\ u[px.fd].answered # 0 => \E i \in DOMAIN u[px.fd].got : u[px.fd].got[i].id = u[px.fd].answered
      /\ \A c \in UpIds : c # px.fd => Idle(u[c], FALSE, 0, c \in InPool)
  BY IdleWorks
<1>4. /\ \A c \in UpIds : c # px.fd => g[c] = u[c]
      /\ ~g[px.fd].mine /\ g[px.fd].in = <<>> /\ g[px.fd].plan = <<>> /\ g[px.fd].got = u[px.fd].got
      /\ g[px.fd].answered = u[px.fd].answered
  BY <1>3, ClosedUp DEF Works
<1> HIDE DEF g
<1>5. \A c \in UpIds : Idle(g[c], FALSE, 0, c \in InPool)
  <2> TAKE c \in UpIds
  <2>1. CASE c = px.fd
    <3>1. (c \in InPool) = FALSE
      BY <1>3, <2>1
    <3>2. Idle(g[px.fd], FALSE, 0, FALSE)
      BY <1>3, <1>4 DEF Idle
    <3> QED BY <2>1, <3>1, <3>2
  <2>2. CASE c # px.fd
    BY <1>3, <1>4, <2>2
  <2> QED BY <2>1, <2>2
<1> DEFINE P == InPool
<1>6. InPool' = P /\ \A c \in UpIds : Idle(g[c], FALSE, 0, c \in P)
  BY <1>2, <1>5
<1> HIDE DEF P
<1> QED BY <1>1, <1>2, <1>6, AnswerNone

\* An answer that was read to its end and no further left in the socket what is past it, and the
\* socket had all of the request.
LEMMA AnswerParks ==
    ASSUME SlotInv, px.fd # NoUp, AnswerInv, HandInv, SentInv, script' = script, px.phase \in {"SEND_RESP", "STREAM"},
           NEW p, p.fd = px.fd, p.bodyDone = px.bodyDone, p.overread = px.overread, Parks(up, p)
    PROVE  AnswerInv'
<1> DEFINE f == px.fd
           w == up[f]
           rest == w.in \o w.plan
           read == Body(out) \o Shown(px)
<1>1. f \in UpIds /\ f \notin InPool /\ w \in UpRecords /\ w.in \in Seq(Units) /\ w.plan \in Seq(Units)
      /\ w.got \in Seq(Units) /\ Cur \in DOMAIN script /\ Body(out) \in Seq(Units)
  <2>1. f \in UpIds /\ w \in UpRecords /\ out \in Seq(Units) /\ w.in \in Seq(Units) /\ w.plan \in Seq(Units) /\ w.got \in Seq(Units)
    BY SlotTypes
  <2>2. f \notin InPool /\ Cur \in DOMAIN script
    BY SlotFacts DEF SlotInv, Owned
  <2>3. Body(out) \in Seq(Units)
    BY <2>1, TailFacts DEF Body
  <2> QED BY <2>1, <2>2, <2>3
<1>2. Works(up, <<>>)
  <2>1. up \in [UpIds -> UpRecords] /\ <<>> \in Seq(Units) /\ DOMAIN <<>> = {}
    BY SlotTypes
  <2>2. w.got = w.got \o <<>>
    BY <1>1, CatNothing
  <2> QED BY <2>1, <2>2 DEF Works
<1>3. /\ w.answered # 0 => \E i \in DOMAIN w.got : w.got[i].id = w.answered
      /\ \A c \in UpIds : c # f => Idle(up[c], FALSE, 0, c \in InPool)
      /\ Idle(w, TRUE, Cur, FALSE)
  BY <1>2, IdleWorks
<1>4. /\ w.answered = Cur
      /\ \E r \in Responses :
            /\ IF px.overread THEN px.bodyDone ELSE Within(read \o rest, Answer(Cur, r), r.info)
            /\ px.bodyDone => Len(RespUnits(Cur, r)) - r.info - Len(read) = 0
  BY DEF AnswerInv, Exchange, Early, Framed
<1>5. px.bodyDone /\ ~px.overread => PastOnly(rest, Cur)
  <2> SUFFICES ASSUME px.bodyDone, ~px.overread PROVE PastOnly(rest, Cur)
    OBVIOUS
  <2>1. PICK r \in Responses :
            /\ Within(read \o rest, Answer(Cur, r), r.info)
            /\ Len(RespUnits(Cur, r)) - r.info - Len(read) = 0
    BY <1>4
  <2>2. read \in Seq(Units) /\ rest \in Seq(Units)
    BY <1>1, LineTypes, SlotTypes
  <2> DEFINE F == RespUnits(Cur, r)
             A == Answer(Cur, r)
             L == Len(F)
             n == Len(read)
             i == r.info
  <2>3. F \in Seq(Units) /\ A \in Seq(Units) /\ i \in Nat /\ r.over \in Nat /\ Len(A) = L + r.over
    BY <1>1, RespFacts, AnswerFacts
  <2>4. \A j \in 1 .. r.over : A[L + j] = Past(Cur, j)
    BY <1>1, AnswerFacts
  <2> HIDE DEF read, rest, F, A
  <2>5. /\ i + n + Len(rest) <= Len(A) /\ n \in Nat /\ Len(rest) \in Nat /\ L \in Nat
        /\ \A j \in 1 .. Len(rest) : rest[j] = A[i + n + j]
    <3>1. Within(read \o rest, A, i)
      BY <2>1 DEF A
    <3> QED BY <2>2, <2>3, <3>1, WithinCat, DomFacts
  <2>6. i + n = L
    <3>1. L - i - n = 0 /\ i \in Nat /\ L \in Nat /\ n \in Nat
      BY <2>1, <2>3, <2>5 DEF F
    <3> HIDE DEF L, n, i
    <3> QED BY <3>1
  <2> HIDE DEF L, n, i
  <2>7. ASSUME NEW j \in 1 .. Len(rest) PROVE rest[j] = Past(Cur, j)
    <3>1. j \in 1 .. r.over
      BY <2>3, <2>5, <2>6
    <3>2. rest[j] = A[L + j]
      BY <2>5, <2>6
    <3> QED BY <2>4, <3>1, <3>2
  <2>8. DOMAIN rest = 1 .. Len(rest)
    BY <2>2, DomFacts
  <2> QED BY <2>7, <2>8 DEF PastOnly
<1>6. Holds(w.got, Cur, Len(UpUnits(Cur))) /\ Cur # 0
  <2>1. Hand(px, Cur) /\ Ends(w.got, Cur, Gone(px, Cur))
    BY DEF HandInv, SentInv
  <2>2. Gone(px, Cur) \in Nat /\ Gone(px, Cur) = 2 + script[Cur].body
    BY <2>1, GoneFacts DEF Answering
  <2>3. Len(UpUnits(Cur)) = 2 + script[Cur].body /\ Cur # 0
    BY <1>1, UpUnitsFacts, ScriptFacts, SlotTypes
  <2> QED BY <1>1, <2>1, <2>2, <2>3, EndsHolds
<1>7. px'.fd = NoUp
  BY ResetFacts DEF Parks
<1>8. CASE CanPool(p) /\ pool' = Append(pool, p.fd) /\ up' = up
  <2>1. InPool' = InPool \cup {f}
    BY <1>8, ParkFacts
  <2>2. PastOnly(w.in \o w.plan, w.answered)
    BY <1>4, <1>5, <1>8 DEF CanPool
  <2>3. Idle(w, FALSE, 0, TRUE)
    <3>1. w.mine => \A i \in DOMAIN w.got : w.got[i].id <= w.answered
      <4>1. w.answered \in Nat
        BY <1>1 DEF UpRecords
      <4>2. Cur <= Cur
        BY <1>4, <4>1
      <4> QED BY <1>3, <1>4, <4>2 DEF Idle
    <3> QED BY <1>3, <1>4, <1>6, <2>2, <3>1 DEF Idle
  <2> DEFINE P == InPool \cup {f}
  <2>4. \A c \in UpIds : Idle(up[c], FALSE, 0, c \in P)
    <3> TAKE c \in UpIds
    <3>1. CASE c = f
      <4>1. (c \in P) = TRUE
        BY <3>1
      <4> QED BY <2>3, <3>1, <4>1
    <3>2. CASE c # f
      <4>1. (c \in P) = (c \in InPool)
        BY <3>2
      <4> QED BY <1>3, <3>2, <4>1
    <3> QED BY <3>1, <3>2
  <2>5. InPool' = P
    BY <2>1
  <2> HIDE DEF P
  <2> QED BY <1>7, <1>8, <2>4, <2>5, AnswerNone
<1>9. CASE pool' = pool /\ up' = CloseUp(up, p.fd)
  <2> DEFINE g == CloseUp(up, f)
  <2>1. up' = g /\ InPool' = InPool
    BY <1>9 DEF InPool
  <2>2. /\ \A c \in UpIds : c # f => g[c] = up[c]
        /\ ~g[f].mine /\ g[f].in = <<>> /\ g[f].plan = <<>> /\ g[f].got = w.got /\ g[f].answered = w.answered
    BY <1>1, ClosedUp, SlotTypes
  <2> HIDE DEF g
  <2>3. \A c \in UpIds : Idle(g[c], FALSE, 0, c \in InPool)
    <3> TAKE c \in UpIds
    <3>1. CASE c = f
      <4>1. (c \in InPool) = FALSE
        BY <1>1, <3>1
      <4>2. Idle(g[f], FALSE, 0, FALSE)
        BY <1>3, <2>2 DEF Idle
      <4> QED BY <3>1, <4>1, <4>2
    <3>2. CASE c # f
      BY <1>3, <2>2, <3>2
    <3> QED BY <3>1, <3>2
  <2> DEFINE P == InPool
  <2>4. InPool' = P /\ \A c \in UpIds : Idle(g[c], FALSE, 0, c \in P)
    BY <2>1, <2>3
  <2> HIDE DEF P
  <2> QED BY <1>7, <2>1, <2>4, AnswerNone
<1> QED BY <1>8, <1>9 DEF Parks

\* The three ways in which the pump works on its socket: not at all, by sending, by reading.
LEMMA WorksFacts ==
    ASSUME SlotInv, px.fd # NoUp
    PROVE  /\ Works(up, <<>>) /\ Body(out) \in Seq(Units) /\ up[px.fd] \in UpRecords
           /\ \A us \in Seq(Units) : (\A i \in DOMAIN us : us[i].id = Cur) => Works(ToUp(px.fd, us), us)
           /\ \A n \in 0 .. Len(up[px.fd].in) : Works(Emptied(n), <<>>)
<1>1. /\ px.fd \in UpIds /\ up \in [UpIds -> UpRecords] /\ out \in Seq(Units) /\ up[px.fd].got \in Seq(Units)
      /\ up[px.fd].in \in Seq(Units)
  BY SlotTypes
<1>2. <<>> \in Seq(Units) /\ DOMAIN <<>> = {} /\ up[px.fd].got = up[px.fd].got \o <<>>
  BY <1>1, CatNothing
<1>3. Works(up, <<>>)
  BY <1>1, <1>2 DEF Works
<1>4. Body(out) \in Seq(Units) /\ up[px.fd] \in UpRecords
  BY <1>1, TailFacts DEF Body
<1>5. ASSUME NEW us \in Seq(Units), \A i \in DOMAIN us : us[i].id = Cur
      PROVE  Works(ToUp(px.fd, us), us)
  <2> DEFINE g == ToUp(px.fd, us)
  <2>1. /\ g \in [UpIds -> UpRecords] /\ \A c \in UpIds : c # px.fd => g[c] = up[c]
        /\ g[px.fd].got = up[px.fd].got \o us
        /\ g[px.fd].mine = up[px.fd].mine /\ g[px.fd].answered = up[px.fd].answered
    BY <1>1, SentUp
  <2> HIDE DEF g
  <2>2. Works(g, us)
    BY <1>5, <2>1 DEF Works
  <2> QED BY <2>2 DEF g
<1>6. ASSUME NEW n \in 0 .. Len(up[px.fd].in)
      PROVE  Works(Emptied(n), <<>>)
  <2> DEFINE g == Emptied(n)
  <2>1. /\ g \in [UpIds -> UpRecords] /\ \A c \in UpIds : c # px.fd => g[c] = up[c]
        /\ g[px.fd].got = up[px.fd].got
        /\ g[px.fd].mine = up[px.fd].mine /\ g[px.fd].answered = up[px.fd].answered
    BY <1>1, ReadUp DEF Emptied
  <2> HIDE DEF g
  <2>2. g[px.fd].got = up[px.fd].got \o <<>>
    BY <1>2, <2>1
  <2>3. Works(g, <<>>)
    BY <1>2, <2>1, <2>2 DEF Works
  <2> QED BY <2>3 DEF g
<1> QED BY <1>3, <1>4, <1>5, <1>6

\* A new socket is opened for the request: the old one is closed, and nothing has been answered.
LEMMA AnswerRenews ==
    ASSUME SlotInv, px.fd # NoUp, AnswerInv, script' = script, pool' = pool, out' = out, NEW c \in UpIds,
           px.phase \in Early, NEW p \in PxRecords, p.overread = px.overread, p.bodyDone = px.bodyDone,
           p.send100 = px.send100, Renews(c, p)
    PROVE  AnswerInv'
<1> DEFINE f == px.fd
           q == px'
           u == up'
<1>1. f \in UpIds /\ f \notin InPool /\ script \in Scripts /\ Cur \in DOMAIN script /\ Cur \in Nat \ {0}
  BY SlotFacts, SlotTypes, ScriptFacts DEF SlotInv, Owned
<1>2. /\ q.fd = c /\ q.phase = "SEND_REQ" /\ q.overread = px.overread /\ q.bodyDone = px.bodyDone
      /\ q.send100 = px.send100 /\ hc' = hc
  <2>1. q = Again(p, c) /\ hc' = hc
    BY DEF Renews
  <2> QED BY <1>1, <2>1, AgainFacts
<1>3. /\ c # f /\ up[c].st = "unused" /\ \A d \in UpIds : d # c /\ d # f => u[d] = up[d]
      /\ u[c].got = <<>> /\ u[c].in = <<>> /\ u[c].plan = <<>> /\ u[c].answered = 0
      /\ ~u[f].mine /\ u[f].in = <<>> /\ u[f].plan = <<>> /\ u[f].got = up[f].got /\ u[f].answered = up[f].answered
  BY RenewedUp
<1>4. c \notin InPool /\ NoUp \notin UpIds
  BY <1>3, InPoolFacts DEF SlotInv, Owned
<1>5. Cur' = Cur /\ InPool' = InPool
  BY <1>2 DEF Cur, InPool
<1>6. ~px.overread /\ ~px.bodyDone /\ Body(out) = <<>> /\ (px.send100 => out = <<>>)
  BY DEF AnswerInv, Exchange
<1>7. Exchange(<<>>, q, u[c], Cur)
  <2>1. Shown(q) = <<>>
    BY <1>2 DEF Shown
  <2>2. <<>> \o <<>> = <<>>
    BY CatNothing
  <2>3. (<<>> \o Shown(q)) \o (u[c].in \o u[c].plan) = <<>>
    BY <1>3, <2>1, <2>2
  <2>4. q.phase \in Early /\ u[c].answered <= Cur
    BY <1>1, <1>2, <1>3 DEF Early
  <2> QED BY <1>2, <1>6, <2>3, <2>4 DEF Exchange
<1>8. /\ up[f].answered # 0 => \E i \in DOMAIN up[f].got : up[f].got[i].id = up[f].answered
      /\ \A d \in UpIds : d # f => Idle(up[d], FALSE, Cur, d \in InPool)
  BY WorksFacts, IdleWorks
<1>9. \A d \in UpIds : Idle(u[d], d = c, Cur, d \in InPool)
  <2> TAKE d \in UpIds
  <2>1. CASE d = c
    <3>1. (d = c) = TRUE /\ (d \in InPool) = FALSE /\ DOMAIN <<>> = {}
      BY <1>4, <2>1
    <3>2. Idle(u[c], TRUE, Cur, FALSE)
      BY <1>3, <3>1 DEF Idle
    <3> QED BY <2>1, <3>1, <3>2
  <2>2. CASE d = f
    <3>1. (d = c) = FALSE /\ (d \in InPool) = FALSE
      BY <1>1, <1>3, <2>2
    <3>2. Idle(u[f], FALSE, Cur, FALSE)
      BY <1>3, <1>8 DEF Idle
    <3> QED BY <2>2, <3>1, <3>2
  <2>3. CASE d # c /\ d # f
    <3>1. (d = c) = FALSE
      BY <2>3
    <3> QED BY <1>3, <1>8, <2>3, <3>1
  <2> QED BY <2>1, <2>2, <2>3
<1>10. q.fd # NoUp => Exchange(<<>>, q, u[q.fd], Cur) /\ (q.send100 => out' = <<>>)
  BY <1>2, <1>6, <1>7
<1>11. \A d \in UpIds : Idle(u[d], d = q.fd, Cur, d \in InPool)
  BY <1>2, <1>9
<1>12. px' = q /\ up' = u /\ Body(out') = <<>>
  BY <1>6 DEF Body
<1> DEFINE P == InPool
           id == Cur
           us == <<>>
<1>13. /\ Cur' = id /\ InPool' = P /\ Body(out') = us
       /\ \A d \in UpIds : Idle(u[d], d = q.fd, id, d \in P)
       /\ q.fd # NoUp => Exchange(us, q, u[q.fd], id) /\ (q.send100 => out' = <<>>)
  BY <1>5, <1>10, <1>11, <1>12
<1> HIDE DEF P, id, us, q, u
<1> QED BY <1>12, <1>13, AnswerNow

\* 100 Continue is sent before anything of the answer, and leaves the exchange as it is.
LEMMA AnswerFlush ==
    ASSUME SlotInv, AnswerInv, PumpFlush100
    PROVE  AnswerInv'
<1>1. Pump
  BY DEF Pump
<1>2. /\ pc = "pump" /\ px.fd # NoUp /\ script' = script
  BY <1>1, PumpFacts
<1>3. px.send100
  BY DEF PumpFlush100
<1>4. out = <<>> /\ Body(out) = <<>> /\ Exchange(<<>>, px, up[px.fd], Cur)
  <2>1. out = <<>>
    BY <1>2, <1>3 DEF AnswerInv
  <2>2. Body(out) = <<>>
    BY <2>1 DEF Body
  <2> QED BY <1>2, <2>1, <2>2 DEF AnswerInv
<1> DEFINE x == Unit("100", Cur, 0)
           one == <<x>>
<1>5. PICK n \in {0, 1} :
         /\ out' = out \o Take(one, n) /\ pool' = pool
         /\ \/ n = 1 /\ Loop(up, [px EXCEPT !.send100 = FALSE], 0)
            \/ n = 0 /\ Waits(up, px, "none", "write")
            \/ Falls(up, px, FALSE)
  BY FlushEffect
<1>6. one \in Seq(Units) /\ Len(one) = 1 /\ one[1] = x
  <2>1. x \in Units
    BY <1>2, SlotFacts, UnitFacts DEF Kinds
  <2> HIDE DEF x
  <2> QED BY <2>1
<1>7. out' = Take(one, n) /\ Take(one, n) \in Seq(Units) /\ Len(Take(one, n)) = n /\ (n = 1 => Take(one, n)[1] = x)
  <2>1. /\ Take(one, n) \in Seq(Units) /\ Len(Take(one, n)) = n
        /\ \A i \in 1 .. n : Take(one, n)[i] = one[i]
    <3> HIDE DEF one
    <3>1. n \in 0 .. Len(one)
      BY <1>6
    <3> QED BY <1>6, <3>1, TakeFacts
  <2> HIDE DEF one
  <2> QED BY <1>4, <1>5, <1>6, <2>1, CatNothing
<1>8. x.k = "100"
  BY DEF Unit
<1> HIDE DEF x, one
<1>9. Body(out') = <<>> /\ (n = 0 => out' = <<>>)
  <2>1. CASE n = 0
    <3>1. out' = <<>>
      BY <1>7, <2>1, DomFacts
    <3> QED BY <3>1 DEF Body
  <2>2. CASE n = 1
    <3>1. out' \in Seq(Units) /\ Len(out') = 1 /\ out' # <<>> /\ out'[1].k = "100"
      BY <1>7, <1>8, <2>2, DomFacts
    <3>2. Tail(out') \in Seq(Units) /\ Len(Tail(out')) = 0
      BY <3>1, TailFacts
    <3>3. Tail(out') = <<>>
      BY <3>2, DomFacts
    <3> QED BY <2>2, <3>1, <3>3 DEF Body
  <2> QED BY <1>5, <2>1, <2>2
<1>10. Works(up, <<>>) /\ px \in PxRecords
  BY <1>2, WorksFacts, SlotFacts
<1>11. CASE n = 1 /\ Loop(up, [px EXCEPT !.send100 = FALSE], 0)
  <2> DEFINE p == [px EXCEPT !.send100 = FALSE]
  <2>1. /\ p \in PxRecords /\ p.fd = px.fd /\ ~p.send100
        /\ p.phase = px.phase /\ p.overread = px.overread /\ p.bodyDone = px.bodyDone /\ p.framing = px.framing
        /\ p.respLeft = px.respLeft /\ p.hdr = px.hdr /\ p.buf = px.buf
    BY <1>10 DEF PxRecords
  <2>2. Loop(up, p, 0)
    BY <1>11
  <2> HIDE DEF p
  <2>3. Goes(up, p)
    BY <1>2, <2>1, <2>2, LoopGoes
  <2>4. Exchange(<<>>, p, up[px.fd], Cur)
    BY <1>4, <2>1, ExchangeLike
  <2> QED BY <1>2, <1>5, <1>9, <1>10, <2>1, <2>3, <2>4, AnswerGoes
<1>12. CASE n = 0 /\ Waits(up, px, "none", "write")
  <2>1. Goes(up, px)
    BY <1>12, WaitsGoes DEF Ios
  <2> QED BY <1>2, <1>4, <1>5, <1>9, <1>10, <1>12, <2>1, AnswerGoes
<1>13. CASE Falls(up, px, FALSE)
  BY <1>2, <1>5, <1>10, <1>13, AnswerFalls
<1> QED BY <1>5, <1>11, <1>12, <1>13

\* The pump waits with everything as it was, or gives the exchange up.
LEMMA AnswerWaits ==
    ASSUME SlotInv, px.fd # NoUp, AnswerInv, script' = script, pool' = pool, out' = out,
           NEW upio, NEW io \in Ios, Waits(up, px, upio, io)
    PROVE  AnswerInv'
<1>1. Goes(up, px)
  BY WaitsGoes
<1>2. Works(up, <<>>)
  BY WorksFacts
<1>3. Exchange(Body(out), px, up[px.fd], Cur) /\ (px.send100 => out = <<>>)
  BY DEF AnswerInv
<1> DEFINE b == Body(out)
<1>4. Body(out') = b /\ Exchange(b, px, up[px.fd], Cur) /\ (px.send100 => out' = <<>>)
  BY <1>3
<1> HIDE DEF b
<1> QED BY <1>1, <1>2, <1>4, AnswerGoes

\* The budget is used up: nothing moves, or the exchange ends.
LEMMA AnswerBudget ==
    ASSUME SlotInv, AnswerInv, PumpBudgetOut
    PROVE  AnswerInv'
<1>1. Pump
  BY DEF Pump
<1>2. px.fd # NoUp /\ script' = script
  BY <1>1, PumpFacts
<1>3. Works(up, <<>>)
  BY <1>2, WorksFacts
<1>4. /\ pool' = pool /\ out' = out
      /\ \/ \E upio, io \in Ios : Waits(up, px, upio, io)
         \/ \E cause : Falls(up, px, cause)
  BY BudgetEffect DEF Ios
<1>5. CASE \E upio, io \in Ios : Waits(up, px, upio, io)
  BY <1>2, <1>4, <1>5, AnswerWaits
<1>6. CASE \E cause : Falls(up, px, cause)
  BY <1>2, <1>3, <1>4, <1>6, AnswerFalls
<1> QED BY <1>4, <1>5, <1>6

\* While the request is sent nothing is read, and what is asked of the socket is this request.
LEMMA AnswerSends ==
    ASSUME SlotInv, px.fd # NoUp, AnswerInv, script' = script, pool' = pool, out' = out, ~px.send100,
           px.phase \in {"SEND_REQ", "SEND_BODY"},
           NEW us \in Seq(Units), \A i \in DOMAIN us : us[i].id = Cur,
           NEW p, p.fd = px.fd, p.overread = px.overread, p.bodyDone = px.bodyDone, ~p.send100,
           p.phase \in Early, p.phase = "SEND_REQ" => px.phase = "SEND_REQ", p.phase = "RECV_HDR" => p.buf = <<>>,
           Goes(ToUp(px.fd, us), p)
    PROVE  AnswerInv'
<1> DEFINE g == ToUp(px.fd, us)
           b == Body(out)
<1>1. Works(g, us) /\ Body(out) \in Seq(Units)
  BY WorksFacts
<1>2. g[px.fd].in = up[px.fd].in /\ g[px.fd].plan = up[px.fd].plan /\ g[px.fd].answered = up[px.fd].answered
  <2>1. up \in [UpIds -> UpRecords] /\ px.fd \in UpIds
    BY SlotTypes
  <2> QED BY <2>1, SentUp
<1>3. Goes(g, p)
  OBVIOUS
<1>4. Shown(px) = <<>> /\ Shown(p) = <<>> /\ px.phase \in Early
  BY DEF Shown, Early
<1>5. Exchange(b, px, up[px.fd], Cur)
  BY DEF AnswerInv
<1> HIDE DEF g, b
<1>6. Line(b, p, g[px.fd]) = Line(b, px, up[px.fd])
  BY <1>2, <1>4 DEF Line
<1>7. Exchange(b, p, g[px.fd], Cur)
  BY <1>2, <1>4, <1>5, <1>6, ExchangeEarly
<1>8. Body(out') = b
  BY DEF b
<1> QED BY <1>1, <1>3, <1>7, <1>8, AnswerGoes

\* The request's header goes upstream: nothing is answered to it yet; a new socket has nothing
\* at all.
LEMMA AnswerSendReq ==
    ASSUME SlotInv, HandInv, AnswerInv, PumpSendReq
    PROVE  AnswerInv'
<1>1. Pump
  BY DEF Pump
<1>2. /\ pc = "pump" /\ px.fd # NoUp /\ script' = script /\ ~px.send100 /\ budget > 0 /\ px.phase = "SEND_REQ"
  BY <1>1, PumpFacts, PumpingFacts DEF PumpSendReq
<1>3. /\ pool' = pool /\ out' = out
      /\ \E n \in 0 .. Len(px.hdr) :
                 LET u == ToUp(px.fd, Take(px.hdr, n))
                     p == HdrLess(n)
                 IN  \/ Loop(u, [p EXCEPT !.phase = IF BodyPending(p) THEN "SEND_BODY" ELSE "RECV_HDR",
                                             !.buf = <<>>], 1)
                     \/ Waits(u, p, "write", "idle")
                     \/ Falls(u, p, up[px.fd].st # "open")
                     \/ (\E c \in UpIds : Renews(c, p)) \/ Falls(up, p, FALSE)
  BY SendReqEffect
<1>4. PICK n \in 0 .. Len(px.hdr) :
                 LET u == ToUp(px.fd, Take(px.hdr, n))
                     p == HdrLess(n)
                 IN  \/ Loop(u, [p EXCEPT !.phase = IF BodyPending(p) THEN "SEND_BODY" ELSE "RECV_HDR",
                                             !.buf = <<>>], 1)
                     \/ Waits(u, p, "write", "idle")
                     \/ Falls(u, p, up[px.fd].st # "open")
                     \/ (\E c \in UpIds : Renews(c, p)) \/ Falls(up, p, FALSE)
  BY <1>3
<1> DEFINE us == Take(px.hdr, n)
           p == HdrLess(n)
           q == [p EXCEPT !.phase = IF BodyPending(p) THEN "SEND_BODY" ELSE "RECV_HDR", !.buf = <<>>]
<1>5. us \in Seq(Units) /\ \A i \in DOMAIN us : us[i].id = Cur
  <2>1. Hand(px, Cur)
    BY <1>2 DEF HandInv
  <2>2. \A i \in DOMAIN px.hdr : px.hdr[i].id = Cur
    BY <1>2, <2>1, HandIds
  <2>3. px.hdr \in Seq(Units)
    BY <1>2, SlotTypes
  <2>4. us \in Seq(Units) /\ Len(us) = n /\ \A i \in 1 .. n : us[i] = px.hdr[i]
    BY <2>3, TakeFacts
  <2>5. DOMAIN px.hdr = 1 .. Len(px.hdr) /\ DOMAIN us = 1 .. n
    BY <2>3, <2>4, DomFacts
  <2> HIDE DEF us
  <2> QED BY <2>2, <2>4, <2>5
<1>6. /\ p \in PxRecords /\ p.fd = px.fd /\ p.overread = px.overread /\ p.bodyDone = px.bodyDone /\ ~p.send100
      /\ p.phase = "SEND_REQ" /\ p.send100 = px.send100
  <2>1. px \in PxRecords
    BY <1>2, SlotTypes
  <2>2. p \in PxRecords
    BY <2>1, LessFacts
  <2> QED BY <1>2, <2>1, <2>2 DEF HdrLess, PxRecords
<1>7. /\ q \in PxRecords /\ q.fd = px.fd /\ q.overread = px.overread /\ q.bodyDone = px.bodyDone /\ ~q.send100
      /\ q.phase \in {"SEND_BODY", "RECV_HDR"} /\ q.buf = <<>>
  <2>1. p \in PxRecords /\ <<>> \in Seq(Units)
    BY <1>6
  <2> HIDE DEF p
  <2> QED BY <1>6, <2>1 DEF PxRecords, Phases
<1>8. Works(ToUp(px.fd, us), us) /\ Works(up, <<>>)
  BY <1>2, <1>5, WorksFacts
<1>9. CASE Loop(ToUp(px.fd, us), q, 1)
  <2> HIDE DEF us, p, q
  <2>1. Goes(ToUp(px.fd, us), q)
    BY <1>2, <1>7, <1>9, LoopGoes
  <2> QED BY <1>2, <1>3, <1>5, <1>7, <2>1, AnswerSends DEF Early
<1>10. CASE Waits(ToUp(px.fd, us), p, "write", "idle")
  <2> HIDE DEF us, p, q
  <2>1. Goes(ToUp(px.fd, us), p)
    BY <1>10, WaitsGoes DEF Ios
  <2> QED BY <1>2, <1>3, <1>5, <1>6, <2>1, AnswerSends DEF Early
<1>11. CASE Falls(ToUp(px.fd, us), p, up[px.fd].st # "open")
  <2> DEFINE g == ToUp(px.fd, us)
             cause == up[px.fd].st # "open"
  <2>1. Works(g, us) /\ Falls(g, p, cause)
    BY <1>8, <1>11
  <2> HIDE DEF us, p, q, g, cause
  <2> QED BY <1>2, <1>3, <2>1, AnswerFalls
<1>12. CASE \E c \in UpIds : Renews(c, p)
  <2> HIDE DEF us, p, q
  <2> QED BY <1>2, <1>3, <1>6, <1>12, AnswerRenews DEF Early
<1>13. CASE Falls(up, p, FALSE)
  <2> HIDE DEF us, p, q
  <2> QED BY <1>2, <1>3, <1>8, <1>13, AnswerFalls
<1> QED BY <1>4, <1>9, <1>10, <1>11, <1>12, <1>13

\* The request's body goes upstream while nothing of the answer is read.
LEMMA AnswerSendBody ==
    ASSUME SlotInv, HandInv, AnswerInv, PumpSendBody
    PROVE  AnswerInv'
<1>1. Pump
  BY DEF Pump
<1>2. /\ pc = "pump" /\ px.fd # NoUp /\ script' = script /\ ~px.send100 /\ budget > 0 /\ px.phase = "SEND_BODY"
  BY <1>1, PumpFacts, PumpingFacts DEF PumpSendBody
<1>3. Hand(px, Cur)
  BY <1>2 DEF HandInv
<1>4. \A i \in DOMAIN px.buf : px.buf[i].id = Cur
  BY <1>2, <1>3, HandIds
<1>5. \A i \in DOMAIN px.body : px.body[i].id = Cur
  BY <1>2, <1>3, HandIds
<1>6. px \in PxRecords /\ px.buf \in Seq(Units) /\ px.body \in Seq(Units)
  BY <1>2, SlotTypes
<1>7. pool' = pool /\ out' = out
  BY SendBodyEffect
<1>8. ASSUME NEW s \in Seq(Units), \A i \in DOMAIN s : s[i].id = Cur, NEW n \in 0 .. Len(s),
             NEW p \in PxRecords, p.fd = px.fd, p.overread = px.overread, p.bodyDone = px.bodyDone, ~p.send100,
             p.phase = "SEND_BODY", NEW cause,
             \/ Loop(ToUp(px.fd, Take(s, n)), p, 1)
             \/ Waits(ToUp(px.fd, Take(s, n)), p, "write", "idle")
             \/ Falls(ToUp(px.fd, Take(s, n)), p, cause)
      PROVE  AnswerInv'
  <2> DEFINE us == Take(s, n)
             g == ToUp(px.fd, us)
  <2>1. us \in Seq(Units) /\ \A i \in DOMAIN us : us[i].id = Cur
    <3>1. us \in Seq(Units) /\ Len(us) = n /\ \A i \in 1 .. n : us[i] = s[i]
      BY TakeFacts
    <3>2. DOMAIN s = 1 .. Len(s) /\ DOMAIN us = 1 .. n
      BY <3>1, DomFacts
    <3> HIDE DEF us
    <3> QED BY <1>8, <3>1, <3>2
  <2>2. Works(g, us)
    BY <1>2, <2>1, WorksFacts
  <2>3. Loop(g, p, 1) \/ Waits(g, p, "write", "idle") \/ Falls(g, p, cause)
    BY <1>8
  <2>4. CASE Goes(g, p)
    <3> HIDE DEF us
    <3> QED BY <1>2, <1>7, <1>8, <2>1, <2>4, AnswerSends DEF Early
  <2>5. CASE Falls(g, p, cause)
    <3> HIDE DEF us, g
    <3> QED BY <1>2, <1>7, <2>2, <2>5, AnswerFalls
  <2> HIDE DEF us, g
  <2>6. Loop(g, p, 1) => Goes(g, p)
    BY <1>2, LoopGoes
  <2>7. Waits(g, p, "write", "idle") => Goes(g, p)
    BY WaitsGoes DEF Ios
  <2> QED BY <2>3, <2>4, <2>5, <2>6, <2>7
<1>9. \A n \in 0 .. Len(px.buf) :
         /\ BufLess(n) \in PxRecords /\ BufLess(n).fd = px.fd /\ BufLess(n).overread = px.overread
         /\ BufLess(n).bodyDone = px.bodyDone /\ ~BufLess(n).send100 /\ BufLess(n).phase = "SEND_BODY"
  <2>1. \A n \in 0 .. Len(px.buf) : BufLess(n) \in PxRecords
    BY <1>6, LessFacts
  <2> QED BY <1>2, <1>6, <2>1 DEF BufLess, PxRecords
<1>10. \A n \in 0 .. Len(px.body) :
         /\ BodyLess(n) \in PxRecords /\ BodyLess(n).fd = px.fd /\ BodyLess(n).overread = px.overread
         /\ BodyLess(n).bodyDone = px.bodyDone /\ ~BodyLess(n).send100 /\ BodyLess(n).phase = "SEND_BODY"
  <2>1. \A n \in 0 .. Len(px.body) : BodyLess(n) \in PxRecords
    BY <1>6, LessFacts
  <2> QED BY <1>2, <1>6, <2>1 DEF BodyLess, PxRecords
<1> DEFINE cause == up[px.fd].st # "open"
<1>11. \/ \E n \in 0 .. Len(px.buf) :
             \/ Loop(ToUp(px.fd, Take(px.buf, n)), BufLess(n), 1)
             \/ Waits(ToUp(px.fd, Take(px.buf, n)), BufLess(n), "write", "idle")
             \/ Falls(ToUp(px.fd, Take(px.buf, n)), BufLess(n), cause)
       \/ \E n \in 0 .. Len(px.body) :
             \/ Loop(ToUp(px.fd, Take(px.body, n)), BodyLess(n), 1)
             \/ Waits(ToUp(px.fd, Take(px.body, n)), BodyLess(n), "write", "idle")
             \/ Falls(ToUp(px.fd, Take(px.body, n)), BodyLess(n), cause)
  BY SendBodyEffect
<1> HIDE DEF cause
<1>12. CASE \E n \in 0 .. Len(px.buf) :
             \/ Loop(ToUp(px.fd, Take(px.buf, n)), BufLess(n), 1)
             \/ Waits(ToUp(px.fd, Take(px.buf, n)), BufLess(n), "write", "idle")
             \/ Falls(ToUp(px.fd, Take(px.buf, n)), BufLess(n), cause)
  BY <1>4, <1>6, <1>8, <1>9, <1>12
<1>13. CASE \E n \in 0 .. Len(px.body) :
             \/ Loop(ToUp(px.fd, Take(px.body, n)), BodyLess(n), 1)
             \/ Waits(ToUp(px.fd, Take(px.body, n)), BodyLess(n), "write", "idle")
             \/ Falls(ToUp(px.fd, Take(px.body, n)), BodyLess(n), cause)
  BY <1>5, <1>6, <1>8, <1>10, <1>13
<1> QED BY <1>11, <1>12, <1>13

\* The body is taken from the client: nothing of the answer is read.
LEMMA AnswerTakes ==
    ASSUME SlotInv, px.fd # NoUp, AnswerInv, script' = script, pool' = pool, out' = out, ~px.send100,
           px.phase = "SEND_BODY", NEW p \in PxRecords, p.fd = px.fd, p.overread = px.overread, p.bodyDone = px.bodyDone,
           ~p.send100, p.phase \in {"SEND_BODY", "RECV_HDR"}, p.phase = "RECV_HDR" => p.buf = <<>>,
           Goes(up, p)
    PROVE  AnswerInv'
<1> DEFINE b == Body(out)
<1>1. Works(up, <<>>)
  BY WorksFacts
<1>2. Shown(px) = <<>> /\ Shown(p) = <<>> /\ px.phase \in Early /\ p.phase \in Early /\ p.phase # "SEND_REQ"
  BY DEF Shown, Early
<1>3. Exchange(b, px, up[px.fd], Cur)
  BY DEF AnswerInv
<1> HIDE DEF b
<1>4. Line(b, p, up[px.fd]) = Line(b, px, up[px.fd])
  BY <1>2 DEF Line
<1>5. Exchange(b, p, up[px.fd], Cur)
  BY <1>2, <1>3, <1>4, ExchangeEarly
<1>6. Body(out') = b
  BY DEF b
<1> QED BY <1>1, <1>5, <1>6, AnswerGoes

\* The request's body is read from the client while nothing of the answer is read.
LEMMA AnswerReadBody ==
    ASSUME SlotInv, AnswerInv, PumpReadBody
    PROVE  AnswerInv'
<1>1. Pump
  BY DEF Pump
<1>2. /\ pc = "pump" /\ px.fd # NoUp /\ script' = script /\ ~px.send100 /\ budget > 0 /\ px.phase = "SEND_BODY"
  BY <1>1, PumpFacts, PumpingFacts DEF PumpReadBody
<1>3. /\ pool' = pool /\ out' = out
      /\ \/ \E n \in 1 .. Len(client.in) : n <= px.bodyLeft /\ n <= BufMax /\ Loop(up, BodyRead(n), 1)
         \/ Waits(up, px, "idle", "read") \/ Falls(up, px, FALSE)
  BY ReadBodyEffect
<1>4. ASSUME NEW n \in 1 .. Len(client.in), n <= px.bodyLeft, n <= BufMax, Loop(up, BodyRead(n), 1)
      PROVE  AnswerInv'
  <2> DEFINE p == BodyRead(n)
  <2>1. Sound(p) /\ p.phase = px.phase /\ p.send100 = px.send100 /\ p.bodyDone = px.bodyDone /\ p.overread = px.overread
    BY <1>2, <1>4, BodyReadFacts
  <2>2. Loop(up, p, 1)
    BY <1>4
  <2> HIDE DEF p
  <2>3. p \in PxRecords /\ p.fd = px.fd
    BY <2>1 DEF Sound
  <2>4. Goes(up, p)
    BY <1>2, <2>2, <2>3, LoopGoes
  <2> QED BY <1>2, <1>3, <2>1, <2>3, <2>4, AnswerTakes
<1>5. CASE Waits(up, px, "idle", "read")
  BY <1>2, <1>3, <1>5, AnswerWaits DEF Ios
<1>6. Works(up, <<>>)
  BY <1>2, WorksFacts
<1>7. CASE Falls(up, px, FALSE)
  BY <1>2, <1>3, <1>6, <1>7, AnswerFalls
<1> QED BY <1>3, <1>4, <1>5, <1>7

\* All of the request is sent and its answer is awaited.
LEMMA AnswerBodySent ==
    ASSUME SlotInv, AnswerInv, PumpBodySent
    PROVE  AnswerInv'
<1>1. Pump
  BY DEF Pump
<1>2. /\ pc = "pump" /\ px.fd # NoUp /\ script' = script /\ ~px.send100 /\ budget > 0 /\ px.phase = "SEND_BODY"
  BY <1>1, PumpFacts, PumpingFacts DEF PumpBodySent
<1> DEFINE p == [px EXCEPT !.phase = "RECV_HDR"]
<1>3. pool' = pool /\ out' = out /\ Loop(up, p, 0) /\ px.buf \o px.body = <<>>
  BY DEF PumpBodySent, pumpRest
<1>4. px \in PxRecords /\ px.buf = <<>>
  BY <1>2, <1>3, SlotTypes, EmptyCat
<1>5. /\ p \in PxRecords /\ p.fd = px.fd /\ p.overread = px.overread /\ p.bodyDone = px.bodyDone
      /\ p.send100 = px.send100 /\ p.phase = "RECV_HDR" /\ p.buf = <<>>
  BY <1>4 DEF PxRecords, Phases
<1> HIDE DEF p
<1>6. Goes(up, p)
  BY <1>2, <1>3, <1>5, LoopGoes
<1> QED BY <1>2, <1>3, <1>5, <1>6, AnswerTakes

\* A read of the socket, up to n units: what is left in it.
LEMMA EmptiedFacts ==
    ASSUME SlotInv, px.fd # NoUp, NEW n \in 0 .. Len(up[px.fd].in)
    PROVE  LET w == Emptied(n)[px.fd]
           IN  w \in UpRecords /\ w.answered = up[px.fd].answered /\ w.in = Drop(up[px.fd].in, n) /\ w.plan = up[px.fd].plan
<1> DEFINE g == Emptied(n)
<1>1. px.fd \in UpIds /\ up \in [UpIds -> UpRecords]
  BY SlotTypes
<1>2. /\ g \in [UpIds -> UpRecords] /\ g[px.fd].in = Drop(up[px.fd].in, n) /\ g[px.fd].plan = up[px.fd].plan
      /\ g[px.fd].answered = up[px.fd].answered
  BY <1>1, ReadUp DEF Emptied
<1> HIDE DEF g
<1>3. g[px.fd] \in UpRecords
  BY <1>1, <1>2
<1> QED BY <1>2, <1>3 DEF g

\* rewrite_response leaves what is not about the header alone.
LEMMA FinalRest ==
    ASSUME NEW p \in PxRecords, NEW at \in 1 .. Len(p.buf), p.buf[at].k = "hend"
    PROVE  LET q == FinalHeader(p, at)
           IN  q \in PxRecords /\ q.fd = p.fd /\ q.send100 = p.send100 /\ q.respSent = p.respSent
<1> DEFINE r == p.buf[at].r
           q == FinalHeader(p, at)
           a == Answered(p, at)
           rest == Drop(p.buf, at)
<1> SUFFICES q \in PxRecords /\ q.fd = p.fd /\ q.send100 = p.send100 /\ q.respSent = p.respSent
  OBVIOUS
<1>1. q = Bare(p, at) \/ q = a \/ q = NoteBody(a, rest)
  BY FinalFacts
<1>2. /\ a \in PxRecords /\ a.buf = rest /\ a.fd = p.fd /\ a.send100 = p.send100 /\ a.respSent = p.respSent
  BY AnsweredFacts
<1>3. CASE q = Bare(p, at)
  <2>1. LET b == Bare(p, at)
        IN  b \in PxRecords /\ b.fd = p.fd /\ b.send100 = p.send100 /\ b.respSent = p.respSent
    BY BareFacts
  <2> QED BY <1>3, <2>1
<1>4. rest \in Seq(Units)
  <2>1. p.buf \in Seq(Units) /\ at \in 0 .. Len(p.buf)
    BY DEF PxRecords
  <2> QED BY <2>1, DropFacts
<1> HIDE DEF a, rest, q
<1>5. CASE q = a
  BY <1>2, <1>5
<1>6. CASE q = NoteBody(a, rest)
  <2>1. PICK end \in 0 .. Len(rest) : Ended(q, a, rest, end)
    BY <1>2, <1>4, <1>6, NoteFacts
  <2> QED BY <1>2, <2>1 DEF Ended
<1> QED BY <1>1, <1>3, <1>5, <1>6

\* The header of an answer: a block of it is skipped, taken over, or refused.
LEMMA AnswerHeader ==
    ASSUME SlotInv, px.fd # NoUp, AnswerInv, script' = script, pool' = pool, out' = out, ~px.send100,
           pc = "pump", budget > 0, NEW u, NEW p \in PxRecords, p.fd = px.fd, p.phase = "RECV_HDR", ~p.send100,
           Works(u, <<>>), Exchange(Body(out), p, u[px.fd], Cur), HdrEnd(p.buf) # 0, Header(u, p, HdrEnd(p.buf))
    PROVE  AnswerInv'
<1> DEFINE at == HdrEnd(p.buf)
           w == u[px.fd]
           b == Body(out)
           q1 == [p EXCEPT !.buf = Drop(p.buf, at)]
           q2 == FinalHeader(p, at)
<1>1. b \in Seq(Units) /\ w \in UpRecords /\ Cur \in DOMAIN script /\ Exchange(b, p, w, Cur) /\ px.fd \in UpIds
  BY WorksFacts, SlotTypes, SlotFacts DEF Works
<1>2. Body(out') = b
  OBVIOUS
<1>3. at # 0 /\ Header(u, p, at) /\ p.buf \in Seq(Units)
  BY DEF PxRecords
<1>4. at \in 0 .. Len(p.buf) /\ at \in 1 .. Len(p.buf)
  BY <1>3, HdrEndFacts
<1>5. CASE p.buf[at].k = "1xx" /\ p.buf[1].k # "o" /\ \E spent \in {0, 1} : Loop(u, q1, spent)
  <2>1. PICK spent \in {0, 1} : Loop(u, q1, spent)
    BY <1>5
  <2>2. Drop(p.buf, at) \in Seq(Units)
    BY <1>3, <1>4, DropFacts
  <2>3. Exchange(b, q1, w, Cur)
    BY <1>1, <1>3, <1>5, ExchangeInfo
  <2> DEFINE t == Drop(p.buf, at)
  <2> HIDE DEF t, w, b
  <2>4. q1 \in PxRecords /\ q1.fd = px.fd /\ ~q1.send100
    BY <2>2 DEF PxRecords, t
  <2> HIDE DEF q1
  <2>5. Goes(u, q1)
    BY <2>1, <2>4, LoopGoes
  <2>6. Exchange(b, q1, u[px.fd], Cur)
    BY <2>3 DEF w
  <2> QED BY <1>2, <2>4, <2>5, <2>6, AnswerGoes
<1>6. CASE /\ p.buf[at].k = "hend" /\ p.buf[1].k # "o" /\ p.buf[at].r.framing # "badhead"
           /\ ~(p.buf[at].r.framing = "badchunk" /\ BadChunk(Drop(p.buf, at)) /\ Req.method # "HEAD")
           /\ \E spent \in {0, 1} : Loop(u, q2, spent)
  <2>1. PICK spent \in {0, 1} : Loop(u, q2, spent)
    BY <1>6
  <2>2. Exchange(b, q2, w, Cur)
    <3> DEFINE a == at
    <3>1. /\ a = HdrEnd(p.buf) /\ a # 0 /\ p.buf[a].k = "hend" /\ p.buf[1].k # "o"
          /\ p.buf[a].r.framing # "badhead"
          /\ ~(p.buf[a].r.framing = "badchunk" /\ BadChunk(Drop(p.buf, a)) /\ Req.method # "HEAD")
      BY <1>3, <1>6
    <3>2. Exchange(b, FinalHeader(p, a), w, Cur)
      <4> HIDE DEF a, w, b
      <4> QED BY <1>1, <3>1, ExchangeFinal
    <3> QED BY <3>2
  <2>3. q2 \in PxRecords /\ q2.fd = px.fd /\ q2.send100 = p.send100
    BY <1>3, <1>4, <1>6, FinalRest
  <2> HIDE DEF q2, w, b
  <2>4. Goes(u, q2)
    BY <2>1, <2>3, LoopGoes
  <2>5. Exchange(b, q2, u[px.fd], Cur)
    BY <2>2 DEF w
  <2> QED BY <1>2, <2>3, <2>4, <2>5, AnswerGoes
<1>7. CASE \E cause : Falls(u, p, cause)
  BY <1>7, AnswerFalls
<1> QED BY <1>3, <1>5, <1>6, <1>7 DEF Header

\* The answer's header is read: what is behind it is framed as it says.
LEMMA AnswerRecvHdr ==
    ASSUME SlotInv, AnswerInv, PumpRecvHdr
    PROVE  AnswerInv'
<1>1. Pump
  BY DEF Pump
<1>2. /\ pc = "pump" /\ px.fd # NoUp /\ script' = script /\ ~px.send100 /\ budget > 0 /\ px.phase = "RECV_HDR"
  BY <1>1, PumpFacts, PumpingFacts DEF PumpRecvHdr
<1>3. px \in PxRecords /\ up[px.fd].in \in Seq(Units) /\ px.fd \in UpIds
  BY <1>2, SlotTypes
<1>4. pool' = pool /\ out' = out
  BY RecvHdrEffect
<1>5. \/ HdrEnd(px.buf) # 0 /\ Header(up, px, HdrEnd(px.buf))
      \/ \E cause : Falls(up, px, cause)
      \/ \E n \in 1 .. Len(up[px.fd].in) :
            LET p == AnswerRead(n)
                u == Emptied(n)
            IN  /\ n <= BufMax - Len(px.buf)
                /\ \/ HdrEnd(p.buf) # 0 /\ Header(u, p, HdrEnd(p.buf))
                   \/ Falls(u, p, Len(p.buf) >= BufMax)
                   \/ Loop(u, p, 1)
      \/ Waits(up, px, "read", "idle")
      \/ \E c \in UpIds : Renews(c, px)
  BY RecvHdrEffect
<1>6. Works(up, <<>>) /\ Exchange(Body(out), px, up[px.fd], Cur) /\ Body(out) \in Seq(Units) /\ up[px.fd] \in UpRecords
  BY <1>2, WorksFacts DEF AnswerInv
<1>7. CASE HdrEnd(px.buf) # 0 /\ Header(up, px, HdrEnd(px.buf))
  BY <1>2, <1>3, <1>4, <1>6, <1>7, AnswerHeader
<1>8. CASE \E cause : Falls(up, px, cause)
  BY <1>2, <1>4, <1>6, <1>8, AnswerFalls
<1>9. ASSUME NEW n \in 1 .. Len(up[px.fd].in), n <= BufMax - Len(px.buf),
             \/ HdrEnd(AnswerRead(n).buf) # 0 /\ Header(Emptied(n), AnswerRead(n), HdrEnd(AnswerRead(n).buf))
             \/ Falls(Emptied(n), AnswerRead(n), Len(AnswerRead(n).buf) >= BufMax)
             \/ Loop(Emptied(n), AnswerRead(n), 1)
      PROVE  AnswerInv'
  <2> DEFINE p == AnswerRead(n)
             u == Emptied(n)
             w == u[px.fd]
             b == Body(out)
             cause == Len(p.buf) >= BufMax
  <2>1. n \in 0 .. Len(up[px.fd].in)
    OBVIOUS
  <2>2. /\ p \in PxRecords /\ p.fd = px.fd /\ p.phase = px.phase /\ p.send100 = px.send100
        /\ p.bodyDone = px.bodyDone /\ p.overread = px.overread /\ p.buf = px.buf \o Take(up[px.fd].in, n)
    BY <1>2, <1>9, <2>1, AnswerReadFacts, AnswerReadSame
  <2>3. w.answered = up[px.fd].answered /\ w.in = Drop(up[px.fd].in, n) /\ w.plan = up[px.fd].plan
    BY <1>2, <2>1, EmptiedFacts
  <2>4. Works(u, <<>>)
    BY <1>2, <2>1, WorksFacts
  <2>5. \/ HdrEnd(p.buf) # 0 /\ Header(u, p, HdrEnd(p.buf))
        \/ Falls(u, p, cause)
        \/ Loop(u, p, 1)
    BY <1>9
  <2>6. b \in Seq(Units) /\ Exchange(b, px, up[px.fd], Cur) /\ Body(out') = b
    BY <1>4, <1>6
  <2> HIDE DEF p, w, b
  <2>7. Exchange(b, p, w, Cur)
    BY <1>2, <1>3, <1>6, <2>1, <2>2, <2>3, <2>6, ExchangeRead
  <2>8. Exchange(b, p, u[px.fd], Cur) /\ Exchange(Body(out), p, u[px.fd], Cur)
    BY <2>7 DEF w, b
  <2> HIDE DEF u, cause
  <2>9. CASE HdrEnd(p.buf) # 0 /\ Header(u, p, HdrEnd(p.buf))
    BY <1>2, <1>4, <2>2, <2>4, <2>8, <2>9, AnswerHeader
  <2>10. CASE Falls(u, p, cause)
    BY <1>2, <1>4, <2>4, <2>10, AnswerFalls
  <2>11. CASE Loop(u, p, 1)
    <3>1. Goes(u, p)
      BY <1>2, <2>2, <2>11, LoopGoes
    <3> QED BY <1>2, <1>4, <2>2, <2>4, <2>6, <2>8, <3>1, AnswerGoes
  <2> QED BY <2>5, <2>9, <2>10, <2>11
<1>10. CASE Waits(up, px, "read", "idle")
  BY <1>2, <1>4, <1>10, AnswerWaits DEF Ios
<1>11. CASE \E c \in UpIds : Renews(c, px)
  BY <1>2, <1>3, <1>4, <1>11, AnswerRenews DEF Early
<1> QED BY <1>5, <1>7, <1>8, <1>9, <1>10, <1>11

-----------------------------------------------------------------------------
(* What the client is sent. *)

\* The first units of two pieces: of the first one, or all of it and the first of the second.
LEMMA TakeCat ==
    ASSUME NEW a \in Seq(Units), NEW b \in Seq(Units), NEW n \in 1 .. Len(a) + Len(b)
    PROVE  /\ n <= Len(a) => Take(a \o b, n) = Take(a, n)
           /\ n > Len(a) => Take(a \o b, n) = a \o Take(b, n - Len(a)) /\ n - Len(a) \in 0 .. Len(b)
<1> DEFINE ab == a \o b
           k == Len(a)
           m == Len(b)
<1>1. /\ k \in Nat /\ m \in Nat /\ ab \in Seq(Units) /\ Len(ab) = k + m
      /\ (\A i \in 1 .. k : ab[i] = a[i]) /\ (\A i \in 1 .. m : ab[k + i] = b[i])
  BY CatFacts, DomFacts
<1>2. CASE n <= k
  <2>1. 1 \in 1 .. Len(a) /\ n \in 1 .. Len(a)
    BY <1>1, <1>2
  <2>2. SubSeq(a \o b, 1, n) = SubSeq(a, 1, n)
    BY <2>1, SubSeqOfConcat1
  <2> QED BY <1>1, <1>2, <2>2 DEF Take
<1>3. CASE n > k
  <2> DEFINE s == Take(ab, n)
             d == n - k
             t == Take(b, d)
             r == a \o t
  <2>1. n \in 0 .. Len(ab) /\ d \in 0 .. Len(b) /\ d \in Nat /\ n = k + d
    BY <1>1, <1>3
  <2> HIDE DEF ab
  <2>2. s \in Seq(Units) /\ Len(s) = n /\ \A i \in 1 .. n : s[i] = ab[i]
    BY <1>1, <2>1, TakeFacts
  <2> HIDE DEF d
  <2>3. t \in Seq(Units) /\ Len(t) = d /\ \A i \in 1 .. d : t[i] = b[i]
    BY <2>1, TakeFacts
  <2> HIDE DEF s, t
  <2>4. /\ r \in Seq(Units) /\ Len(r) = Len(a) + Len(t) /\ (\A i \in 1 .. Len(a) : r[i] = a[i])
        /\ (\A i \in 1 .. Len(t) : r[Len(a) + i] = t[i])
    <3>1. t \in Seq(Units)
      BY <2>3
    <3>2. r \in Seq(Units) /\ Len(r) = Len(a) + Len(t)
      BY <3>1, CatFacts
    <3>3. \A i \in 1 .. Len(a) : r[i] = a[i]
      BY <3>1, CatFacts
    <3>4. \A i \in 1 .. Len(t) : r[Len(a) + i] = t[i]
      BY <3>1, CatFacts
    <3> QED BY <3>2, <3>3, <3>4
  <2>5. /\ Len(r) = k + d /\ (\A i \in 1 .. k : r[i] = a[i]) /\ (\A i \in 1 .. d : r[k + i] = b[i])
    BY <2>3, <2>4
  <2>6. \A i \in 1 .. d : i \in 1 .. m
    BY <1>1, <2>1
  <2> HIDE DEF k, m, r
  <2>7. Len(s) = Len(r)
    BY <2>1, <2>2, <2>5
  <2>8. ASSUME NEW i \in 1 .. Len(s) PROVE s[i] = r[i]
    <3>1. s[i] = ab[i] /\ i \in 1 .. k + d
      BY <2>1, <2>2
    <3>2. CASE i \in 1 .. k
      BY <1>1, <2>5, <3>1, <3>2
    <3>3. CASE i \notin 1 .. k
      <4> DEFINE j == i - k
      <4>1. j \in 1 .. d /\ i = k + j
        BY <1>1, <2>1, <3>1, <3>3
      <4>2. j \in 1 .. m
        BY <2>6, <4>1
      <4> HIDE DEF j
      <4>3. ab[k + j] = b[j] /\ r[k + j] = b[j]
        BY <1>1, <2>5, <4>1, <4>2
      <4> QED BY <3>1, <4>1, <4>3
    <3> QED BY <3>2, <3>3
  <2>9. s = r
    BY <2>2, <2>4, <2>7, <2>8, SeqEqual
  <2> QED BY <1>1, <1>3, <2>1, <2>9 DEF s, r, t, d, ab, k, m
<1> QED BY <1>1, <1>2, <1>3 DEF k

\* Body leaves out a 100 at the front only.
LEMMA BodyCat ==
    ASSUME NEW s \in Seq(Units), NEW t \in Seq(Units), \A i \in DOMAIN t : t[i].k # "100"
    PROVE  Body(s \o t) = Body(s) \o t
<1>1. CASE s = <<>>
  <2>1. s \o t = t
    BY <1>1, CatNothing
  <2>2. Body(s) = <<>>
    BY <1>1 DEF Body
  <2>3. t # <<>> => t[1].k # "100"
    <3>1. t # <<>> => 1 \in DOMAIN t
      BY DomFacts
    <3> QED BY <3>1
  <2>4. Body(t) = t
    BY <2>3 DEF Body
  <2> QED BY <2>1, <2>2, <2>4, CatNothing
<1>2. CASE s # <<>>
  <2> DEFINE st == s \o t
  <2>1. Len(s) \in Nat \ {0} /\ st \in Seq(Units) /\ st # <<>> /\ st[1] = s[1]
    <3>1. Len(s) \in Nat \ {0}
      BY <1>2, DomFacts
    <3>2. st \in Seq(Units) /\ \A i \in 1 .. Len(s) : st[i] = s[i]
      BY CatFacts
    <3>3. st # <<>>
      BY <1>2, EmptyCat
    <3> QED BY <3>1, <3>2, <3>3
  <2>2. Tail(st) = Tail(s) \o t
    <3> DEFINE x == Head(s)
               d == Tail(s)
               one == <<x>>
    <3>1. x \in Units /\ d \in Seq(Units) /\ s = one \o d
      <4>1. Len(s) \in Nat \ {0} /\ x = s[1] /\ x \in Units /\ d \in Seq(Units)
        BY <1>2, TailFacts
      <4>2. 1 \in 1 .. Len(s) /\ Len(s) \in 1 .. Len(s)
        BY <4>1
      <4>3. SubSeq(s, 1, Len(s)) = <<s[1]>> \o SubSeq(s, 1 + 1, Len(s))
        BY <4>2, SubSeqRecursiveFirst
      <4>4. SubSeq(s, 1, Len(s)) = s /\ d = SubSeq(s, 2, Len(s)) /\ 1 + 1 = 2
        BY <1>2, SubSeqFull, TailIsSubSeq
      <4> QED BY <4>1, <4>3, <4>4
    <3>2. one \in Seq(Units)
      <4> HIDE DEF x
      <4> QED BY <3>1
    <3>3. Len(one) = 1 /\ one[1] = x
      OBVIOUS
    <3> DEFINE dt == d \o t
    <3> HIDE DEF x, d, one
    <3>4. dt \in Seq(Units)
      BY <3>1, CatFacts
    <3>5. st = one \o dt
      BY <3>1, <3>2, CatAssoc, Zenon DEF st, dt
    <3> DEFINE e == Tail(st)
    <3>6. e \in Seq(Units) /\ Len(e) = Len(st) - 1 /\ \A i \in 1 .. Len(st) - 1 : e[i] = st[i + 1]
      BY <2>1, TailFacts
    <3>7. Len(st) = 1 + Len(dt) /\ \A i \in 1 .. Len(dt) : st[1 + i] = dt[i]
      <4>1. Len(one \o dt) = Len(one) + Len(dt) /\ \A i \in 1 .. Len(dt) : (one \o dt)[Len(one) + i] = dt[i]
        BY <3>2, <3>4, CatFacts
      <4> HIDE DEF st, dt
      <4> QED BY <3>3, <3>5, <4>1, Zenon
    <3> HIDE DEF e, st, dt
    <3>8. Len(dt) \in Nat /\ Len(e) = Len(dt)
      BY <3>4, <3>6, <3>7, DomFacts
    <3>9. \A i \in 1 .. Len(e) : e[i] = dt[i]
      <4> TAKE i \in 1 .. Len(e)
      <4>1. i \in 1 .. Len(dt) /\ i + 1 = 1 + i /\ i \in 1 .. Len(st) - 1
        BY <3>7, <3>8
      <4> QED BY <3>6, <3>7, <4>1
    <3>10. e = dt
      BY <3>4, <3>6, <3>8, <3>9, SeqEqual
    <3> QED BY <3>10 DEF e, st, dt, d
  <2> HIDE DEF st
  <2>3. Body(st) = IF s[1].k = "100" THEN Tail(s) \o t ELSE st
    BY <2>1, <2>2 DEF Body
  <2>4. Body(s) = IF s[1].k = "100" THEN Tail(s) ELSE s
    BY <1>2 DEF Body
  <2> QED BY <2>3, <2>4 DEF st
<1> QED BY <1>1, <1>2

\* What is read of an answer from its header on is none of the server's own units.
LEMMA ShownPlain ==
    ASSUME SlotInv, px.fd # NoUp, AnswerInv, px.phase \notin Early
    PROVE  Shown(px) \in Seq(Units) /\ \A i \in DOMAIN Shown(px) : Shown(px)[i].k # "100" /\ Shown(px)[i].id = Cur
<1> DEFINE us == Body(out)
           sh == Shown(px)
<1>1. us \in Seq(Units) /\ sh \in Seq(Units) /\ Cur \in DOMAIN script
  BY WorksFacts, LineTypes, SlotTypes, SlotFacts
<1>2. PICK r \in Responses : Within(us \o sh, RespUnits(Cur, r), r.info)
  BY DEF AnswerInv, Exchange
<1> DEFINE all == RespUnits(Cur, r)
<1>3. all \in Seq(Units) /\ r.info \in Nat
  BY <1>1, RespFacts
<1>6. Within(us \o sh, all, r.info)
  BY <1>2
<1> HIDE DEF us, sh, all
<1>7. /\ r.info + Len(us) + Len(sh) <= Len(all) /\ Len(us) \in Nat /\ Len(sh) \in Nat /\ Len(all) \in Nat
      /\ \A i \in 1 .. Len(sh) : sh[i] = all[r.info + Len(us) + i]
  BY <1>1, <1>3, <1>6, WithinCat
<1>8. ASSUME NEW i \in 1 .. Len(sh) PROVE sh[i].k # "100" /\ sh[i].id = Cur
  <2> DEFINE j == r.info + Len(us) + i
  <2>1. j \in 1 .. Len(all) /\ j > r.info /\ (j = r.info + 1 \/ j = r.info + 2 \/ j > r.info + 2) /\ sh[i] = all[j]
    <3>1. sh[i] = all[j]
      BY <1>7
    <3> DEFINE ri == r.info
               a == Len(us)
               b == Len(sh)
               n == Len(all)
    <3>2. ri \in Nat /\ a \in Nat /\ b \in Nat /\ n \in Nat /\ ri + a + b <= n /\ i \in 1 .. b /\ j = ri + a + i
      BY <1>3, <1>7
    <3> HIDE DEF ri, a, b, n, j
    <3>3. j \in 1 .. n /\ j > ri /\ (j = ri + 1 \/ j = ri + 2 \/ j > ri + 2)
      BY <3>2
    <3> QED BY <3>1, <3>3 DEF ri, n
  <2> HIDE DEF j
  <2>2. LET x == RespUnits(Cur, r)[j]
        IN  /\ x.id = Cur
            /\ j = r.info + 1 => x.k = "h"
            /\ j = r.info + 2 => x.k = "hend"
            /\ j > r.info + 2 => x.k = "d" \/ x.k = "z" \/ x.k = "x"
    BY <1>1, <2>1, RespAt DEF all
  <2>3. sh[i] = RespUnits(Cur, r)[j]
    BY <2>1 DEF all
  <2> DEFINE x == RespUnits(Cur, r)[j]
  <2>4. sh[i] = x /\ x.id = Cur /\ x.k \in {"h", "hend", "d", "z", "x"}
    BY <2>1, <2>2, <2>3
  <2> HIDE DEF x
  <2> QED BY <2>4
<1>9. DOMAIN sh = 1 .. Len(sh)
  BY <1>1, DomFacts
<1>10. sh \in Seq(Units) /\ \A i \in DOMAIN sh : sh[i].k # "100" /\ sh[i].id = Cur
  BY <1>1, <1>8, <1>9
<1> QED BY <1>10 DEF sh

\* A piece t of what has been read is sent to the client.
LEMMA AnswerForwards ==
    ASSUME SlotInv, px.fd # NoUp, AnswerInv, script' = script, pool' = pool, px.phase \notin Early,
           NEW t \in Seq(Units), out' = out \o t,
           NEW p \in PxRecords, p.fd = px.fd, p.phase \notin Early,
           p.phase = "STREAM" => p.hdr = <<>> /\ (p.bodyDone => p.buf # <<>>),
           p.overread = px.overread, p.bodyDone = px.bodyDone, p.framing = px.framing, p.respLeft = px.respLeft,
           ~p.send100, t \o Shown(p) = Shown(px), Goes(up, p)
    PROVE  AnswerInv'
<1> DEFINE us == Body(out)
           vs == us \o t
           sh == Shown(p)
<1>1. us \in Seq(Units) /\ sh \in Seq(Units) /\ out \in Seq(Units)
  BY WorksFacts, LineTypes, SlotTypes
<1>2. \A i \in DOMAIN t : t[i].k # "100"
  <2>1. Shown(px) \in Seq(Units) /\ \A i \in DOMAIN Shown(px) : Shown(px)[i].k # "100"
    BY ShownPlain
  <2> DEFINE s == Shown(px)
  <2>2. s = t \o sh
    OBVIOUS
  <2>3. DOMAIN s = 1 .. Len(s) /\ DOMAIN t = 1 .. Len(t) /\ Len(t) \in Nat /\ Len(sh) \in Nat
    BY <1>1, <2>1, DomFacts
  <2> HIDE DEF sh
  <2>4. Len(t \o sh) = Len(t) + Len(sh) /\ \A i \in 1 .. Len(t) : (t \o sh)[i] = t[i]
    BY <1>1, CatFacts
  <2>5. \A i \in DOMAIN s : s[i].k # "100"
    BY <2>1
  <2> HIDE DEF s
  <2>6. \A i \in 1 .. Len(t) : i \in 1 .. Len(s)
    BY <2>2, <2>3, <2>4
  <2> QED BY <2>2, <2>3, <2>4, <2>5, <2>6
<1>3. Body(out') = vs
  BY <1>1, <1>2, BodyCat
<1>4. vs \o sh = us \o Shown(px)
  <2> HIDE DEF us, sh
  <2>1. (us \o t) \o sh = us \o (t \o sh)
    BY <1>1, CatAssoc, Zenon
  <2> QED BY <2>1 DEF sh
<1>5. Exchange(us, px, up[px.fd], Cur)
  BY DEF AnswerInv
<1>6. vs \o Shown(p) = us \o Shown(px)
  BY <1>4
<1> HIDE DEF us, vs, sh
<1>7. Exchange(vs, p, up[px.fd], Cur)
  BY <1>5, <1>6, ExchangeSame
<1>8. Works(up, <<>>)
  BY WorksFacts
<1> QED BY <1>3, <1>7, <1>8, AnswerGoes

\* A whole answer goes to the client, and its socket is parked when nothing is left.
LEMMA AnswerGathered ==
    ASSUME SlotInv, HandInv, SentInv, AnswerInv, PumpSendGathered
    PROVE  AnswerInv'
<1>1. Pump
  BY DEF Pump
<1>2. /\ pc = "pump" /\ px.fd # NoUp /\ script' = script /\ ~px.send100 /\ budget > 0
      /\ px.phase = "SEND_RESP"
  BY <1>1, PumpFacts, PumpingFacts DEF PumpSendGathered
<1>3. /\ px \in PxRecords /\ px.hdr \in Seq(Units) /\ px.buf \in Seq(Units) /\ Len(px.hdr) \in Nat /\ Len(px.buf) \in Nat
      /\ px.phase \notin Early /\ Works(up, <<>>)
  BY <1>2, SlotTypes, WorksFacts DEF Early
<1>4. \/ \E n \in 1 .. Len(px.hdr) + Len(px.buf) :
            /\ out' = out \o Take(px.hdr \o px.buf, n)
            /\ \/ Parks(up, Gathered(n))
               \/ n < Len(px.hdr) + Len(px.buf) /\ Loop(up, Gathered(n), 1) /\ pool' = pool
      \/ /\ out' = out /\ pool' = pool
         /\ Waits(up, px, "none", "write") \/ Falls(up, px, client.st # "open")
  BY GatheredEffect
<1>5. ASSUME NEW n \in 1 .. Len(px.hdr) + Len(px.buf), Parks(up, Gathered(n))
      PROVE  AnswerInv'
  <2> DEFINE p == Gathered(n)
  <2>1. p.fd = px.fd /\ p.bodyDone = px.bodyDone /\ p.overread = px.overread
    BY <1>2, GatheredFacts
  <2>2. Parks(up, p)
    BY <1>5
  <2> HIDE DEF p
  <2> QED BY <1>2, <2>1, <2>2, AnswerParks
<1>6. ASSUME NEW n \in 1 .. Len(px.hdr) + Len(px.buf), Loop(up, Gathered(n), 1), pool' = pool,
             out' = out \o Take(px.hdr \o px.buf, n)
      PROVE  AnswerInv'
  <2> DEFINE p == Gathered(n)
             h == px.hdr
             b == px.buf
             t == Take(h \o b, n)
             m == n - Len(h)
  <2>1. /\ p \in PxRecords /\ p.fd = px.fd /\ p.phase = px.phase /\ p.send100 = px.send100 /\ p.framing = px.framing
        /\ p.bodyDone = px.bodyDone /\ p.overread = px.overread /\ p.respLeft = px.respLeft
        /\ n <= Len(h) => p.hdr = Drop(h, n) /\ p.buf = b
        /\ n > Len(h) => p.hdr = <<>> /\ p.buf = Drop(b, m)
    BY <1>2, GatheredFacts
  <2>2. Loop(up, p, 1) /\ out' = out \o t
    BY <1>6
  <2>3. h \in Seq(Units) /\ b \in Seq(Units) /\ n \in 1 .. Len(h) + Len(b) /\ Len(h) \in Nat
    BY <1>3
  <2>4. /\ n <= Len(h) => t = Take(h, n)
        /\ n > Len(h) => t = h \o Take(b, m) /\ m \in 0 .. Len(b)
    BY <2>3, TakeCat
  <2>5. Shown(px) = h \o b /\ Shown(p) = p.hdr \o p.buf
    BY <1>2, <2>1 DEF Shown
  <2> HIDE DEF p, h, b, m, t
  <2>6. t \in Seq(Units) /\ t \o Shown(p) = h \o b
    <3>1. CASE n <= Len(h)
      <4> DEFINE x == Take(h, n)
                 y == Drop(h, n)
      <4>1. n \in 0 .. Len(h)
        BY <2>3, <3>1
      <4>2. x \in Seq(Units) /\ y \in Seq(Units) /\ x \o y = h
        BY <2>3, <4>1, TakeDrop
      <4>3. t = x /\ Shown(p) = y \o b
        BY <2>1, <2>4, <2>5, <3>1
      <4> HIDE DEF x, y
      <4>4. (x \o y) \o b = x \o (y \o b)
        BY <2>3, <4>2, CatAssoc, Zenon
      <4> QED BY <4>2, <4>3, <4>4
    <3>2. CASE n > Len(h)
      <4> DEFINE x == Take(b, m)
                 y == Drop(b, m)
      <4>1. m \in 0 .. Len(b)
        BY <2>4, <3>2
      <4>2. x \in Seq(Units) /\ y \in Seq(Units) /\ x \o y = b
        BY <2>3, <4>1, TakeDrop
      <4>3. t = h \o x /\ Shown(p) = <<>> \o y
        BY <2>1, <2>4, <2>5, <3>2
      <4> HIDE DEF x, y
      <4>4. Shown(p) = y
        BY <4>2, <4>3, CatNothing
      <4>5. (h \o x) \o y = h \o (x \o y)
        BY <2>3, <4>2, CatAssoc, Zenon
      <4>6. h \o x \in Seq(Units)
        BY <2>3, <4>2, CatFacts
      <4> QED BY <4>2, <4>3, <4>4, <4>5, <4>6
    <3> QED BY <2>3, <3>1, <3>2
  <2>7. Goes(up, p)
    BY <1>2, <2>1, <2>2, LoopGoes
  <2> QED BY <1>2, <1>3, <1>6, <2>1, <2>2, <2>5, <2>6, <2>7, AnswerForwards
<1>7. CASE out' = out /\ pool' = pool /\ Waits(up, px, "none", "write")
  BY <1>2, <1>7, AnswerWaits DEF Ios
<1>8. CASE pool' = pool /\ Falls(up, px, client.st # "open")
  <2> DEFINE cause == client.st # "open"
  <2>1. Falls(up, px, cause)
    BY <1>8
  <2> HIDE DEF cause
  <2> QED BY <1>2, <1>3, <1>8, <2>1, AnswerFalls
<1> QED BY <1>4, <1>5, <1>6, <1>7, <1>8

\* The header goes to the client ahead of the body.
LEMMA AnswerSendHdr ==
    ASSUME SlotInv, AnswerInv, PumpSendHdr
    PROVE  AnswerInv'
<1>1. Pump
  BY DEF Pump
<1>2. /\ pc = "pump" /\ px.fd # NoUp /\ script' = script /\ ~px.send100 /\ budget > 0
      /\ px.phase = "SEND_RESP" /\ ~px.bodyDone
  BY <1>1, PumpFacts, PumpingFacts DEF PumpSendHdr
<1>3. /\ px \in PxRecords /\ px.hdr \in Seq(Units) /\ px.buf \in Seq(Units) /\ Len(px.hdr) \in Nat
      /\ px.phase \notin Early /\ Works(up, <<>>)
  BY <1>2, SlotTypes, WorksFacts DEF Early
<1>4. /\ pool' = pool
      /\ \E n \in 0 .. Len(px.hdr) :
            /\ out' = out \o Take(px.hdr, n)
            /\ \/ n = Len(px.hdr) /\ Loop(up, [HdrSent(n) EXCEPT !.phase = "STREAM"], 1)
               \/ Waits(up, HdrSent(n), "idle", "write")
               \/ Falls(up, HdrSent(n), client.st # "open")
  BY SendHdrEffect
<1>5. PICK n \in 0 .. Len(px.hdr) :
            /\ out' = out \o Take(px.hdr, n)
            /\ \/ n = Len(px.hdr) /\ Loop(up, [HdrSent(n) EXCEPT !.phase = "STREAM"], 1)
               \/ Waits(up, HdrSent(n), "idle", "write")
               \/ Falls(up, HdrSent(n), client.st # "open")
  BY <1>4
<1> DEFINE p == HdrSent(n)
           q == [p EXCEPT !.phase = "STREAM"]
           t == Take(px.hdr, n)
           d == Drop(px.hdr, n)
           b == px.buf
           cause == client.st # "open"
<1>6. /\ p \in PxRecords /\ p.fd = px.fd /\ p.phase = px.phase /\ p.send100 = px.send100 /\ p.framing = px.framing
      /\ p.bodyDone = px.bodyDone /\ p.overread = px.overread /\ p.respLeft = px.respLeft
      /\ p.hdr = d /\ p.buf = b
  BY <1>2, HdrSentFacts
<1>7. t \in Seq(Units) /\ d \in Seq(Units) /\ t \o d = px.hdr /\ Len(d) = Len(px.hdr) - n
  BY <1>3, TakeDrop, DropFacts
<1>8. out' = out \o t
  BY <1>5
<1>9. \/ n = Len(px.hdr) /\ Loop(up, q, 1)
      \/ Waits(up, p, "idle", "write")
      \/ Falls(up, p, cause)
  BY <1>5
<1>10. Shown(px) = px.hdr \o b
  BY <1>2 DEF Shown
<1> HIDE DEF p, q, t, d, b, cause
<1>11. t \o (d \o b) = Shown(px)
  <2>1. (t \o d) \o b = t \o (d \o b)
    BY <1>3, <1>7, CatAssoc, Zenon DEF b
  <2> QED BY <1>7, <1>10, <2>1
<1>12. CASE n = Len(px.hdr) /\ Loop(up, q, 1)
  <2>1. d = <<>>
    <3>1. Len(d) = 0
      BY <1>3, <1>7, <1>12
    <3> QED BY <1>7, <3>1, DomFacts
  <2>2. /\ q \in PxRecords /\ q.fd = px.fd /\ q.phase = "STREAM" /\ q.send100 = px.send100 /\ q.framing = px.framing
        /\ q.bodyDone = px.bodyDone /\ q.overread = px.overread /\ q.respLeft = px.respLeft
        /\ q.hdr = d /\ q.buf = b
    BY <1>6 DEF q, PxRecords, Phases
  <2>3. Shown(q) = d \o b
    BY <2>2 DEF Shown
  <2>4. Goes(up, q)
    BY <1>2, <1>12, <2>2, LoopGoes
  <2>5. t \o Shown(q) = Shown(px) /\ q.phase \notin Early /\ ~q.send100
        /\ (q.phase = "STREAM" => q.hdr = <<>> /\ (q.bodyDone => q.buf # <<>>))
    BY <1>2, <1>11, <2>1, <2>2, <2>3 DEF Early
  <2> QED BY <1>2, <1>3, <1>4, <1>7, <1>8, <2>2, <2>4, <2>5, AnswerForwards
<1>13. CASE Waits(up, p, "idle", "write")
  <2>1. Shown(p) = d \o b
    BY <1>2, <1>6 DEF Shown
  <2>2. Goes(up, p)
    BY <1>13, WaitsGoes DEF Ios
  <2> QED BY <1>2, <1>3, <1>4, <1>6, <1>7, <1>8, <1>11, <2>1, <2>2, AnswerForwards
<1>14. CASE Falls(up, p, cause)
  BY <1>2, <1>3, <1>4, <1>14, AnswerFalls
<1> QED BY <1>9, <1>12, <1>13, <1>14

\* A piece of the body goes to the client; after the last one the socket is parked.
LEMMA AnswerStreamOut ==
    ASSUME SlotInv, HandInv, SentInv, AnswerInv, PumpStreamOut
    PROVE  AnswerInv'
<1>1. Pump
  BY DEF Pump
<1>2. /\ pc = "pump" /\ px.fd # NoUp /\ script' = script /\ ~px.send100 /\ budget > 0
      /\ px.phase = "STREAM"
  BY <1>1, PumpFacts, PumpingFacts DEF PumpStreamOut
<1>3. /\ px \in PxRecords /\ px.buf \in Seq(Units) /\ Len(px.buf) \in Nat
      /\ px.phase \notin Early /\ Works(up, <<>>)
  BY <1>2, SlotTypes, WorksFacts DEF Early
<1>4. px.hdr = <<>>
  BY <1>2, <1>3 DEF AnswerInv, Exchange, Framed
<1>5. PICK n \in 0 .. Len(px.buf) :
            /\ out' = out \o Take(px.buf, n)
            /\ \/ Parks(up, BufSent(n))
               \/ ~px.bodyDone /\ Loop(up, BufSent(n), 1) /\ pool' = pool
               \/ n < Len(px.buf) /\ Waits(up, BufSent(n), "idle", "write") /\ pool' = pool
               \/ Falls(up, BufSent(n), FALSE) /\ pool' = pool
  BY StreamOutEffect
<1> DEFINE p == BufSent(n)
           t == Take(px.buf, n)
           d == Drop(px.buf, n)
<1>6. /\ p \in PxRecords /\ p.fd = px.fd /\ p.phase = px.phase /\ p.send100 = px.send100 /\ p.framing = px.framing
      /\ p.bodyDone = px.bodyDone /\ p.overread = px.overread /\ p.respLeft = px.respLeft
      /\ p.hdr = px.hdr /\ p.buf = d
  BY <1>2, BufSentFacts
<1>7. t \in Seq(Units) /\ d \in Seq(Units) /\ t \o d = px.buf /\ Len(d) = Len(px.buf) - n
  BY <1>3, TakeDrop, DropFacts
<1>8. /\ out' = out \o t
      /\ \/ Parks(up, p)
         \/ /\ pool' = pool /\ (~px.bodyDone \/ n < Len(px.buf))
            /\ Loop(up, p, 1) \/ Waits(up, p, "idle", "write")
         \/ pool' = pool /\ Falls(up, p, FALSE)
  BY <1>5
<1> HIDE DEF p, t, d
<1>9. Shown(px) = px.buf /\ Shown(p) = d
  <2>1. Shown(px) = <<>> \o px.buf /\ Shown(p) = <<>> \o d
    BY <1>2, <1>4, <1>6 DEF Shown
  <2> QED BY <1>3, <1>7, <2>1, CatNothing
<1>10. CASE Parks(up, p)
  BY <1>2, <1>6, <1>10, AnswerParks
<1>11. CASE /\ pool' = pool /\ (~px.bodyDone \/ n < Len(px.buf))
            /\ Loop(up, p, 1) \/ Waits(up, p, "idle", "write")
  <2>1. Goes(up, p)
    BY <1>2, <1>6, <1>11, WaitsGoes, LoopGoes DEF Ios
  <2>2. n < Len(px.buf) => d # <<>>
    BY <1>3, <1>7, DomFacts
  <2>3. t \o Shown(p) = Shown(px) /\ p.phase \notin Early /\ ~p.send100
        /\ (p.phase = "STREAM" => p.hdr = <<>> /\ (p.bodyDone => p.buf # <<>>))
    BY <1>2, <1>3, <1>4, <1>6, <1>7, <1>9, <1>11, <2>2
  <2> QED BY <1>2, <1>3, <1>6, <1>7, <1>8, <1>11, <2>1, <2>3, AnswerForwards
<1>12. CASE pool' = pool /\ Falls(up, p, FALSE)
  BY <1>2, <1>3, <1>12, AnswerFalls
<1> QED BY <1>8, <1>10, <1>11, <1>12

\* A piece of the body is read, no further than the answer is framed.
LEMMA AnswerStreamIn ==
    ASSUME SlotInv, HandInv, SentInv, AnswerInv, PumpStreamIn
    PROVE  AnswerInv'
<1>1. Pump
  BY DEF Pump
<1>2. /\ pc = "pump" /\ px.fd # NoUp /\ script' = script /\ ~px.send100 /\ budget > 0
      /\ px.phase = "STREAM"
  BY <1>1, PumpFacts, PumpingFacts DEF PumpStreamIn
<1>3. out' = out /\ px.buf = <<>>
  BY StreamInEffect
<1>4. /\ px \in PxRecords /\ Cur \in DOMAIN script /\ up[px.fd].in \in Seq(Units)
      /\ Works(up, <<>>) /\ Body(out) \in Seq(Units) /\ up[px.fd] \in UpRecords
      /\ Exchange(Body(out), px, up[px.fd], Cur)
  BY <1>2, SlotTypes, SlotFacts, WorksFacts DEF AnswerInv
<1>5. \/ \E n \in 1 .. Len(up[px.fd].in) :
            /\ pool' = pool /\ n <= BufMax
            /\ \/ Falls(Emptied(n), px, FALSE)
               \/ /\ ~(Chunked(px) /\ BadChunk(Take(up[px.fd].in, n)))
                  /\ Loop(Emptied(n), Noted(n), 1)
      \/ pool' = pool /\ Waits(up, px, "read", "idle")
      \/ pool' = pool /\ Falls(up, px, FALSE)
      \/ Parks(up, px)
  BY StreamInEffect
<1>6. ASSUME NEW n \in 1 .. Len(up[px.fd].in), pool' = pool, n <= BufMax, Falls(Emptied(n), px, FALSE)
      PROVE  AnswerInv'
  <2> DEFINE g == Emptied(n)
  <2>1. n \in 0 .. Len(up[px.fd].in)
    OBVIOUS
  <2>2. Works(g, <<>>) /\ Falls(g, px, FALSE)
    BY <1>2, <1>6, <2>1, WorksFacts
  <2> HIDE DEF g
  <2> QED BY <1>2, <1>6, <2>2, AnswerFalls
<1>7. ASSUME NEW n \in 1 .. Len(up[px.fd].in), pool' = pool, n <= BufMax,
             ~(Chunked(px) /\ BadChunk(Take(up[px.fd].in, n))), Loop(Emptied(n), Noted(n), 1)
      PROVE  AnswerInv'
  <2> DEFINE g == Emptied(n)
             w == g[px.fd]
             t == Take(up[px.fd].in, n)
             p == Noted(n)
             b == Body(out)
  <2>1. n \in 0 .. Len(up[px.fd].in)
    OBVIOUS
  <2>2. Works(g, <<>>) /\ w.answered = up[px.fd].answered /\ w.in = Drop(up[px.fd].in, n) /\ w.plan = up[px.fd].plan
    BY <1>2, <2>1, WorksFacts, EmptiedFacts
  <2>3. Sound(p) /\ p.send100 = px.send100
    BY <1>2, <1>7, NotedFacts, NotedSame
  <2>4. p = NoteBody([px EXCEPT !.buf = t], t)
    BY DEF Noted
  <2>5. ~(Chunked(px) /\ BadChunk(t)) /\ Loop(g, p, 1)
    BY <1>7
  <2>6. b \in Seq(Units) /\ Exchange(b, px, up[px.fd], Cur) /\ Body(out') = b
    BY <1>3, <1>4
  <2>7. t = Take(up[px.fd].in, n)
    OBVIOUS
  <2> HIDE DEF w, t, p, b
  <2>8. Exchange(b, NoteBody([px EXCEPT !.buf = t], t), w, Cur)
    BY <1>2, <1>3, <1>4, <2>2, <2>5, <2>6, <2>7, ExchangeStream
  <2>9. Exchange(b, p, g[px.fd], Cur)
    BY <2>4, <2>8 DEF w
  <2> HIDE DEF g
  <2>10. p \in PxRecords /\ p.fd = px.fd
    BY <2>3 DEF Sound
  <2>11. Goes(g, p)
    BY <1>2, <2>5, <2>10, LoopGoes
  <2> QED BY <1>2, <1>7, <2>2, <2>3, <2>6, <2>9, <2>10, <2>11, AnswerGoes
<1>8. CASE pool' = pool /\ Waits(up, px, "read", "idle")
  BY <1>2, <1>3, <1>8, AnswerWaits DEF Ios
<1>9. CASE pool' = pool /\ Falls(up, px, FALSE)
  BY <1>2, <1>4, <1>9, AnswerFalls
<1>10. CASE Parks(up, px)
  BY <1>2, <1>10, AnswerParks
<1> QED BY <1>5, <1>6, <1>7, <1>8, <1>9, <1>10

\* The pump keeps what is read, forwarded and left of the answer together.
LEMMA AnswerPump ==
    ASSUME SlotInv, HandInv, SentInv, AnswerInv, Pump
    PROVE  AnswerInv'
BY AnswerFlush, AnswerBudget, AnswerSendReq, AnswerSendBody, AnswerReadBody, AnswerBodySent, AnswerRecvHdr,
   AnswerGathered, AnswerSendHdr, AnswerStreamOut, AnswerStreamIn DEF Pump

\* A step of one upstream.
LEMMA AnswerUp ==
    ASSUME SlotInv, AnswerInv, script' = script, UNCHANGED slotVars, NEW c \in UpIds,
           \A d \in UpIds : d # c => up'[d] = up[d],
           Idle(up'[c], c = px.fd, Cur, c \in InPool),
           c = px.fd => Exchange(Body(out), px, up'[c], Cur)
    PROVE  AnswerInv'
<1> DEFINE u == up'
           p == px
           id == Cur
           P == InPool
           us == Body(out)
<1>1. \A d \in UpIds : Idle(u[d], d = p.fd, id, d \in P)
  BY DEF AnswerInv
<1>2. p.fd # NoUp => Exchange(us, p, u[p.fd], id) /\ (p.send100 => out' = <<>>)
  <2> SUFFICES ASSUME px.fd # NoUp PROVE Exchange(us, p, u[p.fd], id) /\ (p.send100 => out' = <<>>)
    OBVIOUS
  <2>1. Exchange(us, p, up[p.fd], id) /\ (p.send100 => out = <<>>)
    BY DEF AnswerInv
  <2>2. p.fd \in UpIds
    BY SlotTypes
  <2> QED BY <2>1, <2>2 DEF slotVars
<1>3. up' = u /\ px' = p /\ Cur' = id /\ InPool' = P /\ Body(out') = us
  BY DEF slotVars, InPool, Cur
<1> HIDE DEF u, p, id, P, us
<1> QED BY <1>1, <1>2, <1>3, AnswerNow

\* Only the slot's socket is asked, and answers the current request; it has the header of it.
LEMMA AskedCur ==
    ASSUME SlotInv, HandInv, SentInv, AnswerInv, NEW c \in UpIds, up[c].mine, NEW id \in Asked(c)
    PROVE  /\ c = px.fd /\ id = Cur /\ px.phase # "SEND_REQ" /\ up[c].answered < id
           /\ id \in DOMAIN script /\ \E i \in DOMAIN up[c].got : up[c].got[i].id = id
<1> DEFINE g == up[c].got
<1>1. up \in [UpIds -> UpRecords] /\ script \in Scripts
  BY DEF SlotInv, Typed
<1>2. id \in DOMAIN script /\ id > up[c].answered /\ up[c].answered \in Nat
  BY <1>1, AskedFacts
<1>3. PICK i \in 1 .. Len(g) : g[i].id = id /\ g[i].k = "q" /\ g[i].n = 2
  BY <1>1, AskedFacts
<1>4. g \in Seq(Units) /\ DOMAIN g = 1 .. Len(g) /\ Len(g) \in Nat
  BY GotTypes
<1>5. Idle(up[c], c = px.fd, Cur, c \in InPool)
  BY DEF AnswerInv
<1>6. id \in Nat
  BY <1>1, <1>2, ScriptFacts
<1>7. ~(id <= up[c].answered)
  BY <1>2, <1>6
<1>8. c = px.fd /\ id = Cur
  BY <1>3, <1>4, <1>5, <1>7 DEF Idle
<1>9. px.fd # NoUp
  BY <1>8 DEF UpIds, NoUp
<1>10. px.phase # "SEND_REQ"
  <2> SUFFICES ASSUME px.phase = "SEND_REQ" PROVE FALSE
    OBVIOUS
  <2> DEFINE n == Gone(px, Cur)
  <2>1. Ends(g, Cur, n) /\ Hand(px, Cur)
    BY <1>8, <1>9 DEF SentInv, HandInv
  <2>2. n \in {0, 1}
    <3>1. n = 2 - Len(px.hdr)
      BY DEF Gone
    <3>2. Len(px.hdr) \in {1, 2}
      BY <2>1 DEF Hand
    <3>3. \A m \in {1, 2} : 2 - m \in {0, 1}
      OBVIOUS
    <3> QED BY <3>1, <3>2, <3>3
  <2> HIDE DEF n, g
  <2>3. i > Len(g) - n
    BY <1>3, <1>4, <1>8, <2>1, <2>2 DEF Ends
  <2>4. n = 1 /\ i = Len(g)
    <3> DEFINE m == Len(g)
    <3>1. m \in Nat /\ i \in 1 .. m /\ i > m - n
      BY <1>4, <2>3
    <3> HIDE DEF m
    <3>2. CASE n = 0
      BY <3>1, <3>2
    <3>3. CASE n = 1
      <4>1. i = m
        BY <3>1, <3>3
      <4> QED BY <3>3, <4>1 DEF m
    <3> QED BY <2>2, <3>2, <3>3
  <2>5. g[Len(g) - 1 + 1] = UpUnits(Cur)[1]
    BY <2>1, <2>4 DEF Ends
  <2>6. g[i] = UpUnits(Cur)[1]
    BY <1>4, <2>4, <2>5
  <2>7. g[i] = Unit("q", Cur, 1)
    BY <1>1, <1>2, <1>8, <2>6, UpUnitsFacts
  <2> QED BY <1>3, <2>7 DEF Unit
<1> QED BY <1>2, <1>3, <1>4, <1>6, <1>8, <1>10

\* An upstream decides on its answer.
LEMMA AnswerUpAnswer ==
    ASSUME SlotInv, HandInv, SentInv, AnswerInv, NEW c \in UpIds, UpAnswer(c)
    PROVE  AnswerInv'
<1>1. up \in [UpIds -> UpRecords] /\ script \in Scripts
  BY DEF SlotInv, Typed
<1>2. up[c].mine /\ up[c].plan = <<>> /\ script' = script /\ UNCHANGED slotVars
  BY DEF UpAnswer
<1>3. PICK id \in Asked(c) : \E r \in Responses :
              /\ up' \in [UpIds -> UpRecords] /\ \A d \in UpIds : d # c => up'[d] = up[d]
              /\ up'[c].answered = id /\ up'[c].plan = Answer(id, r)
              /\ up'[c].mine = up[c].mine /\ up'[c].st = up[c].st /\ up'[c].addr = up[c].addr
              /\ up'[c].got = up[c].got /\ up'[c].in = up[c].in
  BY <1>1, AnsweredUp
<1>4. PICK r \in Responses :
              /\ up' \in [UpIds -> UpRecords] /\ \A d \in UpIds : d # c => up'[d] = up[d]
              /\ up'[c].answered = id /\ up'[c].plan = Answer(id, r)
              /\ up'[c].mine = up[c].mine /\ up'[c].st = up[c].st /\ up'[c].addr = up[c].addr
              /\ up'[c].got = up[c].got /\ up'[c].in = up[c].in
  BY <1>3
<1>5. /\ c = px.fd /\ id = Cur /\ px.phase # "SEND_REQ" /\ up[c].answered < id
      /\ id \in DOMAIN script /\ \E i \in DOMAIN up[c].got : up[c].got[i].id = id
  BY <1>2, AskedCur
<1>6. px.fd # NoUp /\ id \in Nat
  BY <1>1, <1>5, ScriptFacts DEF UpIds, NoUp
<1> DEFINE w == up'[c]
           us == Body(out)
<1>7. Idle(up[c], c = px.fd, Cur, c \in InPool) /\ c \notin InPool
  BY <1>5, <1>6 DEF AnswerInv, SlotInv, Owned
<1>8. Idle(w, c = px.fd, Cur, c \in InPool)
  <2> DEFINE g == up[c].got
             a == up[c].answered
  <2>1. \A i \in DOMAIN g : g[i].id \in Nat
    BY <1>1, GotTypes, ScriptFacts
  <2>2. a \in Nat /\ w.got = g /\ w.mine = up[c].mine
    BY <1>1, <1>4 DEF UpRecords
  <2>3. \A i \in DOMAIN g : g[i].id <= a \/ g[i].id = Cur
    BY <1>2, <1>7 DEF Idle
  <2>4. a < id /\ w.answered = id /\ (\E i \in DOMAIN g : g[i].id = id) /\ c \notin InPool /\ c = px.fd /\ id = Cur
    BY <1>4, <1>5, <1>7
  <2> HIDE DEF g, a, w
  <2>5. \A i \in DOMAIN g : g[i].id <= id \/ g[i].id = Cur
    BY <1>6, <2>1, <2>2, <2>3, <2>4
  <2> QED BY <2>2, <2>4, <2>5 DEF Idle
<1>9. Exchange(us, px, up[c], Cur) /\ us \in Seq(Units) /\ px \in PxRecords /\ up[c] \in UpRecords
  BY <1>1, <1>5, <1>6, WorksFacts DEF AnswerInv, SlotInv, Typed
<1> HIDE DEF us
<1>10. Exchange(us, px, w, Cur)
  BY <1>1, <1>2, <1>4, <1>5, <1>9, ExchangeAnswer
<1>11. Exchange(Body(out), px, w, Cur)
  BY <1>10 DEF us
<1> HIDE DEF w
<1> QED BY <1>2, <1>4, <1>8, <1>11, AnswerUp DEF w

\* An upstream sends a piece of its answer.
LEMMA AnswerUpSend ==
    ASSUME SlotInv, AnswerInv, NEW c \in UpIds, UpSend(c)
    PROVE  AnswerInv'
<1>1. up \in [UpIds -> UpRecords] /\ script' = script /\ UNCHANGED slotVars
  BY DEF SlotInv, Typed, UpSend
<1>2. /\ up' \in [UpIds -> UpRecords] /\ \A d \in UpIds : d # c => up'[d] = up[d]
      /\ up[c].plan # <<>> /\ up'[c].plan = Tail(up[c].plan)
      /\ up'[c].in = Append(up[c].in, Head(up[c].plan))
      /\ up'[c].mine = up[c].mine /\ up'[c].got = up[c].got /\ up'[c].answered = up[c].answered
  BY <1>1, SendingUp
<1>3. Idle(up[c], c = px.fd, Cur, c \in InPool)
  BY DEF AnswerInv
<1> DEFINE w == up'[c]
           us == Body(out)
<1>4. w.in \o w.plan = up[c].in \o up[c].plan
  <2> DEFINE s == up[c].in
             t == up[c].plan
  <2>1. s \in Seq(Units) /\ t \in Seq(Units) /\ t # <<>> /\ w.in = Append(s, Head(t)) /\ w.plan = Tail(t)
    BY <1>1, <1>2 DEF UpRecords
  <2> HIDE DEF s, t, w
  <2>2. Append(s, Head(t)) \o Tail(t) = s \o t
    BY <2>1, MoveHead
  <2>3. w.in \o w.plan = s \o t
    BY <2>1, <2>2
  <2> QED BY <2>3 DEF s, t, w
<1>5. Idle(w, c = px.fd, Cur, c \in InPool)
  <2> DEFINE at == c = px.fd
             pooled == c \in InPool
             v == up[c]
  <2>1. Idle(v, at, Cur, pooled) /\ w.in \o w.plan = v.in \o v.plan /\ v.plan # <<>>
        /\ w.mine = v.mine /\ w.got = v.got /\ w.answered = v.answered
    BY <1>2, <1>3, <1>4
  <2> HIDE DEF at, pooled, v, w
  <2>2. Idle(w, at, Cur, pooled)
    BY <2>1 DEF Idle
  <2> QED BY <2>2 DEF at, pooled
<1>6. ASSUME c = px.fd PROVE Exchange(Body(out), px, w, Cur)
  <2>1. Exchange(us, px, up[c], Cur)
    BY <1>6 DEF AnswerInv, UpIds, NoUp
  <2>2. Line(us, px, w) = Line(us, px, up[c]) /\ w.answered = up[c].answered
    BY <1>2, <1>4 DEF Line
  <2> HIDE DEF us, w
  <2>3. Exchange(us, px, w, Cur)
    <3>1. CASE px.phase \in Early
      BY <2>1, <2>2, <3>1, ExchangeEarly
    <3>2. CASE px.phase \notin Early
      <4>1. px.phase = "STREAM" => px.hdr = <<>> /\ (px.bodyDone => px.buf # <<>>)
        BY <2>1, <3>2 DEF Exchange, Framed
      <4> QED BY <1>4, <2>1, <2>2, <3>2, <4>1, ExchangeSame
    <3> QED BY <3>1, <3>2
  <2> QED BY <2>3 DEF us
<1> HIDE DEF w
<1> QED BY <1>1, <1>2, <1>5, <1>6, AnswerUp DEF w

\* Less of what is past an answer is past it still.
LEMMA PastPrefix ==
    ASSUME NEW s \in Seq(Units), NEW t \in Seq(Units), NEW id, PastOnly(s \o t, id)
    PROVE  PastOnly(s \o <<>>, id) /\ PastOnly(<<>> \o <<>>, id)
<1> DEFINE l == s \o t
           none == <<>>
<1>1. l \in Seq(Units) /\ Len(l) = Len(s) + Len(t) /\ \A i \in 1 .. Len(s) : l[i] = s[i]
  BY CatFacts
<1>2. DOMAIN s = 1 .. Len(s) /\ DOMAIN l = 1 .. Len(l) /\ Len(s) \in Nat /\ Len(t) \in Nat
  BY <1>1, DomFacts
<1>3. \A i \in DOMAIN l : l[i] = Past(id, i)
  BY DEF PastOnly
<1>4. s \o none = s /\ none \o none = none /\ DOMAIN none = {}
  BY CatNothing
<1> HIDE DEF l, none
<1>5. \A i \in DOMAIN s : i \in DOMAIN l /\ l[i] = s[i]
  BY <1>1, <1>2
<1>6. PastOnly(s, id) /\ PastOnly(none, id)
  BY <1>3, <1>4, <1>5 DEF PastOnly
<1>7. PastOnly(s \o none, id) /\ PastOnly(none \o none, id)
  BY <1>4, <1>6
<1> QED BY <1>7 DEF none

\* An upstream leaves.
LEMMA AnswerUpLeave ==
    ASSUME SlotInv, AnswerInv, NEW c \in UpIds, UpLeave(c)
    PROVE  AnswerInv'
<1>1. up \in [UpIds -> UpRecords] /\ script' = script /\ UNCHANGED slotVars
  BY DEF SlotInv, Typed, UpLeave
<1>2. /\ up' \in [UpIds -> UpRecords] /\ \A d \in UpIds : d # c => up'[d] = up[d]
      /\ up'[c].plan = <<>> /\ (up'[c].in = up[c].in \/ up'[c].in = <<>>)
      /\ up'[c].mine = up[c].mine /\ up'[c].got = up[c].got /\ up'[c].answered = up[c].answered
  BY <1>1, LeavingUp
<1>3. Idle(up[c], c = px.fd, Cur, c \in InPool)
  BY DEF AnswerInv
<1> DEFINE w == up'[c]
           us == Body(out)
<1>4. Idle(w, c = px.fd, Cur, c \in InPool)
  <2> DEFINE at == c = px.fd
             pooled == c \in InPool
             v == up[c]
  <2>1. /\ Idle(v, at, Cur, pooled) /\ v.in \in Seq(Units) /\ v.plan \in Seq(Units)
        /\ w.mine = v.mine /\ w.got = v.got /\ w.answered = v.answered
        /\ w.plan = <<>> /\ (w.in = v.in \/ w.in = <<>>)
    BY <1>1, <1>2, <1>3 DEF UpRecords
  <2> HIDE DEF at, pooled, v, w
  <2>2. pooled => PastOnly(w.in \o w.plan, w.answered)
    <3> SUFFICES ASSUME pooled PROVE PastOnly(w.in \o w.plan, w.answered)
      OBVIOUS
    <3>1. PastOnly(v.in \o v.plan, v.answered)
      BY <2>1 DEF Idle
    <3>2. PastOnly(v.in \o <<>>, v.answered) /\ PastOnly(<<>> \o <<>>, v.answered)
      BY <2>1, <3>1, PastPrefix
    <3>3. CASE w.in = v.in
      BY <2>1, <3>2, <3>3
    <3>4. CASE w.in = <<>>
      BY <2>1, <3>2, <3>4
    <3> QED BY <2>1, <3>3, <3>4
  <2>3. Idle(w, at, Cur, pooled)
    BY <2>1, <2>2 DEF Idle
  <2> QED BY <2>3 DEF at, pooled
<1>5. ASSUME c = px.fd PROVE Exchange(Body(out), px, w, Cur)
  <2>1. px.fd # NoUp
    BY <1>5 DEF UpIds, NoUp
  <2>2. Exchange(us, px, up[c], Cur) /\ us \in Seq(Units) /\ px \in PxRecords /\ up[c] \in UpRecords
    BY <1>1, <1>5, <2>1, WorksFacts DEF AnswerInv, SlotInv, Typed
  <2>3. Cur \in DOMAIN script /\ w \in UpRecords
    BY <1>2, <2>1, SlotFacts
  <2> HIDE DEF us
  <2>4. Exchange(us, px, w, Cur)
    BY <1>2, <2>2, <2>3, ExchangeLess
  <2> QED BY <2>4 DEF us
<1> HIDE DEF w
<1> QED BY <1>1, <1>2, <1>4, <1>5, AnswerUp DEF w

\* The client and the upstreams keep AnswerInv.
LEMMA AnswerPeers ==
    ASSUME SlotInv, HandInv, SentInv, AnswerInv, Peers
    PROVE  AnswerInv'
<1>1. CASE ClientSend \/ ClientLeave
  <2>1. UNCHANGED <<script, up, slotVars>>
    BY <1>1 DEF ClientSend, ClientLeave
  <2>2. CASE \E c \in UpIds : TRUE
    <3>1. PICK c \in UpIds : TRUE
      BY <2>2
    <3>2. Idle(up[c], c = px.fd, Cur, c \in InPool)
      BY DEF AnswerInv
    <3>3. c = px.fd => Exchange(Body(out), px, up[c], Cur)
      BY DEF AnswerInv, UpIds, NoUp
    <3>4. up' = up /\ script' = script /\ UNCHANGED slotVars
      BY <2>1
    <3> QED BY <3>2, <3>3, <3>4, AnswerUp
  <2>3. CASE UpIds = {}
    <3>1. px.fd = NoUp
      BY <2>3 DEF SlotInv, TypeOK
    <3>2. px' = px
      BY <2>1 DEF slotVars
    <3> QED BY <2>3, <3>1, <3>2 DEF AnswerInv
  <2> QED BY <2>2, <2>3
<1> QED BY <1>1, AnswerUpAnswer, AnswerUpSend, AnswerUpLeave DEF Peers

\* Without a proxied request no socket is the slot's.
LEMMA AnswerAlone ==
    ASSUME SlotInv, px.fd = NoUp, AnswerInv, NEW c \in UpIds
    PROVE  c # px.fd /\ Idle(up[c], FALSE, 0, c \in InPool)
<1>1. Idle(up[c], c = px.fd, Cur, c \in InPool)
  BY DEF AnswerInv
<1>2. c # px.fd /\ (c = px.fd) = FALSE
  BY DEF UpIds, NoUp
<1>3. Idle(up[c], FALSE, Cur, c \in InPool)
  BY <1>1, <1>2
<1> QED BY <1>2, <1>3 DEF Idle

\* A request that begins on a socket has nothing of an answer, and the socket has answered
\* earlier requests only.
LEMMA AnswerBegins ==
    ASSUME SlotInv, px.fd = NoUp, AnswerInv, script' = script, out' = <<>>, NEW h \in HcRecords, h.buf # <<>>,
           NEW d \in UpIds, Begins(h, d), Before(h.buf[1].id)
    PROVE  AnswerInv'
<1> DEFINE p == px'
           id == h.buf[1].id
           u == up'
           w == up'[d]
           P == InPool \ {d}
           none == <<>>
<1>1. script \in Scripts /\ up \in [UpIds -> UpRecords]
  BY DEF SlotInv, Typed
<1>2. PICK old \in BOOLEAN : p = Fresh(h, d, old)
  BY DEF Begins
<1>3. p.fd = d /\ p.phase = "SEND_REQ" /\ ~p.bodyDone /\ ~p.overread
  BY <1>1, <1>2, FreshFacts
<1>4. hc'.buf = h.buf
  BY DEF Begins, HcRecords
<1>5. /\ \A e \in UpIds : e # d => u[e] = up[e]
      /\ w.got = up[d].got /\ w.in = up[d].in /\ w.plan = up[d].plan /\ w.answered = up[d].answered
      /\ InPool' = P /\ (d \in InPool \/ up[d].st = "unused")
  BY BegunUp
<1>6. \A e \in UpIds : Idle(up[e], FALSE, 0, e \in InPool)
  BY AnswerAlone
<1>7. id \in DOMAIN script /\ id \in Nat \ {0}
  BY <1>1, HaveFacts, ScriptFacts
<1>8. w.answered < id
  <2>1. CASE up[d].answered = 0
    BY <1>5, <1>7, <2>1
  <2>2. CASE up[d].answered # 0
    <3>1. PICK i \in DOMAIN up[d].got : up[d].got[i].id = up[d].answered
      BY <1>6, <2>2 DEF Idle
    <3>2. up[d].got[i].id < id
      BY DEF Before
    <3> QED BY <1>5, <3>1, <3>2
  <2> QED BY <2>1, <2>2
<1>9. \A i \in DOMAIN w.got : w.got[i].id <= w.answered
  <2>1. CASE up[d].st = "unused"
    <3>1. w.got = <<>>
      BY <1>5, <2>1 DEF SlotInv, Owned
    <3> QED BY <3>1
  <2>2. CASE d \in InPool
    <3>1. up[d].mine
      BY <2>2 DEF SlotInv, Owned
    <3> QED BY <1>5, <1>6, <3>1 DEF Idle
  <2> QED BY <1>5, <2>1, <2>2
<1>10. Idle(w, TRUE, id, FALSE)
  BY <1>5, <1>6, <1>9 DEF Idle
<1>11. ASSUME NEW c \in UpIds PROVE Idle(u[c], c = p.fd, id, c \in P)
  <2>1. CASE c = d
    <3>1. (c = p.fd) = TRUE /\ (c \in P) = FALSE /\ u[c] = w
      BY <1>3, <2>1
    <3> HIDE DEF p, P, u, w, id
    <3> QED BY <1>10, <3>1
  <2>2. CASE c # d
    <3>1. (c = p.fd) = FALSE /\ (c \in P) = (c \in InPool) /\ u[c] = up[c]
      BY <1>3, <1>5, <2>2
    <3>2. Idle(up[c], FALSE, 0, c \in InPool)
      BY <1>6
    <3> HIDE DEF p, P, u, id
    <3>3. Idle(up[c], FALSE, id, c \in InPool)
      BY <3>2 DEF Idle
    <3> QED BY <3>1, <3>3
  <2> QED BY <2>1, <2>2
<1>12. (none \o Shown(p)) \o (w.in \o w.plan) = w.in \o w.plan
  <2>1. Shown(p) = none
    BY <1>3 DEF Shown
  <2>2. w.in \o w.plan \in Seq(Units)
    <3>1. w.in \in Seq(Units) /\ w.plan \in Seq(Units)
      BY <1>1, <1>5 DEF UpRecords
    <3> HIDE DEF w
    <3> QED BY <3>1, CatFacts
  <2> DEFINE l == w.in \o w.plan
  <2> HIDE DEF l
  <2>3. none \o none = none /\ none \o l = l
    BY <2>2, CatNothing DEF l
  <2> QED BY <2>1, <2>3 DEF l
<1>13. Exchange(none, p, w, id)
  <2> DEFINE l == w.in \o w.plan
             L == (none \o Shown(p)) \o l
  <2>1. p.phase \in Early /\ w.answered <= id
    <3>1. w.answered \in Nat
      BY <1>1, <1>5 DEF UpRecords
    <3> QED BY <1>3, <1>7, <1>8, <3>1 DEF Early
  <2>2. l = <<>> \/ l[1].k = "o"
    <3>1. CASE up[d].st = "unused"
      <4>1. up[d].in = <<>> /\ up[d].plan = <<>>
        BY <3>1 DEF SlotInv, Owned
      <4>2. <<>> \o <<>> = <<>>
        BY CatNothing
      <4> QED BY <1>5, <4>1, <4>2
    <3>2. CASE d \in InPool
      <4>1. PastOnly(l, w.answered)
        BY <1>5, <1>6, <3>2 DEF Idle
      <4>2. l \in Seq(Units)
        <5>1. w.in \in Seq(Units) /\ w.plan \in Seq(Units)
          BY <1>1, <1>5 DEF UpRecords
        <5> HIDE DEF w
        <5> QED BY <5>1, CatFacts
      <4> HIDE DEF l
      <4>3. CASE l # <<>>
        <5>1. 1 \in DOMAIN l
          BY <4>2, <4>3, DomFacts
        <5>2. l[1] = Past(w.answered, 1)
          BY <4>1, <5>1 DEF PastOnly
        <5> QED BY <5>2 DEF Past, Unit
      <4> QED BY <4>3
    <3> QED BY <1>5, <3>1, <3>2
  <2>3. L = l
    BY <1>12
  <2> HIDE DEF l
  <2>4. L = <<>> \/ L[1].k = "o"
    BY <2>2, <2>3
  <2>5. none = <<>> /\ ((none \o Shown(p)) \o (w.in \o w.plan)) = L
    BY DEF l
  <2> HIDE DEF none, w, p, id, L
  <2> QED BY <1>3, <2>1, <2>4, <2>5 DEF Exchange
<1>14. up' = u /\ px' = p /\ Cur' = id /\ InPool' = P /\ Body(out') = none
  BY <1>4, <1>5 DEF Cur, Body
<1>15. p.fd # NoUp => Exchange(none, p, u[p.fd], id) /\ (p.send100 => out' = <<>>)
  <2>1. u[p.fd] = w
    BY <1>3
  <2> HIDE DEF u, w, p, none, id
  <2> QED BY <1>13, <2>1
<1> HIDE DEF p, u, id, P, none
<1> QED BY <1>11, <1>14, <1>15, AnswerNow

\* The slot goes on without an upstream, and leaves the sockets alone.
LEMMA AnswerIdles ==
    ASSUME SlotInv, px.fd = NoUp, AnswerInv, script' = script, NEW h, NEW io, Idles(h, io)
    PROVE  AnswerInv'
<1> DEFINE u == up
           P == InPool
<1>1. \A c \in UpIds : Idle(u[c], FALSE, 0, c \in P)
  BY AnswerAlone
<1>2. up' = u /\ px'.fd = NoUp /\ InPool' = P
  BY ResetFacts DEF Idles, InPool
<1> HIDE DEF u, P
<1> QED BY <1>1, <1>2, AnswerNone

\* A dispatched request begins later than every one before it.
LEMMA AnswerDispatch ==
    ASSUME SlotInv, px.fd = NoUp, AnswerInv, script' = script, NEW h \in HcRecords, h.buf # <<>>, Dispatch(h),
           script[h.buf[1].id].target # "long" => Before(h.buf[1].id)
    PROVE  AnswerInv'
BY DispatchEffect, AnswerIdles, AnswerBegins

\* Sockets that are closed, and keep what they got and answered.
LEMMA AnswerShut ==
    ASSUME SlotInv, AnswerInv, script' = script, px'.fd = NoUp,
           \A c \in UpIds :
               /\ up'[c].got = up[c].got /\ up'[c].answered = up[c].answered
               /\ up'[c].mine => up[c].mine /\ c # px.fd
               /\ (up'[c].in = up[c].in /\ up'[c].plan = up[c].plan /\ c # px.fd)
                  \/ (up'[c].in = <<>> /\ up'[c].plan = <<>>)
               /\ c \in InPool /\ c \notin InPool' => up'[c].in = <<>> /\ up'[c].plan = <<>>,
           InPool' \subseteq InPool
    PROVE  AnswerInv'
<1> DEFINE u == up'
           P == InPool'
<1>1. ASSUME NEW c \in UpIds PROVE Idle(u[c], FALSE, 0, c \in P)
  <2>1. Idle(up[c], c = px.fd, Cur, c \in InPool)
    BY DEF AnswerInv
  <2> DEFINE at == c = px.fd
             pooled == c \in InPool
             v == up[c]
             w == up'[c]
             old == c \in P
             id == Cur
  <2>2. /\ Idle(v, at, id, pooled) /\ w.got = v.got /\ w.answered = v.answered
        /\ w.mine => v.mine /\ ~at
        /\ (w.in = v.in /\ w.plan = v.plan /\ ~at) \/ (w.in = <<>> /\ w.plan = <<>>)
        /\ pooled /\ ~old => w.in = <<>> /\ w.plan = <<>>
        /\ old => pooled
    BY <2>1
  <2> HIDE DEF at, pooled, v, w, old, id
  <2>3. PastOnly(<<>> \o <<>>, w.answered)
    <3> DEFINE none == <<>>
    <3>1. none \o none = none /\ DOMAIN none = {}
      BY CatNothing
    <3> HIDE DEF none
    <3>2. PastOnly(none \o none, w.answered)
      BY <3>1 DEF PastOnly
    <3> QED BY <3>2 DEF none
  <2>4. old => PastOnly(w.in \o w.plan, w.answered)
    BY <2>2, <2>3 DEF Idle
  <2>5. Idle(w, FALSE, 0, old)
    BY <2>2, <2>4 DEF Idle
  <2> QED BY <2>5 DEF w, old
<1>2. up' = u /\ InPool' = P
  OBVIOUS
<1> HIDE DEF u, P
<1> QED BY <1>1, <1>2, AnswerNone

\* The slot is closed.
LEMMA AnswerClosed ==
    ASSUME SlotInv, AnswerInv, script' = script, pool' = pool, Shut(CloseUp(up, px.fd))
    PROVE  AnswerInv'
<1>1. up \in [UpIds -> UpRecords] /\ px.fd \in UpIds \cup {NoUp}
  BY DEF SlotInv, Typed, TypeOK
<1>2. up' = CloseUp(up, px.fd) /\ px'.fd = NoUp /\ InPool' = InPool
  BY ResetFacts DEF Shut, InPool
<1>3. CASE px.fd = NoUp
  <2>1. up' = up
    BY <1>2, <1>3, CloseNone
  <2>2. ASSUME NEW c \in UpIds PROVE c # px.fd /\ (up[c].mine => up[c].mine)
    BY <1>3 DEF UpIds, NoUp
  <2> QED BY <1>2, <2>1, <2>2, AnswerShut
<1>4. CASE px.fd \in UpIds
  BY <1>1, <1>2, <1>4, ClosedUp, AnswerShut
<1> QED BY <1>1, <1>3, <1>4

\* Nothing that AnswerInv is about changes.
LEMMA AnswerStays ==
    ASSUME AnswerInv, UNCHANGED <<script, hc, px, pool, up, out>>
    PROVE  AnswerInv'
<1> DEFINE u == up
           p == px
           id == Cur
           P == InPool
           us == Body(out)
<1>1. \A c \in UpIds : Idle(u[c], c = p.fd, id, c \in P)
  BY DEF AnswerInv
<1>2. p.fd # NoUp => Exchange(us, p, u[p.fd], id) /\ (p.send100 => out' = <<>>)
  BY DEF AnswerInv
<1>3. up' = u /\ px' = p /\ Cur' = id /\ InPool' = P /\ Body(out') = us
  BY DEF Cur, InPool
<1> HIDE DEF u, p, id, P, us
<1> QED BY <1>1, <1>2, <1>3, AnswerNow

\* The worker's loop keeps AnswerInv.
LEMMA AnswerTurns ==
    ASSUME SlotInv, AnswerInv, EpollWait \/ HandleEvent \/ Timeout \/ WorkerExit \/ UNCHANGED vars
    PROVE  AnswerInv'
<1>1. CASE EpollWait
  BY <1>1, AnswerStays DEF EpollWait
<1>2. CASE HandleEvent
  <2>1. UNCHANGED <<script, client, hc, pool, out>>
    BY <1>2, HandleEffect
  <2>2. CASE Shut(CloseUp(up, px.fd))
    BY <2>1, <2>2, AnswerClosed
  <2>3. CASE UNCHANGED <<armed, px, up, budget>>
    BY <2>1, <2>3, AnswerStays
  <2> QED BY <1>2, <2>2, <2>3, HandleEffect
<1>3. CASE Timeout
  <2>1. script' = script /\ pool' = pool /\ Shut(CloseUp(up, px.fd))
    BY <1>3 DEF Timeout, SlotClose, Shut
  <2> QED BY <2>1, AnswerClosed
<1>4. CASE WorkerExit
  <2>1. script' = script /\ pool' = <<>> /\ px'.fd = NoUp
    BY <1>4, ExitUp, ResetFacts DEF WorkerExit
  <2>2. InPool' = {}
    BY <2>1 DEF InPool
  <2>3. ASSUME NEW c \in UpIds
        PROVE  /\ up'[c].got = up[c].got /\ up'[c].answered = up[c].answered /\ ~up'[c].mine
               /\ (up'[c].in = up[c].in /\ up'[c].plan = up[c].plan /\ c # px.fd)
                  \/ (up'[c].in = <<>> /\ up'[c].plan = <<>>)
               /\ c \in InPool => up'[c].in = <<>> /\ up'[c].plan = <<>>
    <3>1. /\ up \in [UpIds -> UpRecords] /\ px.fd \in UpIds \cup {NoUp} /\ px.fd \notin InPool
          /\ Cleared \in [UpIds -> UpRecords] /\ up' = CloseUp(Cleared, px.fd)
      <4>1. up \in [UpIds -> UpRecords] /\ px.fd \in UpIds \cup {NoUp} /\ px.fd \notin InPool
        BY DEF SlotInv, Typed, TypeOK, Owned
      <4> QED BY <1>4, <4>1, ClearedFacts DEF WorkerExit, SlotClose, Cleared
    <3>2. CASE c # px.fd
      <4>1. up'[c] = Cleared[c]
        <5>1. CASE px.fd = NoUp
          BY <3>1, <5>1, CloseNone
        <5>2. CASE px.fd \in UpIds
          BY <3>1, <3>2, <5>2, ClosedUp
        <5> QED BY <3>1, <5>1, <5>2
      <4>2. c \in InPool => up'[c].in = <<>> /\ up'[c].plan = <<>>
        BY <3>1, <4>1, ClearedFacts
      <4> QED BY <1>4, <3>2, <4>2, ExitUp
    <3>3. CASE c = px.fd
      <4>1. up'[c].in = <<>> /\ up'[c].plan = <<>>
        BY <3>1, <3>3, ClosedUp
      <4> QED BY <1>4, <4>1, ExitUp
    <3> QED BY <3>2, <3>3
  <2> QED BY <2>1, <2>2, <2>3, AnswerShut
<1>5. CASE UNCHANGED vars
  BY <1>5, AnswerStays DEF vars
<1> QED BY <1>1, <1>2, <1>3, <1>4, <1>5

\* http_conn_on_read keeps AnswerInv.
LEMMA AnswerOnRead ==
    ASSUME SlotInv, Quiet, HandInv, GotInv, AnswerInv, OnRead
    PROVE  AnswerInv'
<1>1. script' = script /\ pc = "onread"
  BY OnReadEffect
<1>2. CASE px.fd # NoUp /\ pool' = pool /\ out' = out /\ (Waits(up, px, "none", "read") \/ Falls(up, px, FALSE))
  <2>1. CASE Waits(up, px, "none", "read")
    BY <1>1, <1>2, <2>1, AnswerWaits DEF Ios
  <2>2. CASE Falls(up, px, FALSE)
    BY <1>1, <1>2, <2>2, WorksFacts, AnswerFalls
  <2> QED BY <1>2, <2>1, <2>2
<1>3. CASE px.fd = NoUp /\ (Idles(ArmFixed(hc), "write") \/ Idles(hc, "read") \/ Idles(hc, "close"))
  BY <1>1, <1>3, AnswerIdles
<1>4. CASE px.fd = NoUp /\ \E n \in 1 .. Len(client.in) : n <= HeaderCap - Len(hc.buf) /\ Dispatch(Filled(n))
  <2>1. PICK n \in 1 .. Len(client.in) : n <= HeaderCap - Len(hc.buf) /\ Dispatch(Filled(n))
    BY <1>4
  <2> DEFINE h == Filled(n)
             id == h.buf[1].id
  <2>2. h \in HcRecords /\ h.buf # <<>> /\ Dispatch(h)
    BY <2>1, FilledFacts
  <2>3. script[id].target # "long" => Before(id)
    BY <1>1, <1>4, <2>1, ReadBefore
  <2> HIDE DEF h
  <2> QED BY <1>1, <1>4, <2>2, <2>3, AnswerDispatch
<1> QED BY <1>2, <1>3, <1>4, OnReadEffect

\* http_conn_reuse keeps AnswerInv.
LEMMA AnswerReuse ==
    ASSUME SlotInv, HandInv, GotInv, AnswerInv, Reuse
    PROVE  AnswerInv'
<1>1. script' = script /\ px.fd = NoUp /\ hc.buf # <<>>
  BY ReuseEffect
<1>2. CASE pool' = pool /\ Shut(CloseUp(up, px.fd))
  BY <1>1, <1>2, AnswerClosed
<1>3. CASE Idles(HcReset(<<>>), "read")
  BY <1>1, <1>3, AnswerIdles
<1>4. CASE hc.keep /\ Len(hc.buf) > 1 /\ Dispatch(HcReset(Tail(hc.buf)))
  <2> DEFINE b == Tail(hc.buf)
  <2>1. hc.buf \in Seq(Units)
    BY DEF SlotInv, Typed, HcRecords
  <2>2. b \in Seq(Units) /\ Len(b) = Len(hc.buf) - 1 /\ Len(hc.buf) \in Nat
    BY <1>1, <2>1, TailFacts
  <2>3. Dispatch(HcReset(b)) /\ b[1].id = Cur + 1 /\ Before(Cur + 1)
    BY <1>1, <1>4, ReuseBefore
  <2> HIDE DEF b
  <2>4. b # <<>>
    BY <1>4, <2>2
  <2> DEFINE h == HcReset(b)
  <2>5. h \in HcRecords /\ h.buf = b /\ Dispatch(h)
    BY <2>2, <2>3, HcResetFacts
  <2> HIDE DEF h
  <2> QED BY <1>1, <2>3, <2>4, <2>5, AnswerDispatch
<1> QED BY <1>2, <1>3, <1>4, ReuseEffect

\* AnswerInv is inductive, given the invariants of the request.
LEMMA AnswerNext ==
    ASSUME SlotInv, Quiet, HandInv, GotInv, RequestInv, AnswerInv, [Next]_vars
    PROVE  AnswerInv'
<1>1. SentInv
  BY DEF RequestInv
<1>2. CASE OnWrite
  <2>1. script' = script /\ px.fd = NoUp
    BY <1>2, OnWriteEffect
  <2>2. PICK n \in 0 .. Len(hc.left) : \E io \in {"write", "done", "close"} : Idles(Written(n), io)
    BY <1>2, OnWriteEffect
  <2>3. PICK io \in {"write", "done", "close"} : Idles(Written(n), io)
    BY <2>2
  <2> QED BY <2>1, <2>3, AnswerIdles
<1> QED BY <1>1, <1>2, AnswerPump, AnswerPeers, AnswerTurns, AnswerOnRead, AnswerReuse DEF Next

\* It holds at the start.
LEMMA AnswerInit ==
    ASSUME Init
    PROVE  AnswerInv
<1>1. \A c \in UpIds : up[c].got = <<>> /\ up[c].in = <<>> /\ up[c].plan = <<>> /\ up[c].answered = 0
  BY DEF Init
<1>2. px.fd = NoUp /\ InPool = {}
  BY ResetFacts DEF Init, InPool
<1>3. ASSUME NEW c \in UpIds PROVE Idle(up[c], c = px.fd, Cur, c \in InPool)
  BY <1>1, <1>2 DEF Idle
<1> QED BY <1>2, <1>3 DEF AnswerInv

\* A socket in the pool had all of the request it answered last, and of that answer nothing
\* past the framed end was read: what is unread in it or still to come begins with the first
\* unit behind that end, and is nothing of the answer itself.  An upstream may send past it.
THEOREM PoolCleanHolds ==
    ASSUME Bodyless
    PROVE  Spec /\ []Quiet => []PoolClean
<1> DEFINE Inv == SlotInv /\ HandInv /\ GotInv /\ RequestInv /\ AnswerInv
<1>1. Init => Inv
  BY SlotInit, HandInit, RequestInit, AnswerInit
<1>2. Inv /\ Quiet /\ [Next]_vars => Inv'
  BY SlotNext, HandNext, RequestNext, AnswerNext
<1>3. ASSUME Inv PROVE PoolClean
  <2>1. TypeOK
    BY <1>3 DEF SlotInv
  <2>2. ASSUME NEW c \in InPool
        PROVE  /\ PastOnly(up[c].in \o up[c].plan, up[c].answered) /\ up[c].answered # 0
               /\ Carries(c, up[c].answered, Len(UpUnits(up[c].answered)))
    <3>1. c \in UpIds /\ c # px.fd
      BY <1>3, <2>2 DEF SlotInv, TypeOK, Owned, InPool
    <3>2. Idle(up[c], c = px.fd, Cur, c \in InPool)
      BY <1>3, <3>1 DEF AnswerInv
    <3> QED BY <2>2, <3>1, <3>2 DEF Idle, Carries
  <2> QED BY <2>1, <2>2 DEF PoolClean
<1> HIDE DEF Inv
<1> QED BY <1>1, <1>2, <1>3, PTL DEF Spec

-----------------------------------------------------------------------------
(* What the client has been sent. *)

\* The units of a response, from its header on.
LEMMA AnswerUnits ==
    ASSUME NEW id \in DOMAIN script, NEW r \in Responses, NEW s \in Seq(Units), Within(s, RespUnits(id, r), r.info)
    PROVE  \A i \in 1 .. Len(s) :
              /\ s[i].id = id /\ s[i].k # "100"
              /\ i = 1 => s[i].k = "h" /\ s[i].n = 1
              /\ i = 2 => s[i].k = "hend" /\ s[i].n = 2 /\ s[i].r = r
              /\ i > 2 => s[i].k \in {"d", "z", "x"} /\ s[i].n = i - 2
<1> DEFINE ri == r.info
           all == RespUnits(id, r)
           n == Len(all)
           m == Len(s)
<1>1. ri \in Nat /\ all \in Seq(Units) /\ n \in Nat /\ m \in Nat /\ DOMAIN s = 1 .. m
  BY RespFacts, DomFacts
<1>2. ri + m <= n /\ \A i \in 1 .. m : s[i] = all[ri + i]
  BY <1>1 DEF Within
<1> SUFFICES ASSUME NEW i \in 1 .. m
             PROVE  /\ s[i].id = id /\ s[i].k # "100"
                    /\ i = 1 => s[i].k = "h" /\ s[i].n = 1
                    /\ i = 2 => s[i].k = "hend" /\ s[i].n = 2 /\ s[i].r = r
                    /\ i > 2 => s[i].k \in {"d", "z", "x"} /\ s[i].n = i - 2
  OBVIOUS
<1> DEFINE j == ri + i
<1> HIDE DEF ri, n, m
<1>3. /\ j \in 1 .. n /\ s[i] = all[j] /\ j > ri /\ i \in Nat
      /\ i = 1 => j = ri + 1
      /\ i = 2 => j = ri + 2
      /\ i > 2 => j > ri + 2 /\ j - (ri + 2) = i - 2
      /\ i = 1 \/ i = 2 \/ i > 2
  <2>1. s[i] = all[j]
    BY <1>2
  <2> QED BY <1>1, <1>2, <2>1
<1> HIDE DEF j
<1>4. LET x == RespUnits(id, r)[j]
      IN  /\ x.id = id
          /\ j = ri + 1 => x.k = "h" /\ x.n = 1
          /\ j = ri + 2 => x.k = "hend" /\ x.n = 2 /\ x.r = r
          /\ j > ri + 2 => x.n = j - (ri + 2) /\ (x.k = "d" \/ x.k = "z" \/ x.k = "x")
  <2>1. j \in 1 .. Len(RespUnits(id, r))
    BY <1>3 DEF n
  <2> QED BY <2>1, RespAt DEF ri
<1> DEFINE x == s[i]
<1>5. x = RespUnits(id, r)[j]
  BY <1>3
<1> HIDE DEF x
<1>6. /\ x.id = id /\ x.k \in {"h", "hend", "d", "z", "x"}
      /\ i = 1 => x.k = "h" /\ x.n = 1
      /\ i = 2 => x.k = "hend" /\ x.n = 2 /\ x.r = r
      /\ i > 2 => x.k \in {"d", "z", "x"} /\ x.n = i - 2
  BY <1>3, <1>4, <1>5
<1> QED BY <1>6 DEF x

\* What has been read of an answer whose header is complete is of one response, as framed.
LEMMA ReadOf ==
    ASSUME SlotInv, px.fd # NoUp, AnswerInv, px.phase \notin Early
    PROVE  LET read == Body(out) \o Shown(px)
           IN  /\ Body(out) \in Seq(Units) /\ Shown(px) \in Seq(Units) /\ read \in Seq(Units)
               /\ \E r \in Responses :
                     /\ Within(read, RespUnits(Cur, r), r.info) /\ \A i \in DOMAIN read : read[i].k # "x"
                     /\ px.framing = r.framing /\ r.framing # "badhead" /\ Len(read) >= 2
                     /\ px.bodyDone => Len(RespUnits(Cur, r)) - r.info - Len(read) = 0
<1> DEFINE us == Body(out)
           sh == Shown(px)
           read == us \o sh
<1>1. us \in Seq(Units) /\ sh \in Seq(Units) /\ Cur \in DOMAIN script
  BY WorksFacts, LineTypes, SlotTypes, SlotFacts
<1>2. read \in Seq(Units)
  BY <1>1, CatFacts
<1>3. PICK r \in Responses : /\ Within(read, RespUnits(Cur, r), r.info)
                             /\ Framed(read, px, r, Len(RespUnits(Cur, r)) - r.info - Len(read))
  BY DEF AnswerInv, Exchange
<1>4. /\ px.framing = r.framing /\ r.framing # "badhead" /\ Len(read) >= 2
      /\ \A i \in DOMAIN read : read[i].k # "x"
      /\ px.bodyDone => Len(RespUnits(Cur, r)) - r.info - Len(read) = 0
  BY <1>3 DEF Framed
<1> QED BY <1>1, <1>2, <1>3, <1>4

\* The units t are sent to the client in one step of the pump: 100 Continue, or the next piece of
\* what has been read of the answer.
Sends(t) ==
    \/ t = <<>>
    \/ px.send100 /\ t = <<Unit("100", Cur, 0)>>
    \/ ~px.send100 /\ px.phase \notin Early /\ \E rest \in Seq(Units) : t \o rest = Shown(px)

\* Nothing is the beginning of any answer.
LEMMA NoAnswer ==
    ASSUME NEW id \in DOMAIN script
    PROVE  IsAnswer(<<>>, id)
<1> DEFINE pair == <<Unit("f", id, 1), Unit("f", id, 2)>>
<1>1. Len(pair) = 2
  BY PairFacts DEF Kinds
<1> HIDE DEF pair
<1>2. Within(<<>>, pair, 0)
  BY <1>1 DEF Within
<1> QED BY <1>2 DEF IsAnswer, pair

\* 100 Continue is not part of the answer.
LEMMA BodyOfContinue ==
    ASSUME SlotInv, px.fd # NoUp
    PROVE  LET t == <<Unit("100", Cur, 0)>>
           IN  /\ t \in Seq(Units) /\ Body(t) = <<>> /\ Len(t) = 1
               /\ \A i \in DOMAIN t : t[i].id = Cur
<1> DEFINE x == Unit("100", Cur, 0)
           t == <<x>>
<1>1. x \in Units /\ x.k = "100" /\ x.id = Cur
  <2>1. Cur \in DOMAIN script
    BY SlotFacts
  <2> QED BY <2>1, UnitFacts DEF Kinds, Unit
<1> HIDE DEF x
<1>2. t \in Seq(Units) /\ t # <<>> /\ t[1] = x /\ Len(t) = 1 /\ Tail(t) = <<>> /\ DOMAIN t = {1}
  BY <1>1
<1> HIDE DEF t
<1>3. Body(t) = <<>>
  BY <1>1, <1>2 DEF Body
<1>4. \A i \in DOMAIN t : t[i].id = Cur
  BY <1>1, <1>2
<1> QED BY <1>2, <1>3, <1>4 DEF t, x

\* What the client has then been sent.
LEMMA OutSent ==
    ASSUME SlotInv, px.fd # NoUp, AnswerInv, OutInv, NEW t \in Seq(Units), Sends(t)
    PROVE  LET o == out \o t
           IN  /\ o \in Seq(Units) /\ (\A i \in DOMAIN o : o[i].id = Cur) /\ IsAnswer(Body(o), Cur)
               /\ t = <<>> \/ px.send100 => Body(o) = Body(out)
               /\ px.send100 /\ t = <<>> => o = <<>>
<1> DEFINE o == out \o t
<1>1. /\ out \in Seq(Units) /\ o \in Seq(Units) /\ Cur \in DOMAIN script /\ hc.buf # <<>>
      /\ Body(out) \in Seq(Units)
  BY SlotTypes, SlotFacts, WorksFacts, CatFacts
<1>2. \A i \in DOMAIN out : out[i].id = Cur
  <2>1. DOMAIN out = 1 .. Len(out) /\ (out = <<>> <=> Len(out) = 0) /\ Len(out) \in Nat
    BY <1>1, DomFacts
  <2> QED BY <1>1, <2>1 DEF OutInv, Proper
<1>3. px.send100 => out = <<>>
  BY DEF AnswerInv
<1>4. CASE t = <<>>
  <2>1. o = out
    BY <1>1, <1>4, CatNothing
  <2>2. IsAnswer(Body(out), Cur)
    <3>1. CASE out = <<>>
      <4>1. Body(out) = <<>>
        BY <3>1 DEF Body
      <4> QED BY <1>1, <4>1, NoAnswer
    <3>2. CASE out # <<>>
      BY <1>1, <3>2 DEF OutInv
    <3> QED BY <3>1, <3>2
  <2> HIDE DEF o
  <2> QED BY <1>1, <1>2, <1>3, <2>1, <2>2 DEF o
<1>5. CASE t # <<>> /\ px.send100
  <2>1. t = <<Unit("100", Cur, 0)>> /\ out = <<>>
    BY <1>3, <1>5 DEF Sends
  <2>2. o = t
    BY <2>1, CatNothing
  <2>3. Body(t) = <<>> /\ (\A i \in DOMAIN t : t[i].id = Cur)
    BY <2>1, BodyOfContinue
  <2>4. Body(out) = <<>>
    BY <2>1 DEF Body
  <2>5. IsAnswer(<<>>, Cur)
    BY <1>1, NoAnswer
  <2> HIDE DEF o
  <2> QED BY <1>1, <1>5, <2>2, <2>3, <2>4, <2>5 DEF o
<1>6. CASE t # <<>> /\ ~px.send100
  <2>1. PICK rest \in Seq(Units) : t \o rest = Shown(px)
    BY <1>6 DEF Sends
  <2>2. px.phase \notin Early
    BY <1>6 DEF Sends
  <2> DEFINE us == Body(out)
             sh == Shown(px)
             read == us \o sh
             b == us \o t
  <2>3. /\ us \in Seq(Units) /\ sh \in Seq(Units) /\ read \in Seq(Units)
        /\ \A i \in DOMAIN sh : sh[i].k # "100" /\ sh[i].id = Cur
    BY <2>2, ReadOf, ShownPlain
  <2>4. PICK r \in Responses : /\ Within(read, RespUnits(Cur, r), r.info) /\ \A i \in DOMAIN read : read[i].k # "x"
    BY <2>2, ReadOf
  <2>5. t \o rest = sh
    BY <2>1
  <2> HIDE DEF sh, us
  <2>6. /\ Len(t) \in Nat /\ Len(rest) \in Nat /\ Len(sh) = Len(t) + Len(rest) /\ DOMAIN t = 1 .. Len(t)
        /\ DOMAIN sh = 1 .. Len(sh) /\ \A i \in 1 .. Len(t) : sh[i] = t[i]
    BY <2>3, <2>5, CatFacts, DomFacts
  <2>7. \A i \in DOMAIN t : t[i].k # "100" /\ t[i].id = Cur
    <3>1. \A i \in 1 .. Len(t) : i \in DOMAIN sh
      BY <2>6
    <3> QED BY <2>3, <2>6, <3>1
  <2>8. Body(o) = b
    BY <1>1, <2>7, BodyCat DEF us
  <2>9. b \in Seq(Units) /\ read = b \o rest
    <3>1. b \in Seq(Units)
      BY <2>3, CatFacts
    <3>2. (us \o t) \o rest = us \o (t \o rest)
      BY <2>3, CatAssoc
    <3> QED BY <2>5, <3>1, <3>2
  <2> HIDE DEF b, read
  <2>10. RespUnits(Cur, r) \in Seq(Units) /\ r.info \in Nat
    BY <1>1, RespFacts
  <2>11. Within(b, RespUnits(Cur, r), r.info)
    <3>1. Within(b \o rest, RespUnits(Cur, r), r.info)
      BY <2>4, <2>9
    <3> QED BY <2>9, <2>10, <3>1, WithinCat
  <2>12. \A i \in DOMAIN b : b[i].k # "x"
    <3>1. /\ Len(b) \in Nat /\ Len(rest) \in Nat /\ Len(read) = Len(b) + Len(rest) /\ DOMAIN b = 1 .. Len(b)
          /\ DOMAIN read = 1 .. Len(read) /\ \A i \in 1 .. Len(b) : read[i] = b[i]
      BY <2>3, <2>9, CatFacts, DomFacts
    <3>2. \A i \in 1 .. Len(b) : i \in DOMAIN read
      BY <3>1
    <3> QED BY <2>4, <3>1, <3>2
  <2>13. IsAnswer(b, Cur)
    BY <2>11, <2>12 DEF IsAnswer
  <2>14. \A i \in DOMAIN o : o[i].id = Cur
    <3>1. /\ Len(out) \in Nat /\ Len(t) \in Nat /\ DOMAIN out = 1 .. Len(out) /\ Len(o) = Len(out) + Len(t)
          /\ (\A i \in 1 .. Len(out) : o[i] = out[i]) /\ (\A i \in 1 .. Len(t) : o[Len(out) + i] = t[i])
      BY <1>1, CatFacts, DomFacts
    <3>2. DOMAIN o = 1 .. Len(o)
      BY <1>1, DomFacts
    <3> HIDE DEF o
    <3> SUFFICES ASSUME NEW i \in 1 .. Len(o) PROVE o[i].id = Cur
      BY <3>2
    <3>3. CASE i <= Len(out)
      <4>1. i \in 1 .. Len(out)
        BY <3>1, <3>3
      <4> QED BY <1>2, <3>1, <4>1
    <3>4. CASE ~(i <= Len(out))
      <4> DEFINE j == i - Len(out)
      <4>1. j \in 1 .. Len(t) /\ Len(out) + j = i
        BY <3>1, <3>4
      <4> HIDE DEF j
      <4>2. o[i] = t[j] /\ j \in DOMAIN t
        BY <2>6, <3>1, <4>1
      <4> QED BY <2>7, <4>2
    <3> QED BY <3>3, <3>4
  <2> HIDE DEF o
  <2> QED BY <1>1, <1>6, <2>8, <2>13, <2>14 DEF o
<1> QED BY <1>4, <1>5, <1>6

\* The response us to the request id is forwarded to its end.
Complete(us, id) ==
    us # <<>> /\ us[1].k = "h" =>
        /\ Len(us) >= 2
        /\ us[2].r.framing # "eof" =>
             Len(us) = 2 + (IF ~HasBody(id, us[2].r) THEN 0
                            ELSE us[2].r.len + (IF us[2].r.framing = "chunked" THEN 1 ELSE 0))

\* OutInv after a step, from what the client has then been sent for the request id.
LEMMA OutNow ==
    ASSUME script' = script, hc'.buf # <<>>, NEW o \in Seq(Units), out' = o, NEW id, Cur' = id,
           \A i \in DOMAIN o : o[i].id = id, IsAnswer(Body(o), id),
           px'.fd # NoUp => (~px'.respSent => Body(o) = <<>>) /\ (px'.send100 => o = <<>>),
           hc'.phase = "WRITE" => \E kind \in {"f", "s"} :
               Body(o) \o hc'.left = <<Unit(kind, id, 1), Unit(kind, id, 2)>>,
           hc'.phase = "READ" /\ px'.fd = NoUp /\ pc' \notin {"reuse", "closed"} => o = <<>>,
           pc' = "reuse" => Complete(Body(o), id)
    PROVE  OutInv'
<1>1. \A s, all, k : Within(s, all, k)' <=> Within(s, all, k)
  BY DEF Within
<1>2. \A x, r : RespUnits(x, r)' = RespUnits(x, r)
  BY DEF RespUnits, HasBody
<1>3. \A s, x : IsAnswer(s, x)' <=> IsAnswer(s, x)
  BY <1>1, <1>2, Zenon DEF IsAnswer
<1>4. Body(out)' = Body(o)
  BY DEF Body
<1>5. o # <<>> => o[1].id = id /\ Proper(o, id)
  <2>1. DOMAIN o = 1 .. Len(o) /\ (o = <<>> <=> Len(o) = 0) /\ Len(o) \in Nat
    BY DomFacts
  <2> QED BY <2>1 DEF Proper
<1>6. (out # <<>> => Proper(out, out[1].id) /\ IsAnswer(Body(out), out[1].id))'
  <2>1. ASSUME o # <<>> PROVE Proper(out', out'[1].id) /\ IsAnswer(Body(out), id)'
    <3> DEFINE b == Body(o)
    <3>1. IsAnswer(b, id)'
      <4> HIDE DEF b
      <4> QED BY <1>3 DEF b
    <3> QED BY <1>4, <1>5, <2>1, <3>1
  <2> QED BY <1>5, <2>1 DEF Proper
<1>7. WholeWhenDone'
  <2>1. \A x, r : HasBody(x, r)' <=> HasBody(x, r)
    BY DEF HasBody
  <2>2. Cur' = id /\ Body(out)' = Body(o)
    BY <1>4
  <2> DEFINE b == Body(o)
  <2> HIDE DEF b
  <2>3. Body(out)' = b /\ (pc' = "reuse" => Complete(b, id))
    BY <2>2 DEF b
  <2> QED BY <2>1, <2>2, <2>3 DEF WholeWhenDone, Complete
<1>8. (hc.buf # <<>> /\ out # <<>> => out[1].id = Cur)'
  BY <1>5
<1>9. (px.fd # NoUp => (~px.respSent => Body(out) = <<>>) /\ (px.send100 => out = <<>>))'
  BY <1>4
<1>10. (hc.phase = "WRITE" => \E kind \in {"f", "s"} :
          Body(out) \o hc.left = <<Unit(kind, Cur, 1), Unit(kind, Cur, 2)>>)'
  BY <1>4
<1>11. (hc.phase = "READ" /\ hc.buf # <<>> /\ px.fd = NoUp /\ pc \notin {"reuse", "closed"} => out = <<>>)'
  OBVIOUS
<1> QED BY <1>6, <1>7, <1>8, <1>9, <1>10, <1>11 DEF OutInv

\* The exchange goes on.
LEMMA OutOn ==
    ASSUME SlotInv, px.fd # NoUp, AnswerInv, OutInv, script' = script, NEW t \in Seq(Units), Sends(t), out' = out \o t,
           hc' = hc, pc' # "reuse", px'.fd # NoUp, px'.send100 => px.send100 /\ t = <<>>,
           ~px'.respSent => ~px.respSent /\ (t = <<>> \/ px.send100)
    PROVE  OutInv'
<1> DEFINE o == out \o t
           id == Cur
<1>1. hc.buf # <<>> /\ hc.phase = "READ" /\ Cur' = id
  BY SlotFacts DEF Cur
<1>2. /\ o \in Seq(Units) /\ (\A i \in DOMAIN o : o[i].id = id) /\ IsAnswer(Body(o), id)
      /\ t = <<>> \/ px.send100 => Body(o) = Body(out)
      /\ px.send100 /\ t = <<>> => o = <<>>
  BY OutSent
<1>3. ~px.respSent => Body(out) = <<>>
  BY DEF OutInv
<1>4. out' = o
  OBVIOUS
<1> HIDE DEF o, id
<1>5. (~px'.respSent => Body(o) = <<>>) /\ (px'.send100 => o = <<>>)
  BY <1>2, <1>3
<1>6. hc'.buf # <<>> /\ hc'.phase # "WRITE"
  BY <1>1
<1> QED BY <1>1, <1>2, <1>4, <1>5, <1>6, OutNow

\* The exchange goes on, with another record for the same socket.
LEMMA OutGoes ==
    ASSUME SlotInv, px.fd # NoUp, AnswerInv, OutInv, script' = script, NEW t \in Seq(Units), Sends(t), out' = out \o t,
           NEW u, NEW p, Goes(u, p), p.fd = px.fd, p.send100 => px.send100 /\ t = <<>>,
           ~p.respSent => ~px.respSent /\ (t = <<>> \/ px.send100)
    PROVE  OutInv' /\ CauseInv'
<1>1. hc' = hc /\ hc.phase = "READ" /\ pc' # "reuse" /\ px'.fd = p.fd /\ px'.send100 = p.send100 /\ px'.respSent = p.respSent
  BY SlotFacts DEF Goes, Like
<1>2. OutInv'
  BY <1>1, OutOn
<1>3. CauseInv'
  BY <1>1 DEF CauseInv
<1> QED BY <1>2, <1>3

\* Of whom it is that the server answers a proxied request itself.
Caused == (\E c \in UpIds : Failed(c)) \/ client.st # "open"

\* The exchange ends early: nothing more is sent if the answer has begun, and an answer of the
\* server's own otherwise, for which there is a cause.
LEMMA OutFalls ==
    ASSUME SlotInv, px.fd # NoUp, AnswerInv, OutInv, script' = script, client' = client,
           NEW t \in Seq(Units), Sends(t), out' = out \o t,
           NEW u, Moved(u), NEW p, ~p.respSent => ~px.respSent /\ (t = <<>> \/ px.send100),
           NEW cause, Affordable /\ cause => Caused, Falls(u, p, cause)
    PROVE  OutInv' /\ (Affordable => CauseInv')
<1> DEFINE o == out \o t
           id == Cur
           g == CloseUp(u, px.fd)
<1>1. /\ hc.buf # <<>> /\ hc.phase = "READ" /\ hc \in HcRecords /\ id \in DOMAIN script /\ px.fd \in UpIds
      /\ Excused(hc) \in HcRecords /\ Excused(hc).buf = hc.buf /\ Excused(hc).phase = "READ" /\ Excused(hc).excused
  BY SlotFacts, ExcusedFacts
<1>2. /\ o \in Seq(Units) /\ (\A i \in DOMAIN o : o[i].id = id) /\ IsAnswer(Body(o), id)
      /\ t = <<>> \/ px.send100 => Body(o) = Body(out)
  BY OutSent
<1>3. ~p.respSent => Body(o) = <<>>
  BY <1>2 DEF OutInv
<1>4. \E h \in {hc, Excused(hc)} :
         /\ px' = PxReset /\ up' = g
         /\ \/ hc' = h /\ pc' = "closed"
            \/ /\ hc' = ArmFixed(h) /\ ~p.respSent /\ pc' # "reuse"
               /\ h = Excused(hc) \/ cause
  BY DEF Falls, Drops, Shut, At, ArmEvents
<1>5. PICK h \in {hc, Excused(hc)} :
         /\ px' = PxReset /\ up' = g
         /\ \/ hc' = h /\ pc' = "closed"
            \/ /\ hc' = ArmFixed(h) /\ ~p.respSent /\ pc' # "reuse"
               /\ h = Excused(hc) \/ cause
  BY <1>4
<1>6. /\ h \in HcRecords /\ h.buf = hc.buf /\ h.phase = "READ" /\ (h = Excused(hc) => h.excused)
  BY <1>1
<1>7. /\ ArmFixed(h).buf = hc.buf /\ ArmFixed(h).phase = "WRITE" /\ ArmFixed(h).left = Fixed(id)
      /\ ArmFixed(h).excused = h.excused
  BY <1>1, <1>6, ArmFacts DEF Cur
<1>8. px'.fd = NoUp /\ hc'.buf = hc.buf /\ Cur' = id
  BY <1>5, <1>6, <1>7, ResetFacts DEF Cur
<1>9. \A c \in UpIds : g[c].st = up[c].st
  <2> DEFINE f == px.fd
  <2>1. f \in UpIds /\ u \in [UpIds -> UpRecords] /\ (\A c \in UpIds : c # f => u[c] = up[c]) /\ u[f].st = up[f].st
    BY <1>1 DEF Moved
  <2>2. (\A c \in UpIds : c # f => g[c] = u[c]) /\ g[f].st = u[f].st
    BY <2>1, ClosedUp
  <2> HIDE DEF g, f
  <2> QED BY <2>1, <2>2
<1>10. ASSUME hc'.phase = "WRITE"
       PROVE  /\ Body(o) = <<>> /\ hc'.left = Fixed(id) /\ pc' # "reuse"
              /\ hc'.excused \/ cause
  BY <1>3, <1>5, <1>6, <1>7, <1>10
<1>11. OutInv'
  <2>1. \E kind \in {"f", "s"} : <<>> \o Fixed(id) = <<Unit(kind, id, 1), Unit(kind, id, 2)>>
    <3>1. Fixed(id) \in Seq(Units)
      BY <1>1, PairFacts DEF Fixed, Kinds
    <3> DEFINE pair == Fixed(id)
    <3> HIDE DEF pair
    <3>2. <<>> \o pair = pair
      BY <3>1, CatNothing DEF pair
    <3> QED BY <3>2 DEF pair, Fixed
  <2> DEFINE b == Body(o)
  <2>2. hc'.phase = "WRITE" => \E kind \in {"f", "s"} :
            b \o hc'.left = <<Unit(kind, id, 1), Unit(kind, id, 2)>>
    <3> HIDE DEF b
    <3>1. hc'.phase = "WRITE" => b = <<>> /\ hc'.left = Fixed(id)
      BY <1>10 DEF b
    <3> QED BY <2>1, <3>1
  <2>3. pc' # "reuse" /\ (hc'.phase = "READ" => pc' = "closed")
    BY <1>5, <1>6, <1>7
  <2>4. out' = o
    OBVIOUS
  <2> HIDE DEF o, id
  <2> QED BY <1>1, <1>2, <1>8, <2>2, <2>3, <2>4, OutNow
<1>12. ASSUME Affordable PROVE CauseInv'
  <2>1. Caused => ((\E c \in UpIds : Failed(c)) \/ client.st # "open")'
    <3>1. up' = g
      BY <1>5
    <3> HIDE DEF g
    <3> QED BY <1>9, <3>1 DEF Caused, Failed
  <2> QED BY <1>10, <1>12, <2>1 DEF CauseInv
<1> QED BY <1>11, <1>12

\* An answer that came to its end was forwarded whole.
LEMMA OutParks ==
    ASSUME SlotInv, px.fd # NoUp, AnswerInv, OutInv, script' = script, ~px.send100, px.phase \notin Early,
           out' = out \o Shown(px), px.bodyDone \/ px.framing = "eof", NEW p, Parks(up, p)
    PROVE  OutInv' /\ CauseInv'
<1> DEFINE t == Shown(px)
           o == out \o t
           id == Cur
           read == Body(out) \o t
<1>1. hc.buf # <<>> /\ hc.phase = "READ" /\ hc \in HcRecords /\ id \in DOMAIN script
  BY SlotFacts
<1>2. /\ Body(out) \in Seq(Units) /\ t \in Seq(Units) /\ read \in Seq(Units)
      /\ (\A i \in DOMAIN t : t[i].k # "100")
  BY ReadOf, ShownPlain
<1>3. PICK r \in Responses :
         /\ Within(read, RespUnits(id, r), r.info) /\ \A i \in DOMAIN read : read[i].k # "x"
         /\ px.framing = r.framing /\ r.framing # "badhead" /\ Len(read) >= 2
         /\ px.bodyDone => Len(RespUnits(id, r)) - r.info - Len(read) = 0
  BY ReadOf
<1>4. Sends(t)
  <2>1. t \o <<>> = t /\ <<>> \in Seq(Units)
    BY <1>2, CatNothing
  <2> QED BY <2>1 DEF Sends
<1>5. /\ o \in Seq(Units) /\ (\A i \in DOMAIN o : o[i].id = id) /\ IsAnswer(Body(o), id)
  BY <1>2, <1>4, OutSent
<1>6. Body(o) = read
  <2>1. out \in Seq(Units)
    BY SlotTypes
  <2> QED BY <1>2, <2>1, BodyCat
<1>7. hc' = [hc EXCEPT !.keep = p.clientKeep] /\ px'.fd = NoUp /\ pc' = "reuse"
  BY ResetFacts DEF Parks, At
<1>8. hc'.buf = hc.buf /\ hc'.phase = "READ" /\ Cur' = id
  BY <1>1, <1>7 DEF Cur, HcRecords
<1>9. Complete(read, id)
  <2> DEFINE n == Len(read)
             ri == r.info
             m == Rest(id, r)
             L == Len(RespUnits(id, r))
  <2>1. n \in Nat /\ ri \in Nat /\ m \in Nat /\ L = ri + 2 + m /\ n >= 2 /\ r.len \in Nat
    BY <1>1, <1>2, <1>3, RespFacts, DomFacts
  <2>2. read[2].k = "hend" /\ read[2].r = r
    <3> HIDE DEF read
    <3>1. 2 \in 1 .. Len(read)
      BY <2>1
    <3> QED BY <1>1, <1>2, <1>3, <3>1, AnswerUnits DEF id
  <2>3. ASSUME r.framing # "eof"
        PROVE  n = 2 + (IF ~HasBody(id, r) THEN 0 ELSE r.len + (IF r.framing = "chunked" THEN 1 ELSE 0))
    <3>1. px.bodyDone
      BY <1>3, <2>3
    <3>2. L - ri - n = 0
      BY <1>3, <3>1
    <3>3. n = 2 + m
      <4> HIDE DEF n, ri, m, L
      <4> QED BY <2>1, <3>2
    <3>4. ASSUME HasBody(id, r), r.framing = "badchunk" PROVE FALSE
      <4>1. L = ri + n
        <5> HIDE DEF n, ri, m, L
        <5> QED BY <2>1, <3>2
      <4>2. m = r.len + 1
        BY <3>4 DEF Rest
      <4>3. n \in 1 .. Len(read) /\ DOMAIN read = 1 .. Len(read)
        <5>1. DOMAIN read = 1 .. Len(read)
          BY <1>2, DomFacts
        <5> QED BY <2>1, <5>1
      <4>4. read[n] = RespUnits(id, r)[ri + n]
        BY <1>3, <4>3 DEF Within
      <4>5. RespUnits(id, r)[ri + 2 + (r.len + 1)] = Unit("x", id, r.len + 1)
        BY <1>1, <3>4, RespFacts
      <4>6. ri + n = ri + 2 + (r.len + 1)
        <5> DEFINE l == r.len
        <5>1. l \in Nat /\ m = l + 1 /\ n = 2 + m /\ ri \in Nat
          BY <2>1, <3>3, <4>2
        <5> HIDE DEF n, ri, m, L, l
        <5>2. ri + n = ri + 2 + (l + 1)
          BY <5>1
        <5> QED BY <5>2 DEF l
      <4>7. read[n] = Unit("x", id, r.len + 1)
        BY <4>4, <4>5, <4>6
      <4>8. read[n].k = "x"
        BY <4>7 DEF Unit
      <4> QED BY <1>3, <4>3, <4>8
    <3>5. m = IF ~HasBody(id, r) THEN 0 ELSE r.len + (IF r.framing = "chunked" THEN 1 ELSE 0)
      BY <2>1, <3>4 DEF Rest
    <3> HIDE DEF n, m
    <3> QED BY <3>3, <3>5
  <2> HIDE DEF read, id
  <2> QED BY <2>1, <2>2, <2>3 DEF Complete
<1>10. OutInv'
  <2>1. out' = o /\ Complete(Body(o), id)
    BY <1>6, <1>9
  <2> HIDE DEF o, id
  <2> QED BY <1>1, <1>5, <1>7, <1>8, <2>1, OutNow
<1>11. CauseInv'
  BY <1>8 DEF CauseInv
<1> QED BY <1>10, <1>11

\* What every step of the pump keeps.
Kept == OutInv' /\ (Affordable => CauseInv')

\* Nothing is sent to the client and the exchange goes on.
LEMMA OutStill ==
    ASSUME SlotInv, px.fd # NoUp, AnswerInv, OutInv, script' = script, out' = out,
           NEW u, NEW p, Goes(u, p), p.fd = px.fd, p.send100 = px.send100, p.respSent = px.respSent
    PROVE  Kept
<1> DEFINE t == <<>>
<1>1. t \in Seq(Units) /\ out' = out \o t
  BY SlotTypes, CatNothing
<1>2. Sends(t) /\ t = <<>>
  BY DEF Sends
<1> HIDE DEF t
<1> QED BY <1>1, <1>2, OutGoes DEF Kept

\* Nothing is sent to the client and the exchange ends early.
LEMMA OutEnds ==
    ASSUME SlotInv, px.fd # NoUp, AnswerInv, OutInv, script' = script, client' = client, out' = out,
           NEW u, Moved(u), NEW p, p.respSent = px.respSent,
           NEW cause, Affordable /\ cause => Caused, Falls(u, p, cause)
    PROVE  Kept
<1> DEFINE t == <<>>
<1>1. t \in Seq(Units) /\ out' = out \o t
  BY SlotTypes, CatNothing
<1>2. Sends(t) /\ t = <<>>
  BY DEF Sends
<1> HIDE DEF t
<1> QED BY <1>1, <1>2, OutFalls DEF Kept

\* The request starts anew on another socket.
LEMMA OutRenews ==
    ASSUME SlotInv, px.fd # NoUp, AnswerInv, OutInv, script' = script, out' = out, pc = "pump",
           NEW p \in PxRecords, p.send100 = px.send100, p.respSent = px.respSent, NEW c \in UpIds, Renews(c, p)
    PROVE  Kept
<1> DEFINE t == <<>>
           q == Again(p, c)
<1>1. t \in Seq(Units) /\ out' = out \o t
  BY SlotTypes, CatNothing
<1>2. Sends(t) /\ t = <<>>
  BY DEF Sends
<1>3. q.fd = c /\ q.send100 = px.send100 /\ q.respSent = px.respSent
  <2>1. script \in Scripts /\ Cur \in DOMAIN script /\ c \in UpIds \cup {NoUp}
    BY SlotFacts, SlotTypes
  <2> QED BY <2>1, AgainFacts
<1>4. px' = q /\ hc' = hc /\ pc' # "reuse"
  BY DEF Renews
<1>5. c # NoUp /\ hc.phase = "READ"
  BY SlotFacts DEF UpIds, NoUp
<1> HIDE DEF t, q
<1>6. OutInv'
  BY <1>1, <1>2, <1>3, <1>4, <1>5, OutOn
<1>7. CauseInv'
  BY <1>4, <1>5 DEF CauseInv
<1> QED BY <1>6, <1>7 DEF Kept

\* 100 Continue is sent while there is no answer.
LEMMA OutFlush ==
    ASSUME SlotInv, AnswerInv, OutInv, PumpFlush100
    PROVE  Kept
<1>1. Pump
  BY DEF Pump
<1>2. /\ pc = "pump" /\ px.fd # NoUp /\ script' = script /\ px.send100
  BY <1>1, PumpFacts DEF PumpFlush100
<1> DEFINE x == Unit("100", Cur, 0)
           one == <<x>>
<1>3. PICK n \in {0, 1} :
         /\ out' = out \o Take(one, n) /\ client' = client
         /\ \/ n = 1 /\ Loop(up, [px EXCEPT !.send100 = FALSE], 0)
            \/ n = 0 /\ Waits(up, px, "none", "write")
            \/ Falls(up, px, FALSE)
  BY FlushEffect
<1>4. one \in Seq(Units) /\ Len(one) = 1
  BY <1>2, BodyOfContinue
<1> DEFINE t == Take(one, n)
<1>5. t \in Seq(Units) /\ (n = 0 => t = <<>>) /\ (n = 1 => t = one)
  <2> HIDE DEF one
  <2>1. n \in 0 .. Len(one)
    BY <1>4
  <2>2. t \in Seq(Units) /\ Len(t) = n /\ t \o Drop(one, n) = one /\ Drop(one, n) \in Seq(Units)
        /\ Len(Drop(one, n)) = Len(one) - n
    BY <1>4, <2>1, TakeFacts, TakeDrop, DropFacts
  <2> DEFINE d == Drop(one, n)
  <2> HIDE DEF t, d
  <2>3. n = 1 => d = <<>>
    <3>1. n = 1 => Len(d) = 0
      BY <1>4, <2>2 DEF d
    <3> QED BY <2>2, <3>1, DomFacts DEF d
  <2>4. n = 1 => t = one
    BY <2>2, <2>3, CatNothing DEF d
  <2> QED BY <2>2, <2>4, DomFacts
<1>6. Sends(t)
  <2>1. t = <<>> \/ t = one
    BY <1>5
  <2> HIDE DEF t
  <2> QED BY <1>2, <2>1 DEF Sends
<1>7. out' = out \o t
  BY <1>3
<1>8. px \in PxRecords /\ Moved(up)
  BY <1>2, SlotFacts
<1> HIDE DEF x, one, t
<1>9. CASE n = 1 /\ Loop(up, [px EXCEPT !.send100 = FALSE], 0)
  <2> DEFINE p == [px EXCEPT !.send100 = FALSE]
  <2>1. p \in PxRecords /\ p.fd = px.fd /\ ~p.send100 /\ p.respSent = px.respSent
    BY <1>8 DEF PxRecords
  <2>2. Loop(up, p, 0)
    BY <1>9
  <2> HIDE DEF p
  <2>3. Goes(up, p)
    BY <1>2, <2>1, <2>2, LoopGoes
  <2> QED BY <1>2, <1>5, <1>6, <1>7, <2>1, <2>3, OutGoes DEF Kept
<1>10. CASE n = 0 /\ Waits(up, px, "none", "write")
  <2>1. Goes(up, px)
    BY <1>10, WaitsGoes DEF Ios
  <2> QED BY <1>2, <1>5, <1>6, <1>7, <1>10, <2>1, OutGoes DEF Kept
<1>11. CASE Falls(up, px, FALSE)
  BY <1>2, <1>3, <1>5, <1>6, <1>7, <1>8, <1>11, OutFalls DEF Kept
<1> QED BY <1>3, <1>9, <1>10, <1>11

\* The pump waits with everything as it was.
LEMMA OutWaits ==
    ASSUME SlotInv, px.fd # NoUp, AnswerInv, OutInv, script' = script, out' = out,
           NEW upio, NEW io \in Ios, Waits(up, px, upio, io)
    PROVE  Kept
<1>1. Goes(up, px)
  BY WaitsGoes
<1> QED BY <1>1, OutStill

\* The budget is used up where the pump knows what to wait for.
LEMMA OutBudget ==
    ASSUME SlotInv, AnswerInv, OutInv, PumpBudgetOut
    PROVE  Kept
<1>1. Pump
  BY DEF Pump
<1>2. px.fd # NoUp /\ script' = script /\ pc = "pump" /\ ~px.send100 /\ budget = 0
  BY <1>1, PumpFacts DEF PumpBudgetOut
<1> DEFINE cause == px.phase = "SEND_BODY" /\ px.buf \o px.body = <<>> /\ px.bodyLeft = 0
<1>3. /\ client' = client /\ out' = out
      /\ \/ \E upio, io \in Ios : Waits(up, px, upio, io)
         \/ Falls(up, px, cause)
  BY BudgetEffect DEF Ios
<1>4. ~(Affordable /\ cause)
  BY <1>2 DEF Affordable
<1>5. Moved(up)
  BY <1>2, SlotFacts
<1> HIDE DEF cause
<1>6. CASE \E upio, io \in Ios : Waits(up, px, upio, io)
  BY <1>2, <1>3, <1>6, OutWaits
<1>7. CASE Falls(up, px, cause)
  BY <1>2, <1>3, <1>4, <1>5, <1>7, OutEnds
<1> QED BY <1>3, <1>6, <1>7

\* A socket of the slot that is not open any more is a cause for a refusal.
LEMMA ShutCaused ==
    ASSUME SlotInv, px.fd # NoUp, up[px.fd].st # "open"
    PROVE  Caused
<1>1. px.fd \in UpIds /\ up[px.fd].st \in {"fin", "rst"}
  BY SlotTypes
<1> QED BY <1>1 DEF Caused, Failed

\* The header goes upstream, and a pooled socket that has failed is replaced.
LEMMA OutSendReq ==
    ASSUME SlotInv, AnswerInv, OutInv, PumpSendReq
    PROVE  Kept
<1>1. Pump
  BY DEF Pump
<1>2. pc = "pump" /\ px.fd # NoUp /\ script' = script /\ budget > 0
  BY <1>1, PumpFacts, PumpingFacts DEF PumpSendReq
<1> DEFINE cause == up[px.fd].st # "open"
<1>3. /\ client' = client /\ out' = out
      /\ \E n \in 0 .. Len(px.hdr) :
                 LET u == ToUp(px.fd, Take(px.hdr, n))
                     p == HdrLess(n)
                 IN  \/ Loop(u, [p EXCEPT !.phase = IF BodyPending(p) THEN "SEND_BODY" ELSE "RECV_HDR",
                                             !.buf = <<>>], 1)
                     \/ Waits(u, p, "write", "idle")
                     \/ Falls(u, p, cause)
                     \/ (\E c \in UpIds : Renews(c, p)) \/ Falls(up, p, FALSE)
  BY SendReqEffect
<1>4. PICK n \in 0 .. Len(px.hdr) :
                 LET u == ToUp(px.fd, Take(px.hdr, n))
                     p == HdrLess(n)
                 IN  \/ Loop(u, [p EXCEPT !.phase = IF BodyPending(p) THEN "SEND_BODY" ELSE "RECV_HDR",
                                             !.buf = <<>>], 1)
                     \/ Waits(u, p, "write", "idle")
                     \/ Falls(u, p, cause)
                     \/ (\E c \in UpIds : Renews(c, p)) \/ Falls(up, p, FALSE)
  BY <1>3
<1> DEFINE u == ToUp(px.fd, Take(px.hdr, n))
           p == HdrLess(n)
           q == [p EXCEPT !.phase = IF BodyPending(p) THEN "SEND_BODY" ELSE "RECV_HDR", !.buf = <<>>]
<1>5. Moved(u)
  BY <1>2, LessSound, SentMoved
<1>6. p \in PxRecords /\ p.fd = px.fd /\ p.send100 = px.send100 /\ p.respSent = px.respSent
  <2>1. px \in PxRecords
    BY <1>2, SlotTypes
  <2>2. p \in PxRecords
    BY <2>1, LessFacts
  <2> QED BY <2>1, <2>2 DEF HdrLess, PxRecords
<1>7. q \in PxRecords /\ q.fd = px.fd /\ q.send100 = px.send100 /\ q.respSent = px.respSent
  <2>1. <<>> \in Seq(Units)
    OBVIOUS
  <2> HIDE DEF p
  <2> QED BY <1>6, <2>1 DEF PxRecords, Phases
<1>8. \/ Loop(u, q, 1) \/ Waits(u, p, "write", "idle") \/ Falls(u, p, cause)
      \/ (\E c \in UpIds : Renews(c, p)) \/ Falls(up, p, FALSE)
  BY <1>4
<1>9. cause => Caused
  BY <1>2, ShutCaused
<1>10. Moved(up)
  BY <1>2, SlotFacts
<1> HIDE DEF u, q, p, cause
<1>11. CASE Loop(u, q, 1)
  <2>1. Goes(u, q)
    BY <1>2, <1>7, <1>11, LoopGoes
  <2> QED BY <1>2, <1>3, <1>7, <2>1, OutStill
<1>12. CASE Waits(u, p, "write", "idle")
  <2>1. Goes(u, p)
    BY <1>12, WaitsGoes DEF Ios
  <2> QED BY <1>2, <1>3, <1>6, <2>1, OutStill
<1>13. CASE Falls(u, p, cause)
  BY <1>2, <1>3, <1>5, <1>6, <1>9, <1>13, OutEnds
<1>14. CASE \E c \in UpIds : Renews(c, p)
  BY <1>2, <1>3, <1>6, <1>14, OutRenews
<1>15. CASE Falls(up, p, FALSE)
  BY <1>2, <1>3, <1>6, <1>10, <1>15, OutEnds
<1> QED BY <1>8, <1>11, <1>12, <1>13, <1>14, <1>15

\* A piece s of the request's body goes upstream.
LEMMA OutPiece ==
    ASSUME SlotInv, px.fd # NoUp, AnswerInv, OutInv, script' = script, client' = client, out' = out,
           pc = "pump", budget > 0,
           NEW us \in Seq(Units), NEW p \in PxRecords, p.fd = px.fd, p.send100 = px.send100, p.respSent = px.respSent,
           \/ Loop(ToUp(px.fd, us), p, 1)
           \/ Waits(ToUp(px.fd, us), p, "write", "idle")
           \/ Falls(ToUp(px.fd, us), p, up[px.fd].st # "open")
    PROVE  Kept
<1> DEFINE u == ToUp(px.fd, us)
           cause == up[px.fd].st # "open"
<1>1. Moved(u)
  BY SentMoved
<1>2. cause => Caused
  BY ShutCaused
<1>3. Loop(u, p, 1) \/ Waits(u, p, "write", "idle") \/ Falls(u, p, cause)
  OBVIOUS
<1> HIDE DEF u, cause
<1>4. CASE Goes(u, p)
  BY <1>4, OutStill
<1>5. CASE Falls(u, p, cause)
  BY <1>1, <1>2, <1>5, OutEnds
<1>6. Loop(u, p, 1) => Goes(u, p)
  BY LoopGoes
<1>7. Waits(u, p, "write", "idle") => Goes(u, p)
  BY WaitsGoes DEF Ios
<1> QED BY <1>3, <1>4, <1>5, <1>6, <1>7

\* The request's body goes upstream.
LEMMA OutSendBody ==
    ASSUME SlotInv, AnswerInv, OutInv, PumpSendBody
    PROVE  Kept
<1>1. Pump
  BY DEF Pump
<1>2. pc = "pump" /\ px.fd # NoUp /\ script' = script /\ budget > 0
  BY <1>1, PumpFacts, PumpingFacts DEF PumpSendBody
<1>3. client' = client /\ out' = out
  BY SendBodyEffect
<1>4. px \in PxRecords
  BY <1>2, SlotTypes
<1>5. \A n \in 0 .. Len(px.buf) :
         /\ BufLess(n) \in PxRecords /\ Take(px.buf, n) \in Seq(Units)
         /\ BufLess(n).fd = px.fd /\ BufLess(n).send100 = px.send100 /\ BufLess(n).respSent = px.respSent
  <2>1. \A n \in 0 .. Len(px.buf) : BufLess(n) \in PxRecords /\ Take(px.buf, n) \in Seq(Units)
    BY <1>2, <1>4, LessFacts, LessSound
  <2>2. \A n \in 0 .. Len(px.buf) :
          BufLess(n).fd = px.fd /\ BufLess(n).send100 = px.send100 /\ BufLess(n).respSent = px.respSent
    BY <1>4 DEF BufLess, PxRecords
  <2> QED BY <2>1, <2>2
<1>6. \A n \in 0 .. Len(px.body) :
         /\ BodyLess(n) \in PxRecords /\ Take(px.body, n) \in Seq(Units)
         /\ BodyLess(n).fd = px.fd /\ BodyLess(n).send100 = px.send100 /\ BodyLess(n).respSent = px.respSent
  <2>1. \A n \in 0 .. Len(px.body) : BodyLess(n) \in PxRecords /\ Take(px.body, n) \in Seq(Units)
    BY <1>2, <1>4, LessFacts, LessSound
  <2>2. \A n \in 0 .. Len(px.body) :
          BodyLess(n).fd = px.fd /\ BodyLess(n).send100 = px.send100 /\ BodyLess(n).respSent = px.respSent
    BY <1>4 DEF BodyLess, PxRecords
  <2> QED BY <2>1, <2>2
<1>7. \/ \E n \in 0 .. Len(px.buf) :
             \/ Loop(ToUp(px.fd, Take(px.buf, n)), BufLess(n), 1)
             \/ Waits(ToUp(px.fd, Take(px.buf, n)), BufLess(n), "write", "idle")
             \/ Falls(ToUp(px.fd, Take(px.buf, n)), BufLess(n), up[px.fd].st # "open")
      \/ \E n \in 0 .. Len(px.body) :
             \/ Loop(ToUp(px.fd, Take(px.body, n)), BodyLess(n), 1)
             \/ Waits(ToUp(px.fd, Take(px.body, n)), BodyLess(n), "write", "idle")
             \/ Falls(ToUp(px.fd, Take(px.body, n)), BodyLess(n), up[px.fd].st # "open")
  BY SendBodyEffect
<1> QED BY <1>2, <1>3, <1>5, <1>6, <1>7, OutPiece

\* The request's body is read from the client.
LEMMA OutReadBody ==
    ASSUME SlotInv, AnswerInv, OutInv, PumpReadBody
    PROVE  Kept
<1>1. Pump
  BY DEF Pump
<1>2. pc = "pump" /\ px.fd # NoUp /\ script' = script /\ budget > 0
  BY <1>1, PumpFacts, PumpingFacts DEF PumpReadBody
<1>3. /\ out' = out
      /\ \/ \E n \in 1 .. Len(client.in) : n <= px.bodyLeft /\ n <= BufMax /\ Loop(up, BodyRead(n), 1)
         \/ client' = client /\ (Waits(up, px, "idle", "read") \/ Falls(up, px, FALSE))
  BY ReadBodyEffect
<1>4. ASSUME NEW n \in 1 .. Len(client.in), n <= px.bodyLeft, n <= BufMax, Loop(up, BodyRead(n), 1)
      PROVE  Kept
  <2> DEFINE p == BodyRead(n)
  <2>1. Sound(p) /\ p.send100 = px.send100 /\ p.respSent = px.respSent
    BY <1>2, <1>4, BodyReadFacts
  <2>2. Loop(up, p, 1)
    BY <1>4
  <2> HIDE DEF p
  <2>3. p \in PxRecords /\ p.fd = px.fd
    BY <2>1 DEF Sound
  <2>4. Goes(up, p)
    BY <1>2, <2>2, <2>3, LoopGoes
  <2> QED BY <1>2, <1>3, <2>1, <2>3, <2>4, OutStill
<1>5. CASE Waits(up, px, "idle", "read")
  BY <1>2, <1>3, <1>5, OutWaits DEF Ios
<1>6. Moved(up)
  BY <1>2, SlotFacts
<1>7. CASE client' = client /\ Falls(up, px, FALSE)
  BY <1>2, <1>3, <1>6, <1>7, OutEnds
<1> QED BY <1>3, <1>4, <1>5, <1>7

\* All of the request is sent.
LEMMA OutBodySent ==
    ASSUME SlotInv, AnswerInv, OutInv, PumpBodySent
    PROVE  Kept
<1>1. Pump
  BY DEF Pump
<1>2. pc = "pump" /\ px.fd # NoUp /\ script' = script /\ budget > 0
  BY <1>1, PumpFacts, PumpingFacts DEF PumpBodySent
<1> DEFINE p == [px EXCEPT !.phase = "RECV_HDR"]
<1>3. out' = out /\ Loop(up, p, 0)
  BY DEF PumpBodySent, pumpRest
<1>4. px \in PxRecords
  BY <1>2, SlotTypes
<1>5. p \in PxRecords /\ p.fd = px.fd /\ p.send100 = px.send100 /\ p.respSent = px.respSent
  BY <1>4 DEF PxRecords, Phases
<1> HIDE DEF p
<1>6. Goes(up, p)
  BY <1>2, <1>3, <1>5, LoopGoes
<1> QED BY <1>2, <1>3, <1>5, <1>6, OutStill

\* What is read of an answer without the end of its header does not fill the buffer; what an
\* earlier answer left in the socket may.
LEMMA HeaderShort ==
    ASSUME NEW us \in Seq(Units), NEW p \in PxRecords, p.phase = "RECV_HDR", NEW u \in UpRecords,
           NEW id \in DOMAIN script, Exchange(us, p, u, id), HdrEnd(p.buf) = 0
    PROVE  Len(p.buf) < BufMax \/ \E r \in Responses : r.over > 0
<1> DEFINE b == p.buf
           rest == u.in \o u.plan
<1>1. b \in Seq(Units) /\ rest \in Seq(Units) /\ us = <<>> /\ ~p.overread /\ Len(b) \in Nat
  BY LineTypes, DomFacts DEF PxRecords, Exchange, Early
<1>2. Shown(p) = b /\ <<>> \o b = b
  BY <1>1, CatNothing DEF Shown
<1>3. (us \o Shown(p)) \o rest = b \o rest
  <2> HIDE DEF rest, b
  <2> QED BY <1>1, <1>2
<1>4. \/ b \o rest = <<>>
      \/ (b \o rest)[1].k = "o"
      \/ \E r \in Responses : \E k \in 0 .. r.info : Within(b \o rest, Answer(id, r), k)
  BY <1>1, <1>3 DEF Exchange
<1>5. CASE b = <<>>
  BY <1>5, SizesAssumption
<1>6. CASE b # <<>> /\ (b \o rest)[1].k = "o"
  <2> HIDE DEF rest, b
  <2>1. 1 \in 1 .. Len(b) /\ b[1] \in Units
    BY <1>1, <1>6, DomFacts
  <2>2. (b \o rest)[1] = b[1]
    BY <1>1, <2>1, CatFacts
  <2> QED BY <1>6, <2>1, <2>2, IdFacts
<1>7. ASSUME NEW r \in Responses, NEW k \in 0 .. r.info, Within(b \o rest, Answer(id, r), k)
      PROVE  Len(b) < BufMax
  <2>1. Answer(id, r) \in Seq(Units) /\ k \in Nat
    <3>1. Answer(id, r) \in Seq(Units) /\ r.info \in Nat
      BY AnswerFacts, RespFacts
    <3> QED BY <3>1
  <2>2. HdrEnd(b) = 0
    OBVIOUS
  <2> HIDE DEF rest, b
  <2>3. Within(b, Answer(id, r), k)
    BY <1>1, <1>7, <2>1, WithinCat
  <2>4. Len(b) <= 1
    BY <1>1, <2>2, <2>3, HeaderPlace
  <2> QED BY <1>1, <2>4, SizesAssumption
<1>8. b # <<>> => b \o rest # <<>>
  <2> HIDE DEF rest, b
  <2> QED BY <1>1, EmptyCat
<1> QED BY <1>4, <1>5, <1>6, <1>7, <1>8

\* What comes past an answer is a cause.
LEMMA PastCaused ==
    ASSUME px.fd \in UpIds, \E r \in Responses : r.over > 0
    PROVE  Caused
BY DEF Caused, Failed

\* A whole header block is taken: an informational one, the answer's, or a bad one.
LEMMA OutHeader ==
    ASSUME SlotInv, px.fd # NoUp, AnswerInv, OutInv, script' = script, client' = client, out' = out,
           pc = "pump", budget > 0, NEW u, Moved(u), NEW p \in PxRecords, p.fd = px.fd,
           p.send100 = px.send100, p.respSent = px.respSent, HdrEnd(p.buf) # 0, Header(u, p, HdrEnd(p.buf))
    PROVE  Kept
<1> DEFINE at == HdrEnd(p.buf)
           h == p.buf[at]
           q1 == [p EXCEPT !.buf = Drop(p.buf, at)]
           q2 == FinalHeader(p, at)
           cause == Malformed(p, at)
<1>1. at # 0 /\ Header(u, p, at) /\ p.buf \in Seq(Units) /\ px.fd \in UpIds
  BY SlotTypes DEF PxRecords
<1>2. at \in 0 .. Len(p.buf) /\ at \in 1 .. Len(p.buf) /\ h \in Units
  BY <1>1, HdrEndFacts
<1>3. \/ \E spent \in {0, 1} : Loop(u, q1, spent)
      \/ h.k = "hend" /\ \E spent \in {0, 1} : Loop(u, q2, spent)
      \/ Falls(u, p, cause)
  BY <1>1 DEF Header
<1>4. CASE \E spent \in {0, 1} : Loop(u, q1, spent)
  <2>1. PICK spent \in {0, 1} : Loop(u, q1, spent)
    BY <1>4
  <2> DEFINE t == Drop(p.buf, at)
  <2>2. t \in Seq(Units)
    BY <1>1, <1>2, DropFacts
  <2> HIDE DEF t
  <2>3. q1 \in PxRecords /\ q1.fd = px.fd /\ q1.send100 = px.send100 /\ q1.respSent = px.respSent
    BY <2>2 DEF PxRecords, t
  <2> HIDE DEF q1
  <2>4. Goes(u, q1)
    BY <2>1, <2>3, LoopGoes
  <2> QED BY <2>3, <2>4, OutStill
<1>5. CASE h.k = "hend" /\ \E spent \in {0, 1} : Loop(u, q2, spent)
  <2>1. PICK spent \in {0, 1} : Loop(u, q2, spent)
    BY <1>5
  <2>2. q2 \in PxRecords /\ q2.fd = px.fd /\ q2.send100 = px.send100 /\ q2.respSent = px.respSent
    BY <1>1, <1>2, <1>5, FinalRest
  <2> HIDE DEF q2
  <2>3. Goes(u, q2)
    BY <2>1, <2>2, LoopGoes
  <2> QED BY <2>2, <2>3, OutStill
<1>6. cause => Caused
  <2>1. 1 \in 1 .. Len(p.buf) /\ p.buf[1] \in Units
    <3> DEFINE s == p.buf
    <3>1. s \in Seq(Units) /\ s # <<>>
      BY <1>1, <1>2
    <3> HIDE DEF s
    <3>2. 1 \in 1 .. Len(s) /\ s[1] \in Units
      BY <3>1, DomFacts
    <3> QED BY <3>2 DEF s
  <2>2. h \in Units
    BY <1>2
  <2>3. cause => p.buf[1].k = "o" \/ (h.k = "hend" /\ h.r.framing \in {"badhead", "badchunk"})
    BY DEF Malformed
  <2> HIDE DEF h, cause
  <2>4. CASE p.buf[1].k = "o"
    BY <1>1, <2>1, <2>4, IdFacts, PastCaused
  <2>5. CASE h.k = "hend" /\ h.r.framing \in {"badhead", "badchunk"}
    <3>1. h.r \in Responses
      BY <2>2, <2>5, IdFacts
    <3> QED BY <1>1, <2>5, <3>1 DEF Caused, Failed
  <2> QED BY <2>3, <2>4, <2>5
<1>7. CASE Falls(u, p, cause)
  <2> HIDE DEF cause
  <2> QED BY <1>6, <1>7, OutEnds
<1> QED BY <1>3, <1>4, <1>5, <1>7

\* The answer's header is read.
LEMMA OutRecvHdr ==
    ASSUME SlotInv, AnswerInv, OutInv, PumpRecvHdr
    PROVE  Kept
<1>1. Pump
  BY DEF Pump
<1>2. /\ pc = "pump" /\ px.fd # NoUp /\ script' = script /\ budget > 0 /\ px.phase = "RECV_HDR"
  BY <1>1, PumpFacts, PumpingFacts DEF PumpRecvHdr
<1>3. px \in PxRecords /\ up[px.fd].in \in Seq(Units) /\ px.fd \in UpIds /\ Cur \in DOMAIN script /\ Moved(up)
  BY <1>2, SlotTypes, SlotFacts
<1>4. client' = client /\ out' = out
  BY RecvHdrEffect
<1>5. \/ HdrEnd(px.buf) # 0 /\ Header(up, px, HdrEnd(px.buf))
      \/ HdrEnd(px.buf) = 0 /\ Falls(up, px, Len(px.buf) >= BufMax)
      \/ \E n \in 1 .. Len(up[px.fd].in) :
            LET p == AnswerRead(n)
                u == Emptied(n)
            IN  /\ n <= BufMax - Len(px.buf)
                /\ \/ HdrEnd(p.buf) # 0 /\ Header(u, p, HdrEnd(p.buf))
                   \/ HdrEnd(p.buf) = 0 /\ Falls(u, p, Len(p.buf) >= BufMax)
                   \/ Loop(u, p, 1)
      \/ Waits(up, px, "read", "idle")
      \/ Falls(up, px, up[px.fd].st # "open")
      \/ \E c \in UpIds : Renews(c, px)
  BY RecvHdrEffect
<1>6. Exchange(Body(out), px, up[px.fd], Cur) /\ Body(out) \in Seq(Units) /\ up[px.fd] \in UpRecords
  BY <1>2, WorksFacts DEF AnswerInv
<1>7. CASE HdrEnd(px.buf) # 0 /\ Header(up, px, HdrEnd(px.buf))
  BY <1>2, <1>3, <1>4, <1>7, OutHeader
<1>8. CASE HdrEnd(px.buf) = 0 /\ Falls(up, px, Len(px.buf) >= BufMax)
  <2> DEFINE cause == Len(px.buf) >= BufMax
  <2>1. (Len(px.buf) < BufMax \/ \E r \in Responses : r.over > 0) /\ Len(px.buf) \in Nat
    BY <1>2, <1>3, <1>6, <1>8, HeaderShort, SlotTypes
  <2>2. cause => Caused
    BY <1>3, <2>1, PastCaused, SizesAssumption
  <2>3. Falls(up, px, cause)
    BY <1>8
  <2> HIDE DEF cause
  <2> QED BY <1>2, <1>3, <1>4, <2>2, <2>3, OutEnds
<1>9. ASSUME NEW n \in 1 .. Len(up[px.fd].in), n <= BufMax - Len(px.buf),
             \/ HdrEnd(AnswerRead(n).buf) # 0 /\ Header(Emptied(n), AnswerRead(n), HdrEnd(AnswerRead(n).buf))
             \/ HdrEnd(AnswerRead(n).buf) = 0 /\ Falls(Emptied(n), AnswerRead(n), Len(AnswerRead(n).buf) >= BufMax)
             \/ Loop(Emptied(n), AnswerRead(n), 1)
      PROVE  Kept
  <2> DEFINE p == AnswerRead(n)
             u == Emptied(n)
             w == u[px.fd]
             b == Body(out)
             cause == Len(p.buf) >= BufMax
  <2>1. n \in 0 .. Len(up[px.fd].in)
    OBVIOUS
  <2>2. /\ p \in PxRecords /\ p.fd = px.fd /\ p.phase = px.phase /\ p.send100 = px.send100 /\ p.respSent = px.respSent
        /\ p.bodyDone = px.bodyDone /\ p.overread = px.overread /\ p.buf = px.buf \o Take(up[px.fd].in, n)
        /\ Moved(u)
    BY <1>2, <1>9, <2>1, AnswerReadFacts, AnswerReadSame
  <2>3. w \in UpRecords /\ w.answered = up[px.fd].answered /\ w.in = Drop(up[px.fd].in, n) /\ w.plan = up[px.fd].plan
    BY <1>2, <2>1, EmptiedFacts
  <2>4. \/ HdrEnd(p.buf) # 0 /\ Header(u, p, HdrEnd(p.buf))
        \/ HdrEnd(p.buf) = 0 /\ Falls(u, p, cause)
        \/ Loop(u, p, 1)
    BY <1>9
  <2>5. b \in Seq(Units) /\ Exchange(b, px, up[px.fd], Cur)
    BY <1>6
  <2>6. Len(p.buf) \in Nat
    <3> HIDE DEF p
    <3>1. p.buf \in Seq(Units)
      BY <2>2 DEF PxRecords
    <3> QED BY <3>1, DomFacts
  <2> HIDE DEF p, w, b
  <2>7. Exchange(b, p, w, Cur)
    BY <1>2, <1>3, <1>6, <2>1, <2>2, <2>3, <2>5, ExchangeRead
  <2>8. HdrEnd(p.buf) = 0 /\ cause => Caused
    <3>1. HdrEnd(p.buf) = 0 => Len(p.buf) < BufMax \/ \E r \in Responses : r.over > 0
      BY <1>2, <1>3, <2>2, <2>3, <2>5, <2>7, HeaderShort
    <3> QED BY <1>3, <2>6, <3>1, PastCaused, SizesAssumption
  <2> HIDE DEF u, cause
  <2>9. CASE HdrEnd(p.buf) # 0 /\ Header(u, p, HdrEnd(p.buf))
    BY <1>2, <1>4, <2>2, <2>9, OutHeader
  <2>10. CASE HdrEnd(p.buf) = 0 /\ Falls(u, p, cause)
    BY <1>2, <1>4, <2>2, <2>8, <2>10, OutEnds
  <2>11. CASE Loop(u, p, 1)
    <3>1. Goes(u, p)
      BY <1>2, <2>2, <2>11, LoopGoes
    <3> QED BY <1>2, <1>4, <2>2, <3>1, OutStill
  <2> QED BY <2>4, <2>9, <2>10, <2>11
<1>10. CASE Waits(up, px, "read", "idle")
  BY <1>2, <1>4, <1>10, OutWaits DEF Ios
<1>11. CASE Falls(up, px, up[px.fd].st # "open")
  <2> DEFINE cause == up[px.fd].st # "open"
  <2>1. cause => Caused
    BY <1>2, ShutCaused
  <2>2. Falls(up, px, cause)
    BY <1>11
  <2> HIDE DEF cause
  <2> QED BY <1>2, <1>3, <1>4, <2>1, <2>2, OutEnds
<1>12. CASE \E c \in UpIds : Renews(c, px)
  BY <1>2, <1>3, <1>4, <1>12, OutRenews
<1> QED BY <1>5, <1>7, <1>8, <1>9, <1>10, <1>11, <1>12

\* A beginning t of what is read of the answer goes to the client, and the pump goes on.
LEMMA OutForwards ==
    ASSUME SlotInv, px.fd # NoUp, AnswerInv, OutInv, script' = script, ~px.send100, px.phase \notin Early,
           NEW t \in Seq(Units), NEW rest \in Seq(Units), t \o rest = Shown(px), out' = out \o t,
           NEW u, NEW p, Goes(u, p), p.fd = px.fd, ~p.send100, p.respSent = (px.respSent \/ t # <<>>)
    PROVE  Kept
<1>1. Sends(t)
  BY DEF Sends
<1> QED BY <1>1, OutGoes DEF Kept

\* A beginning t of what is read of the answer goes to the client, and the slot is given up.
LEMMA OutBroken ==
    ASSUME SlotInv, px.fd # NoUp, AnswerInv, OutInv, script' = script, client' = client, ~px.send100, px.phase \notin Early,
           NEW t \in Seq(Units), NEW rest \in Seq(Units), t \o rest = Shown(px), out' = out \o t,
           NEW p, p.respSent = (px.respSent \/ t # <<>>), NEW cause, cause => Caused, Falls(up, p, cause)
    PROVE  Kept
<1>1. Sends(t) /\ Moved(up)
  BY SlotFacts DEF Sends
<1> QED BY <1>1, OutFalls DEF Kept

\* The first n units of s are none only for n = 0.
LEMMA TakeNone ==
    ASSUME NEW s \in Seq(Units), NEW n \in 0 .. Len(s)
    PROVE  /\ Take(s, n) # <<>> <=> n > 0
           /\ n = Len(s) => Take(s, n) = s
<1> DEFINE t == Take(s, n)
           d == Drop(s, n)
<1>1. t \in Seq(Units) /\ Len(t) = n /\ d \in Seq(Units) /\ t \o d = s /\ Len(d) = Len(s) - n /\ Len(s) \in Nat
  BY TakeDrop, TakeFacts, DropFacts, DomFacts
<1> HIDE DEF t, d
<1>2. t # <<>> <=> n > 0
  BY <1>1, DomFacts
<1>3. ASSUME n = Len(s)
      PROVE  t = s
  <2>1. Len(d) = 0
    BY <1>1, <1>3
  <2>2. d = <<>>
    BY <1>1, <2>1, DomFacts
  <2> QED BY <1>1, <2>2, CatNothing
<1> QED BY <1>2, <1>3 DEF t

\* A whole answer goes to the client.
LEMMA OutGathered ==
    ASSUME SlotInv, AnswerInv, OutInv, PumpSendGathered
    PROVE  Kept
<1>1. Pump
  BY DEF Pump
<1>2. /\ pc = "pump" /\ px.fd # NoUp /\ script' = script /\ ~px.send100 /\ budget > 0
      /\ px.phase = "SEND_RESP" /\ px.bodyDone
  BY <1>1, PumpFacts, PumpingFacts DEF PumpSendGathered
<1>3. /\ px \in PxRecords /\ px.hdr \in Seq(Units) /\ px.buf \in Seq(Units) /\ Len(px.hdr) \in Nat /\ Len(px.buf) \in Nat
      /\ px.phase \notin Early /\ Moved(up)
  BY <1>2, SlotTypes, SlotFacts DEF Early
<1> DEFINE all == px.hdr \o px.buf
           cause == client.st # "open"
<1>4. /\ client' = client
      /\ \/ \E n \in 1 .. Len(px.hdr) + Len(px.buf) :
               /\ out' = out \o Take(all, n)
               /\ \/ n = Len(px.hdr) + Len(px.buf) /\ Parks(up, Gathered(n))
                  \/ Loop(up, Gathered(n), 1)
         \/ out' = out /\ Waits(up, px, "none", "write")
         \/ out' = out /\ Falls(up, px, cause)
  BY GatheredEffect
<1>5. all \in Seq(Units) /\ Len(all) = Len(px.hdr) + Len(px.buf) /\ all = Shown(px)
  <2>1. all \in Seq(Units) /\ Len(all) = Len(px.hdr) + Len(px.buf)
    BY <1>3, CatFacts
  <2>2. all = Shown(px)
    BY <1>2 DEF Shown
  <2> QED BY <2>1, <2>2
<1>6. ASSUME NEW n \in 1 .. Len(px.hdr) + Len(px.buf), out' = out \o Take(all, n), n = Len(px.hdr) + Len(px.buf),
             Parks(up, Gathered(n))
      PROVE  Kept
  <2> HIDE DEF all
  <2>1. n \in 0 .. Len(all) /\ n = Len(all)
    <3>1. n \in 1 .. Len(all) /\ n = Len(all)
      BY <1>5, <1>6, Zenon
    <3>2. Len(all) \in Nat
      BY <1>5, DomFacts
    <3> QED BY <3>1, <3>2
  <2>2. Take(all, n) = all
    BY <1>5, <2>1, TakeNone
  <2>3. out' = out \o Shown(px)
    BY <1>5, <1>6, <2>2
  <2> DEFINE p == Gathered(n)
  <2>4. Parks(up, p)
    BY <1>6
  <2> HIDE DEF p
  <2> QED BY <1>2, <1>3, <2>3, <2>4, OutParks DEF Kept
<1>7. ASSUME NEW n \in 1 .. Len(px.hdr) + Len(px.buf), out' = out \o Take(all, n), Loop(up, Gathered(n), 1)
      PROVE  Kept
  <2> DEFINE p == Gathered(n)
             t == Take(all, n)
             d == Drop(all, n)
  <2>1. p \in PxRecords /\ p.fd = px.fd /\ p.send100 = px.send100 /\ p.respSent
    BY <1>2, GatheredFacts
  <2>2. Loop(up, p, 1) /\ out' = out \o t
    BY <1>7
  <2> HIDE DEF p, all
  <2>3. n \in 0 .. Len(all) /\ n > 0
    <3>1. n \in 1 .. Len(all)
      BY <1>5, Zenon
    <3>2. Len(all) \in Nat
      BY <1>5, DomFacts
    <3> QED BY <3>1, <3>2
  <2>4. t \in Seq(Units) /\ d \in Seq(Units) /\ t \o d = all /\ t # <<>>
    BY <1>5, <2>3, TakeDrop, TakeNone
  <2> HIDE DEF t, d
  <2>5. Goes(up, p)
    BY <1>2, <2>1, <2>2, LoopGoes
  <2> QED BY <1>2, <1>3, <1>5, <2>1, <2>2, <2>4, <2>5, OutForwards
<1>8. CASE out' = out /\ Waits(up, px, "none", "write")
  BY <1>2, <1>8, OutWaits DEF Ios
<1>9. CASE out' = out /\ Falls(up, px, cause)
  <2>1. cause => Caused
    BY DEF Caused
  <2> HIDE DEF cause
  <2> QED BY <1>2, <1>3, <1>4, <1>9, <2>1, OutEnds
<1> QED BY <1>4, <1>6, <1>7, <1>8, <1>9

\* The header goes to the client ahead of the body.
LEMMA OutSendHdr ==
    ASSUME SlotInv, AnswerInv, OutInv, PumpSendHdr
    PROVE  Kept
<1>1. Pump
  BY DEF Pump
<1>2. /\ pc = "pump" /\ px.fd # NoUp /\ script' = script /\ ~px.send100 /\ budget > 0
      /\ px.phase = "SEND_RESP"
  BY <1>1, PumpFacts, PumpingFacts DEF PumpSendHdr
<1>3. /\ px \in PxRecords /\ px.hdr \in Seq(Units) /\ px.buf \in Seq(Units) /\ Len(px.hdr) \in Nat
      /\ px.phase \notin Early
  BY <1>2, SlotTypes DEF Early
<1>4. /\ client' = client
      /\ \E n \in 0 .. Len(px.hdr) :
            /\ out' = out \o Take(px.hdr, n)
            /\ \/ Loop(up, [HdrSent(n) EXCEPT !.phase = "STREAM"], 1)
               \/ Waits(up, HdrSent(n), "idle", "write")
               \/ Falls(up, HdrSent(n), client.st # "open")
  BY SendHdrEffect
<1>5. PICK n \in 0 .. Len(px.hdr) :
            /\ out' = out \o Take(px.hdr, n)
            /\ \/ Loop(up, [HdrSent(n) EXCEPT !.phase = "STREAM"], 1)
               \/ Waits(up, HdrSent(n), "idle", "write")
               \/ Falls(up, HdrSent(n), client.st # "open")
  BY <1>4
<1> DEFINE p == HdrSent(n)
           q == [p EXCEPT !.phase = "STREAM"]
           t == Take(px.hdr, n)
           d == Drop(px.hdr, n)
           b == px.buf
           rest == d \o b
           cause == client.st # "open"
<1>6. p \in PxRecords /\ p.fd = px.fd /\ p.send100 = px.send100 /\ p.respSent = (px.respSent \/ n > 0)
  BY <1>2, HdrSentFacts
<1>7. t \in Seq(Units) /\ d \in Seq(Units) /\ t \o d = px.hdr /\ (t # <<>> <=> n > 0)
  BY <1>3, TakeDrop, TakeNone
<1>8. out' = out \o t /\ (Loop(up, q, 1) \/ Waits(up, p, "idle", "write") \/ Falls(up, p, cause))
  BY <1>5
<1>9. Shown(px) = px.hdr \o b
  BY <1>2 DEF Shown
<1>10. cause => Caused
  BY DEF Caused
<1> HIDE DEF p, t, d, b, cause
<1>11. rest \in Seq(Units) /\ t \o rest = Shown(px)
  <2>1. (t \o d) \o b = t \o (d \o b)
    BY <1>3, <1>7, CatAssoc, Zenon DEF b
  <2>2. d \o b \in Seq(Units)
    BY <1>3, <1>7, CatFacts DEF b
  <2> QED BY <1>7, <1>9, <2>1, <2>2
<1>12. q \in PxRecords /\ q.fd = px.fd /\ q.send100 = px.send100 /\ q.respSent = p.respSent
  BY <1>6 DEF PxRecords, Phases
<1>13. p.respSent = (px.respSent \/ t # <<>>)
  BY <1>6, <1>7
<1> HIDE DEF q, rest
<1>14. CASE Loop(up, q, 1)
  <2>1. Goes(up, q)
    BY <1>2, <1>12, <1>14, LoopGoes
  <2> QED BY <1>2, <1>3, <1>7, <1>8, <1>11, <1>12, <1>13, <2>1, OutForwards
<1>15. CASE Waits(up, p, "idle", "write")
  <2>1. Goes(up, p)
    BY <1>15, WaitsGoes DEF Ios
  <2> QED BY <1>2, <1>3, <1>6, <1>7, <1>8, <1>11, <1>13, <2>1, OutForwards
<1>16. CASE Falls(up, p, cause)
  BY <1>2, <1>3, <1>4, <1>7, <1>8, <1>10, <1>11, <1>13, <1>16, OutBroken
<1> QED BY <1>8, <1>14, <1>15, <1>16

\* A piece of the body goes to the client.
LEMMA OutStreamOut ==
    ASSUME SlotInv, AnswerInv, OutInv, PumpStreamOut
    PROVE  Kept
<1>1. Pump
  BY DEF Pump
<1>2. /\ pc = "pump" /\ px.fd # NoUp /\ script' = script /\ ~px.send100 /\ budget > 0
      /\ px.phase = "STREAM"
  BY <1>1, PumpFacts, PumpingFacts DEF PumpStreamOut
<1>3. /\ px \in PxRecords /\ px.buf \in Seq(Units) /\ Len(px.buf) \in Nat
      /\ px.phase \notin Early
  BY <1>2, SlotTypes DEF Early
<1>4. px.hdr = <<>>
  BY <1>2, <1>3 DEF AnswerInv, Exchange, Framed
<1>5. /\ client' = client
      /\ \E n \in 0 .. Len(px.buf) :
            /\ out' = out \o Take(px.buf, n)
            /\ \/ n = Len(px.buf) /\ px.bodyDone /\ Parks(up, BufSent(n))
               \/ Loop(up, BufSent(n), 1)
               \/ Waits(up, BufSent(n), "idle", "write")
               \/ Falls(up, BufSent(n), FALSE)
  BY StreamOutEffect
<1>6. PICK n \in 0 .. Len(px.buf) :
            /\ out' = out \o Take(px.buf, n)
            /\ \/ n = Len(px.buf) /\ px.bodyDone /\ Parks(up, BufSent(n))
               \/ Loop(up, BufSent(n), 1)
               \/ Waits(up, BufSent(n), "idle", "write")
               \/ Falls(up, BufSent(n), FALSE)
  BY <1>5
<1> DEFINE p == BufSent(n)
           t == Take(px.buf, n)
           d == Drop(px.buf, n)
<1>7. p \in PxRecords /\ p.fd = px.fd /\ p.send100 = px.send100 /\ p.respSent = (px.respSent \/ n > 0)
  BY <1>2, BufSentFacts
<1>8. t \in Seq(Units) /\ d \in Seq(Units) /\ t \o d = px.buf /\ (t # <<>> <=> n > 0) /\ (n = Len(px.buf) => t = px.buf)
  BY <1>3, TakeDrop, TakeNone
<1>9. /\ out' = out \o t
      /\ \/ n = Len(px.buf) /\ px.bodyDone /\ Parks(up, p)
         \/ Loop(up, p, 1)
         \/ Waits(up, p, "idle", "write")
         \/ Falls(up, p, FALSE)
  BY <1>6
<1> HIDE DEF p, t, d
<1>10. Shown(px) = px.buf
  <2>1. Shown(px) = <<>> \o px.buf
    BY <1>2, <1>4 DEF Shown
  <2> QED BY <1>3, <2>1, CatNothing
<1>11. p.respSent = (px.respSent \/ t # <<>>) /\ t \o d = Shown(px)
  BY <1>7, <1>8, <1>10
<1>12. CASE n = Len(px.buf) /\ px.bodyDone /\ Parks(up, p)
  <2>1. out' = out \o Shown(px)
    BY <1>8, <1>9, <1>10, <1>12
  <2> QED BY <1>2, <1>3, <1>12, <2>1, OutParks DEF Kept
<1>13. CASE Loop(up, p, 1) \/ Waits(up, p, "idle", "write")
  <2>1. Goes(up, p)
    BY <1>2, <1>7, <1>13, WaitsGoes, LoopGoes DEF Ios
  <2> QED BY <1>2, <1>3, <1>7, <1>8, <1>9, <1>11, <2>1, OutForwards
<1>14. CASE Falls(up, p, FALSE)
  BY <1>2, <1>3, <1>5, <1>8, <1>9, <1>11, <1>14, OutBroken
<1> QED BY <1>9, <1>12, <1>13, <1>14

\* A piece of the body is read.
LEMMA OutStreamIn ==
    ASSUME SlotInv, AnswerInv, OutInv, PumpStreamIn
    PROVE  Kept
<1>1. Pump
  BY DEF Pump
<1>2. /\ pc = "pump" /\ px.fd # NoUp /\ script' = script /\ ~px.send100 /\ budget > 0
      /\ px.phase = "STREAM"
  BY <1>1, PumpFacts, PumpingFacts DEF PumpStreamIn
<1>3. client' = client /\ out' = out /\ px.buf = <<>>
  BY StreamInEffect
<1>4. px \in PxRecords /\ Moved(up) /\ px.phase \notin Early /\ out \in Seq(Units)
  BY <1>2, SlotTypes, SlotFacts DEF Early
<1>5. \/ \E n \in 1 .. Len(up[px.fd].in) :
            /\ n <= BufMax /\ (px.framing = "cl" => n <= px.respLeft)
            /\ Falls(Emptied(n), px, FALSE) \/ Loop(Emptied(n), Noted(n), 1)
      \/ Waits(up, px, "read", "idle")
      \/ Falls(up, px, FALSE)
      \/ px.framing = "eof" /\ Parks(up, px)
  BY StreamInEffect
<1>6. ASSUME NEW n \in 1 .. Len(up[px.fd].in), n <= BufMax, px.framing = "cl" => n <= px.respLeft,
             Falls(Emptied(n), px, FALSE) \/ Loop(Emptied(n), Noted(n), 1)
      PROVE  Kept
  <2> DEFINE g == Emptied(n)
             p == Noted(n)
  <2>1. Moved(g)
    <3>1. n \in 0 .. Len(up[px.fd].in)
      OBVIOUS
    <3>2. /\ g \in [UpIds -> UpRecords] /\ \A c \in UpIds : c # px.fd => g[c] = up[c]
          /\ g[px.fd].mine = up[px.fd].mine /\ g[px.fd].plan = up[px.fd].plan
          /\ g[px.fd].st = up[px.fd].st /\ g[px.fd].addr = up[px.fd].addr
          /\ g[px.fd].answered = up[px.fd].answered
      BY <1>2, <3>1, SlotTypes, ReadUp DEF Emptied
    <3> QED BY <3>2 DEF Moved
  <2>2. Sound(p) /\ p.send100 = px.send100 /\ p.respSent = px.respSent
    BY <1>2, <1>6, NotedFacts, NotedSame
  <2>3. Falls(g, px, FALSE) \/ Loop(g, p, 1)
    BY <1>6
  <2> HIDE DEF g, p
  <2>4. p \in PxRecords /\ p.fd = px.fd
    BY <2>2 DEF Sound
  <2>5. CASE Falls(g, px, FALSE)
    BY <1>2, <1>3, <2>1, <2>5, OutEnds
  <2>6. CASE Loop(g, p, 1)
    <3>1. Goes(g, p)
      BY <1>2, <2>4, <2>6, LoopGoes
    <3> QED BY <1>2, <1>3, <2>2, <2>4, <3>1, OutStill
  <2> QED BY <2>3, <2>5, <2>6
<1>7. CASE Waits(up, px, "read", "idle")
  BY <1>2, <1>3, <1>7, OutWaits DEF Ios
<1>8. CASE Falls(up, px, FALSE)
  BY <1>2, <1>3, <1>4, <1>8, OutEnds
<1>9. CASE px.framing = "eof" /\ Parks(up, px)
  <2>1. px.hdr = <<>>
    BY <1>2, <1>4 DEF AnswerInv, Exchange, Framed
  <2>2. Shown(px) = <<>> \o <<>>
    BY <1>2, <1>3, <2>1 DEF Shown
  <2>3. <<>> \o <<>> = <<>> /\ <<>> \in Seq(Units)
    BY CatNothing
  <2>4. out' = out \o Shown(px)
    BY <1>3, <1>4, <2>2, <2>3, CatNothing
  <2> QED BY <1>2, <1>4, <1>9, <2>4, OutParks DEF Kept
<1> QED BY <1>5, <1>6, <1>7, <1>8, <1>9

\* The pump answers the client with the upstream's answer, or refuses with a cause.
LEMMA OutPump ==
    ASSUME SlotInv, AnswerInv, OutInv, Pump
    PROVE  Kept
BY OutFlush, OutBudget, OutSendReq, OutSendBody, OutReadBody, OutBodySent, OutRecvHdr,
   OutGathered, OutSendHdr, OutStreamOut, OutStreamIn DEF Pump

-----------------------------------------------------------------------------
(* The steps outside the pump. *)

\* Between two requests nothing is said of what the client has been sent but that it is an answer.
LEMMA OutBare ==
    ASSUME OutInv, script' = script, out' = out, hc'.buf = <<>>, hc'.phase # "WRITE", px'.fd = NoUp, pc' # "reuse"
    PROVE  OutInv'
<1>1. \A s, all, k : Within(s, all, k)' <=> Within(s, all, k)
  BY DEF Within
<1>2. \A x, r : RespUnits(x, r)' = RespUnits(x, r)
  BY DEF RespUnits, HasBody
<1>3. \A s, x : IsAnswer(s, x)' <=> IsAnswer(s, x)
  BY <1>1, <1>2, Zenon DEF IsAnswer
<1>4. (out # <<>> => Proper(out, out[1].id) /\ IsAnswer(Body(out), out[1].id))'
  <2> DEFINE b == Body(out)
             id == out[1].id
  <2>1. out # <<>> => Proper(out, id) /\ IsAnswer(b, id)
    BY DEF OutInv
  <2>2. Body(out)' = b /\ out'[1].id = id
    BY DEF Body
  <2>3. Proper(out, id)' <=> Proper(out, id)
    BY DEF Proper
  <2> HIDE DEF b, id
  <2>4. out # <<>> => IsAnswer(b, id)'
    BY <1>3, <2>1 DEF b, id
  <2> QED BY <2>1, <2>2, <2>3, <2>4 DEF b, id
<1>5. WholeWhenDone'
  BY DEF WholeWhenDone
<1> QED BY <1>4, <1>5 DEF OutInv

\* What the client has been sent, while a request is being answered.
LEMMA OutCur ==
    ASSUME SlotInv, OutInv, hc.buf # <<>>
    PROVE  /\ out \in Seq(Units) /\ (\A i \in DOMAIN out : out[i].id = Cur) /\ IsAnswer(Body(out), Cur)
           /\ Cur \in DOMAIN script
<1>1. out \in Seq(Units) /\ script \in Scripts /\ hc \in HcRecords
  BY DEF SlotInv, Typed
<1>2. Cur \in DOMAIN script
  BY <1>1, HaveFacts DEF Cur
<1>3. CASE out = <<>>
  <2>1. Body(out) = <<>>
    BY <1>3 DEF Body
  <2> QED BY <1>1, <1>2, <1>3, <2>1, NoAnswer
<1>4. CASE out # <<>>
  BY <1>1, <1>2, <1>4 DEF OutInv, Proper
<1> QED BY <1>3, <1>4

\* Nothing that OutInv is about changes, or the slot is closed.
LEMMA OutStays ==
    ASSUME SlotInv, OutInv, UNCHANGED <<script, hc, out>>, px' = px \/ (px'.fd = NoUp /\ pc' = "closed"),
           pc' = pc \/ (pc \notin {"reuse", "closed"} /\ pc' # "reuse") \/ pc' = "closed"
    PROVE  OutInv'
<1>1. CASE hc.buf = <<>>
  <2>1. px.fd = NoUp /\ hc.phase # "WRITE" /\ pc # "reuse"
    BY <1>1 DEF SlotInv, Control
  <2> QED BY <1>1, <2>1, OutBare
<1>2. CASE hc.buf # <<>>
  <2> DEFINE o == out
             id == Cur
  <2>1. o \in Seq(Units) /\ (\A i \in DOMAIN o : o[i].id = id) /\ IsAnswer(Body(o), id)
    BY <1>2, OutCur
  <2>2. px'.fd # NoUp => (~px'.respSent => Body(o) = <<>>) /\ (px'.send100 => o = <<>>)
    <3>1. CASE px' = px
      BY <3>1 DEF OutInv
    <3>2. CASE px'.fd = NoUp
      BY <3>2
    <3> QED BY <3>1, <3>2
  <2>3. hc'.phase = "WRITE" => \E kind \in {"f", "s"} :
               Body(o) \o hc'.left = <<Unit(kind, id, 1), Unit(kind, id, 2)>>
    BY DEF OutInv
  <2>4. hc'.phase = "READ" /\ px'.fd = NoUp /\ pc' \notin {"reuse", "closed"} => o = <<>>
    BY <1>2 DEF OutInv
  <2>5. pc' = "reuse" => Complete(Body(o), id)
    <3>1. pc' = "reuse" => pc = "reuse"
      OBVIOUS
    <3> QED BY <3>1 DEF OutInv, WholeWhenDone, Complete
  <2>6. out' = o /\ Cur' = id
    BY DEF Cur
  <2> HIDE DEF o, id
  <2> QED BY <1>2, <2>1, <2>2, <2>3, <2>4, <2>5, <2>6, OutNow
<1> QED BY <1>1, <1>2

\* No cause goes away while the answer is the same.
LEMMA CauseStays ==
    ASSUME CauseInv, script' = script, hc'.phase = hc.phase, hc'.buf = hc.buf, hc'.excused = hc.excused,
           client.st # "open" => client'.st # "open",
           \A c \in UpIds : up[c].st \in {"fin", "rst"} => up'[c].st \in {"fin", "rst"}
    PROVE  CauseInv'
<1>1. \A c \in UpIds : Failed(c) => Failed(c)'
  BY DEF Failed
<1> QED BY <1>1 DEF CauseInv, Req, Cur

\* The client and the upstreams.
LEMMA OutPeers ==
    ASSUME SlotInv, OutInv, Peers
    PROVE  OutInv' /\ (CauseInv => CauseInv')
<1>1. UNCHANGED <<script, slotVars>>
  BY DEF Peers, ClientSend, ClientLeave, UpAnswer, UpSend, UpLeave
<1>2. client \in ClientRecords /\ script \in Scripts /\ up \in [UpIds -> UpRecords]
  BY DEF SlotInv, Typed
<1>3. client.st # "open" => client'.st # "open"
  <2>1. CASE ClientSend
    BY <2>1 DEF ClientSend
  <2>2. CASE ClientLeave
    BY <1>2, <2>2, LeftClient
  <2>3. CASE client' = client
    BY <2>3
  <2> QED BY <2>1, <2>2, <2>3 DEF Peers, UpAnswer, UpSend, UpLeave
<1>4. \A c \in UpIds : up[c].st \in {"fin", "rst"} => up'[c].st \in {"fin", "rst"}
  <2>1. CASE up' = up
    BY <2>1
  <2>2. ASSUME NEW c \in UpIds, UpAnswer(c)
        PROVE  (\A d \in UpIds : d # c => up'[d] = up[d]) /\ up'[c].st = up[c].st
    BY <1>2, <2>2, AnsweredUp
  <2>3. ASSUME NEW c \in UpIds, UpSend(c)
        PROVE  (\A d \in UpIds : d # c => up'[d] = up[d]) /\ up'[c].st = up[c].st
    BY <1>2, <2>3, SendingUp
  <2>4. ASSUME NEW c \in UpIds, UpLeave(c)
        PROVE  (\A d \in UpIds : d # c => up'[d] = up[d]) /\ up'[c].st \in {"fin", "rst"}
    BY <1>2, <2>4, LeavingUp
  <2>5. CASE ClientSend \/ ClientLeave
    BY <2>5 DEF ClientSend, ClientLeave
  <2> QED BY <2>2, <2>3, <2>4, <2>5 DEF Peers
<1>5. OutInv'
  BY <1>1, OutStays DEF slotVars
<1>6. CauseInv => CauseInv'
  BY <1>1, <1>3, <1>4, CauseStays DEF slotVars
<1> QED BY <1>5, <1>6

\* A slot that goes on without an upstream is at another place only when it has an answer to write,
\* or has written it.
LEMMA IdlesPlace ==
    ASSUME SlotInv, px.fd = NoUp, NEW h, NEW io, Idles(h, io)
    PROVE  /\ hc' = h /\ px' = px /\ px'.fd = NoUp /\ up' = up
           /\ pc' = "closed" \/ pc' \notin {"reuse", "closed"} \/ (pc' = "reuse" /\ io = "done")
<1>1. px = PxReset
  BY IdleUp
<1> QED BY <1>1, ResetFacts DEF Idles, Shut, At, ArmEvents

\* The two units of an answer of the server's own.
LEMMA OwnFacts ==
    ASSUME NEW kind \in {"f", "s"}, NEW id \in DOMAIN script
    PROVE  LET pair == <<Unit(kind, id, 1), Unit(kind, id, 2)>>
           IN  /\ pair \in Seq(Units) /\ Len(pair) = 2
               /\ \A i \in 1 .. 2 : pair[i].id = id /\ pair[i].k = kind /\ pair[i].n = i
<1> DEFINE pair == <<Unit(kind, id, 1), Unit(kind, id, 2)>>
<1>1. kind \in Kinds
  BY DEF Kinds
<1>2. pair \in Seq(Units) /\ Len(pair) = 2 /\ pair[1] = Unit(kind, id, 1) /\ pair[2] = Unit(kind, id, 2)
  BY <1>1, PairFacts
<1> HIDE DEF pair
<1>3. \A i \in 1 .. 2 : i = 1 \/ i = 2
  OBVIOUS
<1>4. \A i \in 1 .. 2 : pair[i].id = id /\ pair[i].k = kind /\ pair[i].n = i
  BY <1>2, <1>3 DEF Unit
<1> QED BY <1>2, <1>4 DEF pair

\* A request is taken up, with nothing of its answer sent.
LEMMA OutNew ==
    ASSUME script' = script, hc'.buf # <<>>, NEW id \in DOMAIN script, Cur' = id, out' = <<>>,
           hc'.phase = "WRITE" => \E kind \in {"f", "s"} : hc'.left = <<Unit(kind, id, 1), Unit(kind, id, 2)>>
    PROVE  OutInv'
<1> DEFINE o == <<>>
<1>1. Body(o) = <<>> /\ o \in Seq(Units) /\ out' = o
  BY DEF Body
<1>2. IsAnswer(Body(o), id) /\ Complete(Body(o), id) /\ \A i \in DOMAIN o : o[i].id = id
  BY <1>1, NoAnswer DEF Complete
<1>3. hc'.phase = "WRITE" => \E kind \in {"f", "s"} :
               Body(o) \o hc'.left = <<Unit(kind, id, 1), Unit(kind, id, 2)>>
  <2>1. ASSUME NEW kind \in {"f", "s"}, hc'.left = <<Unit(kind, id, 1), Unit(kind, id, 2)>>
        PROVE  Body(o) \o hc'.left = <<Unit(kind, id, 1), Unit(kind, id, 2)>>
    <3> DEFINE pair == <<Unit(kind, id, 1), Unit(kind, id, 2)>>
    <3>1. pair \in Seq(Units)
      BY OwnFacts
    <3>2. <<>> \o pair = pair
      <4> HIDE DEF pair
      <4> QED BY <3>1, CatNothing
    <3> QED BY <1>1, <2>1, <3>2
  <2> QED BY <2>1
<1>4. o = <<>>
  OBVIOUS
<1> HIDE DEF o
<1> QED BY <1>1, <1>2, <1>3, <1>4, OutNow

\* A request that is dispatched is refused only because a call failed, unless it is refused by rule.
LEMMA OutDispatch ==
    ASSUME SlotInv, px.fd = NoUp, script' = script, NEW h \in HcRecords, h.buf # <<>>, h.phase = "READ", Dispatch(h)
    PROVE  OutInv' /\ CauseInv'
<1> DEFINE id == h.buf[1].id
           target == script[id].target
<1>1. script \in Scripts
  BY DEF SlotInv, Typed
<1>2. id \in DOMAIN script
  BY <1>1, HaveFacts
<1>3. /\ out' = <<>>
      /\ \/ target = "long" /\ Idles(h, "read")
         \/ target = "static" /\ Idles(Static(h), "write")
         \/ target = "deny" /\ Idles(ArmFixed(h), "write")
         \/ target \in {"a", "b"} /\ Idles(ArmFixed(Excused(h)), "write")
         \/ target \in {"a", "b"} /\ \E c \in UpIds : Begins(h, c)
  BY DispatchEffect
<1>4. ASSUME hc'.buf = h.buf PROVE Cur' = id /\ Req' = script[id]
  BY <1>4 DEF Cur, Req
<1>5. ASSUME hc'.buf = h.buf, hc'.phase = "READ" PROVE OutInv' /\ CauseInv'
  <2>1. hc'.buf # <<>> /\ hc'.phase # "WRITE" /\ Cur' = id
    BY <1>4, <1>5
  <2>2. OutInv'
    BY <1>2, <1>3, <2>1, OutNew
  <2> QED BY <2>1, <2>2 DEF CauseInv
<1>6. ASSUME hc'.buf = h.buf, NEW kind \in {"f", "s"}, hc'.left = <<Unit(kind, id, 1), Unit(kind, id, 2)>>,
             hc'.excused \/ target \notin {"a", "b"}
      PROVE  OutInv' /\ CauseInv'
  <2>1. hc'.buf # <<>> /\ Cur' = id /\ Req' = script[id]
    BY <1>4, <1>6
  <2>2. OutInv'
    BY <1>2, <1>3, <1>6, <2>1, OutNew
  <2> QED BY <1>6, <2>1, <2>2 DEF CauseInv
<1>7. CASE target = "long" /\ Idles(h, "read")
  BY <1>5, <1>7 DEF Idles
<1>8. CASE target = "static" /\ Idles(Static(h), "write")
  <2>1. Static(h).buf = h.buf /\ Static(h).left = <<Unit("s", id, 1), Unit("s", id, 2)>>
    BY <1>1, StaticFacts
  <2>2. hc' = Static(h)
    BY <1>8 DEF Idles
  <2> QED BY <1>6, <1>8, <2>1, <2>2
<1>9. CASE target = "deny" /\ Idles(ArmFixed(h), "write")
  <2>1. ArmFixed(h).buf = h.buf /\ ArmFixed(h).left = <<Unit("f", id, 1), Unit("f", id, 2)>>
    BY ArmFacts DEF Fixed
  <2>2. hc' = ArmFixed(h)
    BY <1>9 DEF Idles
  <2> QED BY <1>6, <1>9, <2>1, <2>2
<1>10. CASE Idles(ArmFixed(Excused(h)), "write")
  <2> DEFINE e == Excused(h)
  <2>1. e \in HcRecords /\ e.buf = h.buf /\ e.excused
    BY ExcusedFacts
  <2>2. hc' = ArmFixed(e)
    BY <1>10 DEF Idles
  <2> HIDE DEF e
  <2>3. ArmFixed(e).buf = h.buf /\ ArmFixed(e).left = <<Unit("f", id, 1), Unit("f", id, 2)>> /\ ArmFixed(e).excused
    BY <2>1, ArmFacts DEF Fixed
  <2> QED BY <1>6, <2>2, <2>3
<1>11. CASE \E c \in UpIds : Begins(h, c)
  <2>1. hc' = [h EXCEPT !.keep = FALSE]
    BY <1>11 DEF Begins
  <2>2. hc'.buf = h.buf /\ hc'.phase = "READ"
    BY <2>1 DEF HcRecords
  <2> QED BY <1>5, <2>2
<1> QED BY <1>3, <1>7, <1>8, <1>9, <1>10, <1>11

\* http_conn_on_read: a header that fills the buffer is refused, whatever it asked for.
LEMMA OutOnRead ==
    ASSUME SlotInv, Quiet, AnswerInv, OutInv, OnRead
    PROVE  OutInv' /\ (CauseInv => CauseInv')
<1>1. script' = script /\ pc = "onread"
  BY OnReadEffect
<1>2. hc.phase = "READ" /\ hc \in HcRecords
  BY <1>1 DEF SlotInv, Control, Typed
<1>3. CASE /\ px.fd # NoUp /\ client' = client /\ out' = out
           /\ Waits(up, px, "none", "read") \/ Falls(up, px, FALSE)
  <2>1. Moved(up)
    BY <1>3, SlotFacts
  <2>2. Kept
    BY <1>1, <1>3, <2>1, OutWaits, OutEnds DEF Ios
  <2>3. Affordable
    BY <1>1 DEF Affordable
  <2> QED BY <2>2, <2>3 DEF Kept
<1>4. CASE px.fd = NoUp /\ out' = out /\ Len(hc.buf) >= HeaderCap /\ Idles(ArmFixed(hc), "write")
  <2> DEFINE id == Cur
  <2>1. hc.buf # <<>>
    BY <1>4, SizesAssumption
  <2>2. out' = <<>>
    BY <1>1, <1>2, <1>4, <2>1 DEF OutInv
  <2>3. hc'.buf = hc.buf /\ hc'.left = <<Unit("f", id, 1), Unit("f", id, 2)>>
    <3>1. hc' = ArmFixed(hc)
      BY <1>4 DEF Idles
    <3> QED BY <1>2, <2>1, <3>1, ArmFacts DEF Fixed, Cur
  <2>4. Cur' = id /\ Req' = Req /\ id \in DOMAIN script
    BY <1>1, <2>1, <2>3, OutCur DEF Cur, Req
  <2>5. Req.target = "long"
    BY <1>1, <1>2, <1>4, <2>1 DEF SlotInv, Control
  <2> HIDE DEF id
  <2>6. OutInv'
    BY <1>1, <2>1, <2>2, <2>3, <2>4, OutNew
  <2> QED BY <2>4, <2>5, <2>6 DEF CauseInv
<1>5. CASE px.fd = NoUp /\ client' = client /\ out' = out /\ (Idles(hc, "read") \/ Idles(hc, "close"))
  <2>1. /\ hc' = hc /\ px' = px /\ up' = up
        /\ pc' = "closed" \/ pc' \notin {"reuse", "closed"}
    BY <1>5, IdlesPlace
  <2>2. OutInv'
    BY <1>1, <1>5, <2>1, OutStays
  <2> QED BY <1>1, <1>5, <2>1, <2>2, CauseStays
<1>6. CASE px.fd = NoUp /\ \E n \in 1 .. Len(client.in) : n <= HeaderCap - Len(hc.buf) /\ Dispatch(Filled(n))
  <2>1. PICK n \in 1 .. Len(client.in) : n <= HeaderCap - Len(hc.buf) /\ Dispatch(Filled(n))
    BY <1>6
  <2> DEFINE h == Filled(n)
  <2>2. h \in HcRecords /\ h.buf # <<>> /\ h.phase = "READ" /\ Dispatch(h)
    BY <1>2, <2>1, FilledFacts
  <2> HIDE DEF h
  <2> QED BY <1>1, <1>6, <2>2, OutDispatch
<1> QED BY <1>3, <1>4, <1>5, <1>6, OnReadEffect

\* What is left of an answer past its 100 is a sequence of units.
LEMMA BodySeq ==
    ASSUME NEW us \in Seq(Units)
    PROVE  Body(us) \in Seq(Units)
<1>1. CASE us = <<>>
  BY <1>1 DEF Body
<1>2. CASE us # <<>>
  <2>1. Tail(us) \in Seq(Units)
    BY <1>2, TailFacts
  <2> QED BY <2>1 DEF Body
<1> QED BY <1>1, <1>2

\* The second of two joined sequences follows the first.
LEMMA CatLast ==
    ASSUME NEW s \in Seq(Units), NEW t \in Seq(Units)
    PROVE  \A i \in 1 .. Len(t) : (s \o t)[Len(s) + i] = t[i]
BY CatFacts

\* The rest of an answer of the server's own is written.
LEMMA OutWrites ==
    ASSUME NEW id \in DOMAIN script, NEW kind \in {"f", "s"}, NEW pair, pair = <<Unit(kind, id, 1), Unit(kind, id, 2)>>,
           NEW us \in Seq(Units), (\A i \in DOMAIN us : us[i].id = id), NEW left \in Seq(Units), NEW n \in 0 .. Len(left),
           Body(us) \in Seq(Units), Body(us) \o left = pair
    PROVE  LET o == us \o Take(left, n)
           IN  /\ o \in Seq(Units) /\ (\A i \in DOMAIN o : o[i].id = id) /\ IsAnswer(Body(o), id)
               /\ Body(o) \o Drop(left, n) = pair /\ Complete(Body(o), id)
<1> DEFINE b == Body(us)
           t == Take(left, n)
           d == Drop(left, n)
           o == us \o t
           v == b \o t
<1>1. pair \in Seq(Units) /\ Len(pair) = 2 /\ \A i \in 1 .. 2 : pair[i].id = id /\ pair[i].k = kind /\ pair[i].n = i
  BY OwnFacts
<1>2. /\ t \in Seq(Units) /\ d \in Seq(Units) /\ t \o d = left
      /\ Len(t) = n /\ \A i \in 1 .. n : t[i] = left[i]
  BY TakeDrop, TakeFacts
<1>3. b \in Seq(Units) /\ b \o left = pair
  OBVIOUS
<1>4. Len(b) \in Nat /\ Len(left) \in Nat /\ Len(us) \in Nat /\ Len(t) \in Nat
  BY <1>2, <1>3, DomFacts
<1> HIDE DEF b, t, d
<1>5. \A i \in 1 .. Len(left) : left[i].id = id /\ left[i].k = kind
  <2>1. Len(b \o left) = Len(b) + Len(left)
    BY <1>3, CatFacts
  <2>2. left \in Seq(Units)
    OBVIOUS
  <2>3. \A i \in 1 .. Len(left) : (b \o left)[Len(b) + i] = left[i]
    BY <1>3, <2>2, CatLast, Zenon
  <2>4. \A i \in 1 .. Len(left) : Len(b) + i \in 1 .. 2
    BY <1>1, <1>3, <1>4, <2>1
  <2>5. ASSUME NEW i \in 1 .. Len(left)
        PROVE  left[i].id = id /\ left[i].k = kind
    <3>1. left[i] = pair[Len(b) + i] /\ Len(b) + i \in 1 .. 2
      BY <1>3, <2>3, <2>4, Zenon
    <3> QED BY <1>1, <3>1, Zenon
  <2> QED BY <2>5
<1>6. \A i \in DOMAIN t : t[i].id = id /\ t[i].k = kind
  <2>1. DOMAIN t = 1 .. n
    BY <1>2, DomFacts
  <2> QED BY <1>2, <1>4, <1>5, <2>1
<1>7. o \in Seq(Units) /\ \A i \in DOMAIN o : o[i].id = id
  <2>1. us \o t \in Seq(Units) /\ Len(us \o t) = Len(us) + Len(t)
    BY <1>2, CatFacts
  <2>2. \A i \in 1 .. Len(us) : (us \o t)[i] = us[i]
    BY <1>2, CatFacts
  <2>3. \A i \in 1 .. Len(t) : (us \o t)[Len(us) + i] = t[i]
    BY <1>2, CatFacts
  <2>4. DOMAIN us = 1 .. Len(us) /\ DOMAIN t = 1 .. Len(t) /\ DOMAIN o = 1 .. Len(o)
    BY <1>2, <2>1, DomFacts
  <2>5. Len(o) = Len(us) + Len(t)
    BY <2>1
  <2>6. ASSUME NEW i \in 1 .. Len(o)
        PROVE  i \in 1 .. Len(us) \/ \E j \in 1 .. Len(t) : i = Len(us) + j
    <3>1. CASE i <= Len(us)
      BY <1>4, <2>5, <3>1
    <3>2. CASE i > Len(us)
      <4>1. i - Len(us) \in 1 .. Len(t) /\ i = Len(us) + (i - Len(us))
        BY <1>4, <2>5, <3>2
      <4> QED BY <4>1
    <3> QED BY <1>4, <2>5, <3>1, <3>2
  <2>7. ASSUME NEW i \in 1 .. Len(o) PROVE o[i].id = id
    <3>1. CASE i \in 1 .. Len(us)
      <4>1. o[i] = us[i]
        BY <2>2, <3>1, Zenon
      <4> QED BY <2>4, <3>1, <4>1, Zenon
    <3>2. CASE \E j \in 1 .. Len(t) : i = Len(us) + j
      <4>1. PICK j \in 1 .. Len(t) : i = Len(us) + j
        BY <3>2
      <4>2. o[i] = t[j]
        BY <2>3, <4>1, Zenon
      <4> QED BY <1>6, <2>4, <4>1, <4>2, Zenon
    <3> QED BY <2>6, <3>1, <3>2, Zenon
  <2> QED BY <2>1, <2>4, <2>7, Zenon
<1>8. Body(o) = v /\ v \in Seq(Units)
  <2>1. \A i \in DOMAIN t : t[i].k # "100"
    BY <1>6
  <2>2. Body(us \o t) = Body(us) \o t
    BY <1>2, <2>1, BodyCat
  <2> QED BY <1>2, <1>3, <2>2, CatFacts DEF b
<1>9. v \o d = pair
  <2>1. (b \o t) \o d = b \o (t \o d)
    BY <1>2, <1>3, CatAssoc, Zenon
  <2> QED BY <1>2, <1>3, <2>1
<1> HIDE DEF v, o
<1>10. Within(v, pair, 0)
  <2>1. Len(v \o d) = Len(v) + Len(d) /\ Len(v) \in Nat /\ Len(d) \in Nat
    BY <1>2, <1>8, CatFacts, DomFacts
  <2>2. \A i \in 1 .. Len(v) : (v \o d)[i] = v[i]
    BY <1>2, <1>8, CatFacts
  <2>3. DOMAIN v = 1 .. Len(v)
    BY <1>8, DomFacts
  <2>4. Len(v) <= Len(pair)
    BY <1>9, <2>1
  <2>5. \A i \in DOMAIN v : v[i] = pair[0 + i]
    BY <1>9, <2>1, <2>2, <2>3
  <2>6. 0 + Len(v) <= Len(pair)
    BY <2>1, <2>4
  <2> QED BY <2>5, <2>6 DEF Within
<1>11. IsAnswer(v, id)
  BY <1>10 DEF IsAnswer
<1>12. Complete(v, id)
  <2>1. ASSUME v # <<>> PROVE v[1].k # "h"
    <3>1. 1 \in DOMAIN v
      BY <1>8, <2>1, DomFacts
    <3>2. v[1] = pair[0 + 1]
      BY <1>10, <3>1, Zenon DEF Within
    <3>3. 0 + 1 = 1
      OBVIOUS
    <3>4. v[1] = pair[1]
      BY <3>2, <3>3, Zenon
    <3> QED BY <1>1, <3>4
  <2> QED BY <2>1 DEF Complete
<1> QED BY <1>7, <1>8, <1>9, <1>11, <1>12 DEF o, t, d

\* http_conn_on_write goes on with the answer it has begun.
LEMMA OutOnWrite ==
    ASSUME SlotInv, OutInv, OnWrite
    PROVE  OutInv' /\ (CauseInv => CauseInv')
<1>1. /\ script' = script /\ client' = client /\ pc = "onwrite" /\ px.fd = NoUp
      /\ hc.phase = "WRITE" /\ hc.buf # <<>>
      /\ \E n \in 0 .. Len(hc.left), io \in {"write", "done", "close"} :
             out' = out \o Take(hc.left, n) /\ Idles(Written(n), io)
  BY OnWriteEffect
<1>2. PICK n \in 0 .. Len(hc.left), io \in {"write", "done", "close"} :
             out' = out \o Take(hc.left, n) /\ Idles(Written(n), io)
  BY <1>1
<1> DEFINE id == Cur
           o == out \o Take(hc.left, n)
<1>3. out \in Seq(Units) /\ (\A i \in DOMAIN out : out[i].id = id) /\ id \in DOMAIN script
  BY <1>1, OutCur
<1>4. hc \in HcRecords /\ hc.left \in Seq(Units)
  BY DEF SlotInv, Typed, HcRecords
<1>5. PICK kind \in {"f", "s"} : Body(out) \o hc.left = <<Unit(kind, id, 1), Unit(kind, id, 2)>>
  BY <1>1 DEF OutInv
<1> DEFINE pair == <<Unit(kind, id, 1), Unit(kind, id, 2)>>
<1>6. Body(out) \in Seq(Units)
  BY <1>3, BodySeq
<1>7. /\ o \in Seq(Units) /\ (\A i \in DOMAIN o : o[i].id = id) /\ IsAnswer(Body(o), id)
      /\ Body(o) \o Drop(hc.left, n) = pair /\ Complete(Body(o), id)
  BY <1>3, <1>4, <1>5, <1>6, OutWrites
<1>8. hc'.buf = hc.buf /\ hc'.phase = "WRITE" /\ hc'.excused = hc.excused /\ hc'.left = Drop(hc.left, n)
  <2>1. hc' = Written(n)
    BY <1>2 DEF Idles
  <2> QED BY <1>1, <1>4, <2>1, WrittenFacts
<1>9. px'.fd = NoUp /\ up' = up
  BY <1>1, <1>2, IdlesPlace
<1>10. out' = o /\ Cur' = id /\ hc'.buf # <<>>
  BY <1>1, <1>2, <1>8 DEF Cur
<1>11. hc'.phase = "WRITE" => \E k \in {"f", "s"} :
               Body(o) \o hc'.left = <<Unit(k, id, 1), Unit(k, id, 2)>>
  BY <1>7, <1>8
<1> HIDE DEF o, id, pair
<1>12. OutInv'
  BY <1>1, <1>7, <1>8, <1>9, <1>10, <1>11, OutNow
<1>13. CauseInv => CauseInv'
  BY <1>1, <1>8, <1>9, CauseStays
<1> QED BY <1>12, <1>13

\* http_conn_reuse begins the next answer with nothing sent.
LEMMA OutReuse ==
    ASSUME SlotInv, OutInv, Reuse
    PROVE  OutInv' /\ (CauseInv => CauseInv')
<1>1. script' = script /\ client' = client /\ px.fd = NoUp /\ hc.buf # <<>> /\ pc = "reuse"
  BY ReuseEffect
<1>2. CASE hc' = hc /\ out' = out /\ Shut(CloseUp(up, px.fd))
  <2>1. up' = up /\ px'.fd = NoUp /\ pc' = "closed"
    BY <1>1, <1>2, CloseNone, ResetFacts DEF Shut
  <2>2. OutInv'
    BY <1>1, <1>2, <2>1, OutStays
  <2> QED BY <1>1, <1>2, <2>1, <2>2, CauseStays
<1>3. CASE out' = out /\ Idles(HcReset(<<>>), "read")
  <2>1. <<>> \in Seq(Units)
    OBVIOUS
  <2>2. hc' = HcReset(<<>>) /\ px'.fd = NoUp /\ pc' # "reuse"
    BY <1>1, <1>3, IdlesPlace
  <2>3. hc'.buf = <<>> /\ hc'.phase = "READ"
    BY <2>1, <2>2, HcResetFacts
  <2>4. OutInv'
    BY <1>1, <1>3, <2>2, <2>3, OutBare
  <2> QED BY <2>3, <2>4 DEF CauseInv
<1>4. CASE hc.keep /\ Len(hc.buf) > 1 /\ Dispatch(HcReset(Tail(hc.buf)))
  <2> DEFINE b == Tail(hc.buf)
             h == HcReset(b)
  <2>1. hc.buf \in Seq(Units)
    BY DEF SlotInv, Typed, HcRecords
  <2>2. b \in Seq(Units) /\ Len(b) = Len(hc.buf) - 1 /\ Len(hc.buf) \in Nat
    BY <1>1, <2>1, TailFacts
  <2>3. Dispatch(h)
    BY <1>4
  <2> HIDE DEF b
  <2>4. b # <<>>
    BY <1>4, <2>2
  <2>5. h \in HcRecords /\ h.buf = b /\ h.phase = "READ"
    BY <2>2, HcResetFacts
  <2> HIDE DEF h
  <2> QED BY <1>1, <2>3, <2>4, <2>5, OutDispatch
<1> QED BY <1>2, <1>3, <1>4, ReuseEffect

\* The worker's loop changes nothing of an answer, or closes the slot.
LEMMA OutTurns ==
    ASSUME SlotInv, OutInv, EpollWait \/ HandleEvent \/ Timeout \/ WorkerExit \/ UNCHANGED vars
    PROVE  OutInv' /\ (CauseInv => CauseInv')
<1>1. up \in [UpIds -> UpRecords] /\ px.fd \in UpIds \cup {NoUp}
  BY DEF SlotInv, Typed, TypeOK
<1>2. ASSUME up' = CloseUp(up, px.fd) PROVE \A c \in UpIds : up'[c].st = up[c].st
  <2>1. CASE px.fd = NoUp
    BY <1>2, <2>1, CloseNone
  <2>2. CASE px.fd \in UpIds
    <3>1. /\ \A c \in UpIds : c # px.fd => CloseUp(up, px.fd)[c] = up[c]
          /\ CloseUp(up, px.fd)[px.fd].st = up[px.fd].st
      BY <1>1, <2>2, ClosedUp, Zenon
    <3> QED BY <1>2, <3>1, Zenon
  <2> QED BY <1>1, <2>1, <2>2
<1>3. ASSUME UNCHANGED <<script, client, hc, out>>, Shut(CloseUp(up, px.fd))
      PROVE  OutInv' /\ (CauseInv => CauseInv')
  <2>1. up' = CloseUp(up, px.fd) /\ px'.fd = NoUp /\ pc' = "closed"
    BY <1>3, ResetFacts DEF Shut
  <2> QED BY <1>2, <1>3, <2>1, OutStays, CauseStays
<1>4. CASE EpollWait \/ UNCHANGED vars
  <2>1. UNCHANGED <<script, client, hc, px, up, out>> /\ (pc' = pc \/ (pc = "wait" /\ pc' = "batch"))
    BY <1>4 DEF EpollWait, vars
  <2> QED BY <2>1, OutStays, CauseStays
<1>5. CASE HandleEvent
  <2>1. UNCHANGED <<script, client, hc, out>> /\ pc = "batch"
    BY <1>5, HandleEffect
  <2>2. CASE Shut(CloseUp(up, px.fd))
    BY <1>3, <2>1, <2>2
  <2>3. CASE px' = px /\ up' = up /\ pc' # "reuse"
    BY <2>1, <2>3, OutStays, CauseStays
  <2> QED BY <1>5, <2>2, <2>3, HandleEffect
<1>6. CASE Timeout
  <2>1. UNCHANGED <<script, client, hc, out>> /\ Shut(CloseUp(up, px.fd))
    BY <1>6 DEF Timeout, SlotClose, Shut
  <2> QED BY <1>3, <2>1
<1>7. CASE WorkerExit
  <2>1. UNCHANGED <<script, client, hc, out>>
    BY <1>7 DEF WorkerExit
  <2>2. px'.fd = NoUp /\ pc' = "closed" /\ \A c \in UpIds : up'[c].st = up[c].st
    BY <1>7, ExitUp, ResetFacts
  <2> QED BY <2>1, <2>2, OutStays, CauseStays
<1> QED BY <1>4, <1>5, <1>6, <1>7

\* OutInv is inductive, given AnswerInv; so is CauseInv while the budget is affordable.
LEMMA OutNext ==
    ASSUME SlotInv, Quiet, AnswerInv, OutInv, [Next]_vars
    PROVE  OutInv' /\ (Affordable /\ CauseInv => CauseInv')
<1>1. CASE Pump
  BY <1>1, OutPump DEF Kept
<1> QED BY <1>1, OutPeers, OutOnRead, OutOnWrite, OutReuse, OutTurns DEF Next

\* They hold at the start.
LEMMA OutInit ==
    ASSUME Init
    PROVE  OutInv /\ CauseInv
BY ResetFacts DEF Init, HcReset, OutInv, CauseInv, WholeWhenDone

\* An answer is shown as ResponseIntact says.
LEMMA AnswerShape ==
    ASSUME NEW id \in DOMAIN script, NEW us \in Seq(Units), IsAnswer(us, id)
    PROVE  /\ \A i \in DOMAIN us : us[i].n = i \/ us[i].n = i - 2
           /\ \A i \in DOMAIN us :
                 us[i].k \in (CASE us[1].k = "f" -> {"f"} [] us[1].k = "s" -> {"s"}
                                [] OTHER -> IF i = 1 THEN {"h"} ELSE IF i = 2 THEN {"hend"}
                                            ELSE {"d", "z"})
           /\ \A i \in 3 .. Len(us) : us[i].n = i - 2
<1>1. DOMAIN us = 1 .. Len(us) /\ Len(us) \in Nat
  BY DomFacts
<1>2. ASSUME NEW kind \in {"f", "s"}, Within(us, <<Unit(kind, id, 1), Unit(kind, id, 2)>>, 0)
      PROVE  Len(us) <= 2 /\ \A i \in DOMAIN us : us[i].k = kind /\ us[i].n = i
  <2> DEFINE pair == <<Unit(kind, id, 1), Unit(kind, id, 2)>>
  <2>1. Len(pair) = 2 /\ \A i \in 1 .. 2 : pair[i].k = kind /\ pair[i].n = i
    BY OwnFacts
  <2>2. 0 + Len(us) <= Len(pair) /\ \A i \in DOMAIN us : us[i] = pair[0 + i]
    BY <1>2 DEF Within
  <2> HIDE DEF pair
  <2>3. Len(us) <= 2 /\ \A i \in DOMAIN us : us[i] = pair[i] /\ i \in 1 .. 2
    BY <1>1, <2>1, <2>2
  <2> QED BY <2>1, <2>3
<1>3. ASSUME NEW r \in Responses, Within(us, RespUnits(id, r), r.info), \A i \in DOMAIN us : us[i].k # "x"
      PROVE  \A i \in 1 .. Len(us) :
              /\ i = 1 => us[i].k = "h" /\ us[i].n = 1
              /\ i = 2 => us[i].k = "hend" /\ us[i].n = 2
              /\ i > 2 => us[i].k \in {"d", "z"} /\ us[i].n = i - 2
  BY <1>1, <1>3, AnswerUnits
<1>4. CASE \E kind \in {"f", "s"} : Within(us, <<Unit(kind, id, 1), Unit(kind, id, 2)>>, 0)
  <2>1. PICK kind \in {"f", "s"} : Len(us) <= 2 /\ \A i \in DOMAIN us : us[i].k = kind /\ us[i].n = i
    BY <1>2, <1>4
  <2>2. \A i \in DOMAIN us : us[1].k = kind
    BY <1>1, <2>1
  <2> QED BY <1>1, <2>1, <2>2
<1>5. CASE \E r \in Responses : Within(us, RespUnits(id, r), r.info) /\ \A i \in DOMAIN us : us[i].k # "x"
  <2>1. \A i \in 1 .. Len(us) :
              /\ i = 1 => us[i].k = "h" /\ us[i].n = 1
              /\ i = 2 => us[i].k = "hend" /\ us[i].n = 2
              /\ i > 2 => us[i].k \in {"d", "z"} /\ us[i].n = i - 2
    BY <1>3, <1>5
  <2>2. \A i \in DOMAIN us : us[1].k = "h"
    BY <1>1, <2>1
  <2>3. \A i \in 1 .. Len(us) : i = 1 \/ i = 2 \/ i > 2
    BY <1>1
  <2> QED BY <1>1, <2>1, <2>2, <2>3
<1> QED BY <1>4, <1>5 DEF IsAnswer

\* What ProxySlot's steps preserve, as long as no unforeseen call fails: who holds which
\* upstream, what each was sent, what of each answer is where, and what the client has.
LEMMA IntactNext ==
    ASSUME Bodyless, Quiet, [Next]_vars, SlotInv, HandInv, GotInv, RequestInv, AnswerInv, OutInv
    PROVE  SlotInv' /\ HandInv' /\ GotInv' /\ RequestInv' /\ AnswerInv' /\ OutInv'
BY SlotNext, HandNext, RequestNext, AnswerNext, OutNext

\* OutInv says that what the client has been sent is intact.
LEMMA IntactShown ==
    ASSUME SlotInv, OutInv
    PROVE  ResponseIntact
<1> DEFINE us == Body(out)
           id == out[1].id
<1>1. out \in Seq(Units)
  BY DEF SlotInv, Typed
<1>2. us \in Seq(Units)
  BY <1>1, BodySeq
<1>3. /\ Proper(out, id) \/ out = <<>>
      /\ hc.buf # <<>> /\ out # <<>> => id = Cur
      /\ WholeWhenDone
  BY DEF OutInv
<1>4. CASE out = <<>>
  <2>1. us = <<>> /\ DOMAIN us = {} /\ Len(us) = 0
    BY <1>4 DEF Body
  <2>2. 3 .. Len(us) = {}
    BY <2>1
  <2> HIDE DEF us, id
  <2>3. /\ \A i \in DOMAIN us : us[i].n = i \/ us[i].n = i - 2
        /\ \A i \in DOMAIN us :
              us[i].k \in (CASE us[1].k = "f" -> {"f"} [] us[1].k = "s" -> {"s"}
                             [] OTHER -> IF i = 1 THEN {"h"} ELSE IF i = 2 THEN {"hend"}
                                         ELSE {"d", "z"})
        /\ \A i \in 3 .. Len(us) : us[i].n = i - 2
    BY <2>1, <2>2, Zenon
  <2> QED BY <1>3, <2>3, Zenon DEF ResponseIntact, us, id
<1>5. CASE out # <<>>
  <2>1. id \in DOMAIN script
    <3>1. 1 \in DOMAIN out
      BY <1>1, <1>5, DomFacts
    <3> QED BY <1>1, <3>1 DEF Units
  <2>2. IsAnswer(us, id)
    BY <1>5 DEF OutInv
  <2> HIDE DEF us, id
  <2>3. /\ \A i \in DOMAIN us : us[i].n = i \/ us[i].n = i - 2
        /\ \A i \in DOMAIN us :
              us[i].k \in (CASE us[1].k = "f" -> {"f"} [] us[1].k = "s" -> {"s"}
                             [] OTHER -> IF i = 1 THEN {"h"} ELSE IF i = 2 THEN {"hend"}
                                         ELSE {"d", "z"})
        /\ \A i \in 3 .. Len(us) : us[i].n = i - 2
    BY <1>2, <2>1, <2>2, AnswerShape
  <2> QED BY <1>3, <2>3, Zenon DEF ResponseIntact, us, id
<1> QED BY <1>4, <1>5

\* ResponseIntact: what the client is sent for a request is one answer, to that request,
\* in order and without gaps, whatever the interleaving of events, retries and closes, and
\* also where upstreams send past their answers.  When http_conn_reuse takes the next request,
\* an answer whose header tells its length is complete; of one that the upstream's close ends
\* it is not claimed that the client can tell where it ended, since the code keeps the
\* connection without saying so.
THEOREM ResponseIntactHolds ==
    ASSUME Bodyless
    PROVE  Spec /\ []Quiet => []ResponseIntact
<1> DEFINE Inv == SlotInv /\ HandInv /\ GotInv /\ RequestInv /\ AnswerInv /\ OutInv
<1>1. Init => Inv
  BY SlotInit, HandInit, RequestInit, AnswerInit, OutInit
<1>2. Inv /\ Quiet /\ [Next]_vars => Inv'
  BY IntactNext
<1>3. Inv => ResponseIntact
  BY IntactShown
<1> HIDE DEF Inv
<1> QED BY <1>1, <1>2, <1>3, PTL DEF Spec

\* BadGatewayForCause: a request that goes upstream is answered 502 only when an upstream
\* closed, reset or may send a malformed answer, when a call failed for this request, or
\* when the client has left; as long as the budget of the pump's loop ends at no bad place.
THEOREM BadGatewayForCauseHolds ==
    ASSUME Bodyless
    PROVE  Spec /\ []Quiet /\ []Affordable => []BadGatewayForCause
<1> DEFINE Inv == SlotInv /\ HandInv /\ GotInv /\ RequestInv /\ AnswerInv /\ OutInv /\ CauseInv
<1>1. Init => Inv
  BY SlotInit, HandInit, RequestInit, AnswerInit, OutInit
<1>2. Inv /\ Quiet /\ Affordable /\ [Next]_vars => Inv'
  BY IntactNext, OutNext
<1>3. Inv => BadGatewayForCause
  BY DEF CauseInv, BadGatewayForCause
<1> HIDE DEF Inv
<1> QED BY <1>1, <1>2, <1>3, PTL DEF Spec

=============================================================================
