-------------------------- MODULE ProxySlotProofs ---------------------------
(***************************************************************************)
(* Theorems about ProxySlot: where the slot and its sockets are, what      *)
(* the slot waits for, and that a POST goes to one upstream only.          *)
(*                                                                         *)
(* They are stated of the behaviours in which http_conn_on_read, going on  *)
(* after the proxy asked to wait for the client, finds nothing new (Quiet: *)
(* OneUpstream is violated without it), and, for what the slot waits for,  *)
(* in which the pump's budget is not used up where its last lines have no  *)
(* answer (Affordable).  SlotInv is inductive; every action is brought     *)
(* into the form of one of a few effects (Goes, Waits, Falls, Parks,       *)
(* Renews, Idles, Begins), and each effect keeps it.  On it rest the       *)
(* client's bytes and what is in hand of them (HandInv), and what of a     *)
(* POST is upstream (PostInv).                                             *)
(***************************************************************************)
EXTENDS ProxySlot, SequenceTheorems, FiniteSetTheorems, TLAPS

-----------------------------------------------------------------------------
(* Numbers. *)

\* Every nonempty set of naturals has a least element.
LEMMA LeastNatural ==
    ASSUME NEW T \in SUBSET Nat, T # {}
    PROVE  \E x \in T : \A y \in T : x <= y
<1>1. \E x \in T : \A y \in T : ~(<<y, x>> \in OpToRel(<, Nat))
  BY WFMin, NatLessThanWellFounded
<1>2. PICK x \in T : \A y \in T : ~(<<y, x>> \in OpToRel(<, Nat))
  BY <1>1
<1>3. \A y \in T : y < x => <<y, x>> \in OpToRel(<, Nat)
  BY DEF OpToRel
<1>4. \A y \in T : ~(y < x)
  BY <1>2, <1>3, Zenon
<1> QED BY <1>4

-----------------------------------------------------------------------------
(* Sequences. *)

\* A piece of a sequence.
LEMMA SubFacts ==
    ASSUME NEW S, NEW s \in Seq(S), NEW a \in Nat, NEW b \in Nat, a <= b, b <= Len(s)
    PROVE  /\ SubSeq(s, a + 1, b) \in Seq(S) /\ Len(SubSeq(s, a + 1, b)) = b - a
           /\ \A i \in 1 .. b - a : SubSeq(s, a + 1, b)[i] = s[a + i]
<1>1. \A i \in a + 1 .. b : s[i] \in S
  OBVIOUS
<1>2. SubSeq(s, a + 1, b) = [i \in 1 .. b - a |-> s[i + (a + 1) - 1]]
  OBVIOUS
<1>3. \A i \in 1 .. b - a : i + (a + 1) - 1 = a + i /\ a + i \in a + 1 .. b
  OBVIOUS
<1>4. SubSeq(s, a + 1, b) = [i \in 1 .. b - a |-> s[a + i]]
  BY <1>2, <1>3
<1>5. SubSeq(s, a + 1, b) \in [1 .. b - a -> S]
  BY <1>1, <1>3, <1>4
<1>6. b - a \in Nat
  OBVIOUS
<1> QED BY <1>4, <1>5, <1>6

\* The first n units of a sequence.
LEMMA TakeFacts ==
    ASSUME NEW S, NEW s \in Seq(S), NEW n \in 0 .. Len(s)
    PROVE  /\ Take(s, n) \in Seq(S) /\ Len(Take(s, n)) = n
           /\ \A i \in 1 .. n : Take(s, n)[i] = s[i]
<1>1. n \in Nat /\ 0 <= n /\ n <= Len(s) /\ 0 \in Nat
  OBVIOUS
<1>2. /\ SubSeq(s, 0 + 1, n) \in Seq(S) /\ Len(SubSeq(s, 0 + 1, n)) = n - 0
      /\ \A i \in 1 .. n - 0 : SubSeq(s, 0 + 1, n)[i] = s[0 + i]
  BY <1>1, SubFacts
<1>3. 0 + 1 = 1 /\ n - 0 = n /\ \A i \in 1 .. n : 0 + i = i
  BY <1>1
<1> QED BY <1>2, <1>3 DEF Take

\* What is left after the first n units.
LEMMA DropFacts ==
    ASSUME NEW S, NEW s \in Seq(S), NEW n \in 0 .. Len(s)
    PROVE  /\ Drop(s, n) \in Seq(S) /\ Len(Drop(s, n)) = Len(s) - n
           /\ \A i \in 1 .. Len(s) - n : Drop(s, n)[i] = s[n + i]
<1>1. n \in Nat /\ Len(s) \in Nat /\ n <= Len(s)
  OBVIOUS
<1> QED BY <1>1, SubFacts DEF Drop

\* Two sequences, one after the other.
LEMMA CatFacts ==
    ASSUME NEW S, NEW s \in Seq(S), NEW t \in Seq(S)
    PROVE  /\ s \o t \in Seq(S) /\ Len(s \o t) = Len(s) + Len(t)
           /\ \A i \in 1 .. Len(s) : (s \o t)[i] = s[i]
           /\ \A i \in 1 .. Len(t) : (s \o t)[Len(s) + i] = t[i]
<1>1. /\ s \o t \in Seq(S) /\ Len(s \o t) = Len(s) + Len(t)
      /\ \A i \in 1 .. Len(s) + Len(t) : (s \o t)[i] = IF i <= Len(s) THEN s[i] ELSE t[i - Len(s)]
  BY ConcatProperties
<1>2. Len(s) \in Nat /\ Len(t) \in Nat
  OBVIOUS
<1>3. ASSUME NEW i \in 1 .. Len(s) PROVE (s \o t)[i] = s[i]
  <2>1. i \in 1 .. Len(s) + Len(t) /\ i <= Len(s)
    BY <1>2
  <2> QED BY <1>1, <2>1
<1>4. ASSUME NEW i \in 1 .. Len(t) PROVE (s \o t)[Len(s) + i] = t[i]
  <2>1. Len(s) + i \in 1 .. Len(s) + Len(t) /\ ~(Len(s) + i <= Len(s)) /\ (Len(s) + i) - Len(s) = i
    BY <1>2
  <2> QED BY <1>1, <2>1
<1> QED BY <1>1, <1>3, <1>4

\* A sequence with one more unit.
LEMMA AddFacts ==
    ASSUME NEW S, NEW s \in Seq(S), NEW x \in S
    PROVE  /\ Append(s, x) \in Seq(S) /\ Len(Append(s, x)) = Len(s) + 1
           /\ \A i \in 1 .. Len(s) : Append(s, x)[i] = s[i]
           /\ Append(s, x)[Len(s) + 1] = x
  BY AppendProperties

\* A sequence without its first unit.
LEMMA TailFacts ==
    ASSUME NEW S, NEW s \in Seq(S), s # <<>>
    PROVE  /\ Tail(s) \in Seq(S) /\ Len(Tail(s)) = Len(s) - 1
           /\ \A i \in 1 .. Len(s) - 1 : Tail(s)[i] = s[i + 1]
           /\ s[1] \in S /\ Len(s) \in Nat \ {0} /\ Head(s) = s[1]
<1>1. Len(s) \in Nat /\ Len(s) # 0
  BY EmptySeq
<1>2. 1 \in 1 .. Len(s)
  BY <1>1
<1>3. s[1] \in S
  BY <1>2
<1> QED BY <1>1, <1>3, HeadTailProperties

\* The domain of a sequence, and when it is empty.
LEMMA DomFacts ==
    ASSUME NEW S, NEW s \in Seq(S)
    PROVE  DOMAIN s = 1 .. Len(s) /\ Len(s) \in Nat /\ (s = <<>> <=> Len(s) = 0)
  BY EmptySeq

\* Two sequences are empty together when both are.
LEMMA EmptyCat ==
    ASSUME NEW s \in Seq(Units), NEW t \in Seq(Units)
    PROVE  s \o t = <<>> <=> s = <<>> /\ t = <<>>
<1>1. Len(s \o t) = Len(s) + Len(t) /\ s \o t \in Seq(Units) /\ Len(s) \in Nat /\ Len(t) \in Nat
  BY CatFacts
<1> DEFINE u == s \o t
<1>2. u \in Seq(Units) /\ Len(u) = Len(s) + Len(t)
  BY <1>1
<1> HIDE DEF u
<1>3. (u = <<>> <=> Len(u) = 0) /\ (s = <<>> <=> Len(s) = 0) /\ (t = <<>> <=> Len(t) = 0)
  BY <1>2, EmptySeq
<1>4. u = <<>> <=> s = <<>> /\ t = <<>>
  BY <1>1, <1>2, <1>3
<1> QED BY <1>4 DEF u

-----------------------------------------------------------------------------
(* System calls. *)

\* What send() may return: an error only when the peer has left, EAGAIN only with units left.
LEMMA SendFacts ==
    ASSUME NEW len \in Nat, NEW st \in {"open", "fin", "rst"}, NEW o \in SendOutcomes(len, st)
    PROVE  /\ o.n \in 0 .. len /\ o.res \in {"ok", "again", "dead"}
           /\ o.res = "ok" => o.n = len
           /\ o.res = "again" => o.n < len
           /\ o.res = "dead" => st # "open"
           /\ st = "rst" => o.res = "dead" /\ o.n = 0
<1>1. CASE st = "rst"
  <2>1. o = [n |-> 0, res |-> "dead"]
    BY <1>1 DEF SendOutcomes
  <2> QED BY <1>1, <2>1
<1>2. CASE st = "open"
  <2>1. \/ o = [n |-> len, res |-> "ok"]
        \/ \E n \in 0 .. len - 1 : o = [n |-> n, res |-> "again"]
    BY <1>2 DEF SendOutcomes
  <2> QED BY <1>2, <2>1
<1>3. CASE st = "fin"
  <2>1. \/ o = [n |-> len, res |-> "ok"]
        \/ \E n \in 0 .. len - 1, x \in {"again", "dead"} : o = [n |-> n, res |-> x]
    BY <1>3 DEF SendOutcomes
  <2> QED BY <1>3, <2>1
<1> QED BY <1>1, <1>2, <1>3

\* What recv() may return: at least one unit, no more than are there or fit.
LEMMA ReadFacts ==
    ASSUME NEW S, NEW s \in Seq(S), NEW cap \in Int, NEW n \in ReadSizes(s, cap)
    PROVE  n \in 1 .. Len(s) /\ n \in 0 .. Len(s) /\ n \in Nat /\ n <= cap /\ s # <<>>
<1>1. Len(s) \in Nat
  OBVIOUS
<1>2. n \in 1 .. Len(s) /\ n <= cap
  BY <1>1 DEF ReadSizes
<1> QED BY <1>1, <1>2, EmptySeq

-----------------------------------------------------------------------------
(* What a turn of the pump may come to. *)

\* q is p, whatever it is armed for.
Like(q, p) ==
    /\ q.fd = p.fd /\ q.phase = p.phase /\ q.send100 = p.send100 /\ q.framing = p.framing
    /\ q.bodyDone = p.bodyDone /\ q.respSent = p.respSent /\ q.upClose = p.upClose
    /\ q.clientKeep = p.clientKeep /\ q.reused = p.reused /\ q.overread = p.overread
    /\ q.hdr = p.hdr /\ q.buf = p.buf /\ q.body = p.body
    /\ q.bodyLeft = p.bodyLeft /\ q.respLeft = p.respLeft

\* The slot is closed, and the sockets are u.
Shut(u) ==
    /\ up' = u /\ px' = PxReset
    /\ pc' = "closed" /\ armed' = "none" /\ batch' = <<>> /\ budget' = Budget

\* The worker goes on at the place at.
At(at) == pc' = at /\ armed' = armed /\ batch' = batch /\ budget' = Budget

\* The exchange goes on, once the upstream is ready for upio or the client for io.
Waits(u, p, upio, io) ==
    /\ up' = u /\ px' \in PxRecords /\ Like(px', p) /\ hc' = hc
    /\ upio # "none" => px'.inEpoll /\ px'.armed = upio
    /\ (At("onread") /\ io = "read" /\ caller' = "read") \/ ArmEvents(io)

\* The exchange is given up, with an answer of the server's own if none has begun.
Drops(h, gone, sent) ==
    /\ up' = gone /\ px' = PxReset
    /\ \/ Shut(gone) /\ hc' = h
       \/ /\ ~sent /\ hc' = ArmFixed(h)
          /\ Shut(gone) \/ At("onwrite") \/ ArmEvents("write")

\* The exchange is over.
Parks(u, p) ==
    /\ px' = PxReset /\ hc' = [hc EXCEPT !.keep = p.clientKeep] /\ At("reuse")
    /\ \/ CanPool(p) /\ Len(pool) < PoolMax /\ pool' = Append(pool, p.fd) /\ up' = u
       \/ pool' = pool /\ up' = CloseUp(u, p.fd)

\* Closing no socket changes nothing.
LEMMA CloseNone == \A u : CloseUp(u, NoUp) = u
  BY DEF CloseUp

\* apply_io closes the slot, finishes the response or arms the client's end.
LEMMA ApplyFacts ==
    ASSUME NEW io \in {"read", "write", "idle", "done", "close"}, NEW u, NEW p, ApplyIo(io, u, p)
    PROVE  \/ Shut(CloseUp(u, p.fd)) /\ io # "done"
           \/ /\ up' = u /\ px' = p
              /\ (io = "done" /\ At("reuse")) \/ (io \in {"read", "write", "idle"} /\ ArmEvents(io))
<1>1. CASE io = "close"
  BY <1>1 DEF ApplyIo, SlotClose, Shut
<1>2. CASE io = "done"
  BY <1>2 DEF ApplyIo, Stay, At
<1>3. CASE io \in {"read", "write", "idle"}
  <2>1. \/ ArmEvents(io) /\ up' = u /\ px' = p
        \/ SlotClose(u, p)
    BY <1>3 DEF ApplyIo
  <2>2. CASE ArmEvents(io) /\ up' = u /\ px' = p
    BY <1>3, <2>2
  <2>3. CASE SlotClose(u, p)
    BY <1>3, <2>3 DEF SlotClose, Shut
  <2> QED BY <2>1, <2>2, <2>3
<1> QED BY <1>1, <1>2, <1>3

\* A result of the pump closes the slot, or the worker goes on at one of four places.
LEMMA ReturnFacts ==
    ASSUME NEW io \in {"read", "write", "idle", "done", "close"}, NEW u, NEW p, NEW phase,
           Return(io, u, p, phase)
    PROVE  \/ Shut(CloseUp(u, p.fd)) /\ io # "done"
           \/ /\ up' = u /\ px' = p
              /\ \/ At("onwrite") /\ io = "write" /\ phase # "READ"
                 \/ At("onread") /\ io = "read" /\ caller' = "read"
                 \/ (io = "done" /\ At("reuse")) \/ (io \in {"read", "write", "idle"} /\ ArmEvents(io))
<1>1. CASE caller' # "event" /\ io = "write" /\ phase # "READ"
  BY <1>1 DEF Return, Stay, At
<1>2. CASE caller' = "read" /\ io = "read"
  BY <1>2 DEF Return, Stay, At
<1>3. CASE /\ ~(caller' # "event" /\ io = "write" /\ phase # "READ")
           /\ ~(caller' = "read" /\ io = "read")
  <2>1. ApplyIo(io, u, p)
    BY <1>3 DEF Return
  <2> QED BY <2>1, ApplyFacts
<1> QED BY <1>1, <1>2, <1>3

\* HTTP_IO_CLOSE closes the slot, whoever called.
LEMMA CloseFacts ==
    ASSUME NEW gone, NEW phase, Return("close", gone, PxReset, phase)
    PROVE  Shut(gone)
<1>1. CloseUp(gone, PxReset.fd) = gone
  BY CloseNone DEF PxReset
<1> QED BY <1>1, ReturnFacts

\* An answer of the server's own is written at once or waited for.
LEMMA WriteFacts ==
    ASSUME NEW gone, Return("write", gone, PxReset, "WRITE")
    PROVE  Shut(gone) \/ (up' = gone /\ px' = PxReset /\ (At("onwrite") \/ ArmEvents("write")))
<1>1. CloseUp(gone, PxReset.fd) = gone
  BY CloseNone DEF PxReset
<1> QED BY <1>1, ReturnFacts

\* proxy_fail drops the upstream; the connection is closed or answered 502.
LEMMA FailFacts ==
    ASSUME NEW h, NEW u, NEW p, FailWith(h, u, p)
    PROVE  Drops(h, CloseUp(u, p.fd), p.respSent)
<1>1. CASE p.respSent
  <2>1. hc' = h /\ Return("close", CloseUp(u, p.fd), PxReset, hc.phase)
    BY <1>1 DEF FailWith
  <2>2. Shut(CloseUp(u, p.fd))
    BY <2>1, CloseFacts
  <2> QED BY <2>1, <2>2 DEF Shut, Drops
<1>2. CASE ~p.respSent
  <2>1. hc' = ArmFixed(h) /\ Return("write", CloseUp(u, p.fd), PxReset, "WRITE")
    BY <1>2 DEF FailWith
  <2> QED BY <1>2, <2>1, WriteFacts DEF Drops, Shut
<1> QED BY <1>1, <1>2

\* proxy_close followed by HTTP_IO_CLOSE drops the upstream and the connection.
LEMMA AbandonFacts ==
    ASSUME NEW u, NEW p, Abandon(u, p)
    PROVE  Drops(hc, CloseUp(u, p.fd), TRUE)
<1>1. hc' = hc /\ Shut(CloseUp(u, p.fd))
  BY CloseFacts DEF Abandon
<1> QED BY <1>1 DEF Drops, Shut

\* Arming an upstream socket changes nothing else of proxy_conn.
LEMMA LikeItself ==
    ASSUME NEW p \in PxRecords, NEW io \in Ios
    PROVE  LET q == [p EXCEPT !.inEpoll = TRUE, !.armed = io]
           IN  q \in PxRecords /\ Like(q, p) /\ q.inEpoll /\ q.armed = io
<1> DEFINE q == [p EXCEPT !.inEpoll = TRUE, !.armed = io]
<1>1. q \in PxRecords /\ q.inEpoll /\ q.armed = io
  BY DEF PxRecords
<1>2. Like(q, p)
  BY DEF PxRecords, Like
<1> QED BY <1>1, <1>2

\* yield_up waits, or fails when epoll refuses the socket.
LEMMA YieldFacts ==
    ASSUME NEW u, NEW p \in PxRecords, NEW upio \in Ios, NEW io \in {"read", "write", "idle"},
           hc.phase = "READ", Yield(u, p, upio, io)
    PROVE  \/ Waits(u, p, upio, IF p.send100 THEN "write" ELSE io)
           \/ Drops(hc, CloseUp(u, p.fd), TRUE)
           \/ Drops(Excused(hc), CloseUp(u, p.fd), p.respSent)
<1> DEFINE q == [p EXCEPT !.inEpoll = TRUE, !.armed = upio]
           jo == IF p.send100 THEN "write" ELSE io
<1>1. \/ hc' = hc /\ Return(jo, u, q, hc.phase)
      \/ FailWith(Excused(hc), u, p)
  BY DEF Yield
<1>2. q \in PxRecords /\ Like(q, p) /\ q.inEpoll /\ q.armed = upio
  BY LikeItself, Zenon
<1>3. jo \in {"read", "write", "idle"}
  OBVIOUS
<1> HIDE DEF q, jo
<1>4. CASE FailWith(Excused(hc), u, p)
  BY <1>4, FailFacts
<1>5. CASE hc' = hc /\ Return(jo, u, q, hc.phase)
  <2>1. \/ Shut(CloseUp(u, q.fd))
        \/ up' = u /\ px' = q /\ ((At("onread") /\ jo = "read" /\ caller' = "read") \/ ArmEvents(jo))
    BY <1>3, <1>5, ReturnFacts
  <2>2. q.fd = p.fd
    BY <1>2 DEF Like
  <2>3. CASE Shut(CloseUp(u, q.fd))
    BY <1>5, <2>2, <2>3 DEF Drops, Shut
  <2>4. CASE up' = u /\ px' = q /\ ((At("onread") /\ jo = "read" /\ caller' = "read") \/ ArmEvents(jo))
    BY <1>2, <1>5, <2>4 DEF Waits, jo
  <2> QED BY <2>1, <2>3, <2>4
<1> QED BY <1>1, <1>4, <1>5

\* The end of a response parks or closes the upstream.
LEMMA DoneFacts ==
    ASSUME NEW u, NEW p, Done(u, p)
    PROVE  Parks(u, p)
<1>1. ASSUME NEW gone, Return("done", gone, PxReset, hc.phase)
      PROVE  up' = gone /\ px' = PxReset /\ At("reuse")
  BY <1>1, ReturnFacts
<1> QED BY <1>1 DEF Done, Parks

\* A partial write of the pump waits for the client, or epoll refuses that.
LEMMA StayFacts ==
    ASSUME px \in PxRecords, hc.phase = "READ", hc' = hc, Return("write", up, px, hc.phase)
    PROVE  Waits(up, px, "none", "write") \/ Drops(hc, CloseUp(up, px.fd), TRUE)
<1>1. Shut(CloseUp(up, px.fd)) \/ (up' = up /\ px' = px /\ ArmEvents("write"))
  BY ReturnFacts
<1>2. Like(px, px)
  BY DEF Like
<1> QED BY <1>1, <1>2 DEF Waits, Drops, Shut

-----------------------------------------------------------------------------
(* Types. *)

\* A unit of a request of the script is a unit.
LEMMA UnitFacts ==
    ASSUME NEW k \in Kinds, NEW id \in DOMAIN script, NEW n \in Nat
    PROVE  Unit(k, id, n) \in Units
  BY DEF Unit, Units

\* A request of the script.
LEMMA ScriptFacts ==
    ASSUME script \in Scripts, NEW id \in DOMAIN script
    PROVE  /\ script[id] \in [method : Methods, body : Nat, keep : BOOLEAN, expect : BOOLEAN, target : Targets]
           /\ id \in Nat \ {0} /\ DOMAIN script = 1 .. Len(script) /\ Len(script) \in Nat
<1> DEFINE R == [method : Methods, body : Nat, keep : BOOLEAN, expect : BOOLEAN, target : Targets]
<1>1. script \in Seq(R)
  BY PeersAssumption
<1> HIDE DEF R
<1>2. DOMAIN script = 1 .. Len(script) /\ Len(script) \in Nat
  BY <1>1, DomFacts
<1>3. id \in 1 .. Len(script)
  BY <1>2
<1>4. script[id] \in R
  BY <1>1, <1>3, ElementOfSeq
<1> QED BY <1>2, <1>3, <1>4 DEF R

\* The fields of a unit.
LEMMA IdFacts ==
    ASSUME NEW x \in Units
    PROVE  x.id \in DOMAIN script /\ x.n \in Nat /\ x.k \in Kinds \cup {"hend", "o"}
           /\ (x.k = "hend" => x.r \in Responses) /\ (x.k = "o" => \E r \in Responses : r.over > 0)
<1>1. \A r \in Responses : r.over \in Nat
  BY PeersAssumption
<1>2. CASE x \in [k : Kinds, id : DOMAIN script, n : Nat] \cup [k : {"hend"}, id : DOMAIN script, n : Nat, r : Responses]
  BY <1>2 DEF Kinds
<1>3. CASE x \notin [k : Kinds, id : DOMAIN script, n : Nat] \cup [k : {"hend"}, id : DOMAIN script, n : Nat, r : Responses]
  <2>1. PICK r \in Responses : x \in [k : {"o"}, id : DOMAIN script, n : 1 .. r.over]
    BY <1>3 DEF Units
  <2>2. x.id \in DOMAIN script /\ x.n \in 1 .. r.over /\ x.k = "o"
    BY <2>1
  <2>3. x.n \in Nat /\ r.over > 0
    BY <1>1, <2>2
  <2> QED BY <2>2, <2>3
<1> QED BY <1>2, <1>3

\* The record types do not change, as the script does not.
LEMMA SameScript ==
    ASSUME script' = script
    PROVE  /\ Units' = Units /\ PxRecords' = PxRecords /\ HcRecords' = HcRecords
           /\ UpRecords' = UpRecords /\ ClientRecords' = ClientRecords
<1>1. Units' = Units
  BY DEF Units
<1> QED BY <1>1 DEF PxRecords, HcRecords, UpRecords, ClientRecords

\* The units of a request as it goes upstream: two of the header, then the body.
LEMMA UpUnitsFacts ==
    ASSUME script \in Scripts, NEW id \in DOMAIN script
    PROVE  /\ UpUnits(id) \in Seq(Units) /\ Len(UpUnits(id)) = 2 + script[id].body
           /\ UpUnits(id)[1] = Unit("q", id, 1) /\ UpUnits(id)[2] = Unit("q", id, 2)
           /\ \A n \in 1 .. script[id].body : UpUnits(id)[2 + n] = Unit("b", id, n)
           /\ script[id].body \in Nat
<1> DEFINE head == <<Unit("q", id, 1), Unit("q", id, 2)>>
           body == [n \in 1 .. script[id].body |-> Unit("b", id, n)]
<1>1. script[id].body \in Nat
  BY ScriptFacts
<1>2. head \in Seq(Units) /\ Len(head) = 2 /\ head[1] = Unit("q", id, 1) /\ head[2] = Unit("q", id, 2)
  <2>1. Unit("q", id, 1) \in Units /\ Unit("q", id, 2) \in Units
    BY UnitFacts DEF Kinds
  <2> QED BY <2>1
<1>3. body \in Seq(Units) /\ Len(body) = script[id].body
  <2>1. \A n \in 1 .. script[id].body : Unit("b", id, n) \in Units
    BY <1>1, UnitFacts DEF Kinds
  <2>2. body \in [1 .. script[id].body -> Units]
    BY <2>1
  <2> QED BY <1>1, <2>2
<1>4. \A n \in 1 .. script[id].body : body[n] = Unit("b", id, n)
  OBVIOUS
<1>5. UpUnits(id) = head \o body
  BY DEF UpUnits
<1> HIDE DEF head, body
<1>6. /\ head \o body \in Seq(Units) /\ Len(head \o body) = Len(head) + Len(body)
      /\ \A i \in 1 .. Len(head) : (head \o body)[i] = head[i]
      /\ \A i \in 1 .. Len(body) : (head \o body)[Len(head) + i] = body[i]
  BY <1>2, <1>3, CatFacts
<1>7. 1 \in 1 .. Len(head) /\ 2 \in 1 .. Len(head)
  BY <1>2
<1> QED BY <1>1, <1>2, <1>3, <1>4, <1>5, <1>6, <1>7

\* The header that rewrite_request writes.
LEMMA HeadUnits ==
    ASSUME script \in Scripts, NEW id \in DOMAIN script
    PROVE  /\ Take(UpUnits(id), 2) \in Seq(Units) /\ Len(Take(UpUnits(id), 2)) = 2
           /\ Take(UpUnits(id), 2)[1] = Unit("q", id, 1) /\ Take(UpUnits(id), 2)[2] = Unit("q", id, 2)
<1>1. /\ UpUnits(id) \in Seq(Units) /\ Len(UpUnits(id)) = 2 + script[id].body /\ script[id].body \in Nat
      /\ UpUnits(id)[1] = Unit("q", id, 1) /\ UpUnits(id)[2] = Unit("q", id, 2)
  BY UpUnitsFacts
<1>2. 2 \in 0 .. Len(UpUnits(id))
  BY <1>1
<1>3. /\ Take(UpUnits(id), 2) \in Seq(Units) /\ Len(Take(UpUnits(id), 2)) = 2
      /\ \A i \in 1 .. 2 : Take(UpUnits(id), 2)[i] = UpUnits(id)[i]
  BY <1>1, <1>2, TakeFacts
<1>4. 1 \in 1 .. 2 /\ 2 \in 1 .. 2
  OBVIOUS
<1> QED BY <1>1, <1>3, <1>4

\* A response of two units.
LEMMA PairFacts ==
    ASSUME NEW k \in Kinds, NEW id \in DOMAIN script
    PROVE  LET s == <<Unit(k, id, 1), Unit(k, id, 2)>>
           IN  /\ s \in Seq(Units) /\ Len(s) = 2 /\ s # <<>>
               /\ s[1] = Unit(k, id, 1) /\ s[2] = Unit(k, id, 2)
<1>1. Unit(k, id, 1) \in Units /\ Unit(k, id, 2) \in Units
  BY UnitFacts
<1> QED BY <1>1

\* The request at the front of the buffer is one of the script's.
LEMMA CurFacts ==
    ASSUME NEW b \in Seq(Units), b # <<>>
    PROVE  b[1] \in Units /\ b[1].id \in DOMAIN script
<1>1. b[1] \in Units
  BY TailFacts
<1> QED BY <1>1, IdFacts

\* arm_fixed leaves the buffer and gives the connection an answer to write.
LEMMA ArmFacts ==
    ASSUME NEW h \in HcRecords, h.buf # <<>>
    PROVE  /\ ArmFixed(h) \in HcRecords /\ ArmFixed(h).buf = h.buf /\ ArmFixed(h).phase = "WRITE"
           /\ ~ArmFixed(h).keep /\ ArmFixed(h).left = Fixed(h.buf[1].id) /\ ArmFixed(h).excused = h.excused
<1>1. h.buf[1].id \in DOMAIN script
  BY CurFacts DEF HcRecords
<1>2. Fixed(h.buf[1].id) \in Seq(Units)
  BY <1>1, PairFacts DEF Fixed, Kinds
<1> QED BY <1>2 DEF ArmFixed, HcRecords

\* Noting a failed call changes nothing else.
LEMMA ExcusedFacts ==
    ASSUME NEW h \in HcRecords
    PROVE  /\ Excused(h) \in HcRecords /\ Excused(h).buf = h.buf /\ Excused(h).phase = h.phase
           /\ Excused(h).keep = h.keep /\ Excused(h).left = h.left /\ Excused(h).excused
  BY DEF Excused, HcRecords

\* proxy_conn_reset.
LEMMA ResetFacts ==
    /\ PxReset \in PxRecords /\ PxReset.fd = NoUp /\ PxReset.phase = "none" /\ PxReset.armed = "none"
    /\ ~PxReset.inEpoll /\ ~PxReset.clientKeep /\ ~PxReset.send100 /\ ~PxReset.respSent /\ ~PxReset.overread
    /\ ~PxReset.upClose /\ ~PxReset.bodyDone /\ ~PxReset.reused /\ PxReset.framing = "none"
    /\ PxReset.hdr = <<>> /\ PxReset.buf = <<>> /\ PxReset.body = <<>>
    /\ PxReset.bodyLeft = 0 /\ PxReset.respLeft = 0
<1>1. <<>> \in Seq(Units)
  OBVIOUS
<1> QED BY <1>1 DEF PxReset, PxRecords, Phases, Ios, Framings

-----------------------------------------------------------------------------
(* Sockets. *)

\* Closing an upstream socket: it is no longer ours and what is in flight is lost.
LEMMA ClosedUp ==
    ASSUME NEW u \in [UpIds -> UpRecords], NEW f \in UpIds
    PROVE  LET g == CloseUp(u, f)
           IN  /\ g \in [UpIds -> UpRecords] /\ \A c \in UpIds : c # f => g[c] = u[c]
               /\ ~g[f].mine /\ g[f].in = <<>> /\ g[f].plan = <<>> /\ g[f].got = u[f].got
               /\ g[f].st = u[f].st /\ g[f].addr = u[f].addr /\ g[f].answered = u[f].answered
<1>1. f # NoUp /\ u[f] \in UpRecords
  BY SizesAssumption DEF NoUp, UpIds
<1>2. CloseUp(u, f) = [u EXCEPT ![f].mine = FALSE, ![f].in = <<>>, ![f].plan = <<>>]
  BY <1>1 DEF CloseUp
<1>3. <<>> \in Seq(Units)
  OBVIOUS
<1> DEFINE x == [[[u[f] EXCEPT !.mine = FALSE] EXCEPT !.in = <<>>] EXCEPT !.plan = <<>>]
<1>4. x \in UpRecords
  BY <1>1, <1>3 DEF UpRecords
<1>5. /\ ~x.mine /\ x.in = <<>> /\ x.plan = <<>> /\ x.got = u[f].got
      /\ x.st = u[f].st /\ x.addr = u[f].addr /\ x.answered = u[f].answered
  BY <1>1 DEF UpRecords
<1>6. CloseUp(u, f) = [u EXCEPT ![f] = x]
  BY <1>2
<1> HIDE DEF x
<1> QED BY <1>4, <1>5, <1>6

\* Opening an upstream socket.
LEMMA OpenedUp ==
    ASSUME NEW u \in [UpIds -> UpRecords], NEW f \in UpIds, NEW addr \in Targets
    PROVE  LET g == NewUp(u, f, addr)
           IN  /\ g \in [UpIds -> UpRecords] /\ \A c \in UpIds : c # f => g[c] = u[c]
               /\ g[f].mine /\ g[f].in = u[f].in /\ g[f].plan = u[f].plan /\ g[f].got = u[f].got
               /\ g[f].st = "open" /\ g[f].addr = addr /\ g[f].answered = u[f].answered
<1> DEFINE x == [[[u[f] EXCEPT !.st = "open"] EXCEPT !.addr = addr] EXCEPT !.mine = TRUE]
<1>1. u[f] \in UpRecords
  OBVIOUS
<1>2. x \in UpRecords
  BY <1>1 DEF UpRecords
<1>3. /\ x.mine /\ x.in = u[f].in /\ x.plan = u[f].plan /\ x.got = u[f].got
      /\ x.st = "open" /\ x.addr = addr /\ x.answered = u[f].answered
  BY <1>1 DEF UpRecords
<1>4. NewUp(u, f, addr) = [u EXCEPT ![f] = x]
  BY DEF NewUp
<1> HIDE DEF x
<1> QED BY <1>2, <1>3, <1>4

\* Sending to an upstream socket.
LEMMA SentUp ==
    ASSUME up \in [UpIds -> UpRecords], NEW f \in UpIds, NEW us \in Seq(Units)
    PROVE  LET g == ToUp(f, us)
           IN  /\ g \in [UpIds -> UpRecords] /\ \A c \in UpIds : c # f => g[c] = up[c]
               /\ g[f].got = up[f].got \o us
               /\ g[f].mine = up[f].mine /\ g[f].in = up[f].in /\ g[f].plan = up[f].plan
               /\ g[f].st = up[f].st /\ g[f].addr = up[f].addr /\ g[f].answered = up[f].answered
<1>1. up[f] \in UpRecords /\ up[f].got \in Seq(Units)
  BY DEF UpRecords
<1>2. up[f].got \o us \in Seq(Units)
  BY <1>1, CatFacts
<1>3. [up[f] EXCEPT !.got = up[f].got \o us] \in UpRecords
  BY <1>1, <1>2 DEF UpRecords
<1> QED BY <1>1, <1>3 DEF ToUp, UpRecords

\* Reading from an upstream socket.
LEMMA ReadUp ==
    ASSUME up \in [UpIds -> UpRecords], NEW f \in UpIds, NEW n \in 0 .. Len(up[f].in)
    PROVE  LET g == [up EXCEPT ![f].in = Drop(@, n)]
           IN  /\ g \in [UpIds -> UpRecords] /\ \A c \in UpIds : c # f => g[c] = up[c]
               /\ g[f].in = Drop(up[f].in, n) /\ g[f].got = up[f].got
               /\ g[f].mine = up[f].mine /\ g[f].plan = up[f].plan
               /\ g[f].st = up[f].st /\ g[f].addr = up[f].addr /\ g[f].answered = up[f].answered
<1>1. up[f] \in UpRecords /\ up[f].in \in Seq(Units)
  BY DEF UpRecords
<1>2. Drop(up[f].in, n) \in Seq(Units)
  BY <1>1, DropFacts
<1>3. [up[f] EXCEPT !.in = Drop(up[f].in, n)] \in UpRecords
  BY <1>1, <1>2 DEF UpRecords
<1> QED BY <1>1, <1>3 DEF UpRecords

-----------------------------------------------------------------------------
(* What a step of the slot does to SlotInv. *)

Frame ==
    /\ script' = script /\ client' \in ClientRecords /\ out' \in Seq(Units)
    /\ caller' \in {"read", "reuse", "event"}

\* The exchange goes on, with the sockets u and the connection p.
Goes(u, p) ==
    /\ up' = u /\ px' \in PxRecords /\ Like(px', p) /\ hc' = hc
    /\ armed' \in Ios /\ budget' \in 0 .. Budget /\ batch' = batch
    /\ \/ pc' = "pump" \/ pc' = "onread"
       \/ pc' = "wait" \/ (pc' = "batch" /\ batch # <<>>)

\* u differs from up in what the slot's socket has sent and received.
Moved(u) ==
    /\ u \in [UpIds -> UpRecords] /\ \A c \in UpIds : c # px.fd => u[c] = up[c]
    /\ u[px.fd].mine = up[px.fd].mine /\ u[px.fd].st = up[px.fd].st /\ u[px.fd].addr = up[px.fd].addr
    /\ u[px.fd].plan = up[px.fd].plan /\ u[px.fd].answered = up[px.fd].answered
Sound(p) ==
    /\ p \in PxRecords /\ p.fd = px.fd /\ p.phase # "none" /\ Len(p.buf) <= BufMax
    /\ p.clientKeep => ShouldKeepalive(Req)

\* What SlotInv says while the slot has an upstream.
LEMMA SlotFacts ==
    ASSUME SlotInv, px.fd # NoUp
    PROVE  /\ px.fd \in UpIds /\ up[px.fd].mine /\ up[px.fd].st # "unused"
           /\ hc.phase = "READ" /\ hc.buf # <<>> /\ ~hc.keep /\ hc \in HcRecords /\ hc.buf \in Seq(Units)
           /\ Cur \in DOMAIN script /\ Req.target \in {"a", "b"}
           /\ px \in PxRecords /\ Moved(up) /\ Sound(px)
<1>1. px.fd \in UpIds /\ px \in PxRecords
  BY DEF SlotInv, Typed, PxRecords
<1>2. up[px.fd].mine /\ up[px.fd].st # "unused"
  BY <1>1 DEF SlotInv, Owned
<1>3. hc \in HcRecords /\ hc.buf \in Seq(Units) /\ hc.phase = "READ" /\ hc.buf # <<>> /\ ~hc.keep /\ Req.target \in {"a", "b"}
  BY DEF SlotInv, Typed, Control, HcRecords
<1>4. Cur \in DOMAIN script
  BY <1>3, CurFacts DEF Cur
<1>5. Moved(up) /\ Sound(px)
  BY <1>1 DEF Moved, Sound, SlotInv, Typed, TypeOK, Control
<1> QED BY <1>1, <1>2, <1>3, <1>4, <1>5

\* A step that only moves units on keeps SlotInv.
LEMMA GoesKeeps ==
    ASSUME SlotInv, Frame, pool' = pool, px.fd # NoUp, NEW u, NEW p, Moved(u), Sound(p), Goes(u, p)
    PROVE  SlotInv'
<1>1. /\ px.fd \in UpIds /\ up[px.fd].mine /\ up[px.fd].st # "unused" /\ hc.phase = "READ"
      /\ hc.buf # <<>> /\ ~hc.keep /\ Req.target \in {"a", "b"} /\ px'.fd = px.fd /\ px'.fd # NoUp
      /\ px'.phase # "none" /\ (px'.clientKeep => ShouldKeepalive(Req))
  BY SlotFacts DEF Goes, Sound, Like
<1>2. /\ Units' = Units /\ PxRecords' = PxRecords /\ HcRecords' = HcRecords
      /\ UpRecords' = UpRecords /\ ClientRecords' = ClientRecords
  BY SameScript DEF Frame
<1>3. Typed'
  <2>1. up' \in [UpIds -> UpRecords] /\ px' \in PxRecords
    BY DEF Moved, Goes
  <2> QED BY <1>2, <2>1 DEF SlotInv, Typed, Goes, Frame
<1>4. TypeOK'
  <2>1. client'.st \in {"open", "fin", "rst"} /\ caller' \in {"read", "reuse", "event"}
    BY DEF Frame, ClientRecords
  <2>2. /\ px'.fd \in UpIds \cup {NoUp} /\ px'.phase \in Phases /\ px'.armed \in Ios
        /\ px'.bodyLeft \in Nat /\ px'.respLeft \in Nat /\ Len(px'.buf) <= BufMax
    BY DEF Goes, PxRecords, Like, Sound
  <2> QED BY <2>1, <2>2 DEF SlotInv, TypeOK, Goes
<1>5. Control'
  <2>1. Cur' = Cur /\ Req' = Req
    BY DEF Cur, Req, Goes, Frame
  <2>2. pc' \in {"pump", "onread", "wait", "batch"} /\ (pc' = "batch" => batch' # <<>>) /\ hc' = hc
    BY DEF Goes
  <2> QED BY <1>1, <2>1, <2>2 DEF Control
<1>6. Owned'
  <2>1. \A c \in UpIds : up'[c].mine = up[c].mine /\ up'[c].st = up[c].st
    BY <1>1 DEF Moved, Goes
  <2>2. InPool' = InPool
    BY DEF InPool
  <2>3. \A c \in UpIds : up'[c].mine <=> c = px'.fd \/ c \in InPool'
    BY <1>1, <2>1, <2>2 DEF SlotInv, Owned
  <2>4. \A c \in UpIds : up'[c].st = "unused" => up'[c] = up[c]
    BY <1>1, <2>1 DEF Moved, Goes
  <2> QED BY <1>1, <2>1, <2>2, <2>3, <2>4 DEF SlotInv, Owned
<1> QED BY <1>3, <1>4, <1>5, <1>6 DEF SlotInv

\* slot_close.
LEMMA ShutFacts ==
    ASSUME NEW gone, Shut(gone)
    PROVE  /\ up' = gone /\ px' = PxReset /\ armed' \in Ios /\ budget' = Budget
           /\ batch' = <<>> /\ pc' = "closed"
  BY DEF Shut, Ios

\* What Drops leaves behind.
Dropped(gone) ==
    /\ up' = gone /\ px' = PxReset /\ hc' \in HcRecords /\ hc'.buf = hc.buf /\ ~hc'.keep
    /\ armed' \in Ios /\ budget' \in 0 .. Budget /\ batch' \in {batch, <<>>}
    /\ \/ hc'.phase = "READ" /\ pc' = "closed"
       \/ /\ hc'.phase = "WRITE"
          /\ \/ pc' = "closed" \/ pc' = "onwrite"
             \/ pc' = "wait" \/ (pc' = "batch" /\ batch' # <<>>)

\* What is left when the upstream is dropped.
LEMMA DropsFacts ==
    ASSUME SlotInv, px.fd # NoUp, NEW h \in {hc, Excused(hc)}, NEW gone, NEW sent, Drops(h, gone, sent)
    PROVE  Dropped(gone)
<1>1. hc \in HcRecords /\ hc.buf # <<>> /\ hc.phase = "READ" /\ ~hc.keep
  BY SlotFacts
<1>2. h \in HcRecords /\ h.buf = hc.buf /\ h.phase = "READ" /\ ~h.keep
  BY <1>1, ExcusedFacts
<1>3. ArmFixed(h) \in HcRecords /\ ArmFixed(h).buf = hc.buf /\ ArmFixed(h).phase = "WRITE" /\ ~ArmFixed(h).keep
  BY <1>1, <1>2, ArmFacts
<1>4. armed \in Ios /\ Budget \in 0 .. Budget
  BY SizesAssumption DEF SlotInv, TypeOK
<1>5. CASE Shut(gone) /\ (hc' = h \/ hc' = ArmFixed(h))
  <2>1. hc' \in HcRecords /\ hc'.buf = hc.buf /\ ~hc'.keep /\ hc'.phase \in {"READ", "WRITE"}
    BY <1>2, <1>3, <1>5
  <2>2. /\ up' = gone /\ px' = PxReset /\ armed' \in Ios /\ budget' = Budget
        /\ batch' = <<>> /\ pc' = "closed"
    BY <1>5, ShutFacts
  <2> QED BY <1>4, <2>1, <2>2 DEF Dropped
<1>6. CASE up' = gone /\ px' = PxReset /\ hc' = ArmFixed(h) /\ At("onwrite")
  BY <1>3, <1>4, <1>6 DEF Dropped, At
<1>7. CASE up' = gone /\ px' = PxReset /\ hc' = ArmFixed(h) /\ ArmEvents("write")
  <2>1. armed' \in Ios /\ budget' \in 0 .. Budget /\ batch' = batch
    BY <1>4, <1>7 DEF ArmEvents, Ios
  <2>2. pc' = "wait" \/ (pc' = "batch" /\ batch' # <<>>)
    BY <1>7 DEF ArmEvents
  <2> QED BY <1>3, <1>7, <2>1, <2>2 DEF Dropped
<1> QED BY <1>5, <1>6, <1>7 DEF Drops

\* Dropping the upstream keeps SlotInv.
LEMMA DropsKeeps ==
    ASSUME SlotInv, Frame, pool' = pool, px.fd # NoUp, NEW u, Moved(u), Dropped(CloseUp(u, px.fd))
    PROVE  SlotInv'
<1>1. /\ px.fd \in UpIds /\ up[px.fd].mine /\ up[px.fd].st # "unused" /\ hc.buf # <<>>
  BY SlotFacts
<1>2. /\ Units' = Units /\ PxRecords' = PxRecords /\ HcRecords' = HcRecords
      /\ UpRecords' = UpRecords /\ ClientRecords' = ClientRecords
  BY SameScript DEF Frame
<1>3. LET g == CloseUp(u, px.fd)
      IN  /\ g \in [UpIds -> UpRecords] /\ \A c \in UpIds : c # px.fd => g[c] = up[c]
          /\ ~g[px.fd].mine /\ g[px.fd].st = up[px.fd].st
  BY <1>1, ClosedUp DEF Moved
<1>4. /\ PxReset \in PxRecords /\ PxReset.fd = NoUp /\ PxReset.phase = "none" /\ PxReset.armed = "none"
      /\ PxReset.bodyLeft = 0 /\ PxReset.respLeft = 0 /\ PxReset.buf = <<>> /\ ~PxReset.clientKeep
  BY ResetFacts
<1>5. Typed'
  <2>1. up' \in [UpIds -> UpRecords] /\ px' \in PxRecords /\ hc' \in HcRecords
    BY <1>3, <1>4 DEF Dropped
  <2>2. batch' \in Seq(Events)
    <3>1. batch \in Seq(Events) /\ <<>> \in Seq(Events)
      BY DEF SlotInv, Typed
    <3>2. batch' = batch \/ batch' = <<>>
      BY DEF Dropped
    <3> QED BY <3>1, <3>2
  <2> QED BY <1>2, <2>1, <2>2 DEF SlotInv, Typed, Frame
<1>6. TypeOK'
  <2>1. client'.st \in {"open", "fin", "rst"} /\ caller' \in {"read", "reuse", "event"}
    BY DEF Frame, ClientRecords
  <2>2. /\ px'.fd \in UpIds \cup {NoUp} /\ px'.phase \in Phases /\ px'.armed \in Ios
        /\ px'.bodyLeft \in Nat /\ px'.respLeft \in Nat /\ Len(px'.buf) <= BufMax
    BY <1>4, SizesAssumption DEF Dropped, Phases, Ios
  <2>3. Len(batch') <= 2
    BY DEF Dropped, SlotInv, TypeOK
  <2>4. hc'.phase \in {"READ", "WRITE"} /\ Len(hc'.buf) <= HeaderCap
    BY DEF Dropped, SlotInv, TypeOK
  <2>5. pc' \in {"wait", "batch", "pump", "onread", "onwrite", "reuse", "closed"}
    BY DEF Dropped
  <2> QED BY <2>1, <2>2, <2>3, <2>4, <2>5 DEF SlotInv, TypeOK, Dropped
<1>7. Control'
  <2>1. px'.fd = NoUp /\ px' = PxReset /\ ~hc'.keep /\ hc'.buf # <<>> /\ ~px'.clientKeep
    BY <1>1, <1>4 DEF Dropped
  <2>2. /\ pc' \notin {"pump", "onread", "reuse"} /\ (pc' = "onwrite" => hc'.phase = "WRITE")
        /\ pc' = "batch" => batch' # <<>>
        /\ hc'.phase = "READ" => pc' = "closed"
    BY DEF Dropped
  <2> QED BY <2>1, <2>2 DEF Control
<1>8. Owned'
  <2>1. InPool' = InPool
    BY DEF InPool
  <2>2. \A c \in UpIds : c # NoUp
    BY SizesAssumption DEF NoUp, UpIds
  <2>3. px'.fd = NoUp /\ up' = CloseUp(u, px.fd)
    BY <1>4 DEF Dropped
  <2>4. \A c \in UpIds : up'[c].mine <=> c = px'.fd \/ c \in InPool'
    BY <1>1, <1>3, <2>1, <2>2, <2>3 DEF SlotInv, Owned
  <2>5. \A c \in UpIds : up'[c].st = "unused" => up'[c] = up[c] /\ up[c].st = "unused"
    BY <1>1, <1>3, <2>3
  <2>6. px'.fd \notin InPool'
    <3>1. InPool \subseteq UpIds
      BY DEF InPool, SlotInv, TypeOK
    <3> QED BY <2>1, <2>2, <2>3, <3>1
  <2> QED BY <2>4, <2>5, <2>6 DEF SlotInv, Owned
<1> QED BY <1>5, <1>6, <1>7, <1>8 DEF SlotInv

\* The connection p with the header to be sent once more, on the socket c.
Again(p, c) ==
    [p EXCEPT !.phase = "SEND_REQ", !.reused = FALSE, !.inEpoll = FALSE,
              !.armed = "none", !.hdr = Take(UpUnits(Cur), 2), !.fd = c]

\* The exchange begins again, on the new socket c.
Renews(c, p) ==
    /\ c \in Unused
    /\ up' = NewUp(CloseUp(up, px.fd), c, up[px.fd].addr) /\ px' = Again(p, c)
    /\ hc' = hc /\ armed' = armed /\ batch' = batch /\ pc' = pc /\ budget' = budget - 0

\* The proxy_conn of a retry: a new socket and the whole header again.
LEMMA AgainFacts ==
    ASSUME script \in Scripts, Cur \in DOMAIN script, NEW p \in PxRecords, NEW c \in UpIds \cup {NoUp}
    PROVE  LET q == Again(p, c)
           IN  /\ q \in PxRecords /\ q.fd = c /\ q.phase = "SEND_REQ" /\ ~q.reused /\ ~q.inEpoll
               /\ q.armed = "none" /\ q.hdr = Take(UpUnits(Cur), 2)
               /\ q.send100 = p.send100 /\ q.framing = p.framing /\ q.bodyDone = p.bodyDone
               /\ q.respSent = p.respSent /\ q.upClose = p.upClose /\ q.clientKeep = p.clientKeep
               /\ q.overread = p.overread /\ q.buf = p.buf /\ q.body = p.body
               /\ q.bodyLeft = p.bodyLeft /\ q.respLeft = p.respLeft
<1>1. Take(UpUnits(Cur), 2) \in Seq(Units)
  BY HeadUnits
<1> DEFINE q == Again(p, c)
<1>2. q \in PxRecords
  BY <1>1 DEF Again, PxRecords, Phases, Ios
<1>3. /\ q.fd = c /\ q.phase = "SEND_REQ" /\ ~q.reused /\ ~q.inEpoll
      /\ q.armed = "none" /\ q.hdr = Take(UpUnits(Cur), 2)
  BY DEF Again, PxRecords
<1>4. /\ q.send100 = p.send100 /\ q.framing = p.framing /\ q.bodyDone = p.bodyDone
      /\ q.respSent = p.respSent /\ q.upClose = p.upClose /\ q.clientKeep = p.clientKeep
      /\ q.overread = p.overread /\ q.buf = p.buf /\ q.body = p.body
      /\ q.bodyLeft = p.bodyLeft /\ q.respLeft = p.respLeft
  BY DEF Again, PxRecords
<1> QED BY <1>2, <1>3, <1>4

\* proxy_reopen opens another socket for the same address, or fails.
LEMMA ReopenFacts ==
    ASSUME SlotInv, px.fd # NoUp, NEW p \in PxRecords, p.fd = px.fd, Reopen(p)
    PROVE  \/ \E c \in UpIds : Renews(c, p)
           \/ Drops(Excused(hc), CloseUp(up, px.fd), p.respSent)
<1>1. script \in Scripts /\ Cur \in DOMAIN script
  BY SlotFacts DEF SlotInv, Typed
<1> DEFINE again == [p EXCEPT !.phase = "SEND_REQ", !.reused = FALSE, !.inEpoll = FALSE,
                           !.armed = "none", !.hdr = Take(UpUnits(Cur), 2)]
           closed == CloseUp(up, px.fd)
<1>2. \/ \E c \in Unused : Loop(NewUp(closed, c, up[px.fd].addr), [again EXCEPT !.fd = c], 0)
      \/ FailWith(Excused(hc), closed, [again EXCEPT !.fd = NoUp])
  BY Zenon DEF Reopen
<1>3. \A c : [again EXCEPT !.fd = c] = Again(p, c)
  BY DEF Again
<1>4. CASE \E c \in Unused : Loop(NewUp(closed, c, up[px.fd].addr), [again EXCEPT !.fd = c], 0)
  <2>1. PICK c \in Unused : Loop(NewUp(closed, c, up[px.fd].addr), [again EXCEPT !.fd = c], 0)
    BY <1>4, Zenon
  <2>2. Renews(c, p) /\ c \in UpIds
    BY <1>3, <2>1, Zenon DEF Renews, Loop, Unused
  <2> QED BY <2>2
<1>5. CASE FailWith(Excused(hc), closed, [again EXCEPT !.fd = NoUp])
  <2>1. FailWith(Excused(hc), closed, Again(p, NoUp))
    BY <1>3, <1>5, Zenon
  <2>2. Again(p, NoUp).fd = NoUp /\ Again(p, NoUp).respSent = p.respSent
    BY <1>1, AgainFacts
  <2>3. Drops(Excused(hc), CloseUp(closed, Again(p, NoUp).fd), Again(p, NoUp).respSent)
    BY <2>1, FailFacts
  <2>4. CloseUp(closed, NoUp) = closed
    BY CloseNone
  <2> QED BY <2>2, <2>3, <2>4
<1> QED BY <1>2, <1>4, <1>5, Zenon

\* The sockets after proxy_reopen: the old one closed, a new one that has nothing yet.
LEMMA RenewedUp ==
    ASSUME SlotInv, px.fd # NoUp, NEW c \in UpIds, NEW p, Renews(c, p)
    PROVE  /\ up' \in [UpIds -> UpRecords] /\ c # px.fd /\ up[c].st = "unused"
           /\ \A d \in UpIds : d # c /\ d # px.fd => up'[d] = up[d]
           /\ up'[c].mine /\ up'[c].st = "open" /\ up'[c].addr = up[px.fd].addr /\ up'[c].got = <<>>
           /\ up'[c].in = <<>> /\ up'[c].plan = <<>> /\ up'[c].answered = 0
           /\ ~up'[px.fd].mine /\ up'[px.fd].in = <<>> /\ up'[px.fd].plan = <<>> /\ up'[px.fd].got = up[px.fd].got
           /\ up'[px.fd].st = up[px.fd].st /\ up'[px.fd].answered = up[px.fd].answered
<1>1. px.fd \in UpIds /\ up[px.fd].st # "unused" /\ up \in [UpIds -> UpRecords]
  BY SlotFacts DEF SlotInv, Typed
<1>2. /\ up[c].st = "unused" /\ c # px.fd /\ up[c].got = <<>>
      /\ up[c].in = <<>> /\ up[c].plan = <<>> /\ up[c].answered = 0
  BY <1>1 DEF Renews, Unused, SlotInv, Owned
<1> DEFINE g == CloseUp(up, px.fd)
<1>3. /\ g \in [UpIds -> UpRecords] /\ \A d \in UpIds : d # px.fd => g[d] = up[d]
      /\ ~g[px.fd].mine /\ g[px.fd].in = <<>> /\ g[px.fd].plan = <<>> /\ g[px.fd].got = up[px.fd].got
      /\ g[px.fd].st = up[px.fd].st /\ g[px.fd].answered = up[px.fd].answered
  BY <1>1, ClosedUp
<1>4. up[px.fd].addr \in Targets
  BY <1>1 DEF UpRecords
<1>5. up' = NewUp(g, c, up[px.fd].addr)
  BY DEF Renews
<1> HIDE DEF g
<1>6. /\ up' \in [UpIds -> UpRecords] /\ \A d \in UpIds : d # c => up'[d] = g[d]
      /\ up'[c].mine /\ up'[c].in = g[c].in /\ up'[c].plan = g[c].plan /\ up'[c].got = g[c].got
      /\ up'[c].st = "open" /\ up'[c].addr = up[px.fd].addr /\ up'[c].answered = g[c].answered
  BY <1>3, <1>4, <1>5, OpenedUp
<1>7. g[c] = up[c] /\ up'[px.fd] = g[px.fd]
  BY <1>1, <1>2, <1>3, <1>6
<1>8. \A d \in UpIds : d # c /\ d # px.fd => up'[d] = up[d]
  BY <1>3, <1>6
<1> QED BY <1>2, <1>3, <1>6, <1>7, <1>8

\* proxy_reopen keeps SlotInv.
LEMMA RenewsKeeps ==
    ASSUME SlotInv, Frame, pool' = pool, pc = "pump", px.fd # NoUp, NEW p, Sound(p), NEW c \in UpIds, Renews(c, p)
    PROVE  SlotInv'
<1>1. /\ px.fd \in UpIds /\ up[px.fd].mine /\ hc.phase = "READ" /\ script \in Scripts
      /\ hc.buf # <<>> /\ ~hc.keep /\ Req.target \in {"a", "b"} /\ Cur \in DOMAIN script
  BY SlotFacts DEF SlotInv, Typed
<1>2. /\ Units' = Units /\ PxRecords' = PxRecords /\ HcRecords' = HcRecords
      /\ UpRecords' = UpRecords /\ ClientRecords' = ClientRecords
  BY SameScript DEF Frame
<1>3. px' = Again(p, c) /\ p \in PxRecords
  BY DEF Renews, Sound
<1>4. /\ px' \in PxRecords /\ px'.fd = c /\ px'.phase = "SEND_REQ" /\ px'.armed = "none"
      /\ px'.buf = p.buf /\ px'.clientKeep = p.clientKeep
  BY <1>1, <1>3, AgainFacts
<1>5. c # NoUp
  BY SizesAssumption DEF UpIds, NoUp
<1>6. Typed'
  <2>1. up' \in [UpIds -> UpRecords]
    BY RenewedUp
  <2> QED BY <1>2, <1>4, <2>1 DEF SlotInv, Typed, Renews, Frame
<1>7. TypeOK'
  <2>1. client'.st \in {"open", "fin", "rst"} /\ caller' \in {"read", "reuse", "event"}
    BY DEF Frame, ClientRecords
  <2>2. /\ px'.fd \in UpIds \cup {NoUp} /\ px'.phase \in Phases /\ px'.armed \in Ios
        /\ px'.bodyLeft \in Nat /\ px'.respLeft \in Nat /\ Len(px'.buf) <= BufMax
    BY <1>4 DEF PxRecords, Sound
  <2>3. budget' \in 0 .. Budget
    BY SizesAssumption DEF SlotInv, TypeOK, Renews
  <2> QED BY <2>1, <2>2, <2>3 DEF SlotInv, TypeOK, Renews
<1>8. Control'
  <2>1. Cur' = Cur /\ Req' = Req
    BY DEF Cur, Req, Renews, Frame
  <2>2. pc' = "pump" /\ hc' = hc
    BY DEF Renews
  <2>3. px'.clientKeep => ShouldKeepalive(Req')
    BY <1>4, <2>1 DEF Sound
  <2> QED BY <1>1, <1>4, <1>5, <2>1, <2>2, <2>3 DEF Control
<1>9. Owned'
  <2>1. InPool' = InPool
    BY DEF InPool
  <2>2. /\ c # px.fd /\ up[c].st = "unused" /\ up'[c].mine /\ up'[c].st = "open" /\ ~up'[px.fd].mine
        /\ \A d \in UpIds : d # c /\ d # px.fd => up'[d] = up[d]
        /\ up'[px.fd].st # "unused"
    BY RenewedUp, SlotFacts
  <2>3. c \notin InPool /\ px.fd \notin InPool
    BY <2>2 DEF SlotInv, Owned
  <2>4. \A d \in UpIds : up'[d].mine <=> d = px'.fd \/ d \in InPool'
    <3>1. \A d \in UpIds : up[d].mine <=> d = px.fd \/ d \in InPool
      BY DEF SlotInv, Owned
    <3> QED BY <1>4, <2>1, <2>2, <2>3, <3>1
  <2>5. \A d \in UpIds : up'[d].st = "unused" => up'[d] = up[d]
    BY <2>2
  <2> QED BY <1>4, <2>1, <2>3, <2>4, <2>5 DEF SlotInv, Owned
<1> QED BY <1>6, <1>7, <1>8, <1>9 DEF SlotInv

\* The sockets in the pool.
LEMMA InPoolFacts ==
    ASSUME Typed
    PROVE  /\ pool \in Seq(UpIds) /\ DOMAIN pool = 1 .. Len(pool) /\ Len(pool) \in Nat
           /\ InPool \subseteq UpIds /\ NoUp \notin InPool /\ NoUp \notin UpIds
<1>1. pool \in Seq(UpIds)
  BY DEF Typed
<1>2. DOMAIN pool = 1 .. Len(pool) /\ Len(pool) \in Nat
  BY <1>1, DomFacts
<1>3. InPool \subseteq UpIds
  BY <1>1, <1>2 DEF InPool
<1>4. NoUp \notin UpIds
  BY SizesAssumption DEF UpIds, NoUp
<1> QED BY <1>1, <1>2, <1>3, <1>4

\* A socket is added to the pool.
LEMMA ParkFacts ==
    ASSUME SlotInv, px.fd # NoUp, pool' = Append(pool, px.fd)
    PROVE  /\ pool' \in Seq(UpIds) /\ Len(pool') = Len(pool) + 1 /\ InPool' = InPool \cup {px.fd}
           /\ \A i, j \in DOMAIN pool' : pool'[i] = pool'[j] => i = j
<1>1. px.fd \in UpIds /\ px.fd \notin InPool
  BY SlotFacts DEF SlotInv, Owned
<1>2. pool \in Seq(UpIds) /\ DOMAIN pool = 1 .. Len(pool) /\ Len(pool) \in Nat
  BY InPoolFacts DEF SlotInv
<1>3. /\ pool' \in Seq(UpIds) /\ Len(pool') = Len(pool) + 1
      /\ \A i \in 1 .. Len(pool) : pool'[i] = pool[i]
      /\ pool'[Len(pool) + 1] = px.fd
  BY <1>1, <1>2, AddFacts
<1>4. DOMAIN pool' = 1 .. Len(pool) + 1
  BY <1>3, DomFacts
<1>5. \A i \in DOMAIN pool' : i \in DOMAIN pool \/ i = Len(pool) + 1
  BY <1>2, <1>4
<1>6. Len(pool) + 1 \in DOMAIN pool' /\ \A i \in DOMAIN pool : i \in DOMAIN pool'
  BY <1>2, <1>4
<1>7. InPool' = InPool \cup {px.fd}
  BY <1>2, <1>3, <1>5, <1>6 DEF InPool
<1>8. ASSUME NEW i \in DOMAIN pool', NEW j \in DOMAIN pool', pool'[i] = pool'[j] PROVE i = j
  <2>1. \A k \in DOMAIN pool : pool'[k] = pool[k] /\ pool[k] # px.fd
    BY <1>1, <1>2, <1>3 DEF InPool
  <2>2. CASE i \in DOMAIN pool /\ j \in DOMAIN pool
    BY <1>8, <2>1, <2>2 DEF SlotInv, Owned
  <2> QED BY <1>3, <1>5, <1>8, <2>1, <2>2
<1> QED BY <1>3, <1>7, <1>8

\* proxy_pool_put keeps SlotInv: a parked socket is in one place only.
LEMMA ParksKeeps ==
    ASSUME SlotInv, Frame, px.fd # NoUp, NEW p, Sound(p), Parks(up, p)
    PROVE  SlotInv'
<1>1. /\ px.fd \in UpIds /\ up[px.fd].mine /\ up[px.fd].st # "unused" /\ hc.phase = "READ" /\ hc \in HcRecords
      /\ hc.buf # <<>> /\ ~hc.keep /\ Req.target \in {"a", "b"} /\ Cur \in DOMAIN script
  BY SlotFacts DEF SlotInv, Typed
<1>2. /\ Units' = Units /\ PxRecords' = PxRecords /\ HcRecords' = HcRecords
      /\ UpRecords' = UpRecords /\ ClientRecords' = ClientRecords
  BY SameScript DEF Frame
<1>3. /\ PxReset \in PxRecords /\ PxReset.fd = NoUp /\ PxReset.phase = "none" /\ PxReset.armed = "none"
      /\ PxReset.bodyLeft = 0 /\ PxReset.respLeft = 0 /\ PxReset.buf = <<>> /\ ~PxReset.clientKeep
  BY ResetFacts
<1>4. px' = PxReset /\ pc' = "reuse" /\ armed' = armed /\ batch' = batch /\ budget' = Budget
  BY DEF Parks, At
<1>5. p.fd = px.fd /\ p.clientKeep \in BOOLEAN /\ (p.clientKeep => ShouldKeepalive(Req))
  BY DEF Sound, PxRecords
<1>6. hc' \in HcRecords /\ hc'.buf = hc.buf /\ hc'.phase = "READ" /\ hc'.keep = p.clientKeep
  BY <1>1, <1>5 DEF Parks, HcRecords
<1>7. \/ pool' = Append(pool, px.fd) /\ Len(pool) < PoolMax /\ up' = up
      \/ pool' = pool /\ up' = CloseUp(up, px.fd)
  BY <1>5 DEF Parks
<1>8. pool \in Seq(UpIds) /\ Len(pool) \in Nat /\ NoUp \notin InPool /\ NoUp \notin UpIds /\ up \in [UpIds -> UpRecords]
  BY InPoolFacts DEF SlotInv, Typed
<1>9. LET g == CloseUp(up, px.fd)
      IN  /\ g \in [UpIds -> UpRecords] /\ \A c \in UpIds : c # px.fd => g[c] = up[c]
          /\ ~g[px.fd].mine /\ g[px.fd].st = up[px.fd].st
  BY <1>1, <1>8, ClosedUp
<1>10. pool' \in Seq(UpIds) /\ Len(pool') <= PoolMax /\ up' \in [UpIds -> UpRecords]
  <2>1. CASE pool' = Append(pool, px.fd) /\ Len(pool) < PoolMax /\ up' = up
    <3>1. Len(pool') = Len(pool) + 1 /\ pool' \in Seq(UpIds)
      BY <2>1, ParkFacts
    <3> QED BY <1>8, <2>1, <3>1, SizesAssumption
  <2>2. CASE pool' = pool /\ up' = CloseUp(up, px.fd)
    BY <1>8, <1>9, <2>2 DEF SlotInv, TypeOK
  <2> QED BY <1>7, <2>1, <2>2
<1>11. Typed'
  BY <1>2, <1>3, <1>4, <1>6, <1>10 DEF SlotInv, Typed, Frame
<1>12. TypeOK'
  <2>1. client'.st \in {"open", "fin", "rst"} /\ caller' \in {"read", "reuse", "event"}
    BY DEF Frame, ClientRecords
  <2>2. /\ px'.fd \in UpIds \cup {NoUp} /\ px'.phase \in Phases /\ px'.armed \in Ios
        /\ px'.bodyLeft \in Nat /\ px'.respLeft \in Nat /\ Len(px'.buf) <= BufMax
    BY <1>3, <1>4, SizesAssumption DEF Phases, Ios
  <2>3. \A i \in DOMAIN pool' : pool'[i] \in UpIds
    BY <1>10
  <2>4. budget' \in 0 .. Budget
    BY <1>4, SizesAssumption
  <2> QED BY <1>4, <1>6, <1>10, <2>1, <2>2, <2>3, <2>4 DEF SlotInv, TypeOK
<1>13. Control'
  <2>1. Cur' = Cur /\ Req' = Req
    BY <1>6 DEF Cur, Req, Frame
  <2> QED BY <1>1, <1>3, <1>4, <1>5, <1>6, <2>1 DEF Control
<1>14. Owned'
  <2>1. px'.fd = NoUp /\ \A c \in UpIds : up[c].mine <=> c = px.fd \/ c \in InPool
    BY <1>3, <1>4 DEF SlotInv, Owned
  <2>2. CASE pool' = Append(pool, px.fd) /\ up' = up
    <3>1. InPool' = InPool \cup {px.fd} /\ \A i, j \in DOMAIN pool' : pool'[i] = pool'[j] => i = j
      BY <2>2, ParkFacts
    <3>2. \A c \in UpIds : up'[c].mine <=> c = px'.fd \/ c \in InPool'
      BY <1>8, <2>1, <2>2, <3>1
    <3>3. px'.fd \notin InPool'
      BY <1>1, <1>8, <2>1, <3>1
    <3> QED BY <2>2, <3>1, <3>2, <3>3 DEF SlotInv, Owned
  <2>3. CASE pool' = pool /\ up' = CloseUp(up, px.fd)
    <3>1. InPool' = InPool
      BY <2>3 DEF InPool
    <3>2. px.fd \notin InPool
      BY DEF SlotInv, Owned
    <3>3. \A c \in UpIds : up'[c].mine <=> c = px'.fd \/ c \in InPool'
      BY <1>1, <1>8, <1>9, <2>1, <2>3, <3>1, <3>2
    <3>4. \A c \in UpIds : up'[c].st = "unused" => up'[c] = up[c]
      BY <1>1, <1>9, <2>3
    <3> QED BY <1>8, <2>1, <2>3, <3>1, <3>3, <3>4 DEF SlotInv, Owned
  <2> QED BY <1>7, <2>2, <2>3
<1> QED BY <1>11, <1>12, <1>13, <1>14 DEF SlotInv

-----------------------------------------------------------------------------
(* What each step of the pump comes to. *)

\* The exchange is given up.  Unless the kernel or the other end is to blame, the server
\* has an answer of its own only if there is a cause.
Falls(u, p, cause) ==
    \/ Drops(hc, CloseUp(u, px.fd), TRUE)
    \/ Drops(Excused(hc), CloseUp(u, px.fd), p.respSent)
    \/ cause /\ Drops(hc, CloseUp(u, px.fd), p.respSent)

\* Any way of losing the upstream keeps SlotInv.
LEMMA FallsKeeps ==
    ASSUME SlotInv, Frame, pool' = pool, px.fd # NoUp, NEW u, Moved(u), NEW p, NEW cause, Falls(u, p, cause)
    PROVE  SlotInv'
<1>1. Dropped(CloseUp(u, px.fd))
  BY DropsFacts DEF Falls
<1> QED BY <1>1, DropsKeeps

\* Another turn of the loop is such a step.
LEMMA LoopGoes ==
    ASSUME SlotInv, pc = "pump", NEW u, NEW p \in PxRecords, NEW spent \in {0, 1},
           budget > 0 \/ spent = 0, Loop(u, p, spent)
    PROVE  Goes(u, p)
<1>1. budget' \in 0 .. Budget /\ armed' \in Ios
  BY SizesAssumption DEF SlotInv, TypeOK, Loop
<1>2. Like(p, p)
  BY DEF Like
<1> QED BY <1>1, <1>2 DEF Goes, Loop

\* Waiting is such a step.
LEMMA WaitsGoes ==
    ASSUME SlotInv, NEW u, NEW p, NEW upio, NEW io \in Ios, Waits(u, p, upio, io)
    PROVE  Goes(u, p)
<1>1. budget' \in 0 .. Budget /\ armed' \in Ios /\ batch' = batch
  <2>1. armed \in Ios /\ Budget \in 0 .. Budget
    BY SizesAssumption DEF SlotInv, TypeOK
  <2>2. budget' = Budget /\ armed' \in {armed, io} /\ batch' = batch
    BY DEF Waits, At, ArmEvents
  <2> QED BY <2>1, <2>2
<1>2. pc' = "onread" \/ pc' = "wait" \/ (pc' = "batch" /\ batch # <<>>)
  BY DEF Waits, At, ArmEvents
<1> QED BY <1>1, <1>2 DEF Goes, Waits

\* What holds at a turn of the pump.
LEMMA PumpFacts ==
    ASSUME SlotInv, Pump
    PROVE  /\ pc = "pump" /\ script' = script /\ caller' = caller /\ px.fd # NoUp
           /\ caller' \in {"read", "reuse", "event"}
<1>1. pc = "pump" /\ caller' = caller /\ script' = script
  <2>1. CASE PumpFlush100
    BY <2>1 DEF PumpFlush100, InPump
  <2>2. CASE PumpBudgetOut
    BY <2>2 DEF PumpBudgetOut, InPump, pumpRest
  <2>3. CASE PumpSendReq
    BY <2>3 DEF PumpSendReq, InPump, Pumping, pumpRest
  <2>4. CASE PumpSendBody
    BY <2>4 DEF PumpSendBody, InPump, Pumping, pumpRest
  <2>5. CASE PumpReadBody
    BY <2>5, Zenon DEF PumpReadBody, InPump, Pumping
  <2>6. CASE PumpBodySent
    BY <2>6 DEF PumpBodySent, InPump, Pumping, pumpRest
  <2>7. CASE PumpRecvHdr
    BY <2>7 DEF PumpRecvHdr, InPump, Pumping, pumpRest
  <2>8. CASE PumpSendGathered
    BY <2>8, Zenon DEF PumpSendGathered, InPump, Pumping
  <2>9. CASE PumpSendHdr
    BY <2>9 DEF PumpSendHdr, InPump, Pumping
  <2>10. CASE PumpStreamOut
    BY <2>10 DEF PumpStreamOut, InPump, Pumping
  <2>11. CASE PumpStreamIn
    BY <2>11 DEF PumpStreamIn, InPump, Pumping
  <2> QED BY <2>1, <2>2, <2>3, <2>4, <2>5, <2>6, <2>7, <2>8, <2>9, <2>10, <2>11 DEF Pump
<1> QED BY <1>1 DEF SlotInv, Control, TypeOK

\* A turn of the pump with 100 Continue to send.
LEMMA FlushEffect ==
    ASSUME SlotInv, PumpFlush100
    PROVE  \E n \in {0, 1} :
              /\ out' = out \o Take(<<Unit("100", Cur, 0)>>, n) /\ client' = client /\ pool' = pool
              /\ \/ n = 1 /\ Loop(up, [px EXCEPT !.send100 = FALSE], 0)
                 \/ n = 0 /\ Waits(up, px, "none", "write")
                 \/ Falls(up, px, FALSE)
<1>1. px.fd # NoUp /\ client.st \in {"open", "fin", "rst"} /\ px.send100
  BY DEF PumpFlush100, InPump, SlotInv, Control, TypeOK
<1>2. hc.phase = "READ" /\ px \in PxRecords
  BY <1>1, SlotFacts
<1>3. PICK o \in SendOutcomes(1, client.st) :
         /\ out' = out \o Take(<<Unit("100", Cur, 0)>>, o.n)
         /\ CASE o.res = "ok" -> Loop(up, [px EXCEPT !.send100 = FALSE], 0)
              [] o.res = "again" -> UNCHANGED hc /\ Return("write", up, px, hc.phase)
              [] OTHER -> Abandon(up, px)
  BY DEF PumpFlush100
<1>4. o.n \in 0 .. 1 /\ o.res \in {"ok", "again", "dead"} /\ (o.res = "ok" => o.n = 1) /\ (o.res = "again" => o.n < 1)
  BY <1>1, SendFacts
<1>5. o.n \in {0, 1} /\ (o.res = "again" => o.n = 0)
  BY <1>4
<1>6. client' = client /\ pool' = pool
  BY DEF PumpFlush100
<1>7. CASE o.res = "ok"
  BY <1>3, <1>4, <1>5, <1>6, <1>7
<1>8. CASE o.res = "again"
  <2>1. hc' = hc /\ Return("write", up, px, hc.phase)
    BY <1>3, <1>8
  <2>2. Waits(up, px, "none", "write") \/ Drops(hc, CloseUp(up, px.fd), TRUE)
    BY <1>2, <2>1, StayFacts
  <2> QED BY <1>3, <1>5, <1>6, <1>8, <2>2 DEF Falls
<1>9. CASE o.res = "dead"
  <2>1. Abandon(up, px)
    BY <1>3, <1>9
  <2>2. Drops(hc, CloseUp(up, px.fd), TRUE)
    BY <2>1, AbandonFacts
  <2> QED BY <1>3, <1>5, <1>6, <2>2 DEF Falls
<1> QED BY <1>4, <1>7, <1>8, <1>9

\* yield_up, with nothing of a 100 Continue left.
LEMMA YieldEffect ==
    ASSUME SlotInv, px.fd # NoUp, ~px.send100, NEW u, NEW p \in PxRecords, p.fd = px.fd, ~p.send100,
           NEW upio \in Ios, NEW io \in {"read", "write", "idle"}, Yield(u, p, upio, io)
    PROVE  Waits(u, p, upio, io) \/ Falls(u, p, FALSE)
<1>1. hc.phase = "READ"
  BY SlotFacts
<1>2. \/ Waits(u, p, upio, IF p.send100 THEN "write" ELSE io)
      \/ Drops(hc, CloseUp(u, p.fd), TRUE)
      \/ Drops(Excused(hc), CloseUp(u, p.fd), p.respSent)
  BY <1>1, YieldFacts
<1> QED BY <1>2 DEF Falls

\* proxy_fail, as a loss of the upstream for a cause.
LEMMA FailEffect ==
    ASSUME NEW u, NEW p, p.fd = px.fd, NEW cause, cause, Fail(u, p)
    PROVE  Falls(u, p, cause)
<1>1. Drops(hc, CloseUp(u, p.fd), p.respSent)
  BY FailFacts DEF Fail
<1> QED BY <1>1 DEF Falls

\* Giving up, as a loss of the upstream.
LEMMA AbandonEffect ==
    ASSUME NEW u, NEW p, p.fd = px.fd, NEW cause, Abandon(u, p)
    PROVE  Falls(u, p, cause)
<1>1. Drops(hc, CloseUp(u, p.fd), TRUE)
  BY AbandonFacts
<1> QED BY <1>1 DEF Falls

\* The pump's lines after its loop: the budget is spent.
LEMMA BudgetEffect ==
    ASSUME SlotInv, PumpBudgetOut
    PROVE  /\ client' = client /\ pool' = pool /\ out' = out
           /\ \/ /\ \/ px.phase = "SEND_REQ"
                    \/ px.phase = "SEND_BODY" /\ px.buf \o px.body # <<>>
                 /\ Waits(up, px, "write", "idle")
              \/ /\ px.phase = "SEND_BODY" /\ px.buf \o px.body = <<>> /\ px.bodyLeft > 0
                 /\ Waits(up, px, "idle", "read")
              \/ /\ px.phase = "RECV_HDR" \/ (px.phase = "STREAM" /\ px.buf = <<>>)
                 /\ Waits(up, px, "read", "idle")
              \/ /\ px.phase = "SEND_RESP" \/ (px.phase = "STREAM" /\ (px.buf # <<>> \/ px.bodyDone))
                 /\ Waits(up, px, "idle", "write")
              \/ Falls(up, px, px.phase = "SEND_BODY" /\ px.buf \o px.body = <<>> /\ px.bodyLeft = 0)
<1>1. px.fd # NoUp /\ ~px.send100
  BY DEF PumpBudgetOut, InPump, SlotInv, Control
<1>2. px \in PxRecords /\ px.phase # "none" /\ px.phase \in Phases /\ px.bodyLeft \in Nat
  BY <1>1, SlotFacts DEF Sound, PxRecords
<1>3. client' = client /\ pool' = pool /\ out' = out
  BY DEF PumpBudgetOut, pumpRest
<1>4. CASE px.phase = "SEND_REQ" \/ (px.phase = "SEND_BODY" /\ px.buf \o px.body # <<>>)
  <2>1. Yield(up, px, "write", "idle")
    BY <1>4 DEF PumpBudgetOut
  <2>2. Waits(up, px, "write", "idle") \/ Falls(up, px, FALSE)
    BY <1>1, <1>2, <2>1, YieldEffect DEF Ios
  <2> QED BY <1>3, <1>4, <2>2 DEF Falls
<1>5. CASE px.phase = "SEND_BODY" /\ px.buf \o px.body = <<>> /\ px.bodyLeft > 0
  <2>1. Yield(up, px, "idle", "read")
    BY <1>5 DEF PumpBudgetOut
  <2>2. Waits(up, px, "idle", "read") \/ Falls(up, px, FALSE)
    BY <1>1, <1>2, <2>1, YieldEffect DEF Ios
  <2> QED BY <1>3, <1>5, <2>2 DEF Falls
<1>6. CASE px.phase = "RECV_HDR" \/ (px.phase = "STREAM" /\ px.buf = <<>> /\ ~px.bodyDone)
  <2>1. Yield(up, px, "read", "idle")
    BY <1>6 DEF PumpBudgetOut
  <2>2. Waits(up, px, "read", "idle") \/ Falls(up, px, FALSE)
    BY <1>1, <1>2, <2>1, YieldEffect DEF Ios
  <2> QED BY <1>3, <1>6, <2>2 DEF Falls
<1>7. CASE px.phase = "SEND_RESP" \/ (px.phase = "STREAM" /\ (px.buf # <<>> \/ px.bodyDone))
  <2>1. Yield(up, px, "idle", "write")
    BY <1>7 DEF PumpBudgetOut
  <2>2. Waits(up, px, "idle", "write") \/ Falls(up, px, FALSE)
    BY <1>1, <1>2, <2>1, YieldEffect DEF Ios
  <2> QED BY <1>3, <1>7, <2>2 DEF Falls
<1>8. CASE px.phase = "SEND_BODY" /\ px.buf \o px.body = <<>> /\ px.bodyLeft = 0
  <2>1. Fail(up, px)
    BY <1>8 DEF PumpBudgetOut
  <2> QED BY <1>3, <1>8, <2>1, FailEffect
<1>9. px.bodyLeft = 0 \/ px.bodyLeft > 0
  BY <1>2
<1> QED BY <1>2, <1>4, <1>5, <1>6, <1>7, <1>8, <1>9 DEF Phases

\* The connection once n more units of the header, of the buffer, of the body are gone.
HdrLess(n) == [px EXCEPT !.hdr = Drop(@, n)]
BufLess(n) == [px EXCEPT !.buf = Drop(@, n)]
BodyLess(n) == [px EXCEPT !.body = Drop(@, n)]

\* proxy_conn after units of its header, its buffer or the body were sent.
LEMMA LessFacts ==
    ASSUME px \in PxRecords
    PROVE  /\ \A n \in 0 .. Len(px.hdr) :
                 /\ HdrLess(n) \in PxRecords /\ HdrLess(n).hdr = Drop(px.hdr, n)
                 /\ Like([HdrLess(n) EXCEPT !.hdr = px.hdr], px)
           /\ \A n \in 0 .. Len(px.buf) :
                 /\ BufLess(n) \in PxRecords /\ BufLess(n).buf = Drop(px.buf, n)
                 /\ Like([BufLess(n) EXCEPT !.buf = px.buf], px)
           /\ \A n \in 0 .. Len(px.body) :
                 /\ BodyLess(n) \in PxRecords /\ BodyLess(n).body = Drop(px.body, n)
                 /\ Like([BodyLess(n) EXCEPT !.body = px.body], px)
<1>1. px.hdr \in Seq(Units) /\ px.buf \in Seq(Units) /\ px.body \in Seq(Units)
  BY DEF PxRecords
<1>2. \A n \in 0 .. Len(px.hdr) : Drop(px.hdr, n) \in Seq(Units)
  BY <1>1, DropFacts
<1>3. \A n \in 0 .. Len(px.buf) : Drop(px.buf, n) \in Seq(Units)
  BY <1>1, DropFacts
<1>4. \A n \in 0 .. Len(px.body) : Drop(px.body, n) \in Seq(Units)
  BY <1>1, DropFacts
<1>5. ASSUME NEW n \in 0 .. Len(px.hdr)
      PROVE  /\ HdrLess(n) \in PxRecords /\ HdrLess(n).hdr = Drop(px.hdr, n)
             /\ Like([HdrLess(n) EXCEPT !.hdr = px.hdr], px)
  BY <1>2 DEF HdrLess, PxRecords, Like
<1>6. ASSUME NEW n \in 0 .. Len(px.buf)
      PROVE  /\ BufLess(n) \in PxRecords /\ BufLess(n).buf = Drop(px.buf, n)
             /\ Like([BufLess(n) EXCEPT !.buf = px.buf], px)
  BY <1>3 DEF BufLess, PxRecords, Like
<1>7. ASSUME NEW n \in 0 .. Len(px.body)
      PROVE  /\ BodyLess(n) \in PxRecords /\ BodyLess(n).body = Drop(px.body, n)
             /\ Like([BodyLess(n) EXCEPT !.body = px.body], px)
  BY <1>4 DEF BodyLess, PxRecords, Like
<1> QED BY <1>5, <1>6, <1>7

\* A turn in PX_SEND_REQ.
LEMMA SendReqEffect ==
    ASSUME SlotInv, PumpSendReq
    PROVE  /\ client' = client /\ pool' = pool /\ out' = out
           /\ \E n \in 0 .. Len(px.hdr) :
                 LET u == ToUp(px.fd, Take(px.hdr, n))
                     p == HdrLess(n)
                 IN  \/ /\ n = Len(px.hdr)
                        /\ Loop(u, [p EXCEPT !.phase = IF BodyPending(p) THEN "SEND_BODY" ELSE "RECV_HDR",
                                             !.buf = <<>>], 1)
                     \/ n < Len(px.hdr) /\ Waits(u, p, "write", "idle")
                     \/ Falls(u, p, up[px.fd].st # "open")
                     \/ /\ px.reused /\ Len(p.hdr) = 2
                        /\ (\E c \in UpIds : Renews(c, p)) \/ Falls(up, p, FALSE)
<1>1. px.fd # NoUp /\ ~px.send100
  BY DEF PumpSendReq, Pumping, InPump, SlotInv, Control
<1>2. px \in PxRecords /\ px.fd \in UpIds /\ px.hdr \in Seq(Units) /\ Len(px.hdr) \in Nat
      /\ up[px.fd].st \in {"open", "fin", "rst"}
  <2>1. px \in PxRecords /\ px.fd \in UpIds /\ up[px.fd].st # "unused"
    BY <1>1, SlotFacts
  <2>2. up[px.fd].st \in {"unused", "open", "fin", "rst"}
    BY <2>1 DEF SlotInv, Typed, UpRecords
  <2>3. px.hdr \in Seq(Units)
    BY <2>1 DEF PxRecords
  <2> QED BY <2>1, <2>2, <2>3, DomFacts
<1>3. client' = client /\ pool' = pool /\ out' = out
  BY DEF PumpSendReq, pumpRest
<1>4. PICK o \in SendOutcomes(Len(px.hdr), up[px.fd].st) :
         LET u == ToUp(px.fd, Take(px.hdr, o.n))
             p == [px EXCEPT !.hdr = Drop(@, o.n)]
         IN  CASE o.res = "dead" ->
                    IF px.reused /\ Len(p.hdr) = 2 THEN Reopen(p) ELSE Fail(u, p)
               [] o.res = "again" -> Yield(u, p, "write", "idle")
               [] OTHER -> Loop(u, [p EXCEPT !.phase = IF BodyPending(p)
                                                       THEN "SEND_BODY" ELSE "RECV_HDR",
                                             !.buf = <<>>], 1)
  BY Zenon DEF PumpSendReq
<1> DEFINE u == ToUp(px.fd, Take(px.hdr, o.n))
           p == HdrLess(o.n)
<1>5. /\ o.n \in 0 .. Len(px.hdr) /\ o.res \in {"ok", "again", "dead"} /\ (o.res = "ok" => o.n = Len(px.hdr))
      /\ (o.res = "again" => o.n < Len(px.hdr)) /\ (o.res = "dead" => up[px.fd].st # "open")
  BY <1>2, SendFacts
<1>6. p \in PxRecords /\ p.fd = px.fd /\ ~p.send100
  <2>1. p \in PxRecords
    BY <1>2, <1>5, LessFacts
  <2>2. p.fd = px.fd /\ p.send100 = px.send100
    BY <1>2 DEF HdrLess, PxRecords
  <2> QED BY <1>1, <2>1, <2>2
<1>7. CASE o.res = "ok"
  <2>1. Loop(u, [p EXCEPT !.phase = IF BodyPending(p) THEN "SEND_BODY" ELSE "RECV_HDR", !.buf = <<>>], 1)
    BY <1>4, <1>7 DEF HdrLess
  <2> QED BY <1>3, <1>5, <1>7, <2>1, Zenon
<1>8. CASE o.res = "again"
  <2>1. Yield(u, p, "write", "idle")
    BY <1>4, <1>8 DEF HdrLess
  <2> HIDE DEF u, p
  <2>2. Waits(u, p, "write", "idle") \/ Falls(u, p, FALSE)
    BY <1>1, <1>6, <2>1, YieldEffect DEF Ios
  <2>3. Waits(u, p, "write", "idle") \/ Falls(u, p, up[px.fd].st # "open")
    BY <2>2 DEF Falls
  <2> QED BY <1>3, <1>5, <1>8, <2>3, Zenon DEF u, p
<1>9. CASE o.res = "dead" /\ px.reused /\ Len(p.hdr) = 2
  <2>1. Reopen(p)
    BY <1>4, <1>9 DEF HdrLess
  <2> HIDE DEF u, p
  <2>2. (\E c \in UpIds : Renews(c, p)) \/ Drops(Excused(hc), CloseUp(up, px.fd), p.respSent)
    BY <1>1, <1>6, <2>1, ReopenFacts
  <2>3. (\E c \in UpIds : Renews(c, p)) \/ Falls(up, p, FALSE)
    BY <2>2 DEF Falls
  <2> QED BY <1>3, <1>5, <1>9, <2>3, Zenon DEF p
<1>10. CASE o.res = "dead" /\ ~(px.reused /\ Len(p.hdr) = 2)
  <2>1. Fail(u, p)
    BY <1>4, <1>10 DEF HdrLess
  <2> HIDE DEF u, p
  <2>2. Falls(u, p, up[px.fd].st # "open")
    BY <1>5, <1>6, <1>10, <2>1, FailEffect
  <2> QED BY <1>3, <1>5, <2>2, Zenon DEF u, p
<1> QED BY <1>5, <1>7, <1>8, <1>9, <1>10, Zenon

\* The types of what the pump works on.
LEMMA SlotTypes ==
    ASSUME SlotInv, px.fd # NoUp
    PROVE  /\ px \in PxRecords /\ px.fd \in UpIds /\ up \in [UpIds -> UpRecords]
           /\ px.hdr \in Seq(Units) /\ Len(px.hdr) \in Nat /\ px.buf \in Seq(Units) /\ Len(px.buf) \in Nat
           /\ px.body \in Seq(Units) /\ Len(px.body) \in Nat /\ px.bodyLeft \in Nat /\ px.respLeft \in Nat
           /\ up[px.fd].st \in {"open", "fin", "rst"}
           /\ up[px.fd].in \in Seq(Units) /\ Len(up[px.fd].in) \in Nat
           /\ up[px.fd].got \in Seq(Units) /\ up[px.fd].plan \in Seq(Units)
           /\ client \in ClientRecords /\ client.in \in Seq(Units) /\ Len(client.in) \in Nat
           /\ client.st \in {"open", "fin", "rst"} /\ out \in Seq(Units) /\ script \in Scripts
<1>1. px \in PxRecords /\ px.fd \in UpIds /\ up[px.fd].st # "unused"
  BY SlotFacts
<1>2. up \in [UpIds -> UpRecords] /\ client \in ClientRecords /\ out \in Seq(Units) /\ script \in Scripts
  BY DEF SlotInv, Typed
<1>3. /\ up[px.fd].st \in {"unused", "open", "fin", "rst"} /\ up[px.fd].in \in Seq(Units)
      /\ up[px.fd].got \in Seq(Units) /\ up[px.fd].plan \in Seq(Units)
  BY <1>1, <1>2 DEF UpRecords
<1>4. /\ px.hdr \in Seq(Units) /\ px.buf \in Seq(Units) /\ px.body \in Seq(Units)
      /\ px.bodyLeft \in Nat /\ px.respLeft \in Nat
  BY <1>1 DEF PxRecords
<1>5. client.in \in Seq(Units) /\ client.st \in {"open", "fin", "rst"}
  BY <1>2 DEF ClientRecords
<1> QED BY <1>1, <1>2, <1>3, <1>4, <1>5, DomFacts

\* What holds at a turn of the pump that does a phase's work.
LEMMA PumpingFacts ==
    ASSUME SlotInv, Pumping
    PROVE  px.fd # NoUp /\ ~px.send100 /\ budget > 0 /\ pc = "pump" /\ caller' = caller
  BY DEF Pumping, InPump, SlotInv, Control

\* What the pump does with the result of a send to the upstream.
LEMMA OutcomeEffect ==
    ASSUME SlotInv, px.fd # NoUp, ~px.send100, NEW len \in Nat, NEW o \in SendOutcomes(len, up[px.fd].st),
           NEW u, NEW p \in PxRecords, p.fd = px.fd, ~p.send100,
           CASE o.res = "dead" -> Fail(u, p)
             [] o.res = "again" -> Yield(u, p, "write", "idle")
             [] OTHER -> Loop(u, p, 1)
    PROVE  /\ o.n \in 0 .. len
           /\ \/ Loop(u, p, 1)
              \/ o.n < len /\ Waits(u, p, "write", "idle")
              \/ Falls(u, p, up[px.fd].st # "open")
<1>1. up[px.fd].st \in {"open", "fin", "rst"}
  BY SlotTypes
<1>2. /\ o.n \in 0 .. len /\ o.res \in {"ok", "again", "dead"}
      /\ (o.res = "again" => o.n < len) /\ (o.res = "dead" => up[px.fd].st # "open")
  BY <1>1, SendFacts
<1>3. CASE o.res = "ok"
  BY <1>2, <1>3
<1>4. CASE o.res = "again"
  <2>1. Yield(u, p, "write", "idle")
    BY <1>4
  <2>2. Waits(u, p, "write", "idle") \/ Falls(u, p, FALSE)
    BY <2>1, YieldEffect DEF Ios
  <2> QED BY <1>2, <1>4, <2>2 DEF Falls
<1>5. CASE o.res = "dead"
  <2>1. Fail(u, p)
    BY <1>5
  <2> QED BY <1>2, <1>5, <2>1, FailEffect
<1> QED BY <1>2, <1>3, <1>4, <1>5

\* A turn in PX_SEND_BODY that has body units at hand.
LEMMA SendBodyEffect ==
    ASSUME SlotInv, PumpSendBody
    PROVE  /\ client' = client /\ pool' = pool /\ out' = out /\ px.phase = "SEND_BODY"
           /\ \/ /\ px.buf # <<>>
                 /\ \E n \in 0 .. Len(px.buf) :
                       LET u == ToUp(px.fd, Take(px.buf, n))
                       IN  \/ Loop(u, BufLess(n), 1)
                           \/ n < Len(px.buf) /\ Waits(u, BufLess(n), "write", "idle")
                           \/ Falls(u, BufLess(n), up[px.fd].st # "open")
              \/ /\ px.buf = <<>> /\ px.body # <<>>
                 /\ \E n \in 0 .. Len(px.body) :
                       LET u == ToUp(px.fd, Take(px.body, n))
                       IN  \/ Loop(u, BodyLess(n), 1)
                           \/ n < Len(px.body) /\ Waits(u, BodyLess(n), "write", "idle")
                           \/ Falls(u, BodyLess(n), up[px.fd].st # "open")
<1>1. px.fd # NoUp /\ ~px.send100 /\ px.phase = "SEND_BODY" /\ client' = client /\ pool' = pool /\ out' = out
  BY PumpingFacts DEF PumpSendBody, pumpRest
<1>2. /\ px \in PxRecords /\ px.fd \in UpIds /\ Len(px.buf) \in Nat /\ Len(px.body) \in Nat
      /\ px.buf \in Seq(Units) /\ px.body \in Seq(Units) /\ up[px.fd].st \in {"open", "fin", "rst"}
  BY <1>1, SlotTypes
<1>3. px.buf \o px.body # <<>>
  BY DEF PumpSendBody
<1>4. px.buf # <<>> \/ px.body # <<>>
  <2>1. <<>> \o <<>> = <<>>
    OBVIOUS
  <2> QED BY <1>3, <2>1
<1>6. CASE px.buf # <<>>
  <2>1. PICK o \in SendOutcomes(Len(px.buf), up[px.fd].st) :
           LET u == ToUp(px.fd, Take(px.buf, o.n))
           IN  CASE o.res = "dead" -> Fail(u, BufLess(o.n))
                 [] o.res = "again" -> Yield(u, BufLess(o.n), "write", "idle")
                 [] OTHER -> Loop(u, BufLess(o.n), 1)
    BY <1>6 DEF PumpSendBody, BufLess
  <2>2. \A n \in 0 .. Len(px.buf) : BufLess(n) \in PxRecords /\ BufLess(n).fd = px.fd /\ ~BufLess(n).send100
    <3>1. \A n : BufLess(n).fd = px.fd /\ BufLess(n).send100 = px.send100
      BY <1>2 DEF BufLess, PxRecords
    <3> QED BY <1>1, <1>2, <3>1, LessFacts
  <2>3. o.n \in 0 .. Len(px.buf)
    BY <1>2, SendFacts
  <2>4. BufLess(o.n) \in PxRecords /\ BufLess(o.n).fd = px.fd /\ ~BufLess(o.n).send100
    BY <2>2, <2>3
  <2>5. LET u == ToUp(px.fd, Take(px.buf, o.n))
        IN  \/ Loop(u, BufLess(o.n), 1)
            \/ o.n < Len(px.buf) /\ Waits(u, BufLess(o.n), "write", "idle")
            \/ Falls(u, BufLess(o.n), up[px.fd].st # "open")
    BY <1>1, <1>2, <2>1, <2>4, OutcomeEffect
  <2> QED BY <1>1, <1>6, <2>3, <2>5
<1>7. CASE px.buf = <<>> /\ px.body # <<>>
  <2>1. PICK o \in SendOutcomes(Len(px.body), up[px.fd].st) :
           LET u == ToUp(px.fd, Take(px.body, o.n))
           IN  CASE o.res = "dead" -> Fail(u, BodyLess(o.n))
                 [] o.res = "again" -> Yield(u, BodyLess(o.n), "write", "idle")
                 [] OTHER -> Loop(u, BodyLess(o.n), 1)
    BY <1>7 DEF PumpSendBody, BodyLess
  <2>2. \A n \in 0 .. Len(px.body) : BodyLess(n) \in PxRecords /\ BodyLess(n).fd = px.fd /\ ~BodyLess(n).send100
    <3>1. \A n : BodyLess(n).fd = px.fd /\ BodyLess(n).send100 = px.send100
      BY <1>2 DEF BodyLess, PxRecords
    <3> QED BY <1>1, <1>2, <3>1, LessFacts
  <2>3. o.n \in 0 .. Len(px.body)
    BY <1>2, SendFacts
  <2>4. BodyLess(o.n) \in PxRecords /\ BodyLess(o.n).fd = px.fd /\ ~BodyLess(o.n).send100
    BY <2>2, <2>3
  <2>5. LET u == ToUp(px.fd, Take(px.body, o.n))
        IN  \/ Loop(u, BodyLess(o.n), 1)
            \/ o.n < Len(px.body) /\ Waits(u, BodyLess(o.n), "write", "idle")
            \/ Falls(u, BodyLess(o.n), up[px.fd].st # "open")
    BY <1>1, <1>2, <2>1, <2>4, OutcomeEffect
  <2> QED BY <1>1, <1>7, <2>3, <2>5
<1> QED BY <1>4, <1>6, <1>7

\* The connection with n units of what the client sent in the buffer.
BodyRead(n) == [px EXCEPT !.buf = Take(client.in, n), !.bodyLeft = @ - n]

\* A turn in PX_SEND_BODY that reads the client.
LEMMA ReadBodyEffect ==
    ASSUME SlotInv, PumpReadBody
    PROVE  /\ px.phase = "SEND_BODY" /\ px.buf \o px.body = <<>> /\ px.bodyLeft > 0
           /\ pool' = pool /\ out' = out
           /\ \/ \E n \in 1 .. Len(client.in) :
                    /\ n <= px.bodyLeft /\ n <= BufMax
                    /\ client' = [client EXCEPT !.in = Drop(@, n)]
                    /\ Loop(up, BodyRead(n), 1)
              \/ /\ client' = client
                 /\ Waits(up, px, "idle", "read") \/ Falls(up, px, FALSE)
<1>1. px.fd # NoUp /\ ~px.send100 /\ px \in PxRecords
  BY PumpingFacts, SlotFacts, Zenon DEF PumpReadBody
<1>2. /\ px.phase = "SEND_BODY" /\ px.buf \o px.body = <<>> /\ px.bodyLeft > 0
      /\ pool' = pool /\ out' = out
  BY Zenon DEF PumpReadBody
<1>3. px.bodyLeft \in Nat /\ BufMax \in Nat /\ client.in \in Seq(Units)
  BY <1>1, SlotTypes, SizesAssumption
<1> DEFINE cap == IF px.bodyLeft < BufMax THEN px.bodyLeft ELSE BufMax
<1>4. \/ \E n \in ReadSizes(client.in, cap) :
            client' = [client EXCEPT !.in = Drop(@, n)] /\ Loop(up, BodyRead(n), 1)
      \/ Yield(up, px, "idle", "read") /\ client' = client
      \/ Abandon(up, px) /\ client' = client
  BY Zenon DEF PumpReadBody, BodyRead
<1>5. cap \in Nat /\ cap <= px.bodyLeft /\ cap <= BufMax
  BY <1>3
<1> HIDE DEF cap
<1>6. CASE \E n \in ReadSizes(client.in, cap) :
             client' = [client EXCEPT !.in = Drop(@, n)] /\ Loop(up, BodyRead(n), 1)
  <2>1. PICK n \in ReadSizes(client.in, cap) :
           client' = [client EXCEPT !.in = Drop(@, n)] /\ Loop(up, BodyRead(n), 1)
    BY <1>6
  <2>2. n \in 1 .. Len(client.in) /\ n <= cap /\ n \in Nat
    BY <1>3, <1>5, ReadFacts
  <2>3. n <= px.bodyLeft /\ n <= BufMax
    BY <1>3, <1>5, <2>2
  <2> QED BY <1>2, <2>1, <2>2, <2>3
<1>7. CASE Yield(up, px, "idle", "read") /\ client' = client
  <2>1. Waits(up, px, "idle", "read") \/ Falls(up, px, FALSE)
    BY <1>1, <1>7, YieldEffect DEF Ios
  <2> QED BY <1>2, <1>7, <2>1
<1>8. CASE Abandon(up, px) /\ client' = client
  <2>1. Falls(up, px, FALSE)
    BY <1>8, AbandonEffect
  <2> QED BY <1>2, <1>8, <2>1
<1> QED BY <1>4, <1>6, <1>7, <1>8

\* A whole header block at position at of p.buf, the sockets being u.
Header(u, p, at) ==
    LET h == p.buf[at]
        rest == Drop(p.buf, at)
    IN  \/ /\ h.k = "1xx" /\ p.buf[1].k # "o"
           /\ \E spent \in {0, 1} : Loop(u, [p EXCEPT !.buf = rest], spent)
        \/ /\ h.k = "hend" /\ p.buf[1].k # "o" /\ h.r.framing # "badhead"
           /\ ~(h.r.framing = "badchunk" /\ BadChunk(rest) /\ Req.method # "HEAD")
           /\ \E spent \in {0, 1} : Loop(u, FinalHeader(p, at), spent)
        \/ Falls(u, p, Malformed(p, at))

\* The place find_hdr_end finds ends the first header block.
LEMMA HdrEndFacts ==
    ASSUME NEW b \in Seq(Units), HdrEnd(b) # 0
    PROVE  /\ HdrEnd(b) \in 1 .. Len(b) /\ b[HdrEnd(b)] \in Units /\ b[HdrEnd(b)].k \in {"1xx", "hend"}
           /\ \A i \in 1 .. Len(b) : i < HdrEnd(b) => b[i].k \notin {"1xx", "hend"}
<1> DEFINE ends == {i \in DOMAIN b : b[i].k \in {"1xx", "hend"}}
<1>1. DOMAIN b = 1 .. Len(b) /\ Len(b) \in Nat
  BY DomFacts
<1>2. ends # {} /\ HdrEnd(b) = CHOOSE i \in ends : \A j \in ends : i <= j
  BY DEF HdrEnd
<1>3. ends \subseteq Nat
  BY <1>1
<1>4. PICK m \in ends : \A j \in ends : m <= j
  BY <1>2, <1>3, LeastNatural
<1>5. HdrEnd(b) \in ends /\ \A j \in ends : HdrEnd(b) <= j
  BY <1>2, <1>4
<1>6. HdrEnd(b) \in 1 .. Len(b) /\ b[HdrEnd(b)].k \in {"1xx", "hend"}
  BY <1>1, <1>5
<1>7. ASSUME NEW i \in 1 .. Len(b), i < HdrEnd(b) PROVE b[i].k \notin {"1xx", "hend"}
  BY <1>1, <1>5, <1>6, <1>7
<1> QED BY <1>6, <1>7

\* A header block is skipped when informational, else answered or refused.
LEMMA HeaderEffect ==
    ASSUME NEW u, NEW p \in PxRecords, p.fd = px.fd, HdrEnd(p.buf) # 0, NEW spent \in {0, 1},
           HeaderBlock(u, p, HdrEnd(p.buf), spent)
    PROVE  Header(u, p, HdrEnd(p.buf))
<1> DEFINE at == HdrEnd(p.buf)
           h == p.buf[at]
           rest == Drop(p.buf, at)
<1>1. h.k \in {"1xx", "hend"}
  <2>1. p.buf \in Seq(Units)
    BY DEF PxRecords
  <2> QED BY <2>1, HdrEndFacts
<1>2. HeaderBlock(u, p, at, spent)
  OBVIOUS
<1> HIDE DEF at
<1>3. CASE Malformed(p, at)
  <2>1. Fail(u, p)
    BY <1>2, <1>3 DEF HeaderBlock
  <2>2. Falls(u, p, Malformed(p, at))
    BY <1>3, <2>1, FailEffect
  <2> QED BY <2>2 DEF Header, at
<1>4. CASE ~Malformed(p, at) /\ h.k = "1xx"
  <2>1. Loop(u, [p EXCEPT !.buf = rest], spent)
    BY <1>2, <1>4 DEF HeaderBlock
  <2> QED BY <1>4, <2>1 DEF Header, Malformed, at
<1>5. CASE ~Malformed(p, at) /\ h.k = "hend"
  <2>1. Loop(u, FinalHeader(p, at), spent)
    BY <1>2, <1>5 DEF HeaderBlock
  <2> QED BY <1>5, <2>1 DEF Header, Malformed, at
<1> QED BY <1>1, <1>3, <1>4, <1>5

\* The connection and the sockets with n more units of the answer read.
AnswerRead(n) == [px EXCEPT !.buf = @ \o Take(up[px.fd].in, n)]
Emptied(n) == [up EXCEPT ![px.fd].in = Drop(@, n)]

\* proxy_conn after a read of the answer's header.
LEMMA AnswerReadFacts ==
    ASSUME SlotInv, px.fd # NoUp, NEW n \in 0 .. Len(up[px.fd].in), n <= BufMax - Len(px.buf)
    PROVE  /\ AnswerRead(n) \in PxRecords /\ AnswerRead(n).buf = px.buf \o Take(up[px.fd].in, n)
           /\ Len(AnswerRead(n).buf) = Len(px.buf) + n /\ Sound(AnswerRead(n)) /\ Moved(Emptied(n))
           /\ Like([AnswerRead(n) EXCEPT !.buf = px.buf], px)
<1>1. /\ px \in PxRecords /\ px.fd \in UpIds /\ up \in [UpIds -> UpRecords] /\ px.buf \in Seq(Units)
      /\ up[px.fd].in \in Seq(Units) /\ Len(px.buf) \in Nat
  BY SlotTypes
<1>2. Take(up[px.fd].in, n) \in Seq(Units) /\ Len(Take(up[px.fd].in, n)) = n
  BY <1>1, TakeFacts
<1>3. /\ px.buf \o Take(up[px.fd].in, n) \in Seq(Units)
      /\ Len(px.buf \o Take(up[px.fd].in, n)) = Len(px.buf) + n
  <2> DEFINE t == Take(up[px.fd].in, n)
  <2> HIDE DEF t
  <2>1. t \in Seq(Units) /\ Len(t) = n
    BY <1>2 DEF t
  <2>2. px.buf \o t \in Seq(Units) /\ Len(px.buf \o t) = Len(px.buf) + Len(t)
    BY <1>1, <2>1, CatFacts
  <2> QED BY <2>1, <2>2 DEF t
<1>4. /\ AnswerRead(n) \in PxRecords /\ AnswerRead(n).buf = px.buf \o Take(up[px.fd].in, n)
  BY <1>1, <1>3 DEF AnswerRead, PxRecords
<1>5. Like([AnswerRead(n) EXCEPT !.buf = px.buf], px)
  BY <1>1 DEF AnswerRead, Like, PxRecords
<1>6. Sound(AnswerRead(n))
  <2>1. /\ AnswerRead(n).fd = px.fd /\ AnswerRead(n).phase = px.phase
        /\ AnswerRead(n).clientKeep = px.clientKeep
    BY <1>1 DEF AnswerRead, PxRecords
  <2>2. Sound(px)
    BY SlotFacts
  <2>3. Len(px.buf) + n <= BufMax
    BY <1>1, SizesAssumption
  <2> QED BY <1>3, <1>4, <2>1, <2>2, <2>3 DEF Sound
<1>7. Moved(Emptied(n))
  <2>1. LET g == Emptied(n)
        IN  /\ g \in [UpIds -> UpRecords] /\ \A c \in UpIds : c # px.fd => g[c] = up[c]
            /\ g[px.fd].mine = up[px.fd].mine /\ g[px.fd].plan = up[px.fd].plan
            /\ g[px.fd].st = up[px.fd].st /\ g[px.fd].addr = up[px.fd].addr
            /\ g[px.fd].answered = up[px.fd].answered
    BY <1>1, ReadUp DEF Emptied
  <2> QED BY <2>1 DEF Moved
<1> QED BY <1>3, <1>4, <1>5, <1>6, <1>7

\* A read of the answer changes nothing but the buffer.
LEMMA AnswerReadSame ==
    ASSUME SlotInv, px.fd # NoUp, NEW n \in 0 .. Len(up[px.fd].in), n <= BufMax - Len(px.buf)
    PROVE  LET p == AnswerRead(n)
           IN  /\ p \in PxRecords /\ p.fd = px.fd /\ p.phase = px.phase /\ p.send100 = px.send100
               /\ p.framing = px.framing /\ p.bodyDone = px.bodyDone /\ p.respSent = px.respSent
               /\ p.upClose = px.upClose /\ p.clientKeep = px.clientKeep /\ p.reused = px.reused
               /\ p.overread = px.overread /\ p.hdr = px.hdr /\ p.body = px.body
               /\ p.bodyLeft = px.bodyLeft /\ p.respLeft = px.respLeft
<1> DEFINE p == AnswerRead(n)
<1>1. p \in PxRecords /\ Like([p EXCEPT !.buf = px.buf], px)
  BY AnswerReadFacts
<1> HIDE DEF p
<1>2. /\ p.fd = px.fd /\ p.phase = px.phase /\ p.send100 = px.send100
      /\ p.framing = px.framing /\ p.bodyDone = px.bodyDone /\ p.respSent = px.respSent
      /\ p.upClose = px.upClose /\ p.clientKeep = px.clientKeep /\ p.reused = px.reused
      /\ p.overread = px.overread /\ p.hdr = px.hdr /\ p.body = px.body
      /\ p.bodyLeft = px.bodyLeft /\ p.respLeft = px.respLeft
  BY <1>1 DEF PxRecords, Like
<1> QED BY <1>1, <1>2 DEF p

\* A turn in PX_RECV_HDR.
LEMMA RecvHdrEffect ==
    ASSUME SlotInv, PumpRecvHdr
    PROVE  /\ client' = client /\ pool' = pool /\ out' = out /\ px.phase = "RECV_HDR"
           /\ \/ HdrEnd(px.buf) # 0 /\ Header(up, px, HdrEnd(px.buf))
              \/ HdrEnd(px.buf) = 0 /\ Falls(up, px, Len(px.buf) >= BufMax)
              \/ \E n \in 1 .. Len(up[px.fd].in) :
                    LET p == AnswerRead(n)
                        u == Emptied(n)
                    IN  /\ HdrEnd(px.buf) = 0 /\ n <= BufMax - Len(px.buf)
                        /\ \/ HdrEnd(p.buf) # 0 /\ Header(u, p, HdrEnd(p.buf))
                           \/ HdrEnd(p.buf) = 0 /\ Falls(u, p, Len(p.buf) >= BufMax)
                           \/ HdrEnd(p.buf) = 0 /\ Loop(u, p, 1)
              \/ /\ HdrEnd(px.buf) = 0 /\ up[px.fd].in = <<>>
                 /\ \/ Waits(up, px, "read", "idle")
                    \/ Falls(up, px, up[px.fd].st # "open")
                    \/ MayRetry(px) /\ \E c \in UpIds : Renews(c, px)
<1>1. /\ px.fd # NoUp /\ ~px.send100 /\ px.phase = "RECV_HDR" /\ client' = client /\ pool' = pool /\ out' = out
  BY PumpingFacts DEF PumpRecvHdr, pumpRest
<1>2. /\ px \in PxRecords /\ px.buf \in Seq(Units) /\ Len(px.buf) \in Nat
      /\ up[px.fd].in \in Seq(Units) /\ Len(up[px.fd].in) \in Nat
  BY <1>1, SlotTypes
<1>3. CASE HdrEnd(px.buf) # 0 /\ HeaderBlock(up, px, HdrEnd(px.buf), 0)
  <2>1. Header(up, px, HdrEnd(px.buf))
    BY <1>2, <1>3, HeaderEffect
  <2> QED BY <1>1, <1>3, <2>1
<1>4. CASE HdrEnd(px.buf) = 0 /\ Len(px.buf) >= BufMax /\ Fail(up, px)
  <2>1. Falls(up, px, Len(px.buf) >= BufMax)
    BY <1>4, FailEffect
  <2> QED BY <1>1, <1>4, <2>1
<1>5. CASE /\ HdrEnd(px.buf) = 0
           /\ \E n \in ReadSizes(up[px.fd].in, BufMax - Len(px.buf)) :
               LET u == [up EXCEPT ![px.fd].in = Drop(@, n)]
                   p == [px EXCEPT !.buf = @ \o Take(up[px.fd].in, n)]
               IN  CASE HdrEnd(p.buf) # 0 -> HeaderBlock(u, p, HdrEnd(p.buf), 1)
                     [] HdrEnd(p.buf) = 0 /\ Len(p.buf) >= BufMax -> Fail(u, p)
                     [] OTHER -> Loop(u, p, 1)
  <2>1. PICK n \in ReadSizes(up[px.fd].in, BufMax - Len(px.buf)) :
               LET u == Emptied(n)
                   p == AnswerRead(n)
               IN  CASE HdrEnd(p.buf) # 0 -> HeaderBlock(u, p, HdrEnd(p.buf), 1)
                     [] HdrEnd(p.buf) = 0 /\ Len(p.buf) >= BufMax -> Fail(u, p)
                     [] OTHER -> Loop(u, p, 1)
    BY <1>5 DEF Emptied, AnswerRead
  <2>2. n \in 1 .. Len(up[px.fd].in) /\ n \in 0 .. Len(up[px.fd].in) /\ n <= BufMax - Len(px.buf)
    <3>1. BufMax - Len(px.buf) \in Int
      BY <1>2, SizesAssumption
    <3> QED BY <1>2, <3>1, ReadFacts
  <2> DEFINE u == Emptied(n)
             p == AnswerRead(n)
  <2>3. p \in PxRecords /\ p.fd = px.fd
    BY <1>1, <2>2, AnswerReadFacts DEF Sound
  <2> HIDE DEF u, p
  <2>4. \/ HdrEnd(p.buf) # 0 /\ Header(u, p, HdrEnd(p.buf))
        \/ HdrEnd(p.buf) = 0 /\ Falls(u, p, Len(p.buf) >= BufMax)
        \/ HdrEnd(p.buf) = 0 /\ Loop(u, p, 1)
    <3>1. CASE HdrEnd(p.buf) # 0
      <4>1. HeaderBlock(u, p, HdrEnd(p.buf), 1)
        BY <2>1, <3>1 DEF u, p
      <4> QED BY <2>3, <3>1, <4>1, HeaderEffect
    <3>2. CASE HdrEnd(p.buf) = 0 /\ Len(p.buf) >= BufMax
      <4>1. Fail(u, p)
        BY <2>1, <3>2 DEF u, p
      <4> QED BY <2>3, <3>2, <4>1, FailEffect
    <3>3. CASE HdrEnd(p.buf) = 0 /\ ~(Len(p.buf) >= BufMax)
      BY <2>1, <3>3 DEF u, p
    <3> QED BY <3>1, <3>2, <3>3
  <2> QED BY <1>1, <1>5, <2>2, <2>4 DEF u, p
<1>6. CASE /\ HdrEnd(px.buf) = 0 /\ up[px.fd].in = <<>>
           /\ CASE up[px.fd].st = "open" -> Yield(up, px, "read", "idle")
                [] up[px.fd].st # "open" /\ MayRetry(px) -> Reopen(px)
                [] OTHER -> Fail(up, px)
  <2>1. \/ Waits(up, px, "read", "idle")
        \/ Falls(up, px, up[px.fd].st # "open")
        \/ MayRetry(px) /\ \E c \in UpIds : Renews(c, px)
    <3>1. CASE up[px.fd].st = "open"
      <4>1. Yield(up, px, "read", "idle")
        BY <1>6, <3>1
      <4>2. Waits(up, px, "read", "idle") \/ Falls(up, px, FALSE)
        BY <1>1, <1>2, <4>1, YieldEffect DEF Ios
      <4> QED BY <4>2 DEF Falls
    <3>2. CASE up[px.fd].st # "open" /\ MayRetry(px)
      <4>1. Reopen(px)
        BY <1>6, <3>2
      <4>2. (\E c \in UpIds : Renews(c, px)) \/ Drops(Excused(hc), CloseUp(up, px.fd), px.respSent)
        BY <1>1, <1>2, <4>1, ReopenFacts
      <4> QED BY <3>2, <4>2 DEF Falls
    <3>3. CASE up[px.fd].st # "open" /\ ~MayRetry(px)
      <4>1. Fail(up, px)
        BY <1>6, <3>3
      <4> QED BY <3>3, <4>1, FailEffect
    <3> QED BY <3>1, <3>2, <3>3
  <2> QED BY <1>1, <1>6, <2>1
<1> QED BY <1>3, <1>4, <1>5, <1>6 DEF PumpRecvHdr

\* q is p with the units us that were read of the body cut off at end.
Ended(q, p, us, end) ==
    /\ q \in PxRecords /\ q.buf = Take(us, end)
    /\ q.overread = (p.overread \/ end < Len(us))
    /\ q.respLeft = IF p.framing = "cl" THEN p.respLeft - end ELSE 0
    /\ q.bodyDone <=> \/ Chunked(p) /\ \E i \in 1 .. Len(us) : us[i].k = "z"
                      \/ p.framing = "cl" /\ p.respLeft = end
    /\ Chunked(p) /\ (\E i \in 1 .. Len(us) : us[i].k = "z") => end # 0 /\ us[end].k = "z"
    /\ ~Chunked(p) /\ p.framing # "cl" => end = Len(us)
    /\ Chunked(p) /\ (\A i \in 1 .. Len(us) : us[i].k # "z") => end = Len(us)
    /\ p.framing = "cl" => \/ Len(us) <= p.respLeft /\ end = Len(us)
                           \/ Len(us) > p.respLeft /\ end = p.respLeft
    /\ q.fd = p.fd /\ q.phase = p.phase /\ q.send100 = p.send100 /\ q.framing = p.framing
    /\ q.respSent = p.respSent /\ q.upClose = p.upClose /\ q.clientKeep = p.clientKeep
    /\ q.reused = p.reused /\ q.hdr = p.hdr /\ q.body = p.body /\ q.bodyLeft = p.bodyLeft
    /\ q.inEpoll = p.inEpoll /\ q.armed = p.armed

\* note_body finds where the body ends in the units read, if it does.
LEMMA NoteFacts ==
    ASSUME NEW p \in PxRecords, NEW us \in Seq(Units), p.buf = us
    PROVE  \E end \in 0 .. Len(us) : Ended(NoteBody(p, us), p, us, end)
<1> DEFINE base == Take(p.buf, Len(p.buf) - Len(us))
           last == {i \in DOMAIN us : us[i].k = "z"}
           end == IF Chunked(p) THEN (IF last = {} THEN Len(us) ELSE CHOOSE i \in last : TRUE)
                  ELSE IF p.framing = "cl" /\ Len(us) > p.respLeft THEN p.respLeft ELSE Len(us)
           left == IF p.framing = "cl" THEN p.respLeft - end ELSE 0
           done == \/ Chunked(p) /\ last # {}
                   \/ p.framing = "cl" /\ left = 0
           q == [p EXCEPT !.buf = base \o Take(us, end), !.overread = @ \/ end < Len(us),
                          !.respLeft = left, !.bodyDone = done]
<1>1. NoteBody(p, us) = q
  BY DEF NoteBody
<1>2. Len(us) \in Nat /\ DOMAIN us = 1 .. Len(us) /\ p.respLeft \in Nat
  BY DomFacts DEF PxRecords
<1>3. p.framing = "cl" => ~Chunked(p)
  BY DEF Chunked
<1>4. last # {} => (CHOOSE i \in last : TRUE) \in last
  OBVIOUS
<1>5. end \in 0 .. Len(us)
  <2>1. last \subseteq 1 .. Len(us)
    BY <1>2
  <2> QED BY <1>2, <1>4, <2>1
<1>6. p.framing = "cl" => \/ Len(us) <= p.respLeft /\ end = Len(us)
                          \/ Len(us) > p.respLeft /\ end = p.respLeft
  BY <1>2, <1>3
<1>7. left \in Nat
  BY <1>2, <1>5, <1>6
<1>8. Chunked(p) /\ last # {} => end # 0 /\ us[end].k = "z"
  BY <1>2, <1>4
<1>9. (\E i \in 1 .. Len(us) : us[i].k = "z") <=> last # {}
  BY <1>2
<1>10. ~Chunked(p) /\ p.framing # "cl" => end = Len(us)
  OBVIOUS
<1>11. Chunked(p) /\ last = {} => end = Len(us)
  OBVIOUS
<1>12. base \o Take(us, end) = Take(us, end) /\ Take(us, end) \in Seq(Units)
  <2> HIDE DEF end
  <2>1. Take(us, end) \in Seq(Units)
    BY <1>5, TakeFacts
  <2>2. Len(p.buf) - Len(us) = 0
    BY <1>2
  <2>3. base = Take(us, 0)
    BY <2>2
  <2>4. 0 \in 0 .. Len(us)
    BY <1>2
  <2>5. Take(us, 0) \in Seq(Units) /\ Len(Take(us, 0)) = 0
    BY <2>4, TakeFacts
  <2>6. base = <<>>
    BY <2>3, <2>5, EmptySeq
  <2> HIDE DEF base
  <2>7. <<>> \o Take(us, end) = Take(us, end)
    BY <2>1
  <2> QED BY <2>1, <2>6, <2>7
<1> HIDE DEF base, last, end, left
<1>13. q \in PxRecords /\ q.buf = Take(us, end) /\ q.overread = (p.overread \/ end < Len(us)) /\ q.respLeft = left
       /\ q.bodyDone = done
  <2>1. done \in BOOLEAN /\ (p.overread \/ end < Len(us)) \in BOOLEAN
    OBVIOUS
  <2> HIDE DEF done
  <2> QED BY <1>7, <1>12, <2>1 DEF PxRecords
<1>14. /\ q.fd = p.fd /\ q.phase = p.phase /\ q.send100 = p.send100 /\ q.framing = p.framing
       /\ q.respSent = p.respSent /\ q.upClose = p.upClose /\ q.clientKeep = p.clientKeep
       /\ q.reused = p.reused /\ q.hdr = p.hdr /\ q.body = p.body /\ q.bodyLeft = p.bodyLeft
       /\ q.inEpoll = p.inEpoll /\ q.armed = p.armed
  <2> HIDE DEF done
  <2> QED BY DEF PxRecords
<1>15. q.bodyDone <=> \/ Chunked(p) /\ \E i \in 1 .. Len(us) : us[i].k = "z"
                      \/ p.framing = "cl" /\ p.respLeft = end
  <2>1. p.framing = "cl" => (left = 0 <=> p.respLeft = end)
    BY <1>2, <1>5 DEF left
  <2>2. q.bodyDone = done
    BY <1>13
  <2> QED BY <1>9, <2>1, <2>2
<1> HIDE DEF q
<1>16. q.respLeft = IF p.framing = "cl" THEN p.respLeft - end ELSE 0
  BY <1>13 DEF left
<1>17. /\ Chunked(p) /\ (\E i \in 1 .. Len(us) : us[i].k = "z") => end # 0 /\ us[end].k = "z"
       /\ Chunked(p) /\ (\A i \in 1 .. Len(us) : us[i].k # "z") => end = Len(us)
  BY <1>8, <1>9, <1>11
<1>18. Ended(q, p, us, end)
  BY <1>6, <1>10, <1>13, <1>14, <1>15, <1>16, <1>17 DEF Ended
<1> QED BY <1>1, <1>5, <1>18

\* The connection when the final header has been taken out of the buffer, before the
\* body that followed it is looked at.
Answered(p, at) ==
    LET r == p.buf[at].r
    IN  [p EXCEPT !.phase = "SEND_RESP", !.framing = r.framing, !.hdr = Take(p.buf, at),
                  !.buf = Drop(p.buf, at), !.upClose = r.close, !.clientKeep = ShouldKeepalive(Req),
                  !.respLeft = IF r.framing = "cl" THEN r.len ELSE 0]

\* proxy_conn after rewrite_response took a header with a body to follow.
LEMMA AnsweredFacts ==
    ASSUME NEW p \in PxRecords, NEW at \in 1 .. Len(p.buf), p.buf[at].k = "hend"
    PROVE  LET q == Answered(p, at)
               r == p.buf[at].r
           IN  /\ q \in PxRecords /\ q.phase = "SEND_RESP" /\ q.framing = r.framing /\ q.hdr = Take(p.buf, at)
               /\ q.buf = Drop(p.buf, at) /\ q.upClose = r.close /\ q.clientKeep = ShouldKeepalive(Req)
               /\ q.respLeft = IF r.framing = "cl" THEN r.len ELSE 0
               /\ q.fd = p.fd /\ q.send100 = p.send100 /\ q.bodyDone = p.bodyDone /\ q.respSent = p.respSent
               /\ q.reused = p.reused /\ q.overread = p.overread /\ q.body = p.body /\ q.bodyLeft = p.bodyLeft
               /\ r \in Responses /\ Len(q.buf) = Len(p.buf) - at /\ Len(p.buf) \in Nat
<1> DEFINE q == Answered(p, at)
           r == p.buf[at].r
<1>1. p.buf \in Seq(Units) /\ Len(p.buf) \in Nat
  BY DEF PxRecords
<1>2. p.buf[at] \in Units
  BY <1>1
<1>3. r \in Responses
  BY <1>2, IdFacts
<1>4. r.framing \in Framings /\ r.close \in BOOLEAN /\ r.len \in Nat
  BY <1>3, PeersAssumption
<1>5. at \in 0 .. Len(p.buf)
  BY <1>1
<1>6. Take(p.buf, at) \in Seq(Units)
  BY <1>1, <1>5, TakeFacts
<1>7. Drop(p.buf, at) \in Seq(Units) /\ Len(Drop(p.buf, at)) = Len(p.buf) - at
  BY <1>1, <1>5, DropFacts
<1>8. ShouldKeepalive(Req) \in BOOLEAN
  BY DEF ShouldKeepalive
<1>9. (IF r.framing = "cl" THEN r.len ELSE 0) \in Nat
  BY <1>4
<1> HIDE DEF r
<1>10. q = [p EXCEPT !.phase = "SEND_RESP", !.framing = r.framing, !.hdr = Take(p.buf, at),
                  !.buf = Drop(p.buf, at), !.upClose = r.close, !.clientKeep = ShouldKeepalive(Req),
                  !.respLeft = IF r.framing = "cl" THEN r.len ELSE 0]
  BY DEF Answered, r
<1> HIDE DEF q
<1>11. q \in PxRecords
  BY <1>4, <1>6, <1>7, <1>8, <1>9, <1>10 DEF PxRecords, Phases
<1>12. /\ q.phase = "SEND_RESP" /\ q.framing = r.framing /\ q.hdr = Take(p.buf, at)
       /\ q.buf = Drop(p.buf, at) /\ q.upClose = r.close /\ q.clientKeep = ShouldKeepalive(Req)
       /\ q.respLeft = IF r.framing = "cl" THEN r.len ELSE 0
  BY <1>10 DEF PxRecords
<1>13. /\ q.fd = p.fd /\ q.send100 = p.send100 /\ q.bodyDone = p.bodyDone /\ q.respSent = p.respSent
       /\ q.reused = p.reused /\ q.overread = p.overread /\ q.body = p.body /\ q.bodyLeft = p.bodyLeft
  BY <1>10 DEF PxRecords
<1>14. Len(q.buf) = Len(p.buf) - at
  BY <1>7, <1>12
<1> QED BY <1>1, <1>3, <1>11, <1>12, <1>13, <1>14 DEF q, r

\* The three ways to go on: no body to come, none here yet, some of it here.
Bare(p, at) ==
    [Answered(p, at) EXCEPT !.bodyDone = TRUE, !.buf = <<>>,
                            !.overread = Drop(p.buf, at) # <<>>, !.respLeft = 0]
NoBody(r) == Req.method = "HEAD" \/ r.framing = "none" \/ (r.framing = "cl" /\ r.len = 0)

\* The three results of rewrite_response: no body, none yet, some already read.
LEMMA FinalFacts ==
    ASSUME NEW p, NEW at
    PROVE  LET r == p.buf[at].r
           IN  \/ NoBody(r) /\ FinalHeader(p, at) = Bare(p, at)
               \/ ~NoBody(r) /\ Drop(p.buf, at) = <<>> /\ FinalHeader(p, at) = Answered(p, at)
               \/ /\ ~NoBody(r) /\ Drop(p.buf, at) # <<>>
                  /\ FinalHeader(p, at) = NoteBody(Answered(p, at), Drop(p.buf, at))
  BY DEF FinalHeader, NoBody, Bare, Answered

\* proxy_conn after a header that no body follows.
LEMMA BareFacts ==
    ASSUME NEW p \in PxRecords, NEW at \in 1 .. Len(p.buf), p.buf[at].k = "hend"
    PROVE  LET q == Bare(p, at)
               r == p.buf[at].r
           IN  /\ q \in PxRecords /\ q.phase = "SEND_RESP" /\ q.framing = r.framing /\ q.hdr = Take(p.buf, at)
               /\ q.buf = <<>> /\ q.bodyDone /\ q.clientKeep = ShouldKeepalive(Req)
               /\ q.respLeft = 0 /\ q.fd = p.fd /\ q.send100 = p.send100 /\ q.respSent = p.respSent
               /\ q.reused = p.reused /\ q.body = p.body /\ q.bodyLeft = p.bodyLeft
<1> DEFINE a == Answered(p, at)
           over == Drop(p.buf, at) # <<>>
<1>1. /\ a \in PxRecords /\ a.phase = "SEND_RESP" /\ a.framing = p.buf[at].r.framing /\ a.hdr = Take(p.buf, at)
      /\ a.clientKeep = ShouldKeepalive(Req) /\ a.fd = p.fd /\ a.send100 = p.send100
      /\ a.respSent = p.respSent /\ a.reused = p.reused /\ a.body = p.body /\ a.bodyLeft = p.bodyLeft
  BY AnsweredFacts
<1>2. over \in BOOLEAN /\ <<>> \in Seq(Units)
  OBVIOUS
<1>3. Bare(p, at) = [a EXCEPT !.bodyDone = TRUE, !.buf = <<>>, !.overread = over, !.respLeft = 0]
  BY DEF Bare
<1> HIDE DEF a, over
<1>4. /\ Bare(p, at) \in PxRecords /\ Bare(p, at).buf = <<>> /\ Bare(p, at).bodyDone /\ Bare(p, at).respLeft = 0
  <2> DEFINE q == [a EXCEPT !.bodyDone = TRUE, !.buf = <<>>, !.overread = over, !.respLeft = 0]
  <2>1. a \in PxRecords
    BY <1>1
  <2>2. q \in PxRecords
    BY <1>2, <2>1 DEF PxRecords
  <2>3. q.buf = <<>> /\ q.bodyDone = TRUE /\ q.respLeft = 0
    BY <2>1 DEF PxRecords
  <2> QED BY <1>3, <2>2, <2>3
<1>5. LET q == Bare(p, at)
      IN  /\ q.phase = a.phase /\ q.framing = a.framing /\ q.hdr = a.hdr
          /\ q.clientKeep = a.clientKeep /\ q.fd = a.fd /\ q.send100 = a.send100
          /\ q.respSent = a.respSent /\ q.reused = a.reused /\ q.body = a.body /\ q.bodyLeft = a.bodyLeft
  BY <1>1, <1>3 DEF PxRecords
<1> QED BY <1>1, <1>4, <1>5

\* After rewrite_response the slot is about to send the response.
LEMMA FinalSound ==
    ASSUME NEW p \in PxRecords, NEW at \in 1 .. Len(p.buf), p.buf[at].k = "hend", Sound(p)
    PROVE  /\ Sound(FinalHeader(p, at)) /\ FinalHeader(p, at).phase = "SEND_RESP"
           /\ FinalHeader(p, at).respSent = p.respSent
           /\ FinalHeader(p, at).clientKeep = ShouldKeepalive(Req)
<1> DEFINE f == FinalHeader(p, at)
           a == Answered(p, at)
           r == p.buf[at].r
           rest == Drop(p.buf, at)
<1>1. /\ a \in PxRecords /\ a.phase = "SEND_RESP" /\ a.buf = rest /\ a.clientKeep = ShouldKeepalive(Req)
      /\ a.fd = p.fd /\ a.respSent = p.respSent /\ Len(a.buf) = Len(p.buf) - at /\ Len(p.buf) \in Nat
  BY AnsweredFacts
<1>2. rest \in Seq(Units) /\ Len(rest) \in Nat /\ Len(rest) <= BufMax /\ p.fd = px.fd /\ BufMax \in Nat
  <2>1. rest \in Seq(Units)
    BY <1>1 DEF PxRecords
  <2>2. Len(rest) = Len(p.buf) - at
    BY <1>1
  <2>3. Len(p.buf) <= BufMax /\ p.fd = px.fd /\ BufMax \in Nat
    BY SizesAssumption DEF Sound
  <2> QED BY <1>1, <2>1, <2>2, <2>3
<1>3. /\ f \in PxRecords /\ f.phase = "SEND_RESP" /\ f.respSent = p.respSent /\ f.fd = p.fd
      /\ f.clientKeep = ShouldKeepalive(Req) /\ Len(f.buf) <= BufMax
  <2>1. CASE f = Bare(p, at)
    <3>1. Len(<<>>) = 0
      OBVIOUS
    <3> QED BY <1>2, <2>1, <3>1, BareFacts
  <2>2. CASE f = a
    BY <1>1, <1>2, <2>2
  <2>3. CASE f = NoteBody(a, rest)
    <3> HIDE DEF a, rest, f
    <3>1. PICK end \in 0 .. Len(rest) : Ended(f, a, rest, end)
      BY <1>1, <1>2, <2>3, NoteFacts
    <3>2. /\ f \in PxRecords /\ f.buf = Take(rest, end) /\ f.fd = a.fd /\ f.phase = a.phase
          /\ f.respSent = a.respSent /\ f.clientKeep = a.clientKeep
      BY <3>1 DEF Ended
    <3>3. Len(f.buf) = end
      BY <1>2, <3>2, TakeFacts
    <3>4. Len(f.buf) <= BufMax
      BY <1>2, <3>3
    <3> QED BY <1>1, <3>2, <3>4
  <2> QED BY <2>1, <2>2, <2>3, FinalFacts
<1> HIDE DEF f
<1>4. Sound(f)
  <2>1. f.clientKeep => ShouldKeepalive(Req)
    BY <1>3, Zenon
  <2>2. f \in PxRecords /\ f.fd = px.fd /\ f.phase # "none" /\ Len(f.buf) <= BufMax
    BY <1>2, <1>3
  <2> QED BY <2>1, <2>2 DEF Sound
<1> QED BY <1>3, <1>4 DEF f

\* rewrite_response leaves the request's body alone.
LEMMA FinalBody ==
    ASSUME NEW p \in PxRecords, NEW at \in 1 .. Len(p.buf), p.buf[at].k = "hend"
    PROVE  LET q == FinalHeader(p, at)
           IN  q.fd = p.fd /\ q.phase = "SEND_RESP" /\ q.body = p.body /\ q.bodyLeft = p.bodyLeft
<1> DEFINE r == p.buf[at].r
           q == FinalHeader(p, at)
           a == Answered(p, at)
           rest == Drop(p.buf, at)
<1>1. \/ q = Bare(p, at)
      \/ q = a
      \/ q = NoteBody(a, rest)
  BY FinalFacts
<1>2. /\ a \in PxRecords /\ a.buf = rest
      /\ a.fd = p.fd /\ a.phase = "SEND_RESP" /\ a.body = p.body /\ a.bodyLeft = p.bodyLeft
  BY AnsweredFacts
<1>3. CASE q = Bare(p, at)
  <2>1. LET b == Bare(p, at)
        IN  b.fd = p.fd /\ b.phase = "SEND_RESP" /\ b.body = p.body /\ b.bodyLeft = p.bodyLeft
    BY BareFacts
  <2> QED BY <1>3, <2>1
<1>4. rest \in Seq(Units)
  <2>1. p.buf \in Seq(Units) /\ at \in 0 .. Len(p.buf)
    BY DEF PxRecords
  <2> QED BY <2>1, DropFacts
<1> HIDE DEF a, rest, q
<1>5. CASE q = a
  BY <1>2, <1>5 DEF q
<1>6. CASE q = NoteBody(a, rest)
  <2>1. PICK end \in 0 .. Len(rest) : Ended(NoteBody(a, rest), a, rest, end)
    BY <1>2, <1>4, NoteFacts
  <2>2. Ended(q, a, rest, end)
    BY <1>6, <2>1
  <2>3. q.fd = a.fd /\ q.phase = a.phase /\ q.body = a.body /\ q.bodyLeft = a.bodyLeft
    BY <2>2 DEF Ended
  <2> QED BY <1>2, <2>3 DEF q
<1> QED BY <1>1, <1>3, <1>5, <1>6 DEF q

\* Nothing is left after all units.
LEMMA DropAll ==
    ASSUME NEW S, NEW s \in Seq(S), NEW n \in Nat, Len(s) <= n
    PROVE  Drop(s, n) = <<>>
<1>1. Len(s) \in Nat
  OBVIOUS
<1>2. SubSeq(s, n + 1, Len(s)) = <<>>
  BY <1>1, SubSeqEmpty
<1> QED BY <1>2 DEF Drop

\* The connection when n units of header and body were sent to the client.
Gathered(n) ==
    [px EXCEPT !.hdr = Drop(@, n), !.respSent = TRUE,
               !.buf = IF n > Len(px.hdr) THEN Drop(@, n - Len(px.hdr)) ELSE @]
HdrSent(n) == [px EXCEPT !.hdr = Drop(@, n), !.respSent = @ \/ n > 0]
BufSent(n) == [px EXCEPT !.buf = Drop(@, n), !.respSent = @ \/ n > 0]

\* proxy_conn after a sendmsg of n units of header and body.
LEMMA GatheredFacts ==
    ASSUME SlotInv, px.fd # NoUp, NEW n \in 1 .. Len(px.hdr) + Len(px.buf)
    PROVE  LET q == Gathered(n)
           IN  /\ q \in PxRecords /\ q.respSent /\ Sound(q)
               /\ n <= Len(px.hdr) => q.hdr = Drop(px.hdr, n) /\ q.buf = px.buf
               /\ n > Len(px.hdr) => q.hdr = <<>> /\ q.buf = Drop(px.buf, n - Len(px.hdr))
               /\ q.fd = px.fd /\ q.phase = px.phase /\ q.send100 = px.send100 /\ q.framing = px.framing
               /\ q.bodyDone = px.bodyDone /\ q.upClose = px.upClose /\ q.clientKeep = px.clientKeep
               /\ q.reused = px.reused /\ q.overread = px.overread /\ q.body = px.body
               /\ q.bodyLeft = px.bodyLeft /\ q.respLeft = px.respLeft
<1> DEFINE q == Gathered(n)
           newHdr == Drop(px.hdr, n)
           newBuf == IF n > Len(px.hdr) THEN Drop(px.buf, n - Len(px.hdr)) ELSE px.buf
<1>1. /\ px \in PxRecords /\ px.hdr \in Seq(Units) /\ px.buf \in Seq(Units)
      /\ Len(px.hdr) \in Nat /\ Len(px.buf) \in Nat
  BY SlotTypes
<1>2. newHdr \in Seq(Units) /\ (n > Len(px.hdr) => newHdr = <<>>)
  <2>1. CASE n > Len(px.hdr)
    <3>1. newHdr = <<>>
      BY <1>1, <2>1, DropAll
    <3> QED BY <3>1
  <2>2. CASE ~(n > Len(px.hdr))
    <3>1. n \in 0 .. Len(px.hdr)
      BY <1>1, <2>2
    <3>2. newHdr \in Seq(Units)
      BY <1>1, <3>1, DropFacts
    <3> QED BY <2>2, <3>2
  <2> QED BY <2>1, <2>2
<1>3. newBuf \in Seq(Units) /\ Len(newBuf) <= Len(px.buf) /\ Len(newBuf) \in Nat
  <2>1. CASE n > Len(px.hdr)
    <3> DEFINE m == n - Len(px.hdr)
               a == Len(px.hdr)
               b == Len(px.buf)
    <3>1. a \in Nat /\ b \in Nat /\ n \in 1 .. a + b /\ n > a /\ m = n - a
      BY <1>1, <2>1
    <3> HIDE DEF m, a, b
    <3>5. m \in 0 .. b /\ b - m <= b /\ b - m \in Nat
      BY <3>1
    <3>2. Drop(px.buf, m) \in Seq(Units) /\ Len(Drop(px.buf, m)) = Len(px.buf) - m
      BY <1>1, <3>5, DropFacts DEF b
    <3>3. Len(px.buf) - m <= Len(px.buf) /\ Len(px.buf) - m \in Nat
      BY <3>5 DEF b
    <3>4. newBuf = Drop(px.buf, m)
      BY <2>1 DEF m
    <3> QED BY <3>2, <3>3, <3>4
  <2>2. CASE ~(n > Len(px.hdr))
    BY <1>1, <2>2
  <2> QED BY <2>1, <2>2
<1>4. q = [px EXCEPT !.hdr = newHdr, !.respSent = TRUE, !.buf = newBuf]
  BY DEF Gathered
<1>5. n > Len(px.hdr) => newBuf = Drop(px.buf, n - Len(px.hdr))
  OBVIOUS
<1>6. n <= Len(px.hdr) => newBuf = px.buf
  BY <1>1
<1> HIDE DEF newHdr, newBuf, q
<1>7. q \in PxRecords /\ q.respSent /\ q.hdr = newHdr /\ q.buf = newBuf
  BY <1>1, <1>2, <1>3, <1>4 DEF PxRecords
<1>8. /\ q.fd = px.fd /\ q.phase = px.phase /\ q.send100 = px.send100 /\ q.framing = px.framing
      /\ q.bodyDone = px.bodyDone /\ q.upClose = px.upClose /\ q.clientKeep = px.clientKeep
      /\ q.reused = px.reused /\ q.overread = px.overread /\ q.body = px.body
      /\ q.bodyLeft = px.bodyLeft /\ q.respLeft = px.respLeft
  BY <1>1, <1>4 DEF PxRecords
<1>9. Sound(q)
  <2>1. Sound(px)
    BY SlotFacts
  <2>2. Len(q.buf) <= BufMax
    BY <1>1, <1>3, <1>7, <2>1, SizesAssumption DEF Sound
  <2> QED BY <1>7, <1>8, <2>1, <2>2 DEF Sound
<1> QED BY <1>2, <1>5, <1>6, <1>7, <1>8, <1>9 DEF q, newHdr

\* proxy_conn after n units of the header were sent to the client.
LEMMA HdrSentFacts ==
    ASSUME SlotInv, px.fd # NoUp, NEW n \in 0 .. Len(px.hdr)
    PROVE  LET q == HdrSent(n)
           IN  /\ q \in PxRecords /\ q.respSent = (px.respSent \/ n > 0) /\ Sound(q) /\ q.hdr = Drop(px.hdr, n)
               /\ q.fd = px.fd /\ q.phase = px.phase /\ q.send100 = px.send100 /\ q.framing = px.framing
               /\ q.bodyDone = px.bodyDone /\ q.upClose = px.upClose /\ q.clientKeep = px.clientKeep
               /\ q.reused = px.reused /\ q.overread = px.overread /\ q.buf = px.buf /\ q.body = px.body
               /\ q.bodyLeft = px.bodyLeft /\ q.respLeft = px.respLeft
<1> DEFINE q == HdrSent(n)
           sent == px.respSent \/ n > 0
<1>1. px \in PxRecords /\ px.hdr \in Seq(Units)
  BY SlotTypes
<1>2. Drop(px.hdr, n) \in Seq(Units) /\ sent \in BOOLEAN
  BY <1>1, DropFacts
<1>3. q = [px EXCEPT !.hdr = Drop(px.hdr, n), !.respSent = sent]
  BY DEF HdrSent
<1> HIDE DEF q, sent
<1>4. q \in PxRecords /\ q.hdr = Drop(px.hdr, n) /\ q.respSent = sent
  BY <1>1, <1>2, <1>3 DEF PxRecords
<1>5. /\ q.fd = px.fd /\ q.phase = px.phase /\ q.send100 = px.send100 /\ q.framing = px.framing
      /\ q.bodyDone = px.bodyDone /\ q.upClose = px.upClose /\ q.clientKeep = px.clientKeep
      /\ q.reused = px.reused /\ q.overread = px.overread /\ q.buf = px.buf /\ q.body = px.body
      /\ q.bodyLeft = px.bodyLeft /\ q.respLeft = px.respLeft
  BY <1>1, <1>3 DEF PxRecords
<1>6. Sound(px)
  BY SlotFacts
<1>7. Sound(q)
  BY <1>4, <1>5, <1>6 DEF Sound
<1> QED BY <1>4, <1>5, <1>7 DEF q, sent

\* proxy_conn after n units of the body were sent to the client.
LEMMA BufSentFacts ==
    ASSUME SlotInv, px.fd # NoUp, NEW n \in 0 .. Len(px.buf)
    PROVE  LET q == BufSent(n)
           IN  /\ q \in PxRecords /\ q.respSent = (px.respSent \/ n > 0) /\ Sound(q) /\ q.buf = Drop(px.buf, n)
               /\ q.fd = px.fd /\ q.phase = px.phase /\ q.send100 = px.send100 /\ q.framing = px.framing
               /\ q.bodyDone = px.bodyDone /\ q.upClose = px.upClose /\ q.clientKeep = px.clientKeep
               /\ q.reused = px.reused /\ q.overread = px.overread /\ q.hdr = px.hdr /\ q.body = px.body
               /\ q.bodyLeft = px.bodyLeft /\ q.respLeft = px.respLeft
<1> DEFINE q == BufSent(n)
           sent == px.respSent \/ n > 0
<1>1. px \in PxRecords /\ px.buf \in Seq(Units) /\ Len(px.buf) \in Nat
  BY SlotTypes
<1>2. Drop(px.buf, n) \in Seq(Units) /\ sent \in BOOLEAN /\ Len(Drop(px.buf, n)) = Len(px.buf) - n
  BY <1>1, DropFacts
<1>3. q = [px EXCEPT !.buf = Drop(px.buf, n), !.respSent = sent]
  BY DEF BufSent
<1> HIDE DEF q, sent
<1>4. q \in PxRecords /\ q.buf = Drop(px.buf, n) /\ q.respSent = sent
  BY <1>1, <1>2, <1>3 DEF PxRecords
<1>5. /\ q.fd = px.fd /\ q.phase = px.phase /\ q.send100 = px.send100 /\ q.framing = px.framing
      /\ q.bodyDone = px.bodyDone /\ q.upClose = px.upClose /\ q.clientKeep = px.clientKeep
      /\ q.reused = px.reused /\ q.overread = px.overread /\ q.hdr = px.hdr /\ q.body = px.body
      /\ q.bodyLeft = px.bodyLeft /\ q.respLeft = px.respLeft
  BY <1>1, <1>3 DEF PxRecords
<1>6. Sound(px)
  BY SlotFacts
<1>7. Sound(q)
  <2>1. Len(q.buf) <= BufMax
    BY <1>1, <1>2, <1>4, <1>6, SizesAssumption DEF Sound
  <2> QED BY <1>4, <1>5, <1>6, <2>1 DEF Sound
<1> QED BY <1>4, <1>5, <1>7 DEF q, sent

\* A turn in PX_SEND_RESP with the whole response at hand.
LEMMA GatheredEffect ==
    ASSUME SlotInv, PumpSendGathered
    PROVE  /\ client' = client /\ px.phase = "SEND_RESP" /\ px.bodyDone
           /\ \/ \E n \in 1 .. Len(px.hdr) + Len(px.buf) :
                    /\ out' = out \o Take(px.hdr \o px.buf, n)
                    /\ \/ n = Len(px.hdr) + Len(px.buf) /\ Parks(up, Gathered(n))
                       \/ n < Len(px.hdr) + Len(px.buf) /\ Loop(up, Gathered(n), 1) /\ pool' = pool
              \/ /\ out' = out /\ pool' = pool
                 /\ Waits(up, px, "none", "write") \/ Falls(up, px, client.st # "open")
<1>1. px.fd # NoUp /\ ~px.send100 /\ px.phase = "SEND_RESP" /\ px.bodyDone /\ client' = client
  BY PumpingFacts, Zenon DEF PumpSendGathered
<1>2. /\ px \in PxRecords /\ px.hdr \in Seq(Units) /\ px.buf \in Seq(Units) /\ hc.phase = "READ"
      /\ Len(px.hdr) \in Nat /\ Len(px.buf) \in Nat
  BY <1>1, SlotTypes, SlotFacts
<1>3. Len(px.hdr \o px.buf) = Len(px.hdr) + Len(px.buf)
  BY <1>2, CatFacts
<1> DEFINE all == px.hdr \o px.buf
<1>8. Len(all) \in Nat
  <2>1. all \in Seq(Units)
    BY <1>2, CatFacts
  <2> HIDE DEF all
  <2> QED BY <2>1
<1>4. \/ \E n \in 1 .. Len(all) :
            /\ out' = out \o Take(all, n)
            /\ IF n = Len(all) THEN Done(up, Gathered(n))
               ELSE Loop(up, Gathered(n), 1) /\ UNCHANGED pool
      \/ hc' = hc /\ out' = out /\ pool' = pool /\ Return("write", up, px, hc.phase)
      \/ client.st # "open" /\ Fail(up, px) /\ out' = out /\ pool' = pool
  BY Zenon DEF PumpSendGathered, Gathered
<1>5. CASE hc' = hc /\ out' = out /\ pool' = pool /\ Return("write", up, px, hc.phase)
  <2>1. Waits(up, px, "none", "write") \/ Drops(hc, CloseUp(up, px.fd), TRUE)
    BY <1>2, <1>5, StayFacts
  <2> QED BY <1>1, <1>5, <2>1 DEF Falls
<1>6. CASE client.st # "open" /\ Fail(up, px) /\ out' = out /\ pool' = pool
  <2>1. Falls(up, px, client.st # "open")
    BY <1>6, FailEffect
  <2> QED BY <1>1, <1>6, <2>1
<1>7. CASE \E n \in 1 .. Len(all) :
              /\ out' = out \o Take(all, n)
              /\ IF n = Len(all) THEN Done(up, Gathered(n))
                 ELSE Loop(up, Gathered(n), 1) /\ UNCHANGED pool
  <2>1. PICK n \in 1 .. Len(all) :
              /\ out' = out \o Take(all, n)
              /\ IF n = Len(all) THEN Done(up, Gathered(n))
                 ELSE Loop(up, Gathered(n), 1) /\ UNCHANGED pool
    BY <1>7
  <2> HIDE DEF all
  <2>2. n = Len(all) \/ (n < Len(all) /\ n # Len(all))
    BY <1>8
  <2>3. CASE n = Len(all)
    <3>1. Parks(up, Gathered(n))
      BY <2>1, <2>3, DoneFacts
    <3> QED BY <1>1, <1>3, <2>1, <2>3, <3>1 DEF all
  <2>4. CASE n < Len(all) /\ n # Len(all)
    BY <1>1, <1>3, <2>1, <2>4 DEF all
  <2> QED BY <2>2, <2>3, <2>4
<1> QED BY <1>4, <1>5, <1>6, <1>7

\* A turn in PX_SEND_RESP with the header alone.
LEMMA SendHdrEffect ==
    ASSUME SlotInv, PumpSendHdr
    PROVE  /\ client' = client /\ pool' = pool /\ px.phase = "SEND_RESP" /\ ~px.bodyDone
           /\ \E n \in 0 .. Len(px.hdr) :
                 /\ out' = out \o Take(px.hdr, n)
                 /\ \/ n = Len(px.hdr) /\ Loop(up, [HdrSent(n) EXCEPT !.phase = "STREAM"], 1)
                    \/ n < Len(px.hdr) /\ Waits(up, HdrSent(n), "idle", "write")
                    \/ Falls(up, HdrSent(n), client.st # "open")
<1>1. px.fd # NoUp /\ ~px.send100 /\ px.phase = "SEND_RESP" /\ ~px.bodyDone /\ client' = client /\ pool' = pool
  BY PumpingFacts DEF PumpSendHdr
<1>2. Len(px.hdr) \in Nat /\ client.st \in {"open", "fin", "rst"}
  BY <1>1, SlotTypes
<1>3. PICK o \in SendOutcomes(Len(px.hdr), client.st) :
         /\ out' = out \o Take(px.hdr, o.n)
         /\ CASE o.res = "dead" -> Fail(up, HdrSent(o.n))
              [] o.res = "again" -> Yield(up, HdrSent(o.n), "idle", "write")
              [] OTHER -> Loop(up, [HdrSent(o.n) EXCEPT !.phase = "STREAM"], 1)
  BY Zenon DEF PumpSendHdr, HdrSent
<1>4. /\ o.n \in 0 .. Len(px.hdr) /\ o.res \in {"ok", "again", "dead"} /\ (o.res = "ok" => o.n = Len(px.hdr))
      /\ (o.res = "again" => o.n < Len(px.hdr)) /\ (o.res = "dead" => client.st # "open")
  BY <1>2, SendFacts
<1>5. HdrSent(o.n) \in PxRecords /\ HdrSent(o.n).fd = px.fd /\ ~HdrSent(o.n).send100
  BY <1>1, <1>4, HdrSentFacts
<1>6. CASE o.res = "ok"
  BY <1>1, <1>3, <1>4, <1>6
<1>7. CASE o.res = "again"
  <2>1. Yield(up, HdrSent(o.n), "idle", "write")
    BY <1>3, <1>7
  <2>2. Waits(up, HdrSent(o.n), "idle", "write") \/ Falls(up, HdrSent(o.n), FALSE)
    BY <1>1, <1>5, <2>1, YieldEffect DEF Ios
  <2>3. Waits(up, HdrSent(o.n), "idle", "write") \/ Falls(up, HdrSent(o.n), client.st # "open")
    BY <2>2 DEF Falls
  <2> QED BY <1>1, <1>3, <1>4, <1>7, <2>3
<1>8. CASE o.res = "dead"
  <2>1. Fail(up, HdrSent(o.n)) /\ client.st # "open"
    BY <1>3, <1>4, <1>8
  <2>2. Falls(up, HdrSent(o.n), client.st # "open")
    BY <1>5, <2>1, FailEffect
  <2> QED BY <1>1, <1>3, <1>4, <2>2
<1> QED BY <1>4, <1>6, <1>7, <1>8

\* A turn in PX_STREAM with body units at hand.
LEMMA StreamOutEffect ==
    ASSUME SlotInv, PumpStreamOut
    PROVE  /\ client' = client /\ px.phase = "STREAM" /\ px.buf # <<>>
           /\ \E n \in 0 .. Len(px.buf) :
                 /\ out' = out \o Take(px.buf, n)
                 /\ \/ n = Len(px.buf) /\ px.bodyDone /\ Parks(up, BufSent(n))
                    \/ n = Len(px.buf) /\ ~px.bodyDone /\ Loop(up, BufSent(n), 1) /\ pool' = pool
                    \/ n < Len(px.buf) /\ Waits(up, BufSent(n), "idle", "write") /\ pool' = pool
                    \/ Falls(up, BufSent(n), FALSE) /\ pool' = pool
<1>1. px.fd # NoUp /\ ~px.send100 /\ px.phase = "STREAM" /\ px.buf # <<>> /\ client' = client
  BY PumpingFacts DEF PumpStreamOut
<1>2. Len(px.buf) \in Nat /\ client.st \in {"open", "fin", "rst"}
  BY <1>1, SlotTypes
<1>3. PICK o \in SendOutcomes(Len(px.buf), client.st) :
         /\ out' = out \o Take(px.buf, o.n)
         /\ CASE o.res = "dead" -> Abandon(up, BufSent(o.n)) /\ UNCHANGED pool
              [] o.res = "again" -> Yield(up, BufSent(o.n), "idle", "write") /\ UNCHANGED pool
              [] o.res = "ok" /\ BufSent(o.n).bodyDone -> Done(up, BufSent(o.n))
              [] OTHER -> Loop(up, BufSent(o.n), 1) /\ UNCHANGED pool
  BY Zenon DEF PumpStreamOut, BufSent
<1>4. /\ o.n \in 0 .. Len(px.buf) /\ o.res \in {"ok", "again", "dead"} /\ (o.res = "ok" => o.n = Len(px.buf))
      /\ (o.res = "again" => o.n < Len(px.buf))
  BY <1>2, SendFacts
<1>5. /\ BufSent(o.n) \in PxRecords /\ BufSent(o.n).fd = px.fd /\ ~BufSent(o.n).send100
      /\ BufSent(o.n).bodyDone = px.bodyDone
  BY <1>1, <1>4, BufSentFacts
<1>6. CASE o.res = "ok" /\ px.bodyDone
  <2>1. Done(up, BufSent(o.n))
    BY <1>3, <1>5, <1>6
  <2>2. Parks(up, BufSent(o.n))
    BY <2>1, DoneFacts
  <2> QED BY <1>1, <1>3, <1>4, <1>6, <2>2
<1>7. CASE o.res = "ok" /\ ~px.bodyDone
  <2>1. Loop(up, BufSent(o.n), 1) /\ pool' = pool
    BY <1>3, <1>5, <1>7
  <2> QED BY <1>1, <1>3, <1>4, <1>7, <2>1
<1>8. CASE o.res = "again"
  <2>1. Yield(up, BufSent(o.n), "idle", "write") /\ pool' = pool
    BY <1>3, <1>8
  <2>2. Waits(up, BufSent(o.n), "idle", "write") \/ Falls(up, BufSent(o.n), FALSE)
    BY <1>1, <1>5, <2>1, YieldEffect DEF Ios
  <2> QED BY <1>1, <1>3, <1>4, <1>8, <2>1, <2>2
<1>9. CASE o.res = "dead"
  <2>1. Abandon(up, BufSent(o.n)) /\ pool' = pool
    BY <1>3, <1>9
  <2>2. Falls(up, BufSent(o.n), FALSE)
    BY <1>5, <2>1, AbandonEffect
  <2> QED BY <1>1, <1>3, <1>4, <2>1, <2>2
<1> QED BY <1>4, <1>6, <1>7, <1>8, <1>9

\* The connection with n units of the body read and looked at.
Noted(n) ==
    LET us == Take(up[px.fd].in, n)
    IN  NoteBody([px EXCEPT !.buf = us], us)

\* A turn in PX_STREAM that reads the upstream.
LEMMA StreamInEffect ==
    ASSUME SlotInv, PumpStreamIn
    PROVE  /\ client' = client /\ out' = out /\ px.phase = "STREAM" /\ px.buf = <<>>
           /\ \/ \E n \in 1 .. Len(up[px.fd].in) :
                    /\ pool' = pool /\ n <= BufMax /\ (px.framing = "cl" => n <= px.respLeft)
                    /\ \/ Falls(Emptied(n), px, FALSE)
                       \/ /\ ~(Chunked(px) /\ BadChunk(Take(up[px.fd].in, n)))
                          /\ Loop(Emptied(n), Noted(n), 1)
              \/ /\ up[px.fd].in = <<>> /\ pool' = pool
                 /\ Waits(up, px, "read", "idle") \/ Falls(up, px, FALSE)
              \/ up[px.fd].in = <<>> /\ up[px.fd].st = "fin" /\ px.framing = "eof" /\ Parks(up, px)
<1>1. px.fd # NoUp /\ ~px.send100 /\ px.phase = "STREAM" /\ px.buf = <<>> /\ client' = client /\ out' = out
  BY PumpingFacts DEF PumpStreamIn
<1>2. /\ px \in PxRecords /\ up[px.fd].in \in Seq(Units) /\ px.respLeft \in Nat /\ BufMax \in Nat
      /\ up[px.fd].st \in {"open", "fin", "rst"}
  BY <1>1, SlotTypes, SizesAssumption
<1> DEFINE cap == IF px.framing = "cl" /\ px.respLeft < BufMax THEN px.respLeft ELSE BufMax
<1>3. cap \in Nat /\ cap <= BufMax /\ (px.framing = "cl" => cap <= px.respLeft)
  BY <1>2
<1>4. \/ \E n \in ReadSizes(up[px.fd].in, cap) :
            /\ IF Chunked(px) /\ BadChunk(Take(up[px.fd].in, n)) THEN Abandon(Emptied(n), px)
               ELSE Loop(Emptied(n), Noted(n), 1)
            /\ UNCHANGED pool
      \/ /\ up[px.fd].in = <<>>
         /\ CASE up[px.fd].st = "open" -> Yield(up, px, "read", "idle") /\ UNCHANGED pool
              [] up[px.fd].st = "fin" /\ EofEnds(px) -> Done(up, px)
              [] OTHER -> Abandon(up, px) /\ UNCHANGED pool
  BY DEF PumpStreamIn, Emptied, Noted
<1> HIDE DEF cap
<1>5. CASE \E n \in ReadSizes(up[px.fd].in, cap) :
            /\ IF Chunked(px) /\ BadChunk(Take(up[px.fd].in, n)) THEN Abandon(Emptied(n), px)
               ELSE Loop(Emptied(n), Noted(n), 1)
            /\ UNCHANGED pool
  <2>1. PICK n \in ReadSizes(up[px.fd].in, cap) :
            /\ IF Chunked(px) /\ BadChunk(Take(up[px.fd].in, n)) THEN Abandon(Emptied(n), px)
               ELSE Loop(Emptied(n), Noted(n), 1)
            /\ UNCHANGED pool
    BY <1>5
  <2>2. n \in 1 .. Len(up[px.fd].in) /\ n <= cap /\ n \in Nat
    BY <1>2, <1>3, ReadFacts
  <2>3. n <= BufMax /\ (px.framing = "cl" => n <= px.respLeft)
    BY <1>2, <1>3, <2>2
  <2>4. \/ Falls(Emptied(n), px, FALSE)
        \/ /\ ~(Chunked(px) /\ BadChunk(Take(up[px.fd].in, n)))
           /\ Loop(Emptied(n), Noted(n), 1)
    <3>1. CASE Chunked(px) /\ BadChunk(Take(up[px.fd].in, n))
      <4>1. Abandon(Emptied(n), px)
        BY <2>1, <3>1
      <4> QED BY <4>1, AbandonEffect
    <3>2. CASE ~(Chunked(px) /\ BadChunk(Take(up[px.fd].in, n)))
      BY <2>1, <3>2
    <3> QED BY <3>1, <3>2
  <2> QED BY <1>1, <2>1, <2>2, <2>3, <2>4
<1>6. CASE /\ up[px.fd].in = <<>>
           /\ CASE up[px.fd].st = "open" -> Yield(up, px, "read", "idle") /\ UNCHANGED pool
                [] up[px.fd].st = "fin" /\ EofEnds(px) -> Done(up, px)
                [] OTHER -> Abandon(up, px) /\ UNCHANGED pool
  <2>1. CASE up[px.fd].st = "open"
    <3>1. Yield(up, px, "read", "idle") /\ pool' = pool
      BY <1>6, <2>1
    <3>2. Waits(up, px, "read", "idle") \/ Falls(up, px, FALSE)
      BY <1>1, <1>2, <3>1, YieldEffect DEF Ios
    <3> QED BY <1>1, <1>6, <3>1, <3>2
  <2>2. CASE up[px.fd].st = "fin" /\ EofEnds(px)
    <3>1. Done(up, px)
      BY <1>6, <2>2
    <3> QED BY <1>1, <1>6, <2>2, <3>1, DoneFacts DEF EofEnds
  <2>3. CASE up[px.fd].st # "open" /\ ~(up[px.fd].st = "fin" /\ EofEnds(px))
    <3>1. Abandon(up, px) /\ pool' = pool
      BY <1>6, <2>3
    <3>2. Falls(up, px, FALSE)
      BY <3>1, AbandonEffect
    <3> QED BY <1>1, <1>6, <3>1, <3>2
  <2> QED BY <2>1, <2>2, <2>3
<1> QED BY <1>4, <1>5, <1>6

-----------------------------------------------------------------------------
(* The pump keeps SlotInv. *)

\* Another turn keeps SlotInv.
LEMMA LoopKeeps ==
    ASSUME SlotInv, Frame, pool' = pool, pc = "pump", px.fd # NoUp, NEW u, NEW p, Moved(u), Sound(p),
           NEW spent \in {0, 1}, budget > 0 \/ spent = 0, Loop(u, p, spent)
    PROVE  SlotInv'
<1>1. Goes(u, p)
  BY LoopGoes DEF Sound
<1> QED BY <1>1, GoesKeeps

\* Waiting keeps SlotInv.
LEMMA WaitsKeeps ==
    ASSUME SlotInv, Frame, pool' = pool, px.fd # NoUp, NEW u, NEW p, Moved(u), Sound(p),
           NEW upio, NEW io \in {"read", "write", "idle"}, Waits(u, p, upio, io)
    PROVE  SlotInv'
<1>1. Goes(u, p)
  BY WaitsGoes DEF Ios
<1> QED BY <1>1, GoesKeeps

\* A send leaves the sockets where they are.
LEMMA SentMoved ==
    ASSUME SlotInv, px.fd # NoUp, NEW us \in Seq(Units)
    PROVE  Moved(ToUp(px.fd, us))
<1>1. px.fd \in UpIds /\ up \in [UpIds -> UpRecords]
  BY SlotTypes
<1> DEFINE g == ToUp(px.fd, us)
<1>2. /\ g \in [UpIds -> UpRecords] /\ \A c \in UpIds : c # px.fd => g[c] = up[c]
      /\ g[px.fd].mine = up[px.fd].mine /\ g[px.fd].plan = up[px.fd].plan
      /\ g[px.fd].st = up[px.fd].st /\ g[px.fd].addr = up[px.fd].addr /\ g[px.fd].answered = up[px.fd].answered
  BY <1>1, SentUp
<1> QED BY <1>2 DEF Moved

\* A send keeps the slot's proxy_conn well formed.
LEMMA LessSound ==
    ASSUME SlotInv, px.fd # NoUp
    PROVE  /\ \A n \in 0 .. Len(px.hdr) : Sound(HdrLess(n)) /\ Take(px.hdr, n) \in Seq(Units)
           /\ \A n \in 0 .. Len(px.buf) : Sound(BufLess(n)) /\ Take(px.buf, n) \in Seq(Units)
           /\ \A n \in 0 .. Len(px.body) : Sound(BodyLess(n)) /\ Take(px.body, n) \in Seq(Units)
<1>1. /\ px \in PxRecords /\ px.hdr \in Seq(Units) /\ px.buf \in Seq(Units) /\ px.body \in Seq(Units)
      /\ Len(px.buf) \in Nat
  BY SlotTypes
<1>2. Sound(px)
  BY SlotFacts
<1>3. ASSUME NEW n \in 0 .. Len(px.hdr) PROVE Sound(HdrLess(n)) /\ Take(px.hdr, n) \in Seq(Units)
  <2>1. /\ HdrLess(n).fd = px.fd /\ HdrLess(n).phase = px.phase /\ HdrLess(n).buf = px.buf
        /\ HdrLess(n).clientKeep = px.clientKeep
    BY <1>1 DEF HdrLess, PxRecords
  <2>2. HdrLess(n) \in PxRecords
    BY <1>1, LessFacts
  <2> QED BY <1>1, <1>2, <2>1, <2>2, TakeFacts DEF Sound
<1>4. ASSUME NEW n \in 0 .. Len(px.buf) PROVE Sound(BufLess(n)) /\ Take(px.buf, n) \in Seq(Units)
  <2>1. /\ BufLess(n).fd = px.fd /\ BufLess(n).phase = px.phase
        /\ BufLess(n).clientKeep = px.clientKeep
    BY <1>1 DEF BufLess, PxRecords
  <2>2. BufLess(n) \in PxRecords /\ BufLess(n).buf = Drop(px.buf, n)
    BY <1>1, LessFacts
  <2>3. Len(Drop(px.buf, n)) = Len(px.buf) - n
    BY <1>1, DropFacts
  <2>4. Len(BufLess(n).buf) <= BufMax
    BY <1>1, <1>2, <2>2, <2>3, SizesAssumption DEF Sound
  <2> QED BY <1>1, <1>2, <2>1, <2>2, <2>4, TakeFacts DEF Sound
<1>5. ASSUME NEW n \in 0 .. Len(px.body) PROVE Sound(BodyLess(n)) /\ Take(px.body, n) \in Seq(Units)
  <2>1. /\ BodyLess(n).fd = px.fd /\ BodyLess(n).phase = px.phase /\ BodyLess(n).buf = px.buf
        /\ BodyLess(n).clientKeep = px.clientKeep
    BY <1>1 DEF BodyLess, PxRecords
  <2>2. BodyLess(n) \in PxRecords
    BY <1>1, LessFacts
  <2> QED BY <1>1, <1>2, <2>1, <2>2, TakeFacts DEF Sound
<1> QED BY <1>3, <1>4, <1>5

\* What the client sent or was sent keeps its type.
LEMMA ClientRead ==
    ASSUME client \in ClientRecords, NEW n \in 0 .. Len(client.in), client' = [client EXCEPT !.in = Drop(@, n)]
    PROVE  /\ client' \in ClientRecords /\ client'.in = Drop(client.in, n)
           /\ client'.next = client.next /\ client'.st = client.st
<1>1. client.in \in Seq(Units)
  BY DEF ClientRecords
<1>2. Drop(client.in, n) \in Seq(Units)
  BY <1>1, DropFacts
<1> QED BY <1>2 DEF ClientRecords

\* What the client was sent stays a sequence of units.
LEMMA OutGrows ==
    ASSUME out \in Seq(Units), NEW us \in Seq(Units), NEW n \in 0 .. Len(us)
    PROVE  out \o Take(us, n) \in Seq(Units)
<1>1. Take(us, n) \in Seq(Units)
  BY TakeFacts
<1> QED BY <1>1, CatFacts

\* What every turn of the pump leaves alone.
LEMMA PumpFrame ==
    ASSUME SlotInv, Pump, client' = client \/ client' \in ClientRecords, out' = out \/ out' \in Seq(Units)
    PROVE  /\ Frame /\ pc = "pump" /\ px.fd # NoUp /\ px \in PxRecords /\ Moved(up) /\ Sound(px)
<1>1. /\ pc = "pump" /\ script' = script /\ px.fd # NoUp /\ caller' \in {"read", "reuse", "event"}
  BY PumpFacts
<1>2. client \in ClientRecords /\ out \in Seq(Units)
  BY DEF SlotInv, Typed
<1> QED BY <1>1, <1>2, SlotFacts DEF Frame

\* Sending 100 Continue keeps SlotInv.
LEMMA SlotFlush ==
    ASSUME SlotInv, PumpFlush100
    PROVE  SlotInv'
<1>1. PICK n \in {0, 1} :
              /\ out' = out \o Take(<<Unit("100", Cur, 0)>>, n) /\ client' = client /\ pool' = pool
              /\ \/ n = 1 /\ Loop(up, [px EXCEPT !.send100 = FALSE], 0)
                 \/ n = 0 /\ Waits(up, px, "none", "write")
                 \/ Falls(up, px, FALSE)
  BY FlushEffect
<1>2. px.fd # NoUp
  BY PumpFacts DEF Pump
<1>3. out' \in Seq(Units)
  <2> DEFINE us == <<Unit("100", Cur, 0)>>
  <2>1. Unit("100", Cur, 0) \in Units
    BY <1>2, SlotFacts, UnitFacts DEF Kinds
  <2>2. us \in Seq(Units) /\ Len(us) = 1
    BY <2>1
  <2> HIDE DEF us
  <2>3. n \in 0 .. Len(us)
    BY <2>2
  <2> QED BY <1>1, <2>2, <2>3, OutGrows DEF us, SlotInv, Typed
<1>4. /\ Frame /\ pc = "pump" /\ px.fd # NoUp /\ px \in PxRecords /\ Moved(up) /\ Sound(px)
  BY <1>1, <1>3, PumpFrame DEF Pump
<1>5. Sound([px EXCEPT !.send100 = FALSE])
  <2> DEFINE q == [px EXCEPT !.send100 = FALSE]
  <2>1. q \in PxRecords /\ q.fd = px.fd /\ q.phase = px.phase /\ q.buf = px.buf /\ q.clientKeep = px.clientKeep
    BY <1>4 DEF PxRecords
  <2> QED BY <1>4, <2>1 DEF Sound
<1>6. CASE Loop(up, [px EXCEPT !.send100 = FALSE], 0)
  BY <1>1, <1>4, <1>5, <1>6, LoopKeeps
<1>7. CASE Waits(up, px, "none", "write")
  BY <1>1, <1>4, <1>7, WaitsKeeps
<1>8. CASE Falls(up, px, FALSE)
  BY <1>1, <1>4, <1>8, FallsKeeps
<1> QED BY <1>1, <1>6, <1>7, <1>8

\* The lines after the loop keep SlotInv.
LEMMA SlotBudget ==
    ASSUME SlotInv, PumpBudgetOut
    PROVE  SlotInv'
<1>1. /\ client' = client /\ pool' = pool /\ out' = out
      /\ \/ \E upio \in Ios, io \in {"read", "write", "idle"} : Waits(up, px, upio, io)
         \/ \E cause : Falls(up, px, cause)
  BY BudgetEffect DEF Ios
<1>2. /\ Frame /\ pc = "pump" /\ px.fd # NoUp /\ px \in PxRecords /\ Moved(up) /\ Sound(px)
  BY <1>1, PumpFrame DEF Pump
<1> QED BY <1>1, <1>2, WaitsKeeps, FallsKeeps

\* Sending the header keeps SlotInv.
LEMMA SlotSendReq ==
    ASSUME SlotInv, PumpSendReq
    PROVE  SlotInv'
<1>1. client' = client /\ pool' = pool /\ out' = out /\ budget > 0
  BY SendReqEffect, PumpingFacts, Zenon DEF PumpSendReq
<1>2. /\ Frame /\ pc = "pump" /\ px.fd # NoUp /\ px \in PxRecords /\ Moved(up) /\ Sound(px)
  BY <1>1, PumpFrame DEF Pump
<1>3. PICK n \in 0 .. Len(px.hdr) :
                 LET u == ToUp(px.fd, Take(px.hdr, n))
                     p == HdrLess(n)
                 IN  \/ /\ n = Len(px.hdr)
                        /\ Loop(u, [p EXCEPT !.phase = IF BodyPending(p) THEN "SEND_BODY" ELSE "RECV_HDR",
                                             !.buf = <<>>], 1)
                     \/ n < Len(px.hdr) /\ Waits(u, p, "write", "idle")
                     \/ Falls(u, p, up[px.fd].st # "open")
                     \/ /\ px.reused /\ Len(p.hdr) = 2
                        /\ (\E c \in UpIds : Renews(c, p)) \/ Falls(up, p, FALSE)
  BY SendReqEffect, Zenon
<1> DEFINE u == ToUp(px.fd, Take(px.hdr, n))
           p == HdrLess(n)
           q == [p EXCEPT !.phase = IF BodyPending(p) THEN "SEND_BODY" ELSE "RECV_HDR", !.buf = <<>>]
<1>4. Moved(u) /\ Sound(p)
  BY <1>2, LessSound, SentMoved
<1> HIDE DEF u, p
<1>5. Sound(q)
  <2> DEFINE ph == IF BodyPending(p) THEN "SEND_BODY" ELSE "RECV_HDR"
  <2>1. p \in PxRecords /\ ph \in Phases /\ ph # "none" /\ <<>> \in Seq(Units)
    BY <1>4 DEF Sound, Phases
  <2> HIDE DEF ph
  <2>2. q = [p EXCEPT !.phase = ph, !.buf = <<>>]
    BY DEF ph
  <2> HIDE DEF q
  <2>3. q \in PxRecords /\ q.phase = ph /\ q.buf = <<>> /\ q.fd = p.fd /\ q.clientKeep = p.clientKeep
    BY <2>1, <2>2 DEF PxRecords
  <2>4. Len(q.buf) <= BufMax
    BY <2>3, SizesAssumption
  <2> QED BY <1>4, <2>1, <2>3, <2>4 DEF Sound
<1>6. CASE Loop(u, q, 1)
  <2> HIDE DEF q
  <2> QED BY <1>1, <1>2, <1>4, <1>5, <1>6, LoopKeeps
<1>7. CASE Waits(u, p, "write", "idle")
  BY <1>1, <1>2, <1>4, <1>7, WaitsKeeps
<1>8. CASE Falls(u, p, up[px.fd].st # "open")
  BY <1>1, <1>2, <1>4, <1>8, FallsKeeps
<1>9. CASE \E c \in UpIds : Renews(c, p)
  BY <1>1, <1>2, <1>4, <1>9, RenewsKeeps
<1>10. CASE Falls(up, p, FALSE)
  BY <1>1, <1>2, <1>10, FallsKeeps
<1> QED BY <1>3, <1>6, <1>7, <1>8, <1>9, <1>10 DEF u, p

\* Sending the body keeps SlotInv.
LEMMA SlotSendBody ==
    ASSUME SlotInv, PumpSendBody
    PROVE  SlotInv'
<1>1. client' = client /\ pool' = pool /\ out' = out /\ budget > 0
  BY SendBodyEffect, PumpingFacts DEF PumpSendBody
<1>2. /\ Frame /\ pc = "pump" /\ px.fd # NoUp /\ px \in PxRecords /\ Moved(up) /\ Sound(px)
  BY <1>1, PumpFrame DEF Pump
<1>3. PICK u, p :
         /\ Moved(u) /\ Sound(p)
         /\ Loop(u, p, 1) \/ Waits(u, p, "write", "idle") \/ Falls(u, p, up[px.fd].st # "open")
  <2>1. CASE \E n \in 0 .. Len(px.buf) :
                       LET u == ToUp(px.fd, Take(px.buf, n))
                       IN  \/ Loop(u, BufLess(n), 1)
                           \/ Waits(u, BufLess(n), "write", "idle")
                           \/ Falls(u, BufLess(n), up[px.fd].st # "open")
    BY <1>2, <2>1, LessSound, SentMoved
  <2>2. CASE \E n \in 0 .. Len(px.body) :
                       LET u == ToUp(px.fd, Take(px.body, n))
                       IN  \/ Loop(u, BodyLess(n), 1)
                           \/ Waits(u, BodyLess(n), "write", "idle")
                           \/ Falls(u, BodyLess(n), up[px.fd].st # "open")
    BY <1>2, <2>2, LessSound, SentMoved
  <2> QED BY <2>1, <2>2, SendBodyEffect
<1>4. CASE Loop(u, p, 1)
  BY <1>1, <1>2, <1>3, <1>4, LoopKeeps
<1>5. CASE Waits(u, p, "write", "idle")
  BY <1>1, <1>2, <1>3, <1>5, WaitsKeeps
<1>6. CASE Falls(u, p, up[px.fd].st # "open")
  BY <1>1, <1>2, <1>3, <1>6, FallsKeeps
<1> QED BY <1>3, <1>4, <1>5, <1>6

\* proxy_conn after n units of the body were read from the client.
LEMMA BodyReadFacts ==
    ASSUME SlotInv, px.fd # NoUp, NEW n \in 1 .. Len(client.in), n <= px.bodyLeft, n <= BufMax
    PROVE  LET q == BodyRead(n)
           IN  /\ Sound(q) /\ q.buf = Take(client.in, n) /\ q.bodyLeft = px.bodyLeft - n
               /\ q.fd = px.fd /\ q.phase = px.phase /\ q.send100 = px.send100 /\ q.framing = px.framing
               /\ q.bodyDone = px.bodyDone /\ q.respSent = px.respSent /\ q.upClose = px.upClose
               /\ q.clientKeep = px.clientKeep /\ q.reused = px.reused /\ q.overread = px.overread
               /\ q.hdr = px.hdr /\ q.body = px.body /\ q.respLeft = px.respLeft
<1> DEFINE q == BodyRead(n)
           us == Take(client.in, n)
           left == px.bodyLeft - n
<1>1. px \in PxRecords /\ px.bodyLeft \in Nat /\ client.in \in Seq(Units) /\ Len(client.in) \in Nat
  BY SlotTypes
<1>2. n \in Nat /\ n \in 0 .. Len(client.in)
  BY <1>1
<1>3. us \in Seq(Units) /\ Len(us) = n
  BY <1>1, <1>2, TakeFacts
<1>4. left \in Nat
  BY <1>1, <1>2
<1>5. q = [px EXCEPT !.buf = us, !.bodyLeft = left]
  BY DEF BodyRead
<1> HIDE DEF q, us, left
<1>6. q \in PxRecords /\ q.buf = us /\ q.bodyLeft = left
  BY <1>1, <1>3, <1>4, <1>5 DEF PxRecords
<1>7. /\ q.fd = px.fd /\ q.phase = px.phase /\ q.send100 = px.send100 /\ q.framing = px.framing
      /\ q.bodyDone = px.bodyDone /\ q.respSent = px.respSent /\ q.upClose = px.upClose
      /\ q.clientKeep = px.clientKeep /\ q.reused = px.reused /\ q.overread = px.overread
      /\ q.hdr = px.hdr /\ q.body = px.body /\ q.respLeft = px.respLeft
  BY <1>1, <1>5 DEF PxRecords
<1>8. Sound(q)
  <2>1. Sound(px)
    BY SlotFacts
  <2> QED BY <1>3, <1>6, <1>7, <2>1 DEF Sound
<1> QED BY <1>6, <1>7, <1>8 DEF q, us, left

\* Reading the body keeps SlotInv.
LEMMA SlotReadBody ==
    ASSUME SlotInv, PumpReadBody
    PROVE  SlotInv'
<1>1. pool' = pool /\ out' = out /\ budget > 0 /\ px.fd # NoUp /\ client \in ClientRecords
  BY ReadBodyEffect, PumpingFacts, Zenon DEF PumpReadBody, SlotInv, Typed
<1>2. CASE \E n \in 1 .. Len(client.in) :
                    /\ n <= px.bodyLeft /\ n <= BufMax
                    /\ client' = [client EXCEPT !.in = Drop(@, n)]
                    /\ Loop(up, BodyRead(n), 1)
  <2>1. PICK n \in 1 .. Len(client.in) :
                    /\ n <= px.bodyLeft /\ n <= BufMax
                    /\ client' = [client EXCEPT !.in = Drop(@, n)]
                    /\ Loop(up, BodyRead(n), 1)
    BY <1>2
  <2>2. n \in 0 .. Len(client.in)
    BY <1>1, SlotTypes
  <2>3. client' \in ClientRecords
    BY <1>1, <2>1, <2>2, ClientRead
  <2>4. /\ Frame /\ pc = "pump" /\ px \in PxRecords /\ Moved(up) /\ Sound(px)
    BY <1>1, <2>3, PumpFrame DEF Pump
  <2>5. Sound(BodyRead(n))
    BY <1>1, <2>1, BodyReadFacts
  <2> QED BY <1>1, <2>1, <2>4, <2>5, LoopKeeps
<1>3. CASE client' = client /\ (Waits(up, px, "idle", "read") \/ Falls(up, px, FALSE))
  <2>1. /\ Frame /\ pc = "pump" /\ px \in PxRecords /\ Moved(up) /\ Sound(px)
    BY <1>1, <1>3, PumpFrame DEF Pump
  <2> QED BY <1>1, <1>3, <2>1, WaitsKeeps, FallsKeeps
<1> QED BY <1>2, <1>3, ReadBodyEffect

\* The end of the body keeps SlotInv.
LEMMA SlotBodySent ==
    ASSUME SlotInv, PumpBodySent
    PROVE  SlotInv'
<1>1. /\ client' = client /\ pool' = pool /\ out' = out
      /\ Loop(up, [px EXCEPT !.phase = "RECV_HDR"], 0)
  BY DEF PumpBodySent, pumpRest
<1>2. /\ Frame /\ pc = "pump" /\ px.fd # NoUp /\ px \in PxRecords /\ Moved(up) /\ Sound(px)
  BY <1>1, PumpFrame DEF Pump
<1> DEFINE q == [px EXCEPT !.phase = "RECV_HDR"]
<1>3. q \in PxRecords /\ q.phase = "RECV_HDR" /\ q.fd = px.fd /\ q.buf = px.buf /\ q.clientKeep = px.clientKeep
  BY <1>2 DEF PxRecords, Phases
<1>4. Sound(q)
  BY <1>2, <1>3 DEF Sound
<1> QED BY <1>1, <1>2, <1>4, LoopKeeps

\* A header block of the answer keeps SlotInv.
LEMMA HeaderKeeps ==
    ASSUME SlotInv, Frame, pool' = pool, pc = "pump", budget > 0, px.fd # NoUp, NEW u, NEW p, Moved(u), Sound(p),
           HdrEnd(p.buf) # 0, Header(u, p, HdrEnd(p.buf))
    PROVE  SlotInv'
<1> DEFINE at == HdrEnd(p.buf)
<1>1. p \in PxRecords /\ p.buf \in Seq(Units) /\ Len(p.buf) \in Nat
  BY DEF Sound, PxRecords
<1>2. at \in 1 .. Len(p.buf) /\ at \in 0 .. Len(p.buf)
  BY <1>1, HdrEndFacts
<1>3. Header(u, p, at)
  OBVIOUS
<1> HIDE DEF at
<1>4. CASE \E spent \in {0, 1} : Loop(u, [p EXCEPT !.buf = Drop(p.buf, at)], spent)
  <2> DEFINE rest == Drop(p.buf, at)
             q == [p EXCEPT !.buf = rest]
  <2>1. rest \in Seq(Units) /\ Len(rest) = Len(p.buf) - at
    BY <1>1, <1>2, DropFacts
  <2>2. Len(rest) <= BufMax
    BY <1>1, <1>2, <2>1, SizesAssumption DEF Sound
  <2> HIDE DEF rest
  <2>3. q \in PxRecords /\ q.buf = rest /\ q.fd = p.fd /\ q.phase = p.phase /\ q.clientKeep = p.clientKeep
    BY <1>1, <2>1 DEF PxRecords
  <2>4. Sound(q)
    BY <2>2, <2>3 DEF Sound
  <2>5. \E spent \in {0, 1} : Loop(u, q, spent)
    BY <1>4 DEF rest
  <2> HIDE DEF q
  <2> QED BY <2>4, <2>5, LoopKeeps
<1>5. CASE p.buf[at].k = "hend" /\ \E spent \in {0, 1} : Loop(u, FinalHeader(p, at), spent)
  <2>1. Sound(FinalHeader(p, at))
    BY <1>1, <1>2, <1>5, FinalSound
  <2> QED BY <1>5, <2>1, LoopKeeps
<1>6. CASE \E cause : Falls(u, p, cause)
  BY <1>6, FallsKeeps
<1> QED BY <1>3, <1>4, <1>5, <1>6 DEF Header

\* Reading the answer's header keeps SlotInv.
LEMMA SlotRecvHdr ==
    ASSUME SlotInv, PumpRecvHdr
    PROVE  SlotInv'
<1>1. client' = client /\ pool' = pool /\ out' = out /\ budget > 0
  BY RecvHdrEffect, PumpingFacts DEF PumpRecvHdr
<1>2. /\ Frame /\ pc = "pump" /\ px.fd # NoUp /\ px \in PxRecords /\ Moved(up) /\ Sound(px)
  BY <1>1, PumpFrame DEF Pump
<1>3. CASE HdrEnd(px.buf) # 0 /\ Header(up, px, HdrEnd(px.buf))
  BY <1>1, <1>2, <1>3, HeaderKeeps
<1>4. CASE \E cause : Falls(up, px, cause)
  BY <1>1, <1>2, <1>4, FallsKeeps
<1>5. CASE Waits(up, px, "read", "idle")
  BY <1>1, <1>2, <1>5, WaitsKeeps
<1>6. CASE \E c \in UpIds : Renews(c, px)
  BY <1>1, <1>2, <1>6, RenewsKeeps
<1>7. CASE \E n \in 1 .. Len(up[px.fd].in) :
                    LET p == AnswerRead(n)
                        u == Emptied(n)
                    IN  /\ HdrEnd(px.buf) = 0 /\ n <= BufMax - Len(px.buf)
                        /\ \/ HdrEnd(p.buf) # 0 /\ Header(u, p, HdrEnd(p.buf))
                           \/ HdrEnd(p.buf) = 0 /\ Falls(u, p, Len(p.buf) >= BufMax)
                           \/ HdrEnd(p.buf) = 0 /\ Loop(u, p, 1)
  <2>1. PICK n \in 1 .. Len(up[px.fd].in) :
                    LET p == AnswerRead(n)
                        u == Emptied(n)
                    IN  /\ HdrEnd(px.buf) = 0 /\ n <= BufMax - Len(px.buf)
                        /\ \/ HdrEnd(p.buf) # 0 /\ Header(u, p, HdrEnd(p.buf))
                           \/ HdrEnd(p.buf) = 0 /\ Falls(u, p, Len(p.buf) >= BufMax)
                           \/ HdrEnd(p.buf) = 0 /\ Loop(u, p, 1)
    BY <1>7
  <2>2. n \in 0 .. Len(up[px.fd].in)
    BY <1>2, SlotTypes
  <2> DEFINE p == AnswerRead(n)
             u == Emptied(n)
  <2>3. Sound(p) /\ Moved(u)
    BY <1>2, <2>1, <2>2, AnswerReadFacts
  <2>4. \/ HdrEnd(p.buf) # 0 /\ Header(u, p, HdrEnd(p.buf))
        \/ Falls(u, p, Len(p.buf) >= BufMax)
        \/ Loop(u, p, 1)
    BY <2>1
  <2> HIDE DEF p, u
  <2>5. CASE HdrEnd(p.buf) # 0 /\ Header(u, p, HdrEnd(p.buf))
    BY <1>1, <1>2, <2>3, <2>5, HeaderKeeps
  <2>6. CASE Falls(u, p, Len(p.buf) >= BufMax)
    BY <1>1, <1>2, <2>3, <2>6, FallsKeeps
  <2>7. CASE Loop(u, p, 1)
    BY <1>1, <1>2, <2>3, <2>7, LoopKeeps
  <2> QED BY <2>4, <2>5, <2>6, <2>7
<1> QED BY <1>3, <1>4, <1>5, <1>6, <1>7, RecvHdrEffect

\* Sending a whole response keeps SlotInv.
LEMMA SlotGathered ==
    ASSUME SlotInv, PumpSendGathered
    PROVE  SlotInv'
<1>1. client' = client /\ budget > 0 /\ px.fd # NoUp /\ out \in Seq(Units)
  <2>1. Pumping /\ out \in Seq(Units)
    BY Zenon DEF PumpSendGathered, SlotInv, Typed
  <2> QED BY <2>1, GatheredEffect, PumpingFacts
<1>2. CASE \E n \in 1 .. Len(px.hdr) + Len(px.buf) :
                    /\ out' = out \o Take(px.hdr \o px.buf, n)
                    /\ \/ n = Len(px.hdr) + Len(px.buf) /\ Parks(up, Gathered(n))
                       \/ n < Len(px.hdr) + Len(px.buf) /\ Loop(up, Gathered(n), 1) /\ pool' = pool
  <2>1. PICK n \in 1 .. Len(px.hdr) + Len(px.buf) :
                    /\ out' = out \o Take(px.hdr \o px.buf, n)
                    /\ Parks(up, Gathered(n)) \/ (Loop(up, Gathered(n), 1) /\ pool' = pool)
    BY <1>2
  <2> DEFINE all == px.hdr \o px.buf
  <2>2. all \in Seq(Units) /\ Len(all) = Len(px.hdr) + Len(px.buf)
    <3>1. px.hdr \in Seq(Units) /\ px.buf \in Seq(Units)
      BY <1>1, SlotTypes
    <3> QED BY <3>1, CatFacts
  <2> DEFINE most == Len(px.hdr) + Len(px.buf)
  <2>7. n \in 1 .. most /\ Len(all) = most /\ Len(all) \in Nat
    <3>1. Len(all) \in Nat
      <4>1. all \in Seq(Units)
        BY <2>2
      <4> HIDE DEF all
      <4> QED BY <4>1, LenProperties
    <3>2. n \in 1 .. most
      OBVIOUS
    <3>3. Len(all) = most
      BY <2>2
    <3> HIDE DEF all, most
    <3> QED BY <3>1, <3>2, <3>3
  <2> HIDE DEF all, most
  <2>3. n \in 0 .. Len(all)
    BY <2>7
  <2>4. out' \in Seq(Units)
    BY <1>1, <2>1, <2>2, <2>3, OutGrows DEF all
  <2>5. /\ Frame /\ pc = "pump" /\ px \in PxRecords /\ Moved(up) /\ Sound(px)
    BY <1>1, <2>4, PumpFrame DEF Pump
  <2>6. Sound(Gathered(n))
    BY <1>1, GatheredFacts
  <2> QED BY <1>1, <2>1, <2>5, <2>6, ParksKeeps, LoopKeeps
<1>3. CASE out' = out /\ pool' = pool /\ (Waits(up, px, "none", "write") \/ Falls(up, px, client.st # "open"))
  <2>1. /\ Frame /\ pc = "pump" /\ px \in PxRecords /\ Moved(up) /\ Sound(px)
    BY <1>1, <1>3, PumpFrame DEF Pump
  <2> QED BY <1>1, <1>3, <2>1, WaitsKeeps, FallsKeeps
<1> QED BY <1>2, <1>3, GatheredEffect, Zenon

\* Sending the response's header keeps SlotInv.
LEMMA SlotSendHdr ==
    ASSUME SlotInv, PumpSendHdr
    PROVE  SlotInv'
<1>1. client' = client /\ pool' = pool /\ budget > 0 /\ px.fd # NoUp /\ out \in Seq(Units)
  <2>1. Pumping /\ out \in Seq(Units)
    BY DEF PumpSendHdr, SlotInv, Typed
  <2> QED BY <2>1, SendHdrEffect, PumpingFacts
<1>2. PICK n \in 0 .. Len(px.hdr) :
                 /\ out' = out \o Take(px.hdr, n)
                 /\ \/ Loop(up, [HdrSent(n) EXCEPT !.phase = "STREAM"], 1)
                    \/ Waits(up, HdrSent(n), "idle", "write")
                    \/ Falls(up, HdrSent(n), client.st # "open")
  BY SendHdrEffect
<1>3. out' \in Seq(Units)
  BY <1>1, <1>2, SlotTypes, OutGrows
<1>4. /\ Frame /\ pc = "pump" /\ px \in PxRecords /\ Moved(up) /\ Sound(px)
  BY <1>1, <1>3, PumpFrame DEF Pump
<1> DEFINE p == HdrSent(n)
           q == [p EXCEPT !.phase = "STREAM"]
<1>5. Sound(p) /\ p \in PxRecords
  BY <1>1, HdrSentFacts
<1> HIDE DEF p
<1>6. Sound(q)
  <2>1. q \in PxRecords /\ q.phase = "STREAM" /\ q.fd = p.fd /\ q.buf = p.buf /\ q.clientKeep = p.clientKeep
    BY <1>5 DEF PxRecords, Phases
  <2> QED BY <1>5, <2>1 DEF Sound
<1>7. CASE Loop(up, q, 1)
  <2> HIDE DEF q
  <2> QED BY <1>1, <1>4, <1>6, <1>7, LoopKeeps
<1>8. CASE Waits(up, p, "idle", "write")
  BY <1>1, <1>4, <1>5, <1>8, WaitsKeeps
<1>9. CASE Falls(up, p, client.st # "open")
  BY <1>1, <1>4, <1>9, FallsKeeps
<1> QED BY <1>2, <1>7, <1>8, <1>9 DEF p

\* Sending the response's body keeps SlotInv.
LEMMA SlotStreamOut ==
    ASSUME SlotInv, PumpStreamOut
    PROVE  SlotInv'
<1>1. client' = client /\ budget > 0 /\ px.fd # NoUp /\ out \in Seq(Units)
  BY StreamOutEffect, PumpingFacts, Zenon DEF PumpStreamOut, SlotInv, Typed
<1>2. PICK n \in 0 .. Len(px.buf) :
                 /\ out' = out \o Take(px.buf, n)
                 /\ \/ Parks(up, BufSent(n))
                    \/ Loop(up, BufSent(n), 1) /\ pool' = pool
                    \/ Waits(up, BufSent(n), "idle", "write") /\ pool' = pool
                    \/ Falls(up, BufSent(n), FALSE) /\ pool' = pool
  BY StreamOutEffect
<1>3. out' \in Seq(Units)
  BY <1>1, <1>2, SlotTypes, OutGrows
<1>4. /\ Frame /\ pc = "pump" /\ px \in PxRecords /\ Moved(up) /\ Sound(px)
  BY <1>1, <1>3, PumpFrame DEF Pump
<1>5. Sound(BufSent(n))
  BY <1>1, BufSentFacts
<1>6. CASE Parks(up, BufSent(n))
  BY <1>1, <1>4, <1>5, <1>6, ParksKeeps
<1>7. CASE Loop(up, BufSent(n), 1) /\ pool' = pool
  BY <1>1, <1>4, <1>5, <1>7, LoopKeeps
<1>8. CASE Waits(up, BufSent(n), "idle", "write") /\ pool' = pool
  BY <1>1, <1>4, <1>5, <1>8, WaitsKeeps
<1>9. CASE Falls(up, BufSent(n), FALSE) /\ pool' = pool
  BY <1>1, <1>4, <1>9, FallsKeeps
<1> QED BY <1>2, <1>6, <1>7, <1>8, <1>9

\* What was read of the body, up to its end.
LEMMA NotedFacts ==
    ASSUME SlotInv, px.fd # NoUp, NEW n \in 1 .. Len(up[px.fd].in), n <= BufMax
    PROVE  /\ Sound(Noted(n))
           /\ \E end \in 0 .. Len(Take(up[px.fd].in, n)) :
                 Ended(Noted(n), [px EXCEPT !.buf = Take(up[px.fd].in, n)], Take(up[px.fd].in, n), end)
<1> DEFINE q == Noted(n)
           us == Take(up[px.fd].in, n)
           p == [px EXCEPT !.buf = us]
<1>1. px \in PxRecords /\ up[px.fd].in \in Seq(Units) /\ Len(up[px.fd].in) \in Nat
  BY SlotTypes
<1>2. n \in 0 .. Len(up[px.fd].in) /\ n \in Nat
  BY <1>1
<1>3. us \in Seq(Units) /\ Len(us) = n
  BY <1>1, <1>2, TakeFacts
<1>4. q = NoteBody(p, us)
  BY DEF Noted
<1> HIDE DEF q, us
<1>5. p \in PxRecords /\ p.buf = us /\ p.fd = px.fd /\ p.phase = px.phase /\ p.clientKeep = px.clientKeep
  BY <1>1, <1>3 DEF PxRecords
<1> HIDE DEF p
<1>6. PICK end \in 0 .. Len(us) : Ended(q, p, us, end)
  BY <1>3, <1>4, <1>5, NoteFacts
<1>7. q \in PxRecords /\ q.buf = Take(us, end) /\ q.fd = p.fd /\ q.phase = p.phase /\ q.clientKeep = p.clientKeep
  BY <1>6 DEF Ended
<1>8. Sound(q)
  <2>1. Sound(px)
    BY SlotFacts
  <2>2. Len(q.buf) = end
    BY <1>3, <1>7, TakeFacts
  <2>3. Len(q.buf) <= BufMax
    BY <1>2, <1>3, <2>2, SizesAssumption
  <2> QED BY <1>5, <1>7, <2>1, <2>3 DEF Sound
<1> QED BY <1>6, <1>8 DEF q, us, p

\* Reading the response's body keeps SlotInv.
LEMMA SlotStreamIn ==
    ASSUME SlotInv, PumpStreamIn
    PROVE  SlotInv'
<1>1. client' = client /\ out' = out /\ budget > 0
  BY StreamInEffect, PumpingFacts DEF PumpStreamIn
<1>2. /\ Frame /\ pc = "pump" /\ px.fd # NoUp /\ px \in PxRecords /\ Moved(up) /\ Sound(px)
  BY <1>1, PumpFrame DEF Pump
<1>3. CASE \E n \in 1 .. Len(up[px.fd].in) :
              /\ pool' = pool /\ n <= BufMax
              /\ Falls(Emptied(n), px, FALSE) \/ Loop(Emptied(n), Noted(n), 1)
  <2>1. PICK n \in 1 .. Len(up[px.fd].in) :
              /\ pool' = pool /\ n <= BufMax
              /\ Falls(Emptied(n), px, FALSE) \/ Loop(Emptied(n), Noted(n), 1)
    BY <1>3
  <2>2. n \in 0 .. Len(up[px.fd].in)
    BY <1>2, SlotTypes
  <2>3. Moved(Emptied(n))
    <3>1. LET g == Emptied(n)
          IN  /\ g \in [UpIds -> UpRecords] /\ \A c \in UpIds : c # px.fd => g[c] = up[c]
              /\ g[px.fd].mine = up[px.fd].mine /\ g[px.fd].plan = up[px.fd].plan
              /\ g[px.fd].st = up[px.fd].st /\ g[px.fd].addr = up[px.fd].addr
              /\ g[px.fd].answered = up[px.fd].answered
      BY <1>2, <2>2, SlotTypes, ReadUp DEF Emptied
    <3> QED BY <3>1 DEF Moved
  <2>4. Sound(Noted(n))
    BY <1>2, <2>1, NotedFacts
  <2> QED BY <1>1, <1>2, <2>1, <2>3, <2>4, FallsKeeps, LoopKeeps
<1>4. CASE pool' = pool /\ (Waits(up, px, "read", "idle") \/ Falls(up, px, FALSE))
  BY <1>2, <1>4, WaitsKeeps, FallsKeeps
<1>5. CASE Parks(up, px)
  BY <1>2, <1>5, ParksKeeps
<1> QED BY <1>3, <1>4, <1>5, StreamInEffect

\* Every turn of the pump keeps SlotInv.
LEMMA SlotPump ==
    ASSUME SlotInv, Pump
    PROVE  SlotInv'
  BY SlotFlush, SlotBudget, SlotSendReq, SlotSendBody, SlotReadBody, SlotBodySent, SlotRecvHdr,
     SlotGathered, SlotSendHdr, SlotStreamOut, SlotStreamIn DEF Pump

-----------------------------------------------------------------------------
(* The client and the upstreams. *)

\* Only the client and the sockets' other ends change.
LEMMA PeersKeep ==
    ASSUME SlotInv, script' = script, client' \in ClientRecords, UNCHANGED slotVars,
           up' \in [UpIds -> UpRecords],
           \A c \in UpIds : up'[c].mine = up[c].mine /\ (up'[c].st = "unused" => up'[c] = up[c])
    PROVE  SlotInv'
<1>1. /\ hc' = hc /\ armed' = armed /\ px' = px /\ pool' = pool /\ batch' = batch /\ pc' = pc
      /\ caller' = caller /\ budget' = budget /\ out' = out
  BY DEF slotVars
<1>2. /\ Units' = Units /\ PxRecords' = PxRecords /\ HcRecords' = HcRecords
      /\ UpRecords' = UpRecords /\ ClientRecords' = ClientRecords
  BY SameScript
<1>3. Typed'
  BY <1>1, <1>2 DEF SlotInv, Typed
<1>4. TypeOK'
  <2>1. client'.st \in {"open", "fin", "rst"}
    BY DEF ClientRecords
  <2> QED BY <1>1, <2>1 DEF SlotInv, TypeOK
<1>5. Control'
  <2>1. Req' = Req
    BY <1>1 DEF Req, Cur
  <2> QED BY <1>1, <2>1 DEF SlotInv, Control
<1>6. Owned'
  <2>1. InPool' = InPool
    BY <1>1 DEF InPool
  <2> QED BY <1>1, <2>1 DEF SlotInv, Owned
<1> QED BY <1>3, <1>4, <1>5, <1>6 DEF SlotInv

\* The first unit of a request, or the end of the stream.
LEMMA FirstFacts ==
    ASSUME script \in Scripts, NEW id \in Nat
    PROVE  /\ id \in DOMAIN script => FirstUnit(id) \in Units /\ FirstUnit(id).id = id
           /\ id \notin DOMAIN script => FirstUnit(id) = Unit("end", id, 0)
           /\ FirstUnit(id) \in Units \cup [k : {"end"}, id : Nat \ DOMAIN script, n : {0}]
<1>1. CASE id \in DOMAIN script
  <2>1. Unit("part", id, 1) \in Units /\ Unit("req", id, 0) \in Units
    BY <1>1, UnitFacts DEF Kinds
  <2>2. FirstUnit(id) = Unit("part", id, 1) \/ FirstUnit(id) = Unit("req", id, 0)
    BY <1>1 DEF FirstUnit
  <2> QED BY <1>1, <2>1, <2>2 DEF Unit
<1>2. CASE id \notin DOMAIN script
  BY <1>2 DEF FirstUnit, Unit
<1> QED BY <1>1, <1>2

\* What the client sends after a unit.
LEMMA NextFacts ==
    ASSUME script \in Scripts, NEW x \in Units
    PROVE  NextUnit(x) \in Units \cup [k : {"end"}, id : Nat \ DOMAIN script, n : {0}]
<1>1. x.id \in DOMAIN script /\ x.n \in Nat
  BY IdFacts
<1>2. x.id + 1 \in Nat /\ x.n + 1 \in Nat
  BY <1>1, ScriptFacts
<1>3. CASE x.n >= LastNumber(x.id)
  BY <1>2, <1>3, FirstFacts DEF NextUnit
<1>4. CASE ~(x.n >= LastNumber(x.id))
  <2> DEFINE k == IF x.k = "part" THEN "part" ELSE "b"
  <2>1. k \in Kinds
    BY DEF Kinds
  <2>2. NextUnit(x) = Unit(k, x.id, x.n + 1)
    BY <1>4 DEF NextUnit, Later
  <2> HIDE DEF k
  <2> QED BY <1>1, <1>2, <2>1, <2>2, UnitFacts
<1> QED BY <1>3, <1>4

\* A unit that arrives keeps SlotInv.
LEMMA SlotClientSend ==
    ASSUME SlotInv, ClientSend
    PROVE  SlotInv'
<1>1. /\ client \in ClientRecords /\ script \in Scripts /\ up \in [UpIds -> UpRecords]
  BY DEF SlotInv, Typed
<1>2. client.next \in Units /\ client.in \in Seq(Units)
  BY <1>1 DEF ClientSend, ClientRecords
<1> DEFINE next == NextUnit(client.next)
           in == Append(client.in, client.next)
<1>3. in \in Seq(Units)
  BY <1>2, AddFacts
<1>4. next \in Units \cup [k : {"end"}, id : Nat \ DOMAIN script, n : {0}]
  BY <1>1, <1>2, NextFacts
<1>5. client' = [client EXCEPT !.next = next, !.in = in]
  BY DEF ClientSend
<1> HIDE DEF next, in
<1>6. client' \in ClientRecords
  BY <1>1, <1>3, <1>4, <1>5 DEF ClientRecords
<1> QED BY <1>1, <1>6, PeersKeep DEF ClientSend

\* The client's socket after it left.
LEMMA LeftClient ==
    ASSUME client \in ClientRecords, ClientLeave
    PROVE  /\ client' \in ClientRecords /\ client'.next = client.next
           /\ \/ client'.st = "fin" /\ client'.in = client.in
              \/ client'.st = "rst" /\ client'.in = <<>>
<1>1. <<>> \in Seq(Units)
  OBVIOUS
<1>2. CASE client' = [client EXCEPT !.st = "fin"]
  BY <1>2 DEF ClientRecords
<1>3. CASE client' = [client EXCEPT !.st = "rst", !.in = <<>>]
  BY <1>1, <1>3 DEF ClientRecords
<1> QED BY <1>2, <1>3 DEF ClientLeave

\* The client's leaving keeps SlotInv.
LEMMA SlotClientLeave ==
    ASSUME SlotInv, ClientLeave
    PROVE  SlotInv'
<1>1. client \in ClientRecords /\ up \in [UpIds -> UpRecords]
  BY DEF SlotInv, Typed
<1> QED BY <1>1, LeftClient, PeersKeep DEF ClientLeave

\* A run of numbered units.
LEMMA PieceFacts ==
    ASSUME NEW k \in Kinds, NEW id \in DOMAIN script, NEW m \in Nat
    PROVE  LET s == [n \in 1 .. m |-> Unit(k, id, n)]
           IN  s \in Seq(Units) /\ Len(s) = m /\ \A n \in 1 .. m : s[n] = Unit(k, id, n)
<1> DEFINE s == [n \in 1 .. m |-> Unit(k, id, n)]
<1>1. \A n \in 1 .. m : n \in Nat /\ Unit(k, id, n) \in Units
  BY UnitFacts
<1>2. s \in [1 .. m -> Units]
  BY <1>1
<1> QED BY <1>2

\* The parts of a response: what comes before its body, the body's data, the end of a
\* chunked body.
Preface(id, r) ==
    [n \in 1 .. r.info |-> Unit("1xx", id, n)]
    \o <<Unit("h", id, 1), [k |-> "hend", id |-> id, n |-> 2, r |-> r]>>
Ending(id, r) ==
    CASE r.framing = "chunked" -> <<Unit("z", id, r.len + 1)>>
      [] r.framing = "badchunk" -> <<Unit("x", id, r.len + 1)>>
      [] OTHER -> <<>>
BodyUnits(id, r) == [n \in 1 .. r.len |-> Unit("d", id, n)] \o Ending(id, r)

\* The informational blocks and the header of a response.
LEMMA PrefaceFacts ==
    ASSUME NEW id \in DOMAIN script, NEW r \in Responses
    PROVE  LET s == Preface(id, r)
           IN  /\ s \in Seq(Units) /\ Len(s) = r.info + 2 /\ r.info \in Nat
               /\ \A n \in 1 .. r.info : s[n] = Unit("1xx", id, n)
               /\ s[r.info + 1] = Unit("h", id, 1)
               /\ s[r.info + 2] = [k |-> "hend", id |-> id, n |-> 2, r |-> r]
<1> DEFINE info == [n \in 1 .. r.info |-> Unit("1xx", id, n)]
           end == [k |-> "hend", id |-> id, n |-> 2, r |-> r]
           head == <<Unit("h", id, 1), end>>
<1>1. r.info \in Nat
  BY PeersAssumption
<1>2. info \in Seq(Units) /\ Len(info) = r.info /\ \A n \in 1 .. r.info : info[n] = Unit("1xx", id, n)
  BY <1>1, PieceFacts DEF Kinds
<1>3. Unit("h", id, 1) \in Units /\ end \in Units
  <2>1. end \in [k : {"hend"}, id : DOMAIN script, n : Nat, r : Responses]
    OBVIOUS
  <2> QED BY <2>1, UnitFacts DEF Units, Kinds
<1>4. head \in Seq(Units) /\ Len(head) = 2 /\ head[1] = Unit("h", id, 1) /\ head[2] = end
  BY <1>3
<1>5. Preface(id, r) = info \o head
  BY DEF Preface
<1> HIDE DEF info, head, end
<1>6. /\ info \o head \in Seq(Units) /\ Len(info \o head) = Len(info) + Len(head)
      /\ \A i \in 1 .. Len(info) : (info \o head)[i] = info[i]
      /\ \A i \in 1 .. Len(head) : (info \o head)[Len(info) + i] = head[i]
  <2>1. info \in Seq(Units) /\ head \in Seq(Units)
    BY <1>2, <1>4
  <2> QED BY <2>1, CatFacts
<1>7. 1 \in 1 .. Len(head) /\ 2 \in 1 .. Len(head)
  BY <1>4
<1>8. (info \o head)[r.info + 1] = head[1] /\ (info \o head)[r.info + 2] = head[2]
  BY <1>2, <1>6, <1>7
<1> QED BY <1>1, <1>2, <1>4, <1>5, <1>6, <1>8 DEF end

\* The last chunk of a response.
LEMMA EndingFacts ==
    ASSUME NEW id \in DOMAIN script, NEW r \in Responses
    PROVE  LET s == Ending(id, r)
           IN  /\ s \in Seq(Units) /\ r.len \in Nat
               /\ r.framing = "chunked" => Len(s) = 1 /\ s[1] = Unit("z", id, r.len + 1)
               /\ r.framing = "badchunk" => Len(s) = 1 /\ s[1] = Unit("x", id, r.len + 1)
               /\ r.framing \notin {"chunked", "badchunk"} => Len(s) = 0
<1>1. r.len \in Nat
  BY PeersAssumption
<1>2. Unit("z", id, r.len + 1) \in Units /\ Unit("x", id, r.len + 1) \in Units
  BY <1>1, UnitFacts DEF Kinds
<1>3. CASE r.framing = "chunked"
  BY <1>1, <1>2, <1>3 DEF Ending
<1>4. CASE r.framing = "badchunk"
  BY <1>1, <1>2, <1>4 DEF Ending
<1>5. CASE r.framing \notin {"chunked", "badchunk"}
  <2>1. Ending(id, r) = <<>>
    BY <1>5 DEF Ending
  <2> QED BY <1>1, <1>5, <2>1
<1> QED BY <1>3, <1>4, <1>5

\* The body of a response.
LEMMA BodyUnitsFacts ==
    ASSUME NEW id \in DOMAIN script, NEW r \in Responses
    PROVE  LET s == BodyUnits(id, r)
           IN  /\ s \in Seq(Units) /\ r.len \in Nat
               /\ \A n \in 1 .. r.len : s[n] = Unit("d", id, n)
               /\ r.framing = "chunked" => Len(s) = r.len + 1 /\ s[r.len + 1] = Unit("z", id, r.len + 1)
               /\ r.framing = "badchunk" => Len(s) = r.len + 1 /\ s[r.len + 1] = Unit("x", id, r.len + 1)
               /\ r.framing \notin {"chunked", "badchunk"} => Len(s) = r.len
<1> DEFINE data == [n \in 1 .. r.len |-> Unit("d", id, n)]
           end == Ending(id, r)
<1>1. /\ end \in Seq(Units) /\ r.len \in Nat
      /\ r.framing = "chunked" => Len(end) = 1 /\ end[1] = Unit("z", id, r.len + 1)
      /\ r.framing = "badchunk" => Len(end) = 1 /\ end[1] = Unit("x", id, r.len + 1)
      /\ r.framing \notin {"chunked", "badchunk"} => Len(end) = 0
  BY EndingFacts
<1>2. data \in Seq(Units) /\ Len(data) = r.len /\ \A n \in 1 .. r.len : data[n] = Unit("d", id, n)
  BY <1>1, PieceFacts DEF Kinds
<1>3. BodyUnits(id, r) = data \o end
  BY DEF BodyUnits
<1> HIDE DEF data, end
<1>4. /\ data \o end \in Seq(Units) /\ Len(data \o end) = Len(data) + Len(end)
      /\ \A i \in 1 .. Len(data) : (data \o end)[i] = data[i]
      /\ \A i \in 1 .. Len(end) : (data \o end)[Len(data) + i] = end[i]
  <2>1. data \in Seq(Units) /\ end \in Seq(Units)
    BY <1>1, <1>2
  <2> QED BY <2>1, CatFacts
<1> DEFINE s == data \o end
<1>5. /\ s \in Seq(Units) /\ Len(s) = r.len + Len(end) /\ r.len \in Nat
      /\ \A i \in 1 .. r.len : s[i] = Unit("d", id, i)
      /\ \A i \in 1 .. Len(end) : s[r.len + i] = end[i]
  BY <1>1, <1>2, <1>4
<1> HIDE DEF s
<1>6. Len(end) = 1 => s[r.len + 1] = end[1] /\ Len(s) = r.len + 1
  BY <1>5
<1>7. Len(end) = 0 => Len(s) = r.len
  BY <1>5
<1>8. BodyUnits(id, r) = s
  BY <1>3 DEF s
<1> QED BY <1>1, <1>5, <1>6, <1>7, <1>8

\* A response is its preface and its body.
LEMMA RespSplit ==
    ASSUME NEW id, NEW r
    PROVE  RespUnits(id, r) = IF HasBody(id, r) THEN Preface(id, r) \o BodyUnits(id, r)
                                                ELSE Preface(id, r) \o <<>>
  BY DEF RespUnits, Preface, BodyUnits, Ending

\* How many units there are after the header of r.
Rest(id, r) ==
    IF ~HasBody(id, r) THEN 0
    ELSE IF r.framing \in {"chunked", "badchunk"} THEN r.len + 1 ELSE r.len

\* What a response consists of.
LEMMA RespFacts ==
    ASSUME NEW id \in DOMAIN script, NEW r \in Responses
    PROVE  LET all == RespUnits(id, r)
           IN  /\ all \in Seq(Units) /\ Len(all) = r.info + 2 + Rest(id, r)
               /\ r.info \in Nat /\ r.len \in Nat /\ Rest(id, r) \in Nat
               /\ \A n \in 1 .. r.info : all[n] = Unit("1xx", id, n)
               /\ all[r.info + 1] = Unit("h", id, 1)
               /\ all[r.info + 2] = [k |-> "hend", id |-> id, n |-> 2, r |-> r]
               /\ HasBody(id, r) => \A n \in 1 .. r.len : all[r.info + 2 + n] = Unit("d", id, n)
               /\ HasBody(id, r) /\ r.framing = "chunked" => all[r.info + 2 + (r.len + 1)] = Unit("z", id, r.len + 1)
               /\ HasBody(id, r) /\ r.framing = "badchunk" => all[r.info + 2 + (r.len + 1)] = Unit("x", id, r.len + 1)
<1> DEFINE pre == Preface(id, r)
           body == IF HasBody(id, r) THEN BodyUnits(id, r) ELSE <<>>
           all == pre \o body
<1>1. /\ pre \in Seq(Units) /\ Len(pre) = r.info + 2 /\ r.info \in Nat
      /\ \A n \in 1 .. r.info : pre[n] = Unit("1xx", id, n)
      /\ pre[r.info + 1] = Unit("h", id, 1)
      /\ pre[r.info + 2] = [k |-> "hend", id |-> id, n |-> 2, r |-> r]
  BY PrefaceFacts
<1>2. /\ r.len \in Nat /\ body \in Seq(Units) /\ Len(body) = Rest(id, r) /\ Rest(id, r) \in Nat
      /\ HasBody(id, r) => \A n \in 1 .. r.len : body[n] = Unit("d", id, n)
      /\ HasBody(id, r) /\ r.framing = "chunked" => body[r.len + 1] = Unit("z", id, r.len + 1)
      /\ HasBody(id, r) /\ r.framing = "badchunk" => body[r.len + 1] = Unit("x", id, r.len + 1)
  <2>1. LET s == BodyUnits(id, r)
        IN  /\ s \in Seq(Units) /\ r.len \in Nat
            /\ \A n \in 1 .. r.len : s[n] = Unit("d", id, n)
            /\ r.framing = "chunked" => Len(s) = r.len + 1 /\ s[r.len + 1] = Unit("z", id, r.len + 1)
            /\ r.framing = "badchunk" => Len(s) = r.len + 1 /\ s[r.len + 1] = Unit("x", id, r.len + 1)
            /\ r.framing \notin {"chunked", "badchunk"} => Len(s) = r.len
    BY BodyUnitsFacts
  <2>2. CASE HasBody(id, r)
    <3>1. body = BodyUnits(id, r)
      BY <2>2
    <3> HIDE DEF body
    <3> QED BY <2>1, <2>2, <3>1 DEF Rest
  <2>3. CASE ~HasBody(id, r)
    <3>1. body = <<>> /\ Len(<<>>) = 0 /\ <<>> \in Seq(Units)
      BY <2>3
    <3> HIDE DEF body
    <3> QED BY <2>1, <2>3, <3>1 DEF Rest
  <2> QED BY <2>2, <2>3
<1>3. RespUnits(id, r) = all
  BY RespSplit
<1> HIDE DEF pre, body
<1>4. /\ all \in Seq(Units) /\ Len(all) = Len(pre) + Len(body)
      /\ \A i \in 1 .. Len(pre) : all[i] = pre[i]
      /\ \A i \in 1 .. Len(body) : all[Len(pre) + i] = body[i]
  <2>1. pre \in Seq(Units) /\ body \in Seq(Units)
    BY <1>1, <1>2
  <2> QED BY <2>1, CatFacts
<1> HIDE DEF all
<1>5. /\ \A i \in 1 .. r.info + 2 : all[i] = pre[i]
      /\ \A i \in 1 .. Rest(id, r) : all[r.info + 2 + i] = body[i]
  BY <1>1, <1>2, <1>4
<1>6. /\ r.info + 1 \in 1 .. r.info + 2 /\ r.info + 2 \in 1 .. r.info + 2
      /\ \A n \in 1 .. r.info : n \in 1 .. r.info + 2
  BY <1>1
<1>7. HasBody(id, r) => /\ \A n \in 1 .. r.len : n \in 1 .. Rest(id, r)
                        /\ r.framing \in {"chunked", "badchunk"} => r.len + 1 \in 1 .. Rest(id, r)
  BY <1>2 DEF Rest
<1>8. HasBody(id, r) => \A n \in 1 .. r.len : all[r.info + 2 + n] = Unit("d", id, n)
  BY <1>2, <1>5, <1>7
<1>9. HasBody(id, r) /\ r.framing \in {"chunked", "badchunk"} => all[r.info + 2 + (r.len + 1)] = body[r.len + 1]
  BY <1>5, <1>7
<1>10. /\ \A n \in 1 .. r.info : all[n] = Unit("1xx", id, n)
       /\ all[r.info + 1] = Unit("h", id, 1)
       /\ all[r.info + 2] = [k |-> "hend", id |-> id, n |-> 2, r |-> r]
  BY <1>1, <1>5, <1>6
<1> QED BY <1>1, <1>2, <1>3, <1>4, <1>8, <1>9, <1>10

\* A request that an upstream may answer was sent to it.
LEMMA AskedFacts ==
    ASSUME up \in [UpIds -> UpRecords], NEW c \in UpIds, NEW id \in Asked(c)
    PROVE  /\ id \in DOMAIN script /\ id > up[c].answered /\ up[c].answered \in Nat
           /\ \E i \in 1 .. Len(up[c].got) : up[c].got[i].id = id /\ up[c].got[i].k = "q" /\ up[c].got[i].n = 2
<1>1. up[c].got \in Seq(Units) /\ up[c].answered \in Nat
  BY DEF UpRecords
<1>2. DOMAIN up[c].got = 1 .. Len(up[c].got)
  BY <1>1, DomFacts
<1>3. PICK i \in 1 .. Len(up[c].got) :
         /\ up[c].got[i].id = id /\ up[c].got[i].k = "q" /\ up[c].got[i].n = 2
         /\ up[c].got[i].id > up[c].answered
  BY <1>2 DEF Asked
<1>4. up[c].got[i] \in Units
  BY <1>1
<1> QED BY <1>1, <1>3, <1>4, IdFacts

\* What an upstream sends in all: the response and what comes behind it.
LEMMA AnswerFacts ==
    ASSUME NEW id \in DOMAIN script, NEW r \in Responses
    PROVE  LET all == Answer(id, r)
               framed == RespUnits(id, r)
           IN  /\ all \in Seq(Units) /\ r.over \in Nat /\ Len(all) = Len(framed) + r.over
               /\ \A n \in 1 .. Len(framed) : all[n] = framed[n]
               /\ \A n \in 1 .. r.over : all[Len(framed) + n] = Past(id, n)
<1> DEFINE framed == RespUnits(id, r)
           past == [n \in 1 .. r.over |-> Past(id, n)]
<1>1. r.over \in Nat
  BY PeersAssumption
<1>2. \A n \in 1 .. r.over : Past(id, n) \in Units
  BY DEF Past, Unit, Units
<1>3. past \in Seq(Units) /\ Len(past) = r.over /\ \A n \in 1 .. r.over : past[n] = Past(id, n)
  BY <1>1, <1>2
<1>4. framed \in Seq(Units)
  BY RespFacts
<1>5. Answer(id, r) = framed \o past
  BY DEF Answer
<1> HIDE DEF framed, past
<1>6. /\ framed \o past \in Seq(Units) /\ Len(framed \o past) = Len(framed) + Len(past)
      /\ \A i \in 1 .. Len(framed) : (framed \o past)[i] = framed[i]
      /\ \A i \in 1 .. Len(past) : (framed \o past)[Len(framed) + i] = past[i]
  BY <1>3, <1>4, CatFacts
<1> QED BY <1>1, <1>3, <1>5, <1>6 DEF framed

\* An upstream answers.
LEMMA AnsweredUp ==
    ASSUME up \in [UpIds -> UpRecords], script \in Scripts, NEW c \in UpIds, UpAnswer(c)
    PROVE  \E id \in Asked(c), r \in Responses :
              /\ up' \in [UpIds -> UpRecords] /\ \A d \in UpIds : d # c => up'[d] = up[d]
              /\ up'[c].answered = id /\ up'[c].plan = Answer(id, r)
              /\ up'[c].mine = up[c].mine /\ up'[c].st = up[c].st /\ up'[c].addr = up[c].addr
              /\ up'[c].got = up[c].got /\ up'[c].in = up[c].in
<1>1. PICK id \in Asked(c), r \in Responses :
         up' = [up EXCEPT ![c].answered = id, ![c].plan = Answer(id, r)]
  BY Zenon DEF UpAnswer
<1>2. id \in DOMAIN script /\ id \in Nat
  BY AskedFacts, ScriptFacts
<1> DEFINE all == Answer(id, r)
           x == [[up[c] EXCEPT !.answered = id] EXCEPT !.plan = all]
<1>3. all \in Seq(Units)
  BY <1>2, AnswerFacts
<1>4. up' = [up EXCEPT ![c] = x]
  BY <1>1
<1> HIDE DEF all
<1>5. x \in UpRecords
  BY <1>2, <1>3 DEF UpRecords
<1>6. /\ x.answered = id /\ x.plan = all /\ x.mine = up[c].mine /\ x.st = up[c].st /\ x.addr = up[c].addr
      /\ x.got = up[c].got /\ x.in = up[c].in
  BY DEF UpRecords
<1> HIDE DEF x
<1>7. up' \in [UpIds -> UpRecords] /\ up'[c] = x /\ \A d \in UpIds : d # c => up'[d] = up[d]
  BY <1>4, <1>5
<1> QED BY <1>6, <1>7 DEF all

\* An upstream that begins its answer keeps SlotInv.
LEMMA SlotUpAnswer ==
    ASSUME SlotInv, NEW c \in UpIds, UpAnswer(c)
    PROVE  SlotInv'
<1>1. up \in [UpIds -> UpRecords] /\ script \in Scripts /\ client' \in ClientRecords
  BY DEF SlotInv, Typed, UpAnswer
<1>2. up[c].st = "open"
  BY DEF UpAnswer
<1>3. /\ up' \in [UpIds -> UpRecords] /\ \A d \in UpIds : d # c => up'[d] = up[d]
      /\ up'[c].mine = up[c].mine /\ up'[c].st = "open"
  BY <1>1, <1>2, AnsweredUp
<1> QED BY <1>1, <1>3, PeersKeep DEF UpAnswer

\* An upstream sends a unit of its answer.
LEMMA SendingUp ==
    ASSUME up \in [UpIds -> UpRecords], NEW c \in UpIds, UpSend(c)
    PROVE  /\ up' \in [UpIds -> UpRecords] /\ \A d \in UpIds : d # c => up'[d] = up[d]
           /\ up[c].plan # <<>> /\ up'[c].plan = Tail(up[c].plan)
           /\ up'[c].in = Append(up[c].in, Head(up[c].plan))
           /\ up'[c].mine = up[c].mine /\ up'[c].st = up[c].st /\ up'[c].addr = up[c].addr
           /\ up'[c].got = up[c].got /\ up'[c].answered = up[c].answered
<1>1. up[c] \in UpRecords /\ up[c].plan \in Seq(Units) /\ up[c].in \in Seq(Units)
  BY DEF UpRecords
<1> DEFINE in == Append(up[c].in, Head(up[c].plan))
           plan == Tail(up[c].plan)
           x == [[up[c] EXCEPT !.in = in] EXCEPT !.plan = plan]
<1>2. up[c].plan # <<>>
  BY DEF UpSend
<1>3. plan \in Seq(Units) /\ Head(up[c].plan) \in Units
  BY <1>1, <1>2, TailFacts
<1>4. in \in Seq(Units)
  BY <1>1, <1>3, AddFacts
<1>5. up' = [up EXCEPT ![c] = x]
  BY DEF UpSend
<1> HIDE DEF in, plan
<1>6. x \in UpRecords
  BY <1>1, <1>3, <1>4 DEF UpRecords
<1>7. /\ x.in = in /\ x.plan = plan /\ x.mine = up[c].mine /\ x.st = up[c].st /\ x.addr = up[c].addr
      /\ x.got = up[c].got /\ x.answered = up[c].answered
  BY <1>1 DEF UpRecords
<1> HIDE DEF x
<1>8. up' \in [UpIds -> UpRecords] /\ up'[c] = x /\ \A d \in UpIds : d # c => up'[d] = up[d]
  BY <1>5, <1>6
<1> QED BY <1>2, <1>7, <1>8 DEF in, plan

\* An upstream that sends keeps SlotInv.
LEMMA SlotUpSend ==
    ASSUME SlotInv, NEW c \in UpIds, UpSend(c)
    PROVE  SlotInv'
<1>1. up \in [UpIds -> UpRecords] /\ client' \in ClientRecords
  BY DEF SlotInv, Typed, UpSend
<1>2. up[c].st = "open"
  BY DEF UpSend
<1>3. /\ up' \in [UpIds -> UpRecords] /\ \A d \in UpIds : d # c => up'[d] = up[d]
      /\ up'[c].mine = up[c].mine /\ up'[c].st = "open"
  BY <1>1, <1>2, SendingUp
<1> QED BY <1>1, <1>3, PeersKeep DEF UpSend

\* An upstream leaves.
LEMMA LeavingUp ==
    ASSUME up \in [UpIds -> UpRecords], NEW c \in UpIds, UpLeave(c)
    PROVE  /\ up' \in [UpIds -> UpRecords] /\ \A d \in UpIds : d # c => up'[d] = up[d]
           /\ up'[c].plan = <<>> /\ up'[c].st \in {"fin", "rst"}
           /\ \/ up'[c].in = up[c].in
              \/ up'[c].in = <<>>
           /\ up'[c].mine = up[c].mine /\ up'[c].addr = up[c].addr
           /\ up'[c].got = up[c].got /\ up'[c].answered = up[c].answered
<1>1. up[c] \in UpRecords /\ <<>> \in Seq(Units)
  OBVIOUS
<1> DEFINE x == [[up[c] EXCEPT !.st = "fin"] EXCEPT !.plan = <<>>]
           y == [[[up[c] EXCEPT !.st = "rst"] EXCEPT !.plan = <<>>] EXCEPT !.in = <<>>]
<1>2. up' = [up EXCEPT ![c] = x] \/ up' = [up EXCEPT ![c] = y]
  BY DEF UpLeave
<1>3. x \in UpRecords /\ y \in UpRecords
  BY <1>1 DEF UpRecords
<1>4. /\ x.st = "fin" /\ x.plan = <<>> /\ x.in = up[c].in /\ x.mine = up[c].mine /\ x.addr = up[c].addr
      /\ x.got = up[c].got /\ x.answered = up[c].answered
  BY <1>1 DEF UpRecords
<1>5. /\ y.st = "rst" /\ y.plan = <<>> /\ y.in = <<>> /\ y.mine = up[c].mine /\ y.addr = up[c].addr
      /\ y.got = up[c].got /\ y.answered = up[c].answered
  BY <1>1 DEF UpRecords
<1> HIDE DEF x, y
<1>6. up' \in [UpIds -> UpRecords] /\ up'[c] \in {x, y} /\ \A d \in UpIds : d # c => up'[d] = up[d]
  BY <1>2, <1>3
<1> QED BY <1>4, <1>5, <1>6

\* An upstream that leaves keeps SlotInv.
LEMMA SlotUpLeave ==
    ASSUME SlotInv, NEW c \in UpIds, UpLeave(c)
    PROVE  SlotInv'
<1>1. up \in [UpIds -> UpRecords] /\ client' \in ClientRecords
  BY DEF SlotInv, Typed, UpLeave
<1>2. /\ up' \in [UpIds -> UpRecords] /\ \A d \in UpIds : d # c => up'[d] = up[d]
      /\ up'[c].mine = up[c].mine /\ up'[c].st # "unused"
  BY <1>1, LeavingUp
<1> QED BY <1>1, <1>2, PeersKeep DEF UpLeave

\* The peers keep SlotInv.
LEMMA SlotPeers ==
    ASSUME SlotInv, Peers
    PROVE  SlotInv'
  BY SlotClientSend, SlotClientLeave, SlotUpAnswer, SlotUpSend, SlotUpLeave DEF Peers

-----------------------------------------------------------------------------
(* The slot while it has no upstream. *)

\* The slot goes on without an upstream, with the connection h, and waits for io.
Idles(h, io) ==
    /\ hc' = h /\ px' = PxReset /\ up' = up /\ pool' = pool
    /\ \/ Shut(up)
       \/ At("onread") /\ io = "read"
       \/ At("onwrite") /\ io = "write"
       \/ At("reuse") /\ io = "done"
       \/ ArmEvents(io) /\ io \in {"read", "write"}

\* Without an upstream, closing the slot closes no upstream socket.
LEMMA IdleUp ==
    ASSUME SlotInv, px.fd = NoUp
    PROVE  /\ px = PxReset /\ CloseUp(up, px.fd) = up /\ pc \notin {"pump"}
  BY CloseNone DEF SlotInv, Control

\* A result of the pump without an upstream.
LEMMA ReturnIdles ==
    ASSUME SlotInv, px.fd = NoUp, NEW h, hc' = h, pool' = pool, NEW io \in {"read", "write"},
           NEW phase, Return(io, up, px, phase)
    PROVE  Idles(h, io)
<1>1. px = PxReset /\ CloseUp(up, px.fd) = up
  BY IdleUp
<1>2. \/ Shut(CloseUp(up, px.fd))
      \/ /\ up' = up /\ px' = px
         /\ \/ At("onwrite") /\ io = "write"
            \/ At("onread") /\ io = "read"
            \/ ArmEvents(io)
  BY ReturnFacts
<1> QED BY <1>1, <1>2 DEF Idles, Shut

\* apply_io without an upstream.
LEMMA ApplyIdles ==
    ASSUME SlotInv, px.fd = NoUp, NEW h, hc' = h, pool' = pool, NEW io \in {"read", "write", "done", "close"},
           ApplyIo(io, up, px)
    PROVE  Idles(h, io)
<1>1. px = PxReset /\ CloseUp(up, px.fd) = up
  BY IdleUp
<1>2. \/ Shut(CloseUp(up, px.fd))
      \/ /\ up' = up /\ px' = px
         /\ (io = "done" /\ At("reuse")) \/ (io \in {"read", "write", "idle"} /\ ArmEvents(io))
  BY ApplyFacts
<1> QED BY <1>1, <1>2 DEF Idles, Shut

\* The answer of a static file.
Static(h) ==
    [h EXCEPT !.phase = "WRITE", !.keep = ShouldKeepalive(script[h.buf[1].id]),
              !.left = <<Unit("s", h.buf[1].id, 1), Unit("s", h.buf[1].id, 2)>>]

\* The connection that proxy_begin sets up for the request at the front of h.buf.
Have(h) ==
    LET q == script[h.buf[1].id]
    IN  IF Len(h.buf) - 1 < q.body THEN Len(h.buf) - 1 ELSE q.body
Fresh(h, c, old) ==
    LET q == [PxReset EXCEPT !.phase = "SEND_REQ", !.send100 = script[h.buf[1].id].expect,
                    !.hdr = Take(UpUnits(h.buf[1].id), 2), !.body = SubSeq(h.buf, 2, Have(h) + 1),
                    !.bodyLeft = script[h.buf[1].id].body - Have(h), !.fd = c]
    IN  IF old THEN [q EXCEPT !.reused = TRUE] ELSE q
Begins(h, c) ==
    /\ hc' = [h EXCEPT !.keep = FALSE] /\ At("pump")
    /\ \/ \E i \in DOMAIN pool :
             /\ pool[i] = c /\ pool' = PoolWithout(i) /\ up' = up
             /\ px' = Fresh(h, c, TRUE)
       \/ /\ c \in Unused /\ pool' = pool /\ up' = NewUp(up, c, script[h.buf[1].id].target)
          /\ px' = Fresh(h, c, FALSE)

\* How much of the body arrived with the header.
LEMMA HaveFacts ==
    ASSUME script \in Scripts, NEW h \in HcRecords, h.buf # <<>>
    PROVE  /\ h.buf[1].id \in DOMAIN script /\ h.buf[1] \in Units /\ h.buf \in Seq(Units)
           /\ Have(h) \in Nat /\ Have(h) <= Len(h.buf) - 1 /\ Have(h) <= script[h.buf[1].id].body
           /\ Len(h.buf) \in Nat /\ script[h.buf[1].id].body \in Nat
           /\ SubSeq(h.buf, 2, Have(h) + 1) \in Seq(Units) /\ Len(SubSeq(h.buf, 2, Have(h) + 1)) = Have(h)
           /\ \A i \in 1 .. Have(h) : SubSeq(h.buf, 2, Have(h) + 1)[i] = h.buf[i + 1]
<1>1. h.buf \in Seq(Units)
  BY DEF HcRecords
<1>2. h.buf[1].id \in DOMAIN script /\ h.buf[1] \in Units
  BY <1>1, CurFacts
<1>3. script[h.buf[1].id].body \in Nat
  BY <1>2, ScriptFacts
<1>4. Len(h.buf) \in Nat \ {0}
  BY <1>1, TailFacts
<1>5. Have(h) \in Nat /\ Have(h) <= Len(h.buf) - 1 /\ Have(h) <= script[h.buf[1].id].body
  BY <1>3, <1>4 DEF Have
<1> DEFINE n == Have(h)
<1>6. 1 \in Nat /\ n + 1 \in Nat /\ 1 <= n + 1 /\ n + 1 <= Len(h.buf)
  BY <1>4, <1>5
<1>7. n \in Nat
  BY <1>5
<1> HIDE DEF n
<1>8. /\ SubSeq(h.buf, 1 + 1, n + 1) \in Seq(Units) /\ Len(SubSeq(h.buf, 1 + 1, n + 1)) = (n + 1) - 1
      /\ \A i \in 1 .. (n + 1) - 1 : SubSeq(h.buf, 1 + 1, n + 1)[i] = h.buf[1 + i]
  BY <1>1, <1>6, SubFacts
<1>9. 1 + 1 = 2 /\ (n + 1) - 1 = n /\ \A i \in 1 .. n : 1 + i = i + 1
  BY <1>7
<1>10. /\ SubSeq(h.buf, 2, n + 1) \in Seq(Units) /\ Len(SubSeq(h.buf, 2, n + 1)) = n
       /\ \A i \in 1 .. n : SubSeq(h.buf, 2, n + 1)[i] = h.buf[i + 1]
  BY <1>8, <1>9
<1> QED BY <1>1, <1>2, <1>3, <1>4, <1>5, <1>10 DEF n

\* proxy_conn as proxy_begin sets it up.
LEMMA FreshFacts ==
    ASSUME script \in Scripts, NEW h \in HcRecords, h.buf # <<>>, NEW c \in UpIds, NEW old \in BOOLEAN
    PROVE  LET q == Fresh(h, c, old)
               id == h.buf[1].id
           IN  /\ q \in PxRecords /\ q.fd = c /\ q.phase = "SEND_REQ" /\ q.reused = old
               /\ q.hdr = Take(UpUnits(id), 2) /\ q.body = SubSeq(h.buf, 2, Have(h) + 1)
               /\ q.bodyLeft = script[id].body - Have(h) /\ q.send100 = script[id].expect
               /\ q.buf = <<>> /\ ~q.clientKeep /\ ~q.respSent /\ ~q.bodyDone /\ ~q.overread
               /\ ~q.upClose /\ q.armed = "none" /\ ~q.inEpoll
<1> DEFINE id == h.buf[1].id
           hdr == Take(UpUnits(id), 2)
           body == SubSeq(h.buf, 2, Have(h) + 1)
           left == script[id].body - Have(h)
           expect == script[id].expect
           q == Fresh(h, c, old)
<1>1. /\ id \in DOMAIN script /\ body \in Seq(Units) /\ left \in Nat
  BY HaveFacts
<1>2. expect \in BOOLEAN
  BY <1>1, ScriptFacts
<1>3. hdr \in Seq(Units)
  BY <1>1, HeadUnits
<1>4. PxReset \in PxRecords
  BY ResetFacts
<1> DEFINE e == [PxReset EXCEPT !.phase = "SEND_REQ", !.send100 = expect, !.hdr = hdr, !.body = body,
                               !.bodyLeft = left, !.fd = c]
<1>5. q = IF old THEN [e EXCEPT !.reused = TRUE] ELSE e
  BY DEF Fresh
<1> HIDE DEF hdr, body, left, expect, q
<1>9. e \in PxRecords
  BY <1>1, <1>2, <1>3, <1>4 DEF PxRecords, Phases
<1>10. /\ e.fd = c /\ e.phase = "SEND_REQ" /\ e.hdr = hdr /\ e.body = body
       /\ e.bodyLeft = left /\ e.send100 = expect
  BY <1>4 DEF PxRecords
<1>11. /\ e.buf = <<>> /\ ~e.clientKeep /\ ~e.respSent /\ ~e.bodyDone /\ ~e.overread /\ ~e.upClose
       /\ e.armed = "none" /\ ~e.inEpoll /\ ~e.reused
  BY DEF PxReset
<1> HIDE DEF e
<1>6. q \in PxRecords
  BY <1>5, <1>9 DEF PxRecords
<1>7. /\ q.fd = c /\ q.phase = "SEND_REQ" /\ q.hdr = hdr /\ q.body = body
      /\ q.bodyLeft = left /\ q.send100 = expect /\ q.reused = old
  <2>1. CASE old
    BY <1>5, <1>9, <1>10, <2>1 DEF PxRecords
  <2>2. CASE ~old
    BY <1>5, <1>9, <1>10, <1>11, <2>2 DEF PxRecords
  <2> QED BY <2>1, <2>2
<1>8. /\ q.buf = <<>> /\ ~q.clientKeep /\ ~q.respSent /\ ~q.bodyDone /\ ~q.overread /\ ~q.upClose
      /\ q.armed = "none" /\ ~q.inEpoll
  <2>1. CASE old
    BY <1>5, <1>9, <1>11, <2>1 DEF PxRecords
  <2>2. CASE ~old
    BY <1>5, <1>11, <2>2
  <2> QED BY <2>1, <2>2
<1> QED BY <1>6, <1>7, <1>8 DEF hdr, body, left, expect, q

\* A bounded set of numbers has a greatest element.
LEMMA GreatestOf ==
    ASSUME NEW m \in Nat, NEW T \in SUBSET (1 .. m), T # {}
    PROVE  \E x \in T : \A y \in T : y <= x
<1> DEFINE D == {m - x : x \in T}
<1>1. D \subseteq Nat /\ D # {}
  <2>1. \A x \in T : m - x \in Nat
    OBVIOUS
  <2> QED BY <2>1
<1>2. PICK d \in D : \A e \in D : d <= e
  BY <1>1, LeastNatural
<1>3. PICK x \in T : d = m - x
  BY <1>2
<1>4. \A y \in T : m - x <= m - y
  BY <1>2, <1>3
<1>5. \A y \in T : y <= x
  BY <1>4
<1> QED BY <1>5

\* proxy_pool_take: the entry i leaves the stack.
LEMMA TakenPool ==
    ASSUME SlotInv, NEW i \in DOMAIN pool, pool' = PoolWithout(i)
    PROVE  /\ pool' \in Seq(UpIds) /\ Len(pool') <= Len(pool) /\ Len(pool') \in Nat
           /\ InPool' = InPool \ {pool[i]}
           /\ \A j, k \in DOMAIN pool' : pool'[j] = pool'[k] => j = k
<1> DEFINE m == Len(pool)
           s == [pool EXCEPT ![i] = pool[m]]
<1>1. pool \in Seq(UpIds) /\ DOMAIN pool = 1 .. m /\ m \in Nat
  BY InPoolFacts DEF SlotInv
<1>2. i \in 1 .. m /\ m \in 1 .. m /\ m - 1 \in Nat /\ pool[m] \in UpIds
  BY <1>1
<1>3. \A j, k \in 1 .. m : pool[j] = pool[k] => j = k
  BY <1>1 DEF SlotInv, Owned
<1>4. s \in Seq(UpIds) /\ Len(s) = m
  BY <1>1, <1>2
<1>5. \A j \in 1 .. m : s[j] = IF j = i THEN pool[m] ELSE pool[j]
  BY <1>1
<1>6. pool' = Take(s, m - 1)
  BY DEF PoolWithout
<1> HIDE DEF s
<1>7. m - 1 \in 0 .. Len(s)
  BY <1>2, <1>4
<1>8. pool' \in Seq(UpIds) /\ Len(pool') = m - 1 /\ \A j \in 1 .. m - 1 : pool'[j] = s[j]
  BY <1>4, <1>6, <1>7, TakeFacts
<1>9. DOMAIN pool' = 1 .. m - 1
  BY <1>8, DomFacts
<1> HIDE DEF m
<1>10. \A j \in 1 .. m - 1 : j \in 1 .. m /\ j # m /\ pool'[j] = IF j = i THEN pool[m] ELSE pool[j]
  BY <1>1, <1>5, <1>8
<1>11. ASSUME NEW j \in 1 .. m - 1, NEW k \in 1 .. m - 1, pool'[j] = pool'[k] PROVE j = k
  BY <1>2, <1>3, <1>10, <1>11
<1>12. InPool' = InPool \ {pool[i]}
  <2>1. ASSUME NEW j \in 1 .. m - 1 PROVE pool'[j] \in InPool /\ pool'[j] # pool[i]
    BY <1>1, <1>2, <1>3, <1>10 DEF InPool
  <2>2. ASSUME NEW j \in 1 .. m, pool[j] # pool[i] PROVE \E k \in 1 .. m - 1 : pool'[k] = pool[j]
    <3>1. j # i
      BY <2>2
    <3>2. CASE j = m
      <4>1. i \in 1 .. m - 1
        BY <1>1, <1>2, <3>1, <3>2
      <4> QED BY <1>10, <3>2, <4>1
    <3>3. CASE j # m
      <4>1. j \in 1 .. m - 1
        BY <1>1, <3>3
      <4> QED BY <1>10, <3>1, <4>1
    <3> QED BY <3>2, <3>3
  <2>3. InPool' = {pool'[j] : j \in 1 .. m - 1} /\ InPool = {pool[j] : j \in 1 .. m}
    BY <1>1, <1>9 DEF InPool
  <2>4. InPool' \subseteq InPool \ {pool[i]}
    BY <2>1, <2>3
  <2>5. InPool \ {pool[i]} \subseteq InPool'
    BY <2>2, <2>3
  <2> QED BY <2>4, <2>5
<1>13. Len(pool') <= m /\ Len(pool') \in Nat
  BY <1>1, <1>2, <1>8
<1> QED BY <1>8, <1>9, <1>11, <1>12, <1>13 DEF m

\* proxy_begin takes a socket of the pool, opens one, or answers 502.
LEMMA BeginEffect ==
    ASSUME SlotInv, px.fd = NoUp, NEW h \in HcRecords, h.buf # <<>>, ProxyBegin(h)
    PROVE  \/ Idles(ArmFixed(Excused(h)), "write")
           \/ \E c \in UpIds : Begins(h, c)
<1> DEFINE id == h.buf[1].id
           q == script[id]
           have == IF Len(h.buf) - 1 < q.body THEN Len(h.buf) - 1 ELSE q.body
           fresh == [PxReset EXCEPT !.phase = "SEND_REQ", !.send100 = q.expect,
                                    !.hdr = Take(UpUnits(id), 2),
                                    !.body = SubSeq(h.buf, 2, have + 1),
                                    !.bodyLeft = q.body - have]
<1>1. have = Have(h)
  BY DEF Have
<1>2. \A c : [fresh EXCEPT !.fd = c, !.reused = TRUE] = Fresh(h, c, TRUE)
  BY <1>1 DEF Fresh
<1>3. \A c : [fresh EXCEPT !.fd = c] = Fresh(h, c, FALSE)
  BY <1>1 DEF Fresh
<1>4. ASSUME hc' = ArmFixed(Excused(h)), Return("write", up, PxReset, "WRITE"), pool' = pool
      PROVE  Idles(ArmFixed(Excused(h)), "write")
  BY <1>4, IdleUp, ReturnIdles
<1>5. pool \in Seq(UpIds) /\ DOMAIN pool = 1 .. Len(pool) /\ Len(pool) \in Nat
  BY InPoolFacts DEF SlotInv
<1> DEFINE hit == PoolHit(q.target)
           i == CHOOSE j \in hit : \A k \in hit : k <= j
<1>6. CASE hit # {}
  <2>1. hit \subseteq 1 .. Len(pool)
    BY <1>5 DEF PoolHit
  <2>2. /\ pool' = PoolWithout(i) /\ hc' = [h EXCEPT !.keep = FALSE]
        /\ Stay("pump", up, [fresh EXCEPT !.fd = pool[i], !.reused = TRUE])
    BY <1>6, Zenon DEF ProxyBegin
  <2> HIDE DEF fresh, hit
  <2>3. \E j \in hit : \A k \in hit : k <= j
    BY <1>5, <1>6, <2>1, GreatestOf
  <2>4. i \in hit
    BY <2>3
  <2> HIDE DEF i
  <2>5. i \in DOMAIN pool /\ pool[i] \in UpIds
    BY <1>5, <2>1, <2>4
  <2>6. px' = Fresh(h, pool[i], TRUE) /\ up' = up /\ At("pump")
    BY <1>2, <2>2, Zenon DEF Stay, At
  <2> QED BY <2>2, <2>5, <2>6 DEF Begins
<1>7. CASE ~(hit # {})
  <2>1. /\ pool' = pool
        /\ \/ hc' = ArmFixed(Excused(h)) /\ Return("write", up, PxReset, "WRITE")
           \/ \E c \in Unused :
                /\ hc' = [h EXCEPT !.keep = FALSE]
                /\ Stay("pump", NewUp(up, c, q.target), [fresh EXCEPT !.fd = c])
    BY <1>7, Zenon DEF ProxyBegin
  <2> HIDE DEF fresh, hit, i
  <2>2. ASSUME NEW c \in Unused, hc' = [h EXCEPT !.keep = FALSE],
               Stay("pump", NewUp(up, c, q.target), [fresh EXCEPT !.fd = c])
        PROVE  Begins(h, c) /\ c \in UpIds
    <3>1. px' = Fresh(h, c, FALSE) /\ up' = NewUp(up, c, q.target) /\ At("pump")
      BY <1>3, <2>2 DEF Stay, At
    <3> QED BY <2>1, <2>2, <3>1 DEF Begins, Unused
  <2> QED BY <1>4, <2>1, <2>2
<1> HIDE DEF fresh, i
<1> QED BY <1>6, <1>7

\* dispatch_parsed, by the request's route.
LEMMA DispatchEffect ==
    ASSUME SlotInv, px.fd = NoUp, NEW h \in HcRecords, h.buf # <<>>, Dispatch(h)
    PROVE  LET target == script[h.buf[1].id].target
           IN  /\ out' = <<>>
               /\ \/ target = "long" /\ Idles(h, "read")
                  \/ target = "static" /\ Idles(Static(h), "write")
                  \/ target = "deny" /\ Idles(ArmFixed(h), "write")
                  \/ target \in {"a", "b"} /\ Idles(ArmFixed(Excused(h)), "write")
                  \/ target \in {"a", "b"} /\ \E c \in UpIds : Begins(h, c)
<1> DEFINE target == script[h.buf[1].id].target
<1>1. /\ out' = <<>>
      /\ \/ target = "long" /\ hc' = h /\ pool' = pool /\ Return("read", up, px, "READ")
         \/ target = "static" /\ hc' = Static(h) /\ pool' = pool /\ Return("write", up, px, "WRITE")
         \/ target = "deny" /\ hc' = ArmFixed(h) /\ pool' = pool /\ Return("write", up, px, "WRITE")
         \/ target \in {"a", "b"} /\ ProxyBegin(h)
  BY Zenon DEF Dispatch, Static
<1> HIDE DEF target
<1>2. ASSUME hc' = h, pool' = pool, Return("read", up, px, "READ") PROVE Idles(h, "read")
  BY <1>2, ReturnIdles
<1>3. ASSUME hc' = Static(h), pool' = pool, Return("write", up, px, "WRITE") PROVE Idles(Static(h), "write")
  BY <1>3, ReturnIdles
<1>4. ASSUME hc' = ArmFixed(h), pool' = pool, Return("write", up, px, "WRITE") PROVE Idles(ArmFixed(h), "write")
  BY <1>4, ReturnIdles
<1>5. ASSUME ProxyBegin(h)
      PROVE  Idles(ArmFixed(Excused(h)), "write") \/ \E c \in UpIds : Begins(h, c)
  BY <1>5, BeginEffect
<1>6. \/ target = "long" /\ Idles(h, "read")
      \/ target = "static" /\ Idles(Static(h), "write")
      \/ target = "deny" /\ Idles(ArmFixed(h), "write")
      \/ target \in {"a", "b"} /\ Idles(ArmFixed(Excused(h)), "write")
      \/ target \in {"a", "b"} /\ \E c \in UpIds : Begins(h, c)
  BY <1>1, <1>2, <1>3, <1>4, <1>5
<1> QED BY <1>1, <1>6 DEF target

\* What is needed of h for the slot to go on with it.
Settled(h) ==
    /\ h \in HcRecords /\ Len(h.buf) <= HeaderCap
    /\ h.phase = "WRITE" => h.buf # <<>>
    /\ h.keep => /\ h.phase = "WRITE" /\ ShouldKeepalive(script[h.buf[1].id])
                 /\ script[h.buf[1].id].target # "long"
    /\ h.phase = "READ" /\ h.buf # <<>> => script[h.buf[1].id].target = "long"

\* A step without an upstream keeps SlotInv.
LEMMA IdlesKeeps ==
    ASSUME SlotInv, Frame, px.fd = NoUp, NEW h, Settled(h), NEW io, Idles(h, io),
           io = "read" => h.phase = "READ", io = "write" => h.phase = "WRITE",
           io = "done" => h.phase = "WRITE"
    PROVE  SlotInv'
<1>1. hc' = h /\ px' = PxReset /\ up' = up /\ pool' = pool
  BY DEF Idles
<1>2. /\ armed' \in Ios /\ budget' \in 0 .. Budget /\ batch' \in {batch, <<>>}
      /\ \/ pc' = "closed" \/ pc' = "wait" \/ (pc' = "batch" /\ batch' # <<>>)
         \/ pc' = "onread" /\ h.phase = "READ"
         \/ pc' \in {"onwrite", "reuse"} /\ h.phase = "WRITE"
  <2>1. armed \in Ios /\ Budget \in 0 .. Budget
    BY SizesAssumption DEF SlotInv, TypeOK
  <2>2. CASE Shut(up)
    BY <2>1, <2>2, ShutFacts
  <2>3. CASE At("onread") /\ io = "read"
    BY <2>1, <2>3 DEF At
  <2>4. CASE At("onwrite") /\ io = "write"
    BY <2>1, <2>4 DEF At
  <2>5. CASE At("reuse") /\ io = "done"
    BY <2>1, <2>5 DEF At
  <2>6. CASE ArmEvents(io) /\ io \in {"read", "write"}
    BY <2>1, <2>6 DEF ArmEvents, Ios
  <2> QED BY <2>2, <2>3, <2>4, <2>5, <2>6 DEF Idles
<1>3. /\ Units' = Units /\ PxRecords' = PxRecords /\ HcRecords' = HcRecords
      /\ UpRecords' = UpRecords /\ ClientRecords' = ClientRecords
  BY SameScript DEF Frame
<1>4. /\ PxReset \in PxRecords /\ PxReset.fd = NoUp /\ PxReset.phase = "none" /\ PxReset.armed = "none"
      /\ PxReset.bodyLeft = 0 /\ PxReset.respLeft = 0 /\ PxReset.buf = <<>> /\ ~PxReset.clientKeep
  BY ResetFacts
<1>5. px = PxReset
  BY IdleUp
<1>6. Typed'
  <2>1. batch' \in Seq(Events)
    <3>1. batch \in Seq(Events) /\ <<>> \in Seq(Events)
      BY DEF SlotInv, Typed
    <3> QED BY <1>2, <3>1
  <2> QED BY <1>1, <1>3, <1>4, <2>1 DEF SlotInv, Typed, Frame, Settled
<1>7. TypeOK'
  <2>1. client'.st \in {"open", "fin", "rst"} /\ caller' \in {"read", "reuse", "event"}
    BY DEF Frame, ClientRecords
  <2>2. px' = px /\ pool' = pool
    BY <1>1, <1>5
  <2>3. Len(batch') <= 2
    BY <1>2 DEF SlotInv, TypeOK
  <2>4. hc'.phase \in {"READ", "WRITE"} /\ Len(hc'.buf) <= HeaderCap
    BY <1>1 DEF Settled, HcRecords
  <2>5. pc' \in {"wait", "batch", "pump", "onread", "onwrite", "reuse", "closed"}
    BY <1>2
  <2> QED BY <1>2, <2>1, <2>2, <2>3, <2>4, <2>5 DEF SlotInv, TypeOK
<1>8. Control'
  <2>1. script' = script /\ Cur' = h.buf[1].id /\ Req' = script[h.buf[1].id]
    BY <1>1 DEF Frame, Cur, Req
  <2>2. px'.fd = NoUp /\ px' = PxReset /\ ~px'.clientKeep /\ pc' # "pump"
    BY <1>1, <1>2, <1>4
  <2>3. /\ pc' = "onread" => h.phase = "READ" /\ ~h.keep
        /\ pc' \in {"onwrite", "reuse"} => h.phase = "WRITE"
        /\ pc' = "batch" => batch' # <<>>
    BY <1>2 DEF Settled
  <2> QED BY <1>1, <2>1, <2>2, <2>3 DEF Control, Settled
<1>9. Owned'
  <2>1. InPool' = InPool
    BY <1>1 DEF InPool
  <2> QED BY <1>1, <1>5, <2>1 DEF SlotInv, Owned
<1> QED BY <1>6, <1>7, <1>8, <1>9 DEF SlotInv

\* The sockets when an exchange begins on the socket c.
LEMMA BegunUp ==
    ASSUME SlotInv, px.fd = NoUp, NEW h \in HcRecords, h.buf # <<>>, NEW c \in UpIds, Begins(h, c)
    PROVE  /\ up' \in [UpIds -> UpRecords] /\ \A d \in UpIds : d # c => up'[d] = up[d]
           /\ up'[c].mine /\ up'[c].st # "unused" /\ up'[c].got = up[c].got /\ up'[c].in = up[c].in
           /\ up'[c].plan = up[c].plan /\ up'[c].answered = up[c].answered
           /\ pool' \in Seq(UpIds) /\ Len(pool') <= Len(pool) /\ Len(pool') \in Nat
           /\ InPool' = InPool \ {c} /\ \A i, j \in DOMAIN pool' : pool'[i] = pool'[j] => i = j
           /\ (c \in InPool /\ up' = up /\ px' = Fresh(h, c, TRUE))
              \/ (up[c].st = "unused" /\ up'[c].st = "open" /\ c \notin InPool /\ px' = Fresh(h, c, FALSE))
<1>1. up \in [UpIds -> UpRecords] /\ script \in Scripts
  BY DEF SlotInv, Typed
<1>2. pool \in Seq(UpIds) /\ DOMAIN pool = 1 .. Len(pool) /\ Len(pool) \in Nat
  BY InPoolFacts DEF SlotInv
<1>3. ASSUME NEW i \in DOMAIN pool, pool[i] = c, pool' = PoolWithout(i), up' = up
      PROVE  /\ up[c].mine /\ up[c].st # "unused" /\ c \in InPool
             /\ pool' \in Seq(UpIds) /\ Len(pool') <= Len(pool) /\ Len(pool') \in Nat
             /\ InPool' = InPool \ {c} /\ \A j, k \in DOMAIN pool' : pool'[j] = pool'[k] => j = k
  <2>1. c \in InPool
    BY <1>3 DEF InPool
  <2>2. up[c].mine /\ up[c].st # "unused"
    BY <2>1 DEF SlotInv, Owned
  <2> QED BY <1>3, <2>1, <2>2, TakenPool
<1>4. ASSUME c \in Unused, pool' = pool, up' = NewUp(up, c, script[h.buf[1].id].target)
      PROVE  /\ up' \in [UpIds -> UpRecords] /\ \A d \in UpIds : d # c => up'[d] = up[d]
             /\ up'[c].mine /\ up'[c].st = "open" /\ up'[c].got = up[c].got /\ up'[c].in = up[c].in
             /\ up'[c].plan = up[c].plan /\ up'[c].answered = up[c].answered
             /\ up[c].st = "unused" /\ c \notin InPool /\ InPool' = InPool \ {c}
             /\ pool' \in Seq(UpIds) /\ Len(pool') <= Len(pool) /\ Len(pool') \in Nat
             /\ \A i, j \in DOMAIN pool' : pool'[i] = pool'[j] => i = j
  <2>1. up[c].st = "unused" /\ c \notin InPool
    BY <1>4 DEF Unused, SlotInv, Owned
  <2>2. InPool' = InPool
    BY <1>4 DEF InPool
  <2> DEFINE addr == script[h.buf[1].id].target
  <2>3. addr \in Targets
    BY <1>1, HaveFacts, ScriptFacts
  <2>4. up' = NewUp(up, c, addr)
    BY <1>4
  <2> HIDE DEF addr
  <2>5. /\ up' \in [UpIds -> UpRecords] /\ \A d \in UpIds : d # c => up'[d] = up[d]
        /\ up'[c].mine /\ up'[c].in = up[c].in /\ up'[c].plan = up[c].plan /\ up'[c].got = up[c].got
        /\ up'[c].st = "open" /\ up'[c].answered = up[c].answered
    BY <1>1, <2>3, <2>4, OpenedUp
  <2>6. pool' \in Seq(UpIds) /\ Len(pool') <= Len(pool) /\ Len(pool') \in Nat
    BY <1>2, <1>4
  <2>7. \A i, j \in DOMAIN pool' : pool'[i] = pool'[j] => i = j
    BY <1>4 DEF SlotInv, Owned
  <2> QED BY <2>1, <2>2, <2>5, <2>6, <2>7, Zenon
<1>5. \/ \E i \in DOMAIN pool : pool[i] = c /\ pool' = PoolWithout(i) /\ up' = up /\ px' = Fresh(h, c, TRUE)
      \/ /\ c \in Unused /\ pool' = pool /\ up' = NewUp(up, c, script[h.buf[1].id].target)
         /\ px' = Fresh(h, c, FALSE)
  BY DEF Begins
<1>6. CASE \E i \in DOMAIN pool : pool[i] = c /\ pool' = PoolWithout(i) /\ up' = up /\ px' = Fresh(h, c, TRUE)
  BY <1>1, <1>3, <1>6
<1>7. CASE /\ c \in Unused /\ pool' = pool /\ up' = NewUp(up, c, script[h.buf[1].id].target)
           /\ px' = Fresh(h, c, FALSE)
  BY <1>4, <1>7, Zenon
<1> QED BY <1>5, <1>6, <1>7

\* proxy_begin keeps SlotInv.
LEMMA BeginsKeeps ==
    ASSUME SlotInv, Frame, px.fd = NoUp, NEW h \in HcRecords, h.buf # <<>>, Len(h.buf) <= HeaderCap, h.phase = "READ",
           script[h.buf[1].id].target \in {"a", "b"}, NEW c \in UpIds, Begins(h, c)
    PROVE  SlotInv'
<1>1. /\ Units' = Units /\ PxRecords' = PxRecords /\ HcRecords' = HcRecords
      /\ UpRecords' = UpRecords /\ ClientRecords' = ClientRecords /\ script' = script
  BY SameScript DEF Frame
<1>2. script \in Scripts /\ armed \in Ios /\ Budget \in 0 .. Budget
  BY SizesAssumption DEF SlotInv, Typed, TypeOK
<1>3. \E old \in BOOLEAN : px' = Fresh(h, c, old)
  BY DEF Begins
<1>4. /\ px' \in PxRecords /\ px'.fd = c /\ px'.phase = "SEND_REQ" /\ px'.buf = <<>> /\ ~px'.clientKeep
      /\ px'.armed = "none"
  <2>1. PICK old \in BOOLEAN : px' = Fresh(h, c, old)
    BY <1>3
  <2> QED BY <1>2, <2>1, FreshFacts
<1>5. /\ up' \in [UpIds -> UpRecords] /\ \A d \in UpIds : d # c => up'[d] = up[d]
      /\ up'[c].mine /\ up'[c].st # "unused"
      /\ pool' \in Seq(UpIds) /\ Len(pool') <= Len(pool) /\ Len(pool') \in Nat
      /\ InPool' = InPool \ {c} /\ \A i, j \in DOMAIN pool' : pool'[i] = pool'[j] => i = j
  BY BegunUp
<1>6. hc' \in HcRecords /\ hc'.buf = h.buf /\ hc'.phase = "READ" /\ ~hc'.keep
  BY DEF Begins, HcRecords
<1>7. pc' = "pump" /\ armed' = armed /\ batch' = batch /\ budget' = Budget
  BY DEF Begins, At
<1>8. c # NoUp
  BY SizesAssumption DEF UpIds, NoUp
<1>9. Typed'
  BY <1>1, <1>4, <1>5, <1>6, <1>7 DEF SlotInv, Typed, Frame
<1>10. TypeOK'
  <2>1. client'.st \in {"open", "fin", "rst"} /\ caller' \in {"read", "reuse", "event"}
    BY DEF Frame, ClientRecords
  <2>2. /\ px'.fd \in UpIds \cup {NoUp} /\ px'.phase \in Phases /\ px'.armed \in Ios
        /\ px'.bodyLeft \in Nat /\ px'.respLeft \in Nat
    BY <1>4 DEF PxRecords
  <2>3. Len(px'.buf) <= BufMax
    BY <1>4, SizesAssumption
  <2>4. Len(pool') <= PoolMax
    <3>1. Len(pool) <= PoolMax /\ Len(pool) \in Nat
      BY InPoolFacts DEF SlotInv, TypeOK
    <3> QED BY <1>5, <3>1, SizesAssumption
  <2>5. \A i \in DOMAIN pool' : pool'[i] \in UpIds
    BY <1>5
  <2> QED BY <1>2, <1>6, <1>7, <2>1, <2>2, <2>3, <2>4, <2>5 DEF SlotInv, TypeOK
<1>11. Control'
  <2>1. Req' = script[h.buf[1].id]
    BY <1>1, <1>6 DEF Req, Cur
  <2> QED BY <1>4, <1>6, <1>7, <1>8, <2>1 DEF Control
<1>12. Owned'
  <2>1. \A d \in UpIds : up'[d].mine <=> d = px'.fd \/ d \in InPool'
    <3>1. \A d \in UpIds : up[d].mine <=> d = px.fd \/ d \in InPool
      BY DEF SlotInv, Owned
    <3>2. \A d \in UpIds : d # px.fd
      BY SizesAssumption DEF UpIds, NoUp
    <3> QED BY <1>4, <1>5, <3>1, <3>2
  <2>2. px'.fd \notin InPool'
    BY <1>4, <1>5
  <2>3. \A d \in UpIds : up'[d].st = "unused" => up'[d] = up[d]
    BY <1>5
  <2> QED BY <1>5, <2>1, <2>2, <2>3 DEF SlotInv, Owned
<1> QED BY <1>9, <1>10, <1>11, <1>12 DEF SlotInv

\* The connection with a file to write.
LEMMA StaticFacts ==
    ASSUME script \in Scripts, NEW h \in HcRecords, h.buf # <<>>
    PROVE  LET g == Static(h)
           IN  /\ g \in HcRecords /\ g.buf = h.buf /\ g.phase = "WRITE" /\ g.excused = h.excused
               /\ g.keep = ShouldKeepalive(script[h.buf[1].id])
               /\ g.left = <<Unit("s", h.buf[1].id, 1), Unit("s", h.buf[1].id, 2)>>
<1> DEFINE left == <<Unit("s", h.buf[1].id, 1), Unit("s", h.buf[1].id, 2)>>
           keep == ShouldKeepalive(script[h.buf[1].id])
           g == [h EXCEPT !.phase = "WRITE", !.keep = keep, !.left = left]
<1>1. h.buf[1].id \in DOMAIN script
  BY CurFacts DEF HcRecords
<1>2. left \in Seq(Units)
  BY <1>1, PairFacts DEF Kinds
<1>3. keep \in BOOLEAN
  BY DEF ShouldKeepalive
<1>4. Static(h) = g
  BY DEF Static
<1> HIDE DEF left, keep
<1>5. g \in HcRecords
  BY <1>2, <1>3 DEF HcRecords
<1>6. g.buf = h.buf /\ g.phase = "WRITE" /\ g.excused = h.excused /\ g.keep = keep /\ g.left = left
  BY DEF HcRecords
<1> QED BY <1>4, <1>5, <1>6 DEF left, keep

\* Dispatching a request keeps SlotInv.
LEMMA SlotDispatch ==
    ASSUME SlotInv, script' = script, client' \in ClientRecords, caller' \in {"read", "reuse", "event"},
           px.fd = NoUp, NEW h \in HcRecords, h.buf # <<>>, Len(h.buf) <= HeaderCap,
           h.phase = "READ", ~h.keep, Dispatch(h)
    PROVE  SlotInv'
<1> DEFINE target == script[h.buf[1].id].target
<1>1. /\ out' = <<>>
      /\ \/ target = "long" /\ Idles(h, "read")
         \/ target = "static" /\ Idles(Static(h), "write")
         \/ target = "deny" /\ Idles(ArmFixed(h), "write")
         \/ target \in {"a", "b"} /\ Idles(ArmFixed(Excused(h)), "write")
         \/ target \in {"a", "b"} /\ \E c \in UpIds : Begins(h, c)
  BY DispatchEffect
<1>2. Frame
  <2>1. <<>> \in Seq(Units)
    OBVIOUS
  <2> QED BY <1>1, <2>1 DEF Frame
<1>3. script \in Scripts
  BY DEF SlotInv, Typed
<1>4. CASE target = "long" /\ Idles(h, "read")
  <2>1. Settled(h)
    BY <1>4 DEF Settled
  <2> QED BY <1>2, <1>4, <2>1, IdlesKeeps
<1>5. CASE target = "static" /\ Idles(Static(h), "write")
  <2>1. /\ Static(h) \in HcRecords /\ Static(h).buf = h.buf /\ Static(h).phase = "WRITE"
        /\ Static(h).keep = ShouldKeepalive(script[h.buf[1].id])
    BY <1>3, StaticFacts
  <2>2. Settled(Static(h))
    <3>1. Static(h).keep => ShouldKeepalive(script[h.buf[1].id])
      BY <2>1, Zenon
    <3> QED BY <1>5, <2>1, <3>1 DEF Settled
  <2> QED BY <1>2, <1>5, <2>1, <2>2, IdlesKeeps
<1>6. CASE Idles(ArmFixed(h), "write")
  <2>1. /\ ArmFixed(h) \in HcRecords /\ ArmFixed(h).buf = h.buf /\ ArmFixed(h).phase = "WRITE" /\ ~ArmFixed(h).keep
    BY ArmFacts
  <2>2. Settled(ArmFixed(h))
    BY <2>1 DEF Settled
  <2> QED BY <1>2, <1>6, <2>1, <2>2, IdlesKeeps
<1>7. CASE Idles(ArmFixed(Excused(h)), "write")
  <2> DEFINE g == ArmFixed(Excused(h))
  <2>1. g \in HcRecords /\ g.buf = h.buf /\ g.phase = "WRITE" /\ ~g.keep
    BY ExcusedFacts, ArmFacts
  <2>2. Settled(g)
    BY <2>1 DEF Settled
  <2> HIDE DEF g
  <2>3. Idles(g, "write")
    BY <1>7 DEF g
  <2> QED BY <1>2, <2>1, <2>2, <2>3, IdlesKeeps
<1>8. CASE target \in {"a", "b"} /\ \E c \in UpIds : Begins(h, c)
  BY <1>2, <1>8, BeginsKeeps
<1> QED BY <1>1, <1>4, <1>5, <1>6, <1>7, <1>8

\* The connection when n more units were read.
Filled(n) == [hc EXCEPT !.buf = hc.buf \o Take(client.in, n)]

\* The connection after n units were read into hc->buf.
LEMMA FilledFacts ==
    ASSUME SlotInv, NEW n \in 1 .. Len(client.in), n <= HeaderCap - Len(hc.buf)
    PROVE  LET h == Filled(n)
           IN  /\ h \in HcRecords /\ h.buf = hc.buf \o Take(client.in, n) /\ h.phase = hc.phase
               /\ h.keep = hc.keep /\ h.left = hc.left /\ h.excused = hc.excused
               /\ Len(h.buf) = Len(hc.buf) + n /\ Len(h.buf) <= HeaderCap /\ h.buf # <<>>
               /\ Take(client.in, n) \in Seq(Units) /\ Len(Take(client.in, n)) = n
               /\ \A i \in 1 .. n : Take(client.in, n)[i] = client.in[i]
               /\ hc.buf \in Seq(Units) /\ Len(hc.buf) \in Nat
<1>1. hc \in HcRecords /\ hc.buf \in Seq(Units) /\ client.in \in Seq(Units)
  BY DEF SlotInv, Typed, HcRecords, ClientRecords
<1>2. Len(hc.buf) \in Nat /\ Len(client.in) \in Nat /\ n \in Nat /\ n \in 0 .. Len(client.in) /\ n > 0
  BY <1>1
<1>3. /\ Take(client.in, n) \in Seq(Units) /\ Len(Take(client.in, n)) = n
      /\ \A i \in 1 .. n : Take(client.in, n)[i] = client.in[i]
  BY <1>1, <1>2, TakeFacts
<1> DEFINE b == hc.buf \o Take(client.in, n)
<1>4. b \in Seq(Units) /\ Len(b) = Len(hc.buf) + n
  <2> DEFINE us == Take(client.in, n)
  <2>1. us \in Seq(Units) /\ Len(us) = n
    BY <1>3
  <2> HIDE DEF us
  <2>2. hc.buf \o us \in Seq(Units) /\ Len(hc.buf \o us) = Len(hc.buf) + Len(us)
    BY <1>1, <2>1, CatFacts
  <2> QED BY <2>1, <2>2 DEF us
<1>5. Filled(n) = [hc EXCEPT !.buf = b]
  BY DEF Filled
<1> HIDE DEF b
<1>6. Len(b) <= HeaderCap /\ b # <<>>
  BY <1>2, <1>4, SizesAssumption
<1>7. LET h == [hc EXCEPT !.buf = b]
      IN  /\ h \in HcRecords /\ h.buf = b /\ h.phase = hc.phase
          /\ h.keep = hc.keep /\ h.left = hc.left /\ h.excused = hc.excused
  BY <1>1, <1>4 DEF HcRecords
<1> QED BY <1>1, <1>2, <1>3, <1>4, <1>5, <1>6, <1>7 DEF b

\* http_conn_on_read.
LEMMA OnReadEffect ==
    ASSUME SlotInv, Quiet, OnRead
    PROVE  /\ script' = script /\ caller' = "read" /\ pc = "onread"
           /\ \/ /\ px.fd # NoUp /\ client' = client /\ pool' = pool /\ out' = out
                 /\ Waits(up, px, "none", "read") \/ Falls(up, px, FALSE)
              \/ /\ px.fd = NoUp /\ client' = client /\ out' = out
                 /\ Len(hc.buf) >= HeaderCap /\ Idles(ArmFixed(hc), "write")
              \/ /\ px.fd = NoUp /\ client' = client /\ out' = out
                 /\ Idles(hc, "read") \/ Idles(hc, "close")
              \/ /\ px.fd = NoUp
                 /\ \E n \in 1 .. Len(client.in) :
                       /\ n <= HeaderCap - Len(hc.buf) /\ client' = [client EXCEPT !.in = Drop(@, n)]
                       /\ Dispatch(Filled(n))
<1>1. script' = script /\ caller' = "read" /\ pc = "onread"
  BY DEF OnRead
<1>2. /\ client \in ClientRecords /\ client.in \in Seq(Units) /\ hc \in HcRecords /\ Len(hc.buf) \in Nat
      /\ px \in PxRecords /\ HeaderCap \in Nat
  BY SizesAssumption DEF SlotInv, Typed, ClientRecords, HcRecords
<1>3. CASE /\ Len(hc.buf) >= HeaderCap /\ hc' = ArmFixed(hc) /\ Stay("onwrite", up, px)
           /\ UNCHANGED <<client, pool, out>>
  <2>1. px.fd = NoUp
    BY <1>1, <1>2, <1>3 DEF Quiet, BetweenReads
  <2>2. px = PxReset
    BY <2>1, IdleUp
  <2>3. Idles(ArmFixed(hc), "write")
    BY <1>3, <2>2 DEF Idles, Stay, At
  <2> QED BY <1>1, <1>3, <2>1, <2>3
<1>4. CASE \E n \in ReadSizes(client.in, HeaderCap - Len(hc.buf)) :
               /\ client' = [client EXCEPT !.in = Drop(@, n)]
               /\ Dispatch([hc EXCEPT !.buf = @ \o Take(client.in, n)])
  <2>1. PICK n \in ReadSizes(client.in, HeaderCap - Len(hc.buf)) :
               /\ client' = [client EXCEPT !.in = Drop(@, n)]
               /\ Dispatch([hc EXCEPT !.buf = @ \o Take(client.in, n)])
    BY <1>4
  <2>2. HeaderCap - Len(hc.buf) \in Int
    BY <1>2
  <2>3. n \in 1 .. Len(client.in) /\ n <= HeaderCap - Len(hc.buf) /\ client.in # <<>>
    BY <1>2, <2>2, ReadFacts
  <2>4. px.fd = NoUp
    BY <1>1, <2>3 DEF Quiet, BetweenReads
  <2>5. Dispatch(Filled(n))
    BY <2>1 DEF Filled
  <2> QED BY <1>1, <2>1, <2>3, <2>4, <2>5
<1>5. CASE /\ ApplyIo(IF client.st = "open" THEN "read" ELSE "close", up, px)
           /\ UNCHANGED <<client, hc, pool, out>>
  <2> DEFINE io == IF client.st = "open" THEN "read" ELSE "close"
  <2>1. io \in {"read", "close"} /\ ApplyIo(io, up, px)
    BY <1>5
  <2> HIDE DEF io
  <2>2. CASE px.fd = NoUp
    <3>1. Idles(hc, io)
      BY <1>5, <2>1, <2>2, ApplyIdles
    <3> QED BY <1>1, <1>5, <2>1, <2>2, <3>1
  <2>3. CASE px.fd # NoUp
    <3>1. Shut(CloseUp(up, px.fd)) \/ (up' = up /\ px' = px /\ ArmEvents("read"))
      BY <2>1, ApplyFacts
    <3>2. Like(px, px)
      BY DEF Like
    <3>3. CASE Shut(CloseUp(up, px.fd))
      <4>1. Falls(up, px, FALSE)
        BY <1>5, <3>3 DEF Falls, Drops, Shut
      <4> QED BY <1>1, <1>5, <2>3, <4>1
    <3>4. CASE up' = up /\ px' = px /\ ArmEvents("read")
      <4>1. Waits(up, px, "none", "read")
        BY <1>2, <1>5, <3>2, <3>4 DEF Waits
      <4> QED BY <1>1, <1>5, <2>3, <4>1
    <3> QED BY <3>1, <3>3, <3>4
  <2> QED BY <2>2, <2>3
<1> QED BY <1>3, <1>4, <1>5 DEF OnRead

\* http_conn_on_read keeps SlotInv; here Quiet is needed.
LEMMA SlotOnRead ==
    ASSUME SlotInv, Quiet, OnRead
    PROVE  SlotInv'
<1>1. script' = script /\ caller' = "read" /\ pc = "onread"
  BY OnReadEffect
<1>2. /\ client \in ClientRecords /\ client.in \in Seq(Units) /\ Len(client.in) \in Nat
      /\ hc \in HcRecords /\ hc.buf \in Seq(Units) /\ out \in Seq(Units) /\ px \in PxRecords
  BY DEF SlotInv, Typed, ClientRecords, HcRecords
<1>3. hc.phase = "READ" /\ ~hc.keep
  BY <1>1 DEF SlotInv, Control
<1>4. ASSUME client' = client, out' = out PROVE Frame
  BY <1>1, <1>2, <1>4 DEF Frame
<1>5. CASE /\ px.fd # NoUp /\ client' = client /\ pool' = pool /\ out' = out
           /\ Waits(up, px, "none", "read") \/ Falls(up, px, FALSE)
  <2>1. Moved(up) /\ Sound(px)
    BY <1>5, SlotFacts
  <2> QED BY <1>4, <1>5, <2>1, WaitsKeeps, FallsKeeps
<1>6. CASE /\ px.fd = NoUp /\ client' = client /\ out' = out
           /\ Len(hc.buf) >= HeaderCap /\ Idles(ArmFixed(hc), "write")
  <2>1. hc.buf # <<>> /\ Len(hc.buf) <= HeaderCap
    BY <1>2, <1>6, SizesAssumption DEF SlotInv, TypeOK
  <2>2. /\ ArmFixed(hc) \in HcRecords /\ ArmFixed(hc).buf = hc.buf /\ ArmFixed(hc).phase = "WRITE" /\ ~ArmFixed(hc).keep
    BY <1>2, <2>1, ArmFacts
  <2>3. Settled(ArmFixed(hc))
    BY <2>1, <2>2 DEF Settled
  <2> QED BY <1>4, <1>6, <2>2, <2>3, IdlesKeeps
<1>7. CASE /\ px.fd = NoUp /\ client' = client /\ out' = out
           /\ Idles(hc, "read") \/ Idles(hc, "close")
  <2>1. Settled(hc)
    <3>1. hc.buf # <<>> => script[hc.buf[1].id].target = "long"
      BY <1>1, <1>3, <1>7 DEF SlotInv, Control, Req, Cur
    <3> QED BY <1>2, <1>3, <3>1 DEF Settled, SlotInv, TypeOK
  <2> QED BY <1>3, <1>4, <1>7, <2>1, IdlesKeeps
<1>8. CASE /\ px.fd = NoUp
           /\ \E n \in 1 .. Len(client.in) :
                 /\ n <= HeaderCap - Len(hc.buf) /\ client' = [client EXCEPT !.in = Drop(@, n)]
                 /\ Dispatch(Filled(n))
  <2>1. PICK n \in 1 .. Len(client.in) :
                 /\ n <= HeaderCap - Len(hc.buf) /\ client' = [client EXCEPT !.in = Drop(@, n)]
                 /\ Dispatch(Filled(n))
    BY <1>8
  <2>2. n \in 0 .. Len(client.in)
    BY <1>2
  <2>3. client' \in ClientRecords
    BY <1>2, <2>1, <2>2, ClientRead
  <2>4. LET h == Filled(n)
        IN  h \in HcRecords /\ h.buf # <<>> /\ Len(h.buf) <= HeaderCap /\ h.phase = "READ" /\ ~h.keep
    BY <1>3, <2>1, FilledFacts
  <2> QED BY <1>1, <1>8, <2>1, <2>3, <2>4, SlotDispatch
<1> QED BY <1>5, <1>6, <1>7, <1>8, OnReadEffect

-----------------------------------------------------------------------------
(* The other steps of the worker. *)

\* The slot's end keeps SlotInv.
LEMMA EndKeeps ==
    ASSUME SlotInv, Frame, hc' = hc, px' = PxReset, pc' = "closed", armed' = "none", batch' = <<>>,
           budget' = Budget, up' \in [UpIds -> UpRecords], pool' \in Seq(UpIds), Len(pool') <= PoolMax, Owned'
    PROVE  SlotInv'
<1>1. /\ Units' = Units /\ PxRecords' = PxRecords /\ HcRecords' = HcRecords
      /\ UpRecords' = UpRecords /\ ClientRecords' = ClientRecords
  BY SameScript DEF Frame
<1>2. /\ PxReset \in PxRecords /\ PxReset.fd = NoUp /\ PxReset.phase = "none" /\ PxReset.armed = "none"
      /\ PxReset.bodyLeft = 0 /\ PxReset.respLeft = 0 /\ PxReset.buf = <<>> /\ ~PxReset.clientKeep
  BY ResetFacts
<1>3. Typed'
  <2>1. <<>> \in Seq(Events)
    OBVIOUS
  <2> QED BY <1>1, <1>2, <2>1 DEF SlotInv, Typed, Frame
<1>4. TypeOK'
  <2>1. client'.st \in {"open", "fin", "rst"} /\ caller' \in {"read", "reuse", "event"}
    BY DEF Frame, ClientRecords
  <2>2. /\ px'.fd \in UpIds \cup {NoUp} /\ px'.phase \in Phases /\ px'.armed \in Ios
        /\ px'.bodyLeft \in Nat /\ px'.respLeft \in Nat /\ Len(px'.buf) <= BufMax
    BY <1>2, SizesAssumption DEF Phases, Ios
  <2>3. Len(batch') <= 2 /\ armed' \in Ios /\ budget' \in 0 .. Budget
    BY SizesAssumption DEF Ios
  <2>4. \A i \in DOMAIN pool' : pool'[i] \in UpIds
    OBVIOUS
  <2> QED BY <2>1, <2>2, <2>3, <2>4 DEF SlotInv, TypeOK
<1>5. Control'
  <2>1. Req' = Req
    BY DEF Req, Cur, Frame
  <2> QED BY <1>2, <2>1 DEF SlotInv, Control
<1> QED BY <1>3, <1>4, <1>5 DEF SlotInv

\* slot_close
LEMMA ClosedSlot ==
    ASSUME SlotInv, Frame, hc' = hc, pool' = pool, Shut(CloseUp(up, px.fd))
    PROVE  SlotInv'
<1>1. up \in [UpIds -> UpRecords] /\ pool \in Seq(UpIds) /\ Len(pool) <= PoolMax /\ px \in PxRecords
  BY DEF SlotInv, Typed, TypeOK
<1>2. /\ up' = CloseUp(up, px.fd) /\ px' = PxReset /\ pc' = "closed" /\ armed' = "none" /\ batch' = <<>>
      /\ budget' = Budget /\ px'.fd = NoUp
  BY ResetFacts DEF Shut
<1>3. InPool' = InPool /\ NoUp \notin InPool /\ NoUp \notin UpIds
  BY InPoolFacts DEF SlotInv, InPool
<1>4. /\ \A c \in UpIds : up[c].mine <=> c = px.fd \/ c \in InPool
      /\ px.fd \notin InPool
      /\ \A i, j \in DOMAIN pool : pool[i] = pool[j] => i = j
      /\ \A c \in UpIds : up[c].st = "unused" =>
           ~up[c].mine /\ up[c].got = <<>> /\ up[c].in = <<>> /\ up[c].plan = <<>> /\ up[c].answered = 0
  BY DEF SlotInv, Owned
<1>5. CASE px.fd = NoUp
  <2>1. up' = up
    BY <1>2, <1>5, CloseNone
  <2>2. Owned'
    BY <1>2, <1>3, <1>4, <1>5, <2>1 DEF Owned
  <2> QED BY <1>1, <1>2, <2>1, <2>2, EndKeeps
<1>6. CASE px.fd # NoUp
  <2>1. px.fd \in UpIds
    BY <1>1, <1>6 DEF PxRecords
  <2>2. /\ up' \in [UpIds -> UpRecords] /\ \A c \in UpIds : c # px.fd => up'[c] = up[c]
        /\ ~up'[px.fd].mine /\ up'[px.fd].st = up[px.fd].st
    BY <1>1, <1>2, <2>1, ClosedUp
  <2>3. \A c \in UpIds : up'[c].mine <=> c = px'.fd \/ c \in InPool'
    BY <1>2, <1>3, <1>4, <2>1, <2>2
  <2>4. \A c \in UpIds : up'[c].st = "unused" => up'[c] = up[c]
    BY <1>4, <2>1, <2>2
  <2>5. Owned'
    BY <1>2, <1>3, <1>4, <2>3, <2>4 DEF Owned
  <2> QED BY <1>1, <1>2, <2>2, <2>5, EndKeeps
<1> QED BY <1>5, <1>6

\* The deadline's slot_close keeps SlotInv.
LEMMA SlotTimeout ==
    ASSUME SlotInv, Timeout
    PROVE  SlotInv'
<1>1. Frame
  BY DEF Timeout, Frame, SlotInv, Typed, TypeOK
<1>2. Shut(CloseUp(up, px.fd)) /\ hc' = hc /\ pool' = pool
  BY DEF Timeout, SlotClose, Shut
<1> QED BY <1>1, <1>2, ClosedSlot

\* The sockets of the pool are closed.
Cleared == [c \in UpIds |-> IF c \in InPool THEN CloseUp(up, c)[c] ELSE up[c]]

\* The sockets after proxy_pool_clear.
LEMMA ClearedFacts ==
    ASSUME up \in [UpIds -> UpRecords]
    PROVE  /\ Cleared \in [UpIds -> UpRecords] /\ \A c \in UpIds : c \notin InPool => Cleared[c] = up[c]
           /\ \A c \in InPool \cap UpIds :
                /\ ~Cleared[c].mine /\ Cleared[c].in = <<>> /\ Cleared[c].plan = <<>> /\ Cleared[c].got = up[c].got
                /\ Cleared[c].st = up[c].st /\ Cleared[c].answered = up[c].answered
<1>1. ASSUME NEW c \in UpIds
      PROVE  LET x == CloseUp(up, c)[c]
             IN  /\ x \in UpRecords /\ ~x.mine /\ x.in = <<>> /\ x.plan = <<>> /\ x.got = up[c].got
                 /\ x.st = up[c].st /\ x.answered = up[c].answered
  <2> DEFINE g == CloseUp(up, c)
  <2>1. /\ g \in [UpIds -> UpRecords] /\ ~g[c].mine /\ g[c].in = <<>> /\ g[c].plan = <<>>
        /\ g[c].got = up[c].got /\ g[c].st = up[c].st /\ g[c].answered = up[c].answered
    BY ClosedUp
  <2> HIDE DEF g
  <2>2. g[c] \in UpRecords
    BY <2>1
  <2> QED BY <2>1, <2>2 DEF g
<1>2. \A c \in UpIds : Cleared[c] = IF c \in InPool THEN CloseUp(up, c)[c] ELSE up[c]
  BY DEF Cleared
<1>3. \A c \in UpIds : Cleared[c] \in UpRecords
  BY <1>1, <1>2
<1>4. Cleared \in [UpIds -> UpRecords]
  BY <1>3 DEF Cleared
<1> QED BY <1>1, <1>2, <1>4

\* What the worker leaves behind.
LEMMA ExitUp ==
    ASSUME SlotInv, WorkerExit
    PROVE  /\ up' \in [UpIds -> UpRecords] /\ pool' = <<>> /\ px' = PxReset /\ pc' = "closed"
           /\ \A c \in UpIds :
                /\ ~up'[c].mine /\ up'[c].got = up[c].got /\ up'[c].st = up[c].st /\ up'[c].answered = up[c].answered
                /\ (up'[c].in = up[c].in /\ up'[c].plan = up[c].plan) \/ (up'[c].in = <<>> /\ up'[c].plan = <<>>)
<1>1. up \in [UpIds -> UpRecords] /\ px \in PxRecords /\ InPool \subseteq UpIds
  BY InPoolFacts DEF SlotInv, Typed
<1>2. up' = CloseUp(Cleared, px.fd) /\ pool' = <<>> /\ px' = PxReset /\ pc' = "closed"
  BY DEF WorkerExit, SlotClose, Cleared
<1>3. \A c \in UpIds : up[c].mine <=> c = px.fd \/ c \in InPool
  BY DEF SlotInv, Owned
<1>4. /\ Cleared \in [UpIds -> UpRecords]
      /\ \A c \in UpIds :
           /\ c # px.fd => ~Cleared[c].mine
           /\ Cleared[c].got = up[c].got /\ Cleared[c].st = up[c].st /\ Cleared[c].answered = up[c].answered
           /\ \/ Cleared[c].in = up[c].in /\ Cleared[c].plan = up[c].plan
              \/ Cleared[c].in = <<>> /\ Cleared[c].plan = <<>>
  <2>1. ASSUME NEW c \in UpIds, c \in InPool
        PROVE  /\ ~Cleared[c].mine
               /\ Cleared[c].got = up[c].got /\ Cleared[c].st = up[c].st /\ Cleared[c].answered = up[c].answered
               /\ Cleared[c].in = <<>> /\ Cleared[c].plan = <<>>
    BY <1>1, <2>1, ClearedFacts
  <2>2. ASSUME NEW c \in UpIds, c \notin InPool
        PROVE  /\ c # px.fd => ~Cleared[c].mine
               /\ Cleared[c] = up[c]
    BY <1>1, <1>3, <2>2, ClearedFacts
  <2>3. Cleared \in [UpIds -> UpRecords]
    BY <1>1, ClearedFacts
  <2> QED BY <2>1, <2>2, <2>3
<1>5. CASE px.fd = NoUp
  <2>1. up' = Cleared /\ \A c \in UpIds : c # px.fd
    BY <1>2, <1>5, CloseNone, SizesAssumption DEF UpIds, NoUp
  <2> QED BY <1>2, <1>4, <2>1
<1>6. CASE px.fd # NoUp
  <2>1. px.fd \in UpIds
    BY <1>1, <1>6 DEF PxRecords
  <2>2. /\ up' \in [UpIds -> UpRecords] /\ \A c \in UpIds : c # px.fd => up'[c] = Cleared[c]
        /\ ~up'[px.fd].mine /\ up'[px.fd].st = Cleared[px.fd].st /\ up'[px.fd].got = Cleared[px.fd].got
        /\ up'[px.fd].answered = Cleared[px.fd].answered /\ up'[px.fd].in = <<>> /\ up'[px.fd].plan = <<>>
    BY <1>2, <1>4, <2>1, ClosedUp
  <2> QED BY <1>2, <1>4, <2>1, <2>2
<1> QED BY <1>5, <1>6

\* The worker's exit keeps SlotInv.
LEMMA SlotWorkerExit ==
    ASSUME SlotInv, WorkerExit
    PROVE  SlotInv'
<1>1. Frame
  BY DEF WorkerExit, Frame, SlotInv, Typed, TypeOK
<1>2. /\ up' \in [UpIds -> UpRecords] /\ pool' = <<>> /\ px' = PxReset /\ pc' = "closed"
      /\ \A c \in UpIds :
           /\ ~up'[c].mine /\ up'[c].got = up[c].got /\ up'[c].st = up[c].st /\ up'[c].answered = up[c].answered
           /\ (up'[c].in = up[c].in /\ up'[c].plan = up[c].plan) \/ (up'[c].in = <<>> /\ up'[c].plan = <<>>)
  BY ExitUp
<1>3. armed' = "none" /\ batch' = <<>> /\ budget' = Budget /\ hc' = hc
  BY DEF WorkerExit, SlotClose
<1>4. Owned'
  <2>1. px'.fd = NoUp /\ NoUp \notin UpIds
    BY <1>2, ResetFacts, SizesAssumption DEF UpIds, NoUp
  <2>2. InPool' = {}
    BY <1>2 DEF InPool
  <2>3. \A i, j \in DOMAIN pool' : pool'[i] = pool'[j] => i = j
    BY <1>2
  <2>4. \A c \in UpIds : up[c].st = "unused" =>
           up[c].got = <<>> /\ up[c].in = <<>> /\ up[c].plan = <<>> /\ up[c].answered = 0
    BY DEF SlotInv, Owned
  <2> QED BY <1>2, <2>1, <2>2, <2>3, <2>4 DEF Owned
<1>5. pool' \in Seq(UpIds) /\ Len(pool') <= PoolMax
  BY <1>2, SizesAssumption
<1> QED BY <1>1, <1>2, <1>3, <1>4, <1>5, EndKeeps

\* http_conn_on_write has sent n units more.
Written(n) == [hc EXCEPT !.left = Drop(@, n)]

\* http_conn_on_write.
LEMMA OnWriteEffect ==
    ASSUME SlotInv, OnWrite
    PROVE  /\ script' = script /\ client' = client /\ caller' = caller /\ pc = "onwrite" /\ px.fd = NoUp
           /\ hc.phase = "WRITE" /\ hc.buf # <<>>
           /\ \E n \in 0 .. Len(hc.left), io \in {"write", "done", "close"} :
                 /\ out' = out \o Take(hc.left, n) /\ Idles(Written(n), io)
                 /\ io = "done" => n = Len(hc.left)
<1>1. script' = script /\ client' = client /\ caller' = caller /\ pc = "onwrite" /\ pool' = pool
  BY DEF OnWrite
<1>2. px.fd = NoUp /\ hc.phase = "WRITE" /\ hc.buf # <<>>
  BY <1>1 DEF SlotInv, Control
<1>3. hc.left \in Seq(Units) /\ Len(hc.left) \in Nat /\ client.st \in {"open", "fin", "rst"}
  BY DEF SlotInv, Typed, HcRecords, TypeOK
<1>4. PICK o \in SendOutcomes(Len(hc.left), client.st) :
         /\ hc' = [hc EXCEPT !.left = Drop(@, o.n)]
         /\ out' = out \o Take(hc.left, o.n)
         /\ ApplyIo(CASE o.res = "ok" -> "done" [] o.res = "again" -> "write"
                      [] OTHER -> "close", up, px)
  BY DEF OnWrite
<1> DEFINE io == CASE o.res = "ok" -> "done" [] o.res = "again" -> "write" [] OTHER -> "close"
<1>5. o.n \in 0 .. Len(hc.left) /\ o.res \in {"ok", "again", "dead"} /\ (o.res = "ok" => o.n = Len(hc.left))
  BY <1>3, SendFacts
<1>6. io \in {"write", "done", "close"} /\ (io = "done" => o.n = Len(hc.left)) /\ ApplyIo(io, up, px)
  BY <1>4, <1>5
<1>7. hc' = Written(o.n)
  BY <1>4 DEF Written
<1> HIDE DEF io
<1>8. Idles(Written(o.n), io)
  BY <1>1, <1>2, <1>6, <1>7, ApplyIdles
<1> QED BY <1>1, <1>2, <1>4, <1>5, <1>6, <1>8

\* The connection after n units of its own answer were written.
LEMMA WrittenFacts ==
    ASSUME hc \in HcRecords, NEW n \in 0 .. Len(hc.left)
    PROVE  /\ Written(n) \in HcRecords /\ Written(n).buf = hc.buf /\ Written(n).phase = hc.phase
           /\ Written(n).keep = hc.keep /\ Written(n).excused = hc.excused /\ Written(n).left = Drop(hc.left, n)
<1> DEFINE l == Drop(hc.left, n)
<1>1. hc.left \in Seq(Units)
  BY DEF HcRecords
<1>2. l \in Seq(Units)
  BY <1>1, DropFacts
<1>3. Written(n) = [hc EXCEPT !.left = l]
  BY DEF Written
<1> HIDE DEF l
<1>4. LET h == [hc EXCEPT !.left = l]
      IN  /\ h \in HcRecords /\ h.buf = hc.buf /\ h.phase = hc.phase
          /\ h.keep = hc.keep /\ h.excused = hc.excused /\ h.left = l
  BY <1>2 DEF HcRecords
<1> QED BY <1>3, <1>4 DEF l

\* http_conn_on_write keeps SlotInv.
LEMMA SlotOnWrite ==
    ASSUME SlotInv, OnWrite
    PROVE  SlotInv'
<1>1. /\ script' = script /\ client' = client /\ caller' = caller /\ pc = "onwrite" /\ px.fd = NoUp
      /\ hc.phase = "WRITE" /\ hc.buf # <<>>
  BY OnWriteEffect
<1>2. PICK n \in 0 .. Len(hc.left), io \in {"write", "done", "close"} :
                 /\ out' = out \o Take(hc.left, n) /\ Idles(Written(n), io)
  BY OnWriteEffect
<1>3. hc \in HcRecords /\ hc.left \in Seq(Units) /\ out \in Seq(Units) /\ client \in ClientRecords
  BY DEF SlotInv, Typed, HcRecords
<1>4. Frame
  <2>1. Take(hc.left, n) \in Seq(Units)
    BY <1>3, TakeFacts
  <2>2. out \o Take(hc.left, n) \in Seq(Units)
    BY <1>3, <2>1, CatFacts
  <2> QED BY <1>1, <1>2, <1>3, <2>2 DEF Frame, SlotInv, TypeOK
<1>5. /\ Written(n) \in HcRecords /\ Written(n).buf = hc.buf /\ Written(n).phase = "WRITE"
      /\ Written(n).keep = hc.keep
  BY <1>1, <1>3, WrittenFacts
<1>6. Settled(Written(n))
  <2>1. hc.keep => ShouldKeepalive(Req) /\ Req.target # "long"
    BY DEF SlotInv, Control
  <2>2. Len(hc.buf) <= HeaderCap
    BY DEF SlotInv, TypeOK
  <2> QED BY <1>1, <1>5, <2>1, <2>2 DEF Settled, Req, Cur
<1> QED BY <1>1, <1>2, <1>4, <1>5, <1>6, IdlesKeeps

\* reset_request_state.
LEMMA HcResetFacts ==
    ASSUME NEW b \in Seq(Units)
    PROVE  /\ HcReset(b) \in HcRecords /\ HcReset(b).buf = b /\ HcReset(b).phase = "READ"
           /\ ~HcReset(b).keep /\ HcReset(b).left = <<>> /\ ~HcReset(b).excused
  BY DEF HcReset, HcRecords

\* http_conn_reuse, with a request already in the buffer or without.
LEMMA ReuseEffect ==
    ASSUME SlotInv, Reuse
    PROVE  /\ script' = script /\ client' = client /\ caller' = "reuse" /\ pc = "reuse"
           /\ px.fd = NoUp /\ hc.buf # <<>>
           /\ \/ hc' = hc /\ pool' = pool /\ out' = out /\ Shut(CloseUp(up, px.fd))
              \/ hc.keep /\ Len(hc.buf) = 1 /\ out' = out /\ Idles(HcReset(<<>>), "read")
              \/ hc.keep /\ Len(hc.buf) > 1 /\ Dispatch(HcReset(Tail(hc.buf)))
<1>1. script' = script /\ client' = client /\ caller' = "reuse" /\ pc = "reuse"
  BY DEF Reuse
<1>2. px.fd = NoUp /\ hc.buf # <<>>
  BY <1>1 DEF SlotInv, Control
<1>3. CASE ~hc.keep /\ SlotClose(up, px) /\ UNCHANGED <<hc, pool, out>>
  BY <1>1, <1>2, <1>3 DEF SlotClose, Shut
<1>4. CASE /\ hc.keep /\ Len(hc.buf) = 1 /\ hc' = HcReset(<<>>) /\ ApplyIo("read", up, px)
           /\ UNCHANGED <<pool, out>>
  <2>1. Idles(HcReset(<<>>), "read")
    BY <1>2, <1>4, ApplyIdles
  <2> QED BY <1>1, <1>2, <1>4, <2>1
<1>5. CASE hc.keep /\ Len(hc.buf) > 1 /\ Dispatch(HcReset(Tail(hc.buf)))
  BY <1>1, <1>2, <1>5
<1> QED BY <1>3, <1>4, <1>5 DEF Reuse

\* http_conn_reuse keeps SlotInv.
LEMMA SlotReuse ==
    ASSUME SlotInv, Reuse
    PROVE  SlotInv'
<1>1. /\ script' = script /\ client' = client /\ caller' = "reuse" /\ pc = "reuse" /\ px.fd = NoUp /\ hc.buf # <<>>
  BY ReuseEffect
<1>2. hc \in HcRecords /\ hc.buf \in Seq(Units) /\ out \in Seq(Units) /\ client \in ClientRecords /\ Len(hc.buf) <= HeaderCap
  BY DEF SlotInv, Typed, HcRecords, TypeOK
<1>3. CASE hc' = hc /\ pool' = pool /\ out' = out /\ Shut(CloseUp(up, px.fd))
  <2>1. Frame
    BY <1>1, <1>2, <1>3 DEF Frame
  <2> QED BY <1>3, <2>1, ClosedSlot
<1>4. CASE hc.keep /\ Len(hc.buf) = 1 /\ out' = out /\ Idles(HcReset(<<>>), "read")
  <2>1. Frame
    BY <1>1, <1>2, <1>4 DEF Frame
  <2>2. <<>> \in Seq(Units)
    OBVIOUS
  <2>3. /\ HcReset(<<>>) \in HcRecords /\ HcReset(<<>>).buf = <<>> /\ HcReset(<<>>).phase = "READ"
        /\ ~HcReset(<<>>).keep
    BY <2>2, HcResetFacts
  <2>4. Settled(HcReset(<<>>))
    BY <2>3, SizesAssumption DEF Settled
  <2> QED BY <1>1, <1>4, <2>1, <2>3, <2>4, IdlesKeeps
<1>5. CASE hc.keep /\ Len(hc.buf) > 1 /\ Dispatch(HcReset(Tail(hc.buf)))
  <2> DEFINE b == Tail(hc.buf)
  <2>1. b \in Seq(Units) /\ Len(b) = Len(hc.buf) - 1
    BY <1>1, <1>2, TailFacts
  <2>2. Dispatch(HcReset(b))
    BY <1>5
  <2> HIDE DEF b
  <2>3. Len(b) <= HeaderCap /\ b # <<>>
    BY <1>2, <1>5, <2>1, SizesAssumption
  <2>4. HcReset(b) \in HcRecords /\ HcReset(b).buf = b /\ HcReset(b).phase = "READ" /\ ~HcReset(b).keep
    BY <2>1, HcResetFacts
  <2> QED BY <1>1, <1>2, <2>2, <2>3, <2>4, SlotDispatch
<1> QED BY <1>3, <1>4, <1>5, ReuseEffect

\* The worker goes on with another event.
LEMMA TurnKeeps ==
    ASSUME SlotInv, UNCHANGED <<script, client, hc, armed, px, pool, up, budget, out>>, pc \in {"wait", "batch"},
           caller' \in {"read", "reuse", "event"}, batch' \in Seq(Events), Len(batch') <= 2,
           \/ pc' = "pump" /\ px.fd # NoUp
           \/ pc' = "onread" /\ px.fd = NoUp /\ hc.phase = "READ"
           \/ pc' = "onwrite" /\ px.fd = NoUp /\ hc.phase = "WRITE"
           \/ pc' = "wait"
           \/ pc' = "batch" /\ batch' # <<>>
    PROVE  SlotInv'
<1>1. /\ Units' = Units /\ PxRecords' = PxRecords /\ HcRecords' = HcRecords
      /\ UpRecords' = UpRecords /\ ClientRecords' = ClientRecords
  BY SameScript
<1>2. Typed'
  BY <1>1 DEF SlotInv, Typed
<1>3. TypeOK'
  BY DEF SlotInv, TypeOK
<1>4. Req' = Req /\ InPool' = InPool
  BY DEF Req, Cur, InPool
<1>5. Control'
  BY <1>4 DEF SlotInv, Control
<1>6. Owned'
  BY <1>4 DEF SlotInv, Owned
<1> QED BY <1>2, <1>3, <1>5, <1>6 DEF SlotInv

\* The orders of at most two events.
LEMMA PairSeqs ==
    ASSUME NEW a, NEW b, NEW es, es \subseteq {a, b}, es # {}, NEW s \in SetToSeqs(es)
    PROVE  s \in Seq(es) /\ Len(s) \in {1, 2}
<1>1. IsFiniteSet({a, b}) /\ Cardinality({a, b}) <= 2
  <2>1. IsFiniteSet({a}) /\ Cardinality({a}) = 1
    BY FS_Singleton
  <2>2. {a, b} = {a} \cup {b}
    OBVIOUS
  <2>3. IsFiniteSet({a} \cup {b}) /\ Cardinality({a} \cup {b}) = IF b \in {a} THEN Cardinality({a}) ELSE Cardinality({a}) + 1
    BY <2>1, FS_AddElement
  <2> QED BY <2>1, <2>2, <2>3
<1>2. IsFiniteSet(es) /\ Cardinality(es) <= Cardinality({a, b}) /\ Cardinality(es) \in Nat /\ Cardinality({a, b}) \in Nat
  BY <1>1, FS_Subset, FS_CardinalityType
<1>3. Cardinality(es) # 0
  BY <1>2, FS_EmptySet
<1>4. Cardinality(es) \in {1, 2}
  BY <1>1, <1>2, <1>3
<1>5. s \in [1 .. Cardinality(es) -> es]
  BY DEF SetToSeqs
<1> QED BY <1>4, <1>5

\* epoll_wait keeps SlotInv.
LEMMA SlotEpollWait ==
    ASSUME SlotInv, EpollWait
    PROVE  SlotInv'
<1>1. /\ pc = "wait" /\ pc' = "batch" /\ caller' = caller
      /\ UNCHANGED <<script, client, hc, armed, px, pool, up, budget, out>>
  BY DEF EpollWait
<1>2. PICK es \in (SUBSET Ready) \ {{}} : batch' \in SetToSeqs(es)
  BY DEF EpollWait
<1>3. es \subseteq {ClientEvent, UpEvent} /\ es # {}
  <2> DEFINE a == ClientEvent
             b == UpEvent
  <2>1. Ready = {e \in {a} \cup (IF px.fd # NoUp /\ px.inEpoll THEN {b} ELSE {}) : Fires(e)}
    BY DEF Ready
  <2> HIDE DEF a, b
  <2>2. es \subseteq Ready /\ es # {}
    BY <1>2
  <2>3. es \subseteq {a, b}
    BY <2>1, <2>2
  <2> QED BY <2>2, <2>3 DEF a, b
<1>4. batch' \in Seq(es) /\ Len(batch') \in {1, 2}
  BY <1>2, <1>3, PairSeqs
<1>5. ClientEvent \in Events /\ UpEvent \in Events
  BY DEF ClientEvent, UpEvent, Events
<1>6. es \subseteq Events
  BY <1>3, <1>5
<1>7. batch' \in Seq(Events) /\ Len(batch') <= 2 /\ batch' # <<>>
  <2>1. batch' \in [1 .. Len(batch') -> es]
    BY <1>4
  <2>2. batch' \in [1 .. Len(batch') -> Events]
    BY <1>6, <2>1
  <2> QED BY <1>4, <2>2
<1>8. caller' \in {"read", "reuse", "event"}
  BY <1>1 DEF SlotInv, TypeOK
<1> QED BY <1>1, <1>7, <1>8, TurnKeeps

\* The worker's handling of one event.
LEMMA HandleEffect ==
    ASSUME SlotInv, HandleEvent
    PROVE  /\ pc = "batch" /\ caller' = "event" /\ UNCHANGED <<script, client, hc, pool, out>>
           /\ \/ Shut(CloseUp(up, px.fd))
              \/ /\ batch' = Tail(batch) /\ UNCHANGED <<armed, px, up, budget>>
                 /\ \/ pc' = "pump" /\ px.fd # NoUp
                    \/ pc' = "onread" /\ px.fd = NoUp /\ hc.phase = "READ"
                    \/ pc' = "onwrite" /\ px.fd = NoUp /\ hc.phase = "WRITE"
                    \/ pc' = (IF batch' = <<>> THEN "wait" ELSE "batch") /\ px.fd = NoUp
<1>1. pc = "batch" /\ caller' = "event" /\ UNCHANGED <<script, client, hc, pool, out>>
  BY DEF HandleEvent
<1>2. hc.phase \in {"READ", "WRITE"}
  BY DEF SlotInv, TypeOK
<1>3. SlotClose(up, px) => Shut(CloseUp(up, px.fd))
  BY DEF SlotClose, Shut
<1> DEFINE e == Head(batch)
           rest == Tail(batch)
           Goto(at) == /\ pc' = at /\ batch' = rest
                       /\ UNCHANGED <<armed, px, up, budget>>
           hupOnly == e.src = "client" /\ e.hup /\ ~e.in /\ ~e.out
<1>4. \/ SlotClose(up, px)
      \/ px.fd # NoUp /\ Goto("pump")
      \/ /\ px.fd = NoUp
         /\ CASE e.in /\ hc.phase = "READ" -> Goto("onread")
                   [] e.out /\ hc.phase # "READ" -> Goto("onwrite")
                   [] OTHER -> Goto(IF rest = <<>> THEN "wait" ELSE "batch")
  BY DEF HandleEvent
<1>5. CASE px.fd # NoUp /\ Goto("pump")
  BY <1>1, <1>5
<1>6. CASE /\ px.fd = NoUp
           /\ CASE e.in /\ hc.phase = "READ" -> Goto("onread")
                   [] e.out /\ hc.phase # "READ" -> Goto("onwrite")
                   [] OTHER -> Goto(IF rest = <<>> THEN "wait" ELSE "batch")
  <2>1. \/ hc.phase = "READ" /\ Goto("onread")
        \/ hc.phase = "WRITE" /\ Goto("onwrite")
        \/ Goto(IF rest = <<>> THEN "wait" ELSE "batch")
    BY <1>2, <1>6
  <2> QED BY <1>1, <1>6, <2>1
<1> QED BY <1>1, <1>3, <1>4, <1>5, <1>6

\* Handling an event keeps SlotInv.
LEMMA SlotHandleEvent ==
    ASSUME SlotInv, HandleEvent
    PROVE  SlotInv'
<1>1. pc = "batch" /\ caller' = "event" /\ UNCHANGED <<script, client, hc, pool, out>>
  BY HandleEffect
<1>2. CASE Shut(CloseUp(up, px.fd))
  <2>1. Frame
    BY <1>1 DEF Frame, SlotInv, Typed
  <2> QED BY <1>1, <1>2, <2>1, ClosedSlot
<1>3. CASE /\ batch' = Tail(batch) /\ UNCHANGED <<armed, px, up, budget>>
           /\ \/ pc' = "pump" /\ px.fd # NoUp
              \/ pc' = "onread" /\ px.fd = NoUp /\ hc.phase = "READ"
              \/ pc' = "onwrite" /\ px.fd = NoUp /\ hc.phase = "WRITE"
              \/ pc' = (IF batch' = <<>> THEN "wait" ELSE "batch") /\ px.fd = NoUp
  <2>1. batch \in Seq(Events) /\ batch # <<>> /\ Len(batch) <= 2
    BY <1>1 DEF SlotInv, Typed, TypeOK, Control
  <2>2. Tail(batch) \in Seq(Events) /\ Len(Tail(batch)) = Len(batch) - 1 /\ Len(batch) \in Nat
    BY <2>1, TailFacts
  <2>3. batch' \in Seq(Events) /\ Len(batch') <= 2
    BY <1>3, <2>1, <2>2
  <2>4. \/ pc' = "pump" /\ px.fd # NoUp
        \/ pc' = "onread" /\ px.fd = NoUp /\ hc.phase = "READ"
        \/ pc' = "onwrite" /\ px.fd = NoUp /\ hc.phase = "WRITE"
        \/ pc' = "wait"
        \/ pc' = "batch" /\ batch' # <<>>
    BY <1>3
  <2> QED BY <1>1, <1>3, <2>3, <2>4, TurnKeeps
<1> QED BY <1>2, <1>3, HandleEffect

\* A stutter keeps SlotInv.
LEMMA SlotStays ==
    ASSUME SlotInv, UNCHANGED vars
    PROVE  SlotInv'
<1>1. /\ Units' = Units /\ PxRecords' = PxRecords /\ HcRecords' = HcRecords
      /\ UpRecords' = UpRecords /\ ClientRecords' = ClientRecords
  BY SameScript DEF vars
<1>2. Req' = Req /\ InPool' = InPool
  BY DEF Req, Cur, InPool, vars
<1>3. Typed'
  BY <1>1 DEF SlotInv, Typed, vars
<1>4. TypeOK'
  BY DEF SlotInv, TypeOK, vars
<1>5. Control'
  BY <1>2 DEF SlotInv, Control, vars
<1>6. Owned'
  BY <1>2 DEF SlotInv, Owned, vars
<1> QED BY <1>3, <1>4, <1>5, <1>6 DEF SlotInv

\* SlotInv is inductive under Quiet.
LEMMA SlotNext ==
    ASSUME SlotInv, Quiet, [Next]_vars
    PROVE  SlotInv'
<1>1. CASE Next
  BY <1>1, SlotPeers, SlotPump, SlotOnRead, SlotOnWrite, SlotReuse, SlotEpollWait, SlotHandleEvent,
     SlotTimeout, SlotWorkerExit DEF Next
<1> QED BY <1>1, SlotStays

\* SlotInv holds at the start.
LEMMA SlotInit ==
    ASSUME Init
    PROVE  SlotInv
<1>1. script \in Scripts /\ pool = <<>> /\ batch = <<>> /\ out = <<>> /\ pc = "onread" /\ caller = "read"
      /\ budget = Budget /\ armed = "read" /\ px = PxReset /\ hc = HcReset(<<>>)
  BY DEF Init
<1>2. client = [next |-> FirstUnit(1), in |-> <<>>, st |-> "open"]
  BY DEF Init
<1>3. up = [c \in UpIds |-> [st |-> "unused", addr |-> "a", mine |-> FALSE, got |-> <<>>,
                              plan |-> <<>>, in |-> <<>>, answered |-> 0]]
  BY DEF Init
<1>4. /\ PxReset \in PxRecords /\ PxReset.fd = NoUp /\ PxReset.phase = "none" /\ PxReset.armed = "none"
      /\ PxReset.bodyLeft = 0 /\ PxReset.respLeft = 0 /\ PxReset.buf = <<>> /\ ~PxReset.clientKeep
  BY ResetFacts
<1>5. <<>> \in Seq(Units) /\ <<>> \in Seq(UpIds) /\ <<>> \in Seq(Events) /\ Len(<<>>) = 0
  OBVIOUS
<1>6. /\ hc \in HcRecords /\ hc.buf = <<>> /\ hc.phase = "READ" /\ ~hc.keep
  BY <1>1, <1>5, HcResetFacts
<1>7. client \in ClientRecords
  <2> DEFINE x == FirstUnit(1)
  <2>1. x \in Units \cup [k : {"end"}, id : Nat \ DOMAIN script, n : {0}]
    BY <1>1, FirstFacts
  <2> HIDE DEF x
  <2> QED BY <1>2, <1>5, <2>1 DEF ClientRecords, x
<1>8. up \in [UpIds -> UpRecords]
  BY <1>3, <1>5 DEF UpRecords, Targets
<1>9. Typed
  BY <1>1, <1>4, <1>5, <1>6, <1>7, <1>8 DEF Typed
<1>10. TypeOK
  BY <1>1, <1>2, <1>4, <1>5, <1>6, SizesAssumption DEF TypeOK, Phases, Ios
<1>11. Control
  BY <1>1, <1>4, <1>6 DEF Control
<1>12. Owned
  <2>1. InPool = {} /\ NoUp \notin UpIds
    BY <1>1, SizesAssumption DEF InPool, UpIds, NoUp
  <2> QED BY <1>1, <1>3, <1>4, <2>1 DEF Owned
<1> QED BY <1>9, <1>10, <1>11, <1>12 DEF SlotInv

\* No upstream socket is in two places, so the pool holds as many as it has entries.
LEMMA PoolSize ==
    ASSUME SlotInv
    PROVE  Cardinality(InPool) = Len(pool)
<1>1. pool \in Seq(UpIds) /\ DOMAIN pool = 1 .. Len(pool) /\ Len(pool) \in Nat
  BY DomFacts DEF SlotInv, Typed
<1>2. IsFiniteSet(1 .. Len(pool)) /\ Cardinality(1 .. Len(pool)) = Len(pool)
  <2>1. 1 \in Int /\ Len(pool) \in Int
    BY <1>1
  <2>2. IsFiniteSet(1 .. Len(pool)) /\ Cardinality(1 .. Len(pool)) = IF 1 > Len(pool) THEN 0 ELSE Len(pool) - 1 + 1
    BY <2>1, FS_Interval
  <2> QED BY <1>1, <2>2
<1>3. pool \in Bijection(1 .. Len(pool), InPool)
  <2>1. pool \in [1 .. Len(pool) -> InPool]
    <3>1. pool \in [1 .. Len(pool) -> UpIds]
      BY <1>1
    <3>2. \A i \in 1 .. Len(pool) : pool[i] \in InPool
      BY <1>1 DEF InPool
    <3> QED BY <3>1, <3>2
  <2>2. \A i, j \in 1 .. Len(pool) : pool[i] = pool[j] => i = j
    BY <1>1 DEF SlotInv, Owned
  <2>3. \A c \in InPool : \E i \in 1 .. Len(pool) : pool[i] = c
    BY <1>1 DEF InPool
  <2>4. pool \in Injection(1 .. Len(pool), InPool)
    BY <2>1, <2>2 DEF Injection, IsInjective
  <2>5. pool \in Surjection(1 .. Len(pool), InPool)
    BY <2>1, <2>3 DEF Surjection
  <2> QED BY <2>4, <2>5 DEF Bijection
<1>4. ExistsBijection(1 .. Len(pool), InPool)
  BY <1>3 DEF ExistsBijection
<1> QED BY <1>2, <1>4, FS_Bijection

\* SlotInv gives OneUpstream.
LEMMA SlotOneUpstream ==
    ASSUME SlotInv
    PROVE  OneUpstream
<1>1. px.fd \in UpIds \cup {NoUp} /\ NoUp \notin UpIds /\ InPool \subseteq UpIds
  BY InPoolFacts, SizesAssumption DEF SlotInv, TypeOK, UpIds, NoUp
<1>2. Mine = InPool \cup ({px.fd} \ {NoUp})
  BY <1>1 DEF Mine, SlotInv, Owned
<1>3. px.fd \notin InPool
  BY DEF SlotInv, Owned
<1> QED BY <1>2, <1>3, PoolSize DEF OneUpstream

\* Whatever the client and the upstreams do, the slot and its pool keep to the types and the
\* capacities of struct proxy_conn and struct http_conn, and the worker is at a place of its loop
\* that fits what the slot is doing.
THEOREM SlotInvariant == Spec /\ []Quiet => []SlotInv
<1>1. Init => SlotInv
  BY SlotInit
<1>2. SlotInv /\ Quiet /\ [Next]_vars => SlotInv'
  BY SlotNext
<1> QED BY <1>1, <1>2, PTL DEF Spec

\* proxy_begin, proxy_reopen, proxy_release and proxy_close lose no upstream socket and share
\* none.
THEOREM OneUpstreamHolds == Spec /\ []Quiet => []OneUpstream
<1>1. SlotInv => OneUpstream
  BY SlotOneUpstream
<1> QED BY <1>1, SlotInvariant, PTL

-----------------------------------------------------------------------------
(* What the slot waits for. *)

\* With the upstream armed for upio and the client for io, the slot p waits for what it needs.
Meets(p, upio, io) ==
    \/ p.send100 /\ io = "write"
    \/ ~p.send100 /\ p.phase = "SEND_REQ" /\ upio = "write" /\ io # "read"
    \/ ~p.send100 /\ p.phase = "SEND_BODY" /\ p.buf \o p.body # <<>> /\ upio = "write" /\ io # "read"
    \/ ~p.send100 /\ p.phase = "SEND_BODY" /\ p.buf \o p.body = <<>> /\ p.bodyLeft > 0 /\ io = "read"
    \/ ~p.send100 /\ p.phase = "RECV_HDR" /\ HdrEnd(p.buf) = 0 /\ upio = "read" /\ io # "read"
    \/ ~p.send100 /\ p.phase = "STREAM" /\ p.buf = <<>> /\ upio = "read" /\ io # "read"
    \/ ~p.send100 /\ (p.phase = "SEND_RESP" \/ (p.phase = "STREAM" /\ p.buf # <<>>)) /\ io = "write"
Unended(p) == p.phase = "STREAM" /\ p.bodyDone => p.buf # <<>>

\* A wait for what the slot needs.
LEMMA WaitsMeets ==
    ASSUME NEW u, NEW p, p.fd # NoUp, Unended(p), NEW upio, NEW io, Meets(p, upio, io), Waits(u, p, upio, io)
    PROVE  WaitInv'
<1> DEFINE q == px'
<1>1. /\ q.fd = p.fd /\ q.phase = p.phase /\ q.send100 = p.send100 /\ q.bodyDone = p.bodyDone
      /\ q.buf = p.buf /\ q.body = p.body /\ q.bodyLeft = p.bodyLeft
  BY DEF Waits, Like
<1>2. upio # "none" => q.inEpoll /\ q.armed = upio
  BY DEF Waits
<1>3. \/ pc' = "onread" /\ io = "read"
      \/ armed' = io /\ pc' # "onread"
  BY DEF Waits, At, ArmEvents
<1>4. Need' = CASE q.fd = NoUp -> IF hc'.phase = "READ" THEN "clientRead" ELSE "clientWrite"
                [] q.fd # NoUp /\ q.send100 -> "clientWrite"
                [] OTHER ->
                     CASE q.phase = "SEND_REQ" -> "upWrite"
                       [] q.phase = "SEND_BODY" ->
                            IF q.buf \o q.body # <<>> THEN "upWrite"
                            ELSE IF q.bodyLeft > 0 THEN "clientRead" ELSE "nothing"
                       [] q.phase = "RECV_HDR" -> IF HdrEnd(q.buf) = 0 THEN "upRead" ELSE "nothing"
                       [] q.phase = "STREAM" /\ q.buf = <<>> -> "upRead"
                       [] OTHER -> "clientWrite"
  BY DEF Need
<1> DEFINE pending == p.buf \o p.body
           ends == HdrEnd(p.buf)
<1>5. q.buf \o q.body = pending /\ HdrEnd(q.buf) = ends
  BY <1>1
<1>6. Waiting' <=> \/ Need' = "clientRead" /\ armed' = "read"
                   \/ Need' = "clientWrite" /\ armed' = "write"
                   \/ Need' = "upRead" /\ q.inEpoll /\ q.armed = "read"
                   \/ Need' = "upWrite" /\ q.inEpoll /\ q.armed = "write"
  BY DEF Waiting
<1>7. WaitInv' <=> /\ q.phase = "STREAM" /\ q.bodyDone => q.buf # <<>>
                   /\ pc' \in {"wait", "batch"} => Waiting'
                   /\ pc' = "onread" => Need' = "clientRead"
  BY DEF WaitInv
<1> DEFINE need == Need'
           waiting == Waiting'
<1> HIDE DEF q, pending, ends, need, waiting
<1>8. \/ need = "clientWrite" /\ io = "write"
      \/ need = "upWrite" /\ upio = "write" /\ io # "read"
      \/ need = "clientRead" /\ io = "read"
      \/ need = "upRead" /\ upio = "read" /\ io # "read"
  <2>1. \/ p.send100 /\ io = "write"
        \/ ~p.send100 /\ p.phase = "SEND_REQ" /\ upio = "write" /\ io # "read"
        \/ ~p.send100 /\ p.phase = "SEND_BODY" /\ pending # <<>> /\ upio = "write" /\ io # "read"
        \/ ~p.send100 /\ p.phase = "SEND_BODY" /\ pending = <<>> /\ p.bodyLeft > 0 /\ io = "read"
        \/ ~p.send100 /\ p.phase = "RECV_HDR" /\ ends = 0 /\ upio = "read" /\ io # "read"
        \/ ~p.send100 /\ p.phase = "STREAM" /\ p.buf = <<>> /\ upio = "read" /\ io # "read"
        \/ ~p.send100 /\ (p.phase = "SEND_RESP" \/ (p.phase = "STREAM" /\ p.buf # <<>>)) /\ io = "write"
    BY DEF Meets, pending, ends
  <2> QED BY <1>1, <1>4, <1>5, <2>1 DEF need
<1>9. pc' \in {"wait", "batch"} => waiting
  BY <1>2, <1>3, <1>6, <1>8 DEF need, waiting
<1>10. pc' = "onread" => need = "clientRead"
  BY <1>3, <1>8
<1> QED BY <1>1, <1>7, <1>9, <1>10 DEF Unended, need, waiting

\* A slot without an upstream waits for its client.
LEMMA WaitsAlone ==
    ASSUME px' = PxReset,
           \/ pc' \notin {"wait", "batch", "onread"}
           \/ pc' # "onread" /\ armed' = "write" /\ hc'.phase = "WRITE"
           \/ armed' = "read" /\ hc'.phase = "READ"
           \/ pc' = "onread" /\ hc'.phase = "READ"
    PROVE  WaitInv'
<1>1. px'.fd = NoUp /\ px'.phase # "STREAM"
  BY ResetFacts
<1>2. Need' = IF hc'.phase = "READ" THEN "clientRead" ELSE "clientWrite"
  BY <1>1 DEF Need
<1>3. Waiting' <=> \/ Need' = "clientRead" /\ armed' = "read"
                   \/ Need' = "clientWrite" /\ armed' = "write"
                   \/ Need' = "upRead" /\ px'.inEpoll /\ px'.armed = "read"
                   \/ Need' = "upWrite" /\ px'.inEpoll /\ px'.armed = "write"
  BY DEF Waiting
<1>4. WaitInv' <=> /\ px'.phase = "STREAM" /\ px'.bodyDone => px'.buf # <<>>
                   /\ pc' \in {"wait", "batch"} => Waiting'
                   /\ pc' = "onread" => Need' = "clientRead"
  BY DEF WaitInv
<1> DEFINE need == Need'
           waiting == Waiting'
<1> HIDE DEF need, waiting
<1>5. /\ pc' \in {"wait", "batch"} => waiting
      /\ pc' = "onread" => need = "clientRead"
  BY <1>2, <1>3 DEF need, waiting
<1> QED BY <1>1, <1>4, <1>5 DEF need, waiting

\* Nothing to wait for while the worker is in proxy_pump.
LEMMA WaitsNot ==
    ASSUME pc' = "pump", Unended(px')
    PROVE  WaitInv'
  BY DEF WaitInv, Unended

\* Losing the upstream leaves a connection to close or to write to.
LEMMA WaitFalls ==
    ASSUME SlotInv, px.fd # NoUp, NEW u, NEW p, NEW cause, Falls(u, p, cause)
    PROVE  WaitInv'
<1>1. hc \in HcRecords /\ hc.buf # <<>>
  BY SlotFacts
<1>2. Excused(hc) \in HcRecords /\ Excused(hc).buf = hc.buf
  BY <1>1, ExcusedFacts
<1>3. ASSUME NEW h \in {hc, Excused(hc)}, NEW sent, Drops(h, CloseUp(u, px.fd), sent)
      PROVE  WaitInv'
  <2>1. ArmFixed(h).phase = "WRITE"
    BY <1>1, <1>2, ArmFacts
  <2> QED BY <1>3, <2>1, WaitsAlone DEF Drops, Shut, At, ArmEvents
<1> QED BY <1>3 DEF Falls

\* A parked upstream leaves the slot with its next request to look for.
LEMMA WaitParks ==
    ASSUME NEW u, NEW p, Parks(u, p)
    PROVE  WaitInv'
  BY WaitsAlone DEF Parks, At

\* Within the pump nothing is waited for.
LEMMA WaitLoop ==
    ASSUME pc = "pump", NEW u, NEW p, Unended(p), NEW spent, Loop(u, p, spent)
    PROVE  WaitInv'
  BY WaitsNot DEF Loop

\* Waiting to send 100 Continue.
LEMMA WaitFlush ==
    ASSUME SlotInv, WaitInv, PumpFlush100
    PROVE  WaitInv'
<1>1. px.fd # NoUp /\ pc = "pump" /\ px.send100 /\ px \in PxRecords
  BY PumpFacts, SlotFacts DEF Pump, PumpFlush100
<1>2. Unended(px) /\ Unended([px EXCEPT !.send100 = FALSE])
  BY <1>1 DEF WaitInv, Unended, PxRecords
<1>3. Meets(px, "none", "write")
  BY <1>1 DEF Meets
<1> QED BY <1>1, <1>2, <1>3, FlushEffect, WaitLoop, WaitsMeets, WaitFalls

\* The lines after the loop arm what is needed, where Affordable holds.
LEMMA WaitBudget ==
    ASSUME SlotInv, Affordable, WaitInv, PumpBudgetOut
    PROVE  WaitInv'
<1>1. px.fd # NoUp /\ pc = "pump" /\ ~px.send100 /\ budget = 0
  BY PumpFacts DEF Pump, PumpBudgetOut
<1>2. Unended(px)
  BY DEF WaitInv, Unended
<1>3. CASE /\ px.phase = "SEND_REQ" \/ (px.phase = "SEND_BODY" /\ px.buf \o px.body # <<>>)
           /\ Waits(up, px, "write", "idle")
  <2>1. Meets(px, "write", "idle")
    BY <1>1, <1>3 DEF Meets
  <2> QED BY <1>1, <1>2, <1>3, <2>1, WaitsMeets
<1>4. CASE /\ px.phase = "SEND_BODY" /\ px.buf \o px.body = <<>> /\ px.bodyLeft > 0
           /\ Waits(up, px, "idle", "read")
  <2>1. Meets(px, "idle", "read")
    BY <1>1, <1>4 DEF Meets
  <2> QED BY <1>1, <1>2, <1>4, <2>1, WaitsMeets
<1>5. CASE /\ px.phase = "RECV_HDR" \/ (px.phase = "STREAM" /\ px.buf = <<>>)
           /\ Waits(up, px, "read", "idle")
  <2>1. px.phase = "RECV_HDR" => HdrEnd(px.buf) = 0
    BY <1>1 DEF Affordable
  <2>2. Meets(px, "read", "idle")
    BY <1>1, <1>5, <2>1 DEF Meets
  <2> QED BY <1>1, <1>2, <1>5, <2>2, WaitsMeets
<1>6. CASE /\ px.phase = "SEND_RESP" \/ (px.phase = "STREAM" /\ (px.buf # <<>> \/ px.bodyDone))
           /\ Waits(up, px, "idle", "write")
  <2>1. Meets(px, "idle", "write")
    BY <1>1, <1>2, <1>6 DEF Meets, Unended
  <2> QED BY <1>1, <1>2, <1>6, <2>1, WaitsMeets
<1> QED BY <1>1, <1>3, <1>4, <1>5, <1>6, BudgetEffect, WaitFalls

\* Waiting in PX_SEND_REQ.
LEMMA WaitSendReq ==
    ASSUME SlotInv, PumpSendReq
    PROVE  WaitInv'
<1>1. px.fd # NoUp /\ pc = "pump" /\ ~px.send100 /\ px.phase = "SEND_REQ" /\ px \in PxRecords
  BY PumpFacts, PumpingFacts, SlotFacts, Zenon DEF Pump, PumpSendReq
<1>2. PICK n \in 0 .. Len(px.hdr) :
         LET u == ToUp(px.fd, Take(px.hdr, n))
             p == HdrLess(n)
         IN  \/ Loop(u, [p EXCEPT !.phase = IF BodyPending(p) THEN "SEND_BODY" ELSE "RECV_HDR",
                                  !.buf = <<>>], 1)
             \/ Waits(u, p, "write", "idle")
             \/ Falls(u, p, up[px.fd].st # "open")
             \/ (\E c \in UpIds : Renews(c, p)) \/ Falls(up, p, FALSE)
  BY SendReqEffect, Zenon
<1> DEFINE u == ToUp(px.fd, Take(px.hdr, n))
           p == HdrLess(n)
           q == [p EXCEPT !.phase = IF BodyPending(p) THEN "SEND_BODY" ELSE "RECV_HDR", !.buf = <<>>]
<1>3. p \in PxRecords /\ p.fd = px.fd /\ p.phase = "SEND_REQ" /\ ~p.send100
  <2>1. p \in PxRecords
    BY <1>1, LessFacts
  <2> QED BY <1>1, <2>1 DEF HdrLess, PxRecords
<1> HIDE DEF p
<1>4. q.phase # "STREAM" /\ Unended(q) /\ Unended(p)
  BY <1>3 DEF Unended, PxRecords
<1> HIDE DEF u, q
<1>5. Meets(p, "write", "idle")
  BY <1>3 DEF Meets
<1>6. ASSUME NEW c \in UpIds, Renews(c, p) PROVE WaitInv'
  <2>1. pc' = "pump" /\ px' = Again(p, c)
    BY <1>1, <1>6 DEF Renews
  <2>2. Cur \in DOMAIN script /\ script \in Scripts
    BY <1>1, SlotFacts DEF SlotInv, Typed
  <2>3. px'.phase = "SEND_REQ"
    BY <1>3, <2>1, <2>2, AgainFacts
  <2> QED BY <2>1, <2>3, WaitsNot DEF Unended
<1>7. \/ Loop(u, q, 1) \/ Waits(u, p, "write", "idle") \/ Falls(u, p, up[px.fd].st # "open")
      \/ (\E c \in UpIds : Renews(c, p)) \/ Falls(up, p, FALSE)
  BY <1>2 DEF u, p, q
<1> QED BY <1>1, <1>3, <1>4, <1>5, <1>6, <1>7, WaitLoop, WaitsMeets, WaitFalls

\* Waiting in PX_SEND_BODY with body units at hand.
LEMMA WaitSendBody ==
    ASSUME SlotInv, PumpSendBody
    PROVE  WaitInv'
<1>1. px.fd # NoUp /\ pc = "pump" /\ ~px.send100 /\ px.phase = "SEND_BODY" /\ px \in PxRecords
  BY PumpFacts, PumpingFacts, SlotFacts DEF Pump, PumpSendBody
<1>2. /\ px.buf \in Seq(Units) /\ px.body \in Seq(Units) /\ Len(px.buf) \in Nat /\ Len(px.body) \in Nat
  BY <1>1, SlotTypes
<1>3. ASSUME NEW p \in {BufLess(n) : n \in 0 .. Len(px.buf)} \cup {BodyLess(n) : n \in 0 .. Len(px.body)}
      PROVE  p.fd = px.fd /\ p.phase = "SEND_BODY" /\ ~p.send100 /\ Unended(p)
  <2>1. CASE p \in {BufLess(n) : n \in 0 .. Len(px.buf)}
    BY <1>1, <2>1 DEF BufLess, PxRecords, Unended
  <2>2. CASE p \in {BodyLess(n) : n \in 0 .. Len(px.body)}
    BY <1>1, <2>2 DEF BodyLess, PxRecords, Unended
  <2> QED BY <1>3, <2>1, <2>2
<1>4. CASE \E n \in 0 .. Len(px.buf) :
              LET u == ToUp(px.fd, Take(px.buf, n))
              IN  \/ Loop(u, BufLess(n), 1)
                  \/ n < Len(px.buf) /\ Waits(u, BufLess(n), "write", "idle")
                  \/ Falls(u, BufLess(n), up[px.fd].st # "open")
  <2>1. PICK n \in 0 .. Len(px.buf) :
              LET u == ToUp(px.fd, Take(px.buf, n))
              IN  \/ Loop(u, BufLess(n), 1)
                  \/ n < Len(px.buf) /\ Waits(u, BufLess(n), "write", "idle")
                  \/ Falls(u, BufLess(n), up[px.fd].st # "open")
    BY <1>4
  <2>2. BufLess(n) \in PxRecords /\ BufLess(n).buf = Drop(px.buf, n)
    BY <1>1, LessFacts
  <2>3. ASSUME n < Len(px.buf) PROVE Meets(BufLess(n), "write", "idle")
    <3>1. Drop(px.buf, n) \in Seq(Units) /\ Len(Drop(px.buf, n)) = Len(px.buf) - n
      BY <1>2, DropFacts
    <3>2. BufLess(n).body \in Seq(Units)
      BY <2>2 DEF PxRecords
    <3>3. Drop(px.buf, n) # <<>>
      BY <1>2, <2>3, <3>1
    <3>4. BufLess(n).buf \o BufLess(n).body # <<>>
      BY <2>2, <3>1, <3>2, <3>3, EmptyCat
    <3> QED BY <1>3, <3>4 DEF Meets
  <2>4. BufLess(n).fd = px.fd /\ Unended(BufLess(n))
    BY <1>3
  <2> QED BY <1>1, <2>1, <2>3, <2>4, WaitLoop, WaitsMeets, WaitFalls
<1>5. CASE \E n \in 0 .. Len(px.body) :
              LET u == ToUp(px.fd, Take(px.body, n))
              IN  \/ Loop(u, BodyLess(n), 1)
                  \/ n < Len(px.body) /\ Waits(u, BodyLess(n), "write", "idle")
                  \/ Falls(u, BodyLess(n), up[px.fd].st # "open")
  <2>1. PICK n \in 0 .. Len(px.body) :
              LET u == ToUp(px.fd, Take(px.body, n))
              IN  \/ Loop(u, BodyLess(n), 1)
                  \/ n < Len(px.body) /\ Waits(u, BodyLess(n), "write", "idle")
                  \/ Falls(u, BodyLess(n), up[px.fd].st # "open")
    BY <1>5
  <2>2. BodyLess(n) \in PxRecords /\ BodyLess(n).body = Drop(px.body, n)
    BY <1>1, LessFacts
  <2>3. ASSUME n < Len(px.body) PROVE Meets(BodyLess(n), "write", "idle")
    <3>1. Drop(px.body, n) \in Seq(Units) /\ Len(Drop(px.body, n)) = Len(px.body) - n
      BY <1>2, DropFacts
    <3>2. BodyLess(n).buf \in Seq(Units)
      BY <2>2 DEF PxRecords
    <3>3. Drop(px.body, n) # <<>>
      BY <1>2, <2>3, <3>1
    <3>4. BodyLess(n).buf \o BodyLess(n).body # <<>>
      BY <2>2, <3>1, <3>2, <3>3, EmptyCat
    <3> QED BY <1>3, <3>4 DEF Meets
  <2>4. BodyLess(n).fd = px.fd /\ Unended(BodyLess(n))
    BY <1>3
  <2> QED BY <1>1, <2>1, <2>3, <2>4, WaitLoop, WaitsMeets, WaitFalls
<1> QED BY <1>4, <1>5, SendBodyEffect

\* Waiting in PX_SEND_BODY for the client.
LEMMA WaitReadBody ==
    ASSUME SlotInv, PumpReadBody
    PROVE  WaitInv'
<1>1. px.fd # NoUp /\ pc = "pump" /\ ~px.send100 /\ px.phase = "SEND_BODY" /\ px \in PxRecords
  BY PumpFacts, PumpingFacts, SlotFacts, Zenon DEF Pump, PumpReadBody
<1>2. px.buf \o px.body = <<>> /\ px.bodyLeft > 0
  BY ReadBodyEffect
<1>3. Meets(px, "idle", "read") /\ Unended(px)
  BY <1>1, <1>2 DEF Meets, Unended
<1>4. \A n : Unended(BodyRead(n))
  BY <1>1 DEF BodyRead, Unended, PxRecords
<1> QED BY <1>1, <1>3, <1>4, ReadBodyEffect, WaitLoop, WaitsMeets, WaitFalls

\* The end of the body.
LEMMA WaitBodySent ==
    ASSUME SlotInv, PumpBodySent
    PROVE  WaitInv'
<1>1. pc = "pump" /\ px \in PxRecords
  BY PumpFacts, SlotFacts DEF Pump
<1>2. Unended([px EXCEPT !.phase = "RECV_HDR"])
  BY <1>1 DEF Unended, PxRecords
<1> QED BY <1>1, <1>2, WaitLoop DEF PumpBodySent

\* A header block that is whole leads on, or out.
LEMMA WaitHeader ==
    ASSUME SlotInv, px.fd # NoUp, pc = "pump", px.phase = "RECV_HDR", NEW u, NEW p \in PxRecords, p.phase = "RECV_HDR",
           HdrEnd(p.buf) # 0, Header(u, p, HdrEnd(p.buf))
    PROVE  WaitInv'
<1> DEFINE at == HdrEnd(p.buf)
<1>1. at \in 1 .. Len(p.buf)
  <2>1. p.buf \in Seq(Units)
    BY DEF PxRecords
  <2> QED BY <2>1, HdrEndFacts
<1>2. Unended([p EXCEPT !.buf = Drop(p.buf, at)])
  BY DEF Unended, PxRecords
<1>3. p.buf[at].k = "hend" => Unended(FinalHeader(p, at))
  BY <1>1, FinalBody DEF Unended
<1> HIDE DEF at
<1>4. \/ \E spent \in {0, 1} : Loop(u, [p EXCEPT !.buf = Drop(p.buf, at)], spent)
      \/ p.buf[at].k = "hend" /\ \E spent \in {0, 1} : Loop(u, FinalHeader(p, at), spent)
      \/ \E cause : Falls(u, p, cause)
  BY DEF Header, at
<1> QED BY <1>2, <1>3, <1>4, WaitLoop, WaitFalls

\* Waiting in PX_RECV_HDR.
LEMMA WaitRecvHdr ==
    ASSUME SlotInv, PumpRecvHdr
    PROVE  WaitInv'
<1>1. px.fd # NoUp /\ pc = "pump" /\ ~px.send100 /\ px.phase = "RECV_HDR" /\ px \in PxRecords
  BY PumpFacts, PumpingFacts, SlotFacts, Zenon DEF Pump, PumpRecvHdr
<1>2. CASE HdrEnd(px.buf) # 0 /\ Header(up, px, HdrEnd(px.buf))
  BY <1>1, <1>2, WaitHeader
<1>3. CASE HdrEnd(px.buf) = 0 /\ Falls(up, px, Len(px.buf) >= BufMax)
  BY <1>1, <1>3, WaitFalls
<1>4. CASE \E n \in 1 .. Len(up[px.fd].in) :
              LET p == AnswerRead(n)
                  u == Emptied(n)
              IN  /\ n <= BufMax - Len(px.buf)
                  /\ \/ HdrEnd(p.buf) # 0 /\ Header(u, p, HdrEnd(p.buf))
                     \/ Falls(u, p, Len(p.buf) >= BufMax)
                     \/ Loop(u, p, 1)
  <2>1. PICK n \in 1 .. Len(up[px.fd].in) :
              LET p == AnswerRead(n)
                  u == Emptied(n)
              IN  /\ n <= BufMax - Len(px.buf)
                  /\ \/ HdrEnd(p.buf) # 0 /\ Header(u, p, HdrEnd(p.buf))
                     \/ Falls(u, p, Len(p.buf) >= BufMax)
                     \/ Loop(u, p, 1)
    BY <1>4
  <2>2. n \in 0 .. Len(up[px.fd].in)
    BY <1>1, SlotTypes
  <2>3. AnswerRead(n) \in PxRecords /\ AnswerRead(n).phase = "RECV_HDR"
    BY <1>1, <2>1, <2>2, AnswerReadSame
  <2>4. Unended(AnswerRead(n))
    BY <2>3 DEF Unended
  <2> QED BY <1>1, <2>1, <2>3, <2>4, WaitHeader, WaitLoop, WaitFalls
<1>5. CASE HdrEnd(px.buf) = 0 /\ Waits(up, px, "read", "idle")
  <2>1. Meets(px, "read", "idle") /\ Unended(px)
    BY <1>1, <1>5 DEF Meets, Unended
  <2> QED BY <1>1, <1>5, <2>1, WaitsMeets
<1>6. CASE Falls(up, px, up[px.fd].st # "open")
  BY <1>1, <1>6, WaitFalls
<1>7. ASSUME NEW c \in UpIds, Renews(c, px) PROVE WaitInv'
  <2>1. pc' = "pump" /\ px' = Again(px, c)
    BY <1>1, <1>7 DEF Renews
  <2>2. Cur \in DOMAIN script /\ script \in Scripts
    BY <1>1, SlotFacts DEF SlotInv, Typed
  <2>3. px'.phase = "SEND_REQ"
    BY <1>1, <2>1, <2>2, AgainFacts
  <2> QED BY <2>1, <2>3, WaitsNot DEF Unended
<1> QED BY <1>2, <1>3, <1>4, <1>5, <1>6, <1>7, RecvHdrEffect, Zenon

\* Waiting in PX_SEND_RESP with the whole response.
LEMMA WaitGathered ==
    ASSUME SlotInv, PumpSendGathered
    PROVE  WaitInv'
<1>1. px.fd # NoUp /\ pc = "pump" /\ ~px.send100 /\ px.phase = "SEND_RESP" /\ px \in PxRecords
  BY PumpFacts, PumpingFacts, SlotFacts, Zenon DEF Pump, PumpSendGathered
<1>2. Meets(px, "none", "write") /\ Unended(px)
  BY <1>1 DEF Meets, Unended
<1>3. \A n \in 1 .. Len(px.hdr) + Len(px.buf) : Unended(Gathered(n))
  BY <1>1, GatheredFacts DEF Unended
<1> QED BY <1>1, <1>2, <1>3, GatheredEffect, WaitParks, WaitLoop, WaitsMeets, WaitFalls

\* Waiting in PX_SEND_RESP with the header alone.
LEMMA WaitSendHdr ==
    ASSUME SlotInv, PumpSendHdr
    PROVE  WaitInv'
<1>1. px.fd # NoUp /\ pc = "pump" /\ ~px.send100 /\ px.phase = "SEND_RESP" /\ ~px.bodyDone /\ px \in PxRecords
  BY PumpFacts, PumpingFacts, SlotFacts, Zenon DEF Pump, PumpSendHdr
<1>2. PICK n \in 0 .. Len(px.hdr) :
         \/ Loop(up, [HdrSent(n) EXCEPT !.phase = "STREAM"], 1)
         \/ Waits(up, HdrSent(n), "idle", "write")
         \/ Falls(up, HdrSent(n), client.st # "open")
  BY SendHdrEffect, Zenon
<1>3. /\ HdrSent(n) \in PxRecords /\ HdrSent(n).fd = px.fd /\ HdrSent(n).phase = px.phase
      /\ HdrSent(n).send100 = px.send100 /\ HdrSent(n).bodyDone = px.bodyDone
  BY <1>1, HdrSentFacts
<1> DEFINE q == HdrSent(n)
<1> HIDE DEF q
<1>4. Unended([q EXCEPT !.phase = "STREAM"]) /\ Unended(q) /\ Meets(q, "idle", "write")
  BY <1>1, <1>3 DEF q, PxRecords, Unended, Meets
<1> QED BY <1>1, <1>2, <1>3, <1>4, WaitLoop, WaitsMeets, WaitFalls DEF q

\* Waiting in PX_STREAM for the client.
LEMMA WaitStreamOut ==
    ASSUME SlotInv, PumpStreamOut
    PROVE  WaitInv'
<1>1. px.fd # NoUp /\ pc = "pump" /\ ~px.send100 /\ px.phase = "STREAM" /\ px \in PxRecords /\ px.buf \in Seq(Units)
  BY PumpFacts, PumpingFacts, SlotFacts, SlotTypes, Zenon DEF Pump, PumpStreamOut
<1>2. PICK n \in 0 .. Len(px.buf) :
         \/ Parks(up, BufSent(n))
         \/ ~px.bodyDone /\ Loop(up, BufSent(n), 1)
         \/ n < Len(px.buf) /\ Waits(up, BufSent(n), "idle", "write")
         \/ Falls(up, BufSent(n), FALSE)
  BY StreamOutEffect, Zenon
<1>3. /\ BufSent(n).fd = px.fd /\ BufSent(n).phase = px.phase /\ BufSent(n).buf = Drop(px.buf, n)
      /\ BufSent(n).send100 = px.send100 /\ BufSent(n).bodyDone = px.bodyDone
  BY <1>1, BufSentFacts
<1>4. n < Len(px.buf) => Drop(px.buf, n) # <<>>
  <2>1. Len(Drop(px.buf, n)) = Len(px.buf) - n /\ Len(px.buf) \in Nat
    BY <1>1, DropFacts
  <2> QED BY <2>1
<1>5. n < Len(px.buf) => Unended(BufSent(n)) /\ Meets(BufSent(n), "idle", "write")
  BY <1>1, <1>3, <1>4 DEF Unended, Meets
<1>6. ~px.bodyDone => Unended(BufSent(n))
  BY <1>3 DEF Unended
<1> QED BY <1>1, <1>2, <1>3, <1>5, <1>6, WaitParks, WaitLoop, WaitsMeets, WaitFalls

\* note_body never ends a body with nothing left to forward: a Content-Length body is not read
\* past its end, and the last chunk is in the buffer.
LEMMA WaitStreamIn ==
    ASSUME SlotInv, WaitInv, PumpStreamIn
    PROVE  WaitInv'
<1>1. px.fd # NoUp /\ pc = "pump" /\ ~px.send100 /\ px.phase = "STREAM" /\ px.buf = <<>> /\ px \in PxRecords
  BY PumpFacts, PumpingFacts, SlotFacts, Zenon DEF Pump, PumpStreamIn
<1>2. CASE \E n \in 1 .. Len(up[px.fd].in) :
              /\ n <= BufMax /\ (px.framing = "cl" => n <= px.respLeft)
              /\ Falls(Emptied(n), px, FALSE) \/ Loop(Emptied(n), Noted(n), 1)
  <2>1. PICK n \in 1 .. Len(up[px.fd].in) :
              /\ n <= BufMax /\ (px.framing = "cl" => n <= px.respLeft)
              /\ Falls(Emptied(n), px, FALSE) \/ Loop(Emptied(n), Noted(n), 1)
    BY <1>2
  <2> DEFINE us == Take(up[px.fd].in, n)
             p == [px EXCEPT !.buf = us]
             q == Noted(n)
  <2>2. n \in 0 .. Len(up[px.fd].in) /\ n \in Nat /\ up[px.fd].in \in Seq(Units) /\ px.respLeft \in Nat
    BY <1>1, SlotTypes
  <2>3. us \in Seq(Units) /\ Len(us) = n
    BY <2>2, TakeFacts
  <2>4. PICK end \in 0 .. Len(us) : Ended(q, p, us, end)
    BY <1>1, <2>1, NotedFacts
  <2>5. p.framing = px.framing /\ p.respLeft = px.respLeft
    BY <1>1 DEF PxRecords
  <2> HIDE DEF us, p, q
  <2>6. q.bodyDone => end # 0
    <3>1. ~Chunked(p) /\ p.framing = "cl" /\ p.respLeft = end => end # 0
      BY <2>1, <2>2, <2>3, <2>5
    <3>2. Chunked(p) => p.framing # "cl"
      BY DEF Chunked
    <3>3. q.bodyDone <=> \/ Chunked(p) /\ \E i \in 1 .. Len(us) : us[i].k = "z"
                         \/ p.framing = "cl" /\ p.respLeft = end
      BY <2>4 DEF Ended
    <3>4. Chunked(p) /\ (\E i \in 1 .. Len(us) : us[i].k = "z") => end # 0
      BY <2>4 DEF Ended
    <3> QED BY <3>1, <3>2, <3>3, <3>4
  <2>7. q.buf = Take(us, end)
    BY <2>4 DEF Ended
  <2>8. Len(Take(us, end)) = end
    BY <2>3, TakeFacts
  <2>9. Unended(q)
    BY <2>6, <2>7, <2>8 DEF Unended
  <2> QED BY <1>1, <2>1, <2>9, WaitLoop, WaitFalls DEF q
<1>3. CASE Waits(up, px, "read", "idle") \/ Falls(up, px, FALSE) \/ Parks(up, px)
  <2>1. Meets(px, "read", "idle") /\ Unended(px)
    BY <1>1 DEF Meets, Unended, WaitInv
  <2> QED BY <1>1, <1>3, <2>1, WaitsMeets, WaitFalls, WaitParks
<1> QED BY <1>2, <1>3, StreamInEffect, Zenon

\* Every turn of the pump keeps WaitInv.
LEMMA WaitPump ==
    ASSUME SlotInv, Affordable, WaitInv, Pump
    PROVE  WaitInv'
  BY WaitFlush, WaitBudget, WaitSendReq, WaitSendBody, WaitReadBody, WaitBodySent, WaitRecvHdr,
     WaitGathered, WaitSendHdr, WaitStreamOut, WaitStreamIn DEF Pump

\* Nothing of what the slot waits for changes, nor what is armed for it.
LEMMA WaitStays ==
    ASSUME WaitInv, UNCHANGED <<px, armed>>, hc'.phase = hc.phase,
           \/ pc' = pc
           \/ pc \in {"wait", "batch"} /\ pc' \in {"wait", "batch"}
           \/ pc' \in {"pump", "onwrite", "closed"}
           \/ pc' = "onread" /\ Need = "clientRead"
    PROVE  WaitInv'
<1>1. Need' = Need
  BY DEF Need
<1>2. Waiting' <=> Waiting
  BY <1>1 DEF Waiting
<1> QED BY <1>1, <1>2 DEF WaitInv

\* Without an upstream the connection's phase says what is armed.
LEMMA WaitIdles ==
    ASSUME NEW h, NEW io, io = "read" => h.phase = "READ", io = "write" => h.phase = "WRITE", Idles(h, io)
    PROVE  WaitInv'
<1>1. px' = PxReset /\ hc' = h
  BY DEF Idles
<1>2. \/ pc' \notin {"wait", "batch", "onread"}
      \/ pc' = "onread" /\ io = "read"
      \/ pc' # "onread" /\ armed' = io /\ io \in {"read", "write"}
  BY DEF Idles, Shut, At, ArmEvents
<1> QED BY <1>1, <1>2, WaitsAlone

\* Dispatching a request.
LEMMA WaitDispatch ==
    ASSUME SlotInv, px.fd = NoUp, NEW h \in HcRecords, h.buf # <<>>, h.phase = "READ", Dispatch(h)
    PROVE  WaitInv'
<1>1. script \in Scripts
  BY DEF SlotInv, Typed
<1>2. Static(h).phase = "WRITE" /\ ArmFixed(h).phase = "WRITE" /\ ArmFixed(Excused(h)).phase = "WRITE"
  BY <1>1, StaticFacts, ArmFacts, ExcusedFacts
<1>3. ASSUME NEW c \in UpIds, Begins(h, c) PROVE WaitInv'
  <2>1. pc' = "pump" /\ \E old \in BOOLEAN : px' = Fresh(h, c, old)
    BY <1>3 DEF Begins, At
  <2>2. px'.phase = "SEND_REQ"
    BY <1>1, <2>1, FreshFacts
  <2> QED BY <2>1, <2>2, WaitsNot DEF Unended
<1> QED BY <1>2, <1>3, DispatchEffect, WaitIdles, Zenon

\* http_conn_on_read.
LEMMA WaitOnRead ==
    ASSUME SlotInv, Quiet, WaitInv, OnRead
    PROVE  WaitInv'
<1>1. pc = "onread" /\ hc.phase = "READ" /\ hc \in HcRecords
  BY DEF OnRead, SlotInv, Control, Typed
<1>2. CASE px.fd # NoUp /\ (Waits(up, px, "none", "read") \/ Falls(up, px, FALSE))
  <2>1. Unended(px) /\ Need = "clientRead"
    BY <1>1 DEF WaitInv, Unended
  <2>2. Meets(px, "none", "read")
    BY <1>2, <2>1 DEF Need, Meets
  <2> QED BY <1>2, <2>1, <2>2, WaitsMeets, WaitFalls
<1>3. CASE Len(hc.buf) >= HeaderCap /\ Idles(ArmFixed(hc), "write")
  <2>1. Len(hc.buf) \in Nat /\ HeaderCap \in Nat \ {0}
    BY <1>1, SizesAssumption DEF HcRecords
  <2>2. hc.buf # <<>>
    BY <1>3, <2>1
  <2>3. ArmFixed(hc).phase = "WRITE"
    BY <1>1, <2>2, ArmFacts
  <2> QED BY <1>3, <2>3, WaitIdles
<1>4. CASE Idles(hc, "read") \/ Idles(hc, "close")
  BY <1>1, <1>4, WaitIdles
<1>5. CASE /\ px.fd = NoUp
           /\ \E n \in 1 .. Len(client.in) : n <= HeaderCap - Len(hc.buf) /\ Dispatch(Filled(n))
  <2>1. PICK n \in 1 .. Len(client.in) : n <= HeaderCap - Len(hc.buf) /\ Dispatch(Filled(n))
    BY <1>5
  <2>2. Filled(n) \in HcRecords /\ Filled(n).buf # <<>> /\ Filled(n).phase = "READ"
    BY <1>1, <2>1, FilledFacts
  <2> QED BY <1>5, <2>1, <2>2, WaitDispatch
<1> QED BY <1>2, <1>3, <1>4, <1>5, OnReadEffect, Zenon

\* http_conn_on_write.
LEMMA WaitOnWrite ==
    ASSUME SlotInv, OnWrite
    PROVE  WaitInv'
<1>1. PICK n \in 0 .. Len(hc.left), io \in {"write", "done", "close"} : Idles(Written(n), io)
  BY OnWriteEffect
<1>2. Written(n).phase = "WRITE"
  <2>1. hc \in HcRecords /\ hc.phase = "WRITE"
    BY OnWriteEffect DEF SlotInv, Typed
  <2> QED BY <2>1, WrittenFacts
<1> QED BY <1>1, <1>2, WaitIdles

\* http_conn_reuse.
LEMMA WaitReuse ==
    ASSUME SlotInv, Reuse
    PROVE  WaitInv'
<1>1. px.fd = NoUp /\ hc.buf # <<>> /\ hc.buf \in Seq(Units)
  BY ReuseEffect DEF SlotInv, Typed, HcRecords
<1>2. CASE Shut(CloseUp(up, px.fd))
  BY <1>2, WaitsAlone DEF Shut
<1>3. CASE Idles(HcReset(<<>>), "read")
  <2>1. <<>> \in Seq(Units)
    OBVIOUS
  <2> QED BY <1>3, <2>1, HcResetFacts, WaitIdles
<1>4. CASE Len(hc.buf) > 1 /\ Dispatch(HcReset(Tail(hc.buf)))
  <2>1. Tail(hc.buf) \in Seq(Units) /\ Len(Tail(hc.buf)) = Len(hc.buf) - 1 /\ Len(hc.buf) \in Nat
    BY <1>1, TailFacts
  <2> DEFINE t == Tail(hc.buf)
  <2> HIDE DEF t
  <2>2. t # <<>>
    <3>1. Len(t) = Len(hc.buf) - 1 /\ Len(hc.buf) > 1
      BY <1>4, <2>1 DEF t
    <3> QED BY <2>1, <3>1
  <2>3. HcReset(t) \in HcRecords /\ HcReset(t).buf = t /\ HcReset(t).phase = "READ"
    BY <2>1, HcResetFacts DEF t
  <2> QED BY <1>1, <1>4, <2>2, <2>3, WaitDispatch DEF t
<1> QED BY <1>2, <1>3, <1>4, ReuseEffect

\* WaitInv is inductive where the budget suffices, given SlotInv.
LEMMA WaitNext ==
    ASSUME SlotInv, Quiet, Affordable, WaitInv, [Next]_vars
    PROVE  WaitInv'
<1>1. CASE Peers
  BY <1>1, WaitStays, Zenon DEF Peers, ClientSend, ClientLeave, UpAnswer, UpSend, UpLeave, slotVars
<1>2. CASE EpollWait
  BY <1>2, WaitStays DEF EpollWait
<1>3. CASE HandleEvent
  <2>1. CASE Shut(CloseUp(up, px.fd))
    BY <2>1, WaitsAlone DEF Shut
  <2>2. CASE /\ pc = "batch" /\ UNCHANGED <<px, armed, hc>>
             /\ \/ pc' \in {"pump", "onwrite", "wait", "batch"}
                \/ pc' = "onread" /\ px.fd = NoUp /\ hc.phase = "READ"
    <3>1. px.fd = NoUp /\ hc.phase = "READ" => Need = "clientRead"
      BY DEF Need
    <3> QED BY <2>2, <3>1, WaitStays
  <2> QED BY <1>3, <2>1, <2>2, HandleEffect
<1>4. CASE Timeout \/ WorkerExit
  BY <1>4, WaitsAlone DEF Timeout, WorkerExit, SlotClose
<1>5. CASE UNCHANGED vars
  BY <1>5, WaitStays DEF vars, slotVars
<1> QED BY <1>1, <1>2, <1>3, <1>4, <1>5, WaitPump, WaitOnRead, WaitOnWrite, WaitReuse DEF Next

\* WaitInv holds at the start.
LEMMA WaitInit ==
    ASSUME Init
    PROVE  WaitInv
<1>1. px = PxReset /\ pc = "onread" /\ hc.phase = "READ"
  BY DEF Init, HcReset
<1>2. px.fd = NoUp /\ px.phase # "STREAM"
  BY <1>1, ResetFacts
<1> QED BY <1>1, <1>2 DEF WaitInv, Need

\* As long as the pump's budget does not end where its last lines have no answer, the worker
\* goes back to epoll_wait only with an end armed that the phase of the exchange waits for.
THEOREM WaitsForNeedHolds == Spec /\ []Quiet /\ []Affordable => []WaitsForNeed
<1>1. Init => WaitInv
  BY WaitInit
<1>2. SlotInv /\ Quiet /\ Affordable /\ WaitInv /\ [Next]_vars => WaitInv'
  BY WaitNext
<1>3. WaitInv => WaitsForNeed
  BY DEF WaitInv, WaitsForNeed
<1> QED BY <1>1, <1>2, <1>3, SlotInvariant, PTL DEF Spec

-----------------------------------------------------------------------------
(* What the pump does to the request. *)

Unsent == \A c \in UpIds : up'[c].got = up[c].got
Sent(us) == \A c \in UpIds : up'[c].got = IF c = px.fd THEN up[c].got \o us ELSE up[c].got
Answering == {"RECV_HDR", "SEND_RESP", "STREAM"}
SameBody == px'.body = px.body /\ px'.bodyLeft = px.bodyLeft

\* The exchange ends, or goes on without a byte of the request being moved.
Ceases == client' = client /\ Unsent /\ px'.fd = NoUp
Continues ==
    /\ client' = client /\ Unsent /\ px'.fd = px.fd /\ SameBody
    /\ \/ px'.phase = px.phase /\ px'.hdr = px.hdr /\ px'.buf = px.buf
       \/ px.phase = "SEND_BODY" /\ px.buf = <<>> /\ px.body = <<>> /\ px.bodyLeft = 0 /\ px'.phase = "RECV_HDR"
       \/ px.phase \in Answering /\ px'.phase \in Answering
SendsHdr ==
    /\ client' = client /\ px.phase = "SEND_REQ"
    /\ \E n \in 0 .. Len(px.hdr) :
          /\ Sent(Take(px.hdr, n))
          /\ \/ px'.fd = NoUp
             \/ /\ px'.fd = px.fd /\ px'.hdr = Drop(px.hdr, n) /\ SameBody
                /\ \/ n < Len(px.hdr) /\ px'.phase = "SEND_REQ" /\ px'.buf = px.buf
                   \/ /\ n = Len(px.hdr) /\ px'.buf = <<>>
                      /\ px'.phase = IF BodyPending(px) THEN "SEND_BODY" ELSE "RECV_HDR"
SendsBody ==
    /\ client' = client /\ px.phase = "SEND_BODY"
    /\ \/ \E n \in 0 .. Len(px.buf) :
             /\ px.buf # <<>> /\ Sent(Take(px.buf, n))
             /\ \/ px'.fd = NoUp
                \/ px'.fd = px.fd /\ px'.phase = "SEND_BODY" /\ px'.buf = Drop(px.buf, n) /\ SameBody
       \/ \E n \in 0 .. Len(px.body) :
             /\ px.buf = <<>> /\ Sent(Take(px.body, n))
             /\ \/ px'.fd = NoUp
                \/ /\ px'.fd = px.fd /\ px'.phase = "SEND_BODY" /\ px'.buf = px.buf
                   /\ px'.body = Drop(px.body, n) /\ px'.bodyLeft = px.bodyLeft
ReadsBody ==
    /\ px.phase = "SEND_BODY" /\ px.buf = <<>> /\ px.body = <<>> /\ Unsent
    /\ \E n \in 1 .. Len(client.in) :
          /\ n <= px.bodyLeft /\ client' = [client EXCEPT !.in = Drop(@, n)]
          /\ px'.fd = px.fd /\ px'.phase = "SEND_BODY" /\ px'.buf = Take(client.in, n)
          /\ px'.body = px.body /\ px'.bodyLeft = px.bodyLeft - n
Restarts ==
    /\ client' = client /\ Unsent /\ px'.fd \in UpIds /\ px'.fd # px.fd /\ up[px'.fd].got = <<>>
    /\ px'.phase = "SEND_REQ" /\ px'.hdr = Take(UpUnits(Cur), 2) /\ px'.buf = px.buf /\ SameBody
    /\ \/ px.phase = "SEND_REQ" /\ Len(px.hdr) >= 2
       \/ px.phase = "RECV_HDR" /\ MayRetry(px)
RequestStep ==
    /\ script' = script /\ hc'.buf = hc.buf
    /\ Ceases \/ Continues \/ SendsHdr \/ SendsBody \/ ReadsBody \/ Restarts

\* Losing the upstream sends nothing.
LEMMA FallsGot ==
    ASSUME SlotInv, px.fd # NoUp, NEW u \in [UpIds -> UpRecords], NEW p, NEW cause, Falls(u, p, cause)
    PROVE  px'.fd = NoUp /\ hc'.buf = hc.buf /\ \A c \in UpIds : up'[c].got = u[c].got
<1>1. Dropped(CloseUp(u, px.fd))
  BY DropsFacts DEF Falls
<1>2. px'.fd = NoUp /\ hc'.buf = hc.buf /\ up' = CloseUp(u, px.fd)
  BY <1>1, ResetFacts DEF Dropped
<1>3. px.fd \in UpIds
  BY SlotFacts
<1> DEFINE g == CloseUp(u, px.fd)
<1>4. g[px.fd].got = u[px.fd].got /\ \A c \in UpIds : c # px.fd => g[c] = u[c]
  BY <1>3, ClosedUp
<1> HIDE DEF g
<1>5. up' = g
  BY <1>2 DEF g
<1> QED BY <1>2, <1>4, <1>5

\* Losing the upstream ends the request there.
LEMMA FallsCeases ==
    ASSUME SlotInv, px.fd # NoUp, script' = script, client' = client, NEW u \in [UpIds -> UpRecords],
           \A c \in UpIds : u[c].got = up[c].got, NEW p, NEW cause, Falls(u, p, cause)
    PROVE  RequestStep
  BY FallsGot DEF RequestStep, Ceases, Unsent

\* Waiting leaves the request as it is.
LEMMA WaitsContinues ==
    ASSUME script' = script, client' = client, NEW upio, NEW io, Waits(up, px, upio, io)
    PROVE  RequestStep
  BY DEF RequestStep, Continues, Unsent, SameBody, Waits, Like

\* Parking the upstream ends the request there.
LEMMA ParksCeases ==
    ASSUME SlotInv, px.fd # NoUp, script' = script, client' = client, NEW p, p.fd = px.fd, Parks(up, p)
    PROVE  RequestStep
<1>1. px.fd \in UpIds /\ up \in [UpIds -> UpRecords] /\ hc \in HcRecords
  BY SlotFacts, SlotTypes
<1>2. px'.fd = NoUp
  BY ResetFacts DEF Parks
<1>3. hc'.buf = hc.buf
  BY <1>1 DEF Parks, HcRecords
<1> DEFINE g == CloseUp(up, px.fd)
<1>4. g[px.fd].got = up[px.fd].got /\ \A c \in UpIds : c # px.fd => g[c] = up[c]
  BY <1>1, ClosedUp
<1>5. up' = up \/ up' = g
  BY DEF Parks
<1> HIDE DEF g
<1>6. Unsent
  BY <1>4, <1>5 DEF Unsent
<1> QED BY <1>2, <1>3, <1>6 DEF RequestStep, Ceases

\* A send is the only way an upstream gets units.
LEMMA SentGot ==
    ASSUME SlotInv, px.fd # NoUp, NEW us \in Seq(Units)
    PROVE  LET u == ToUp(px.fd, us)
           IN  /\ u \in [UpIds -> UpRecords]
               /\ \A c \in UpIds : u[c].got = IF c = px.fd THEN up[c].got \o us ELSE up[c].got
<1>1. px.fd \in UpIds /\ up \in [UpIds -> UpRecords]
  BY SlotTypes
<1> DEFINE g == ToUp(px.fd, us)
<1>2. g \in [UpIds -> UpRecords] /\ g[px.fd].got = up[px.fd].got \o us /\ \A c \in UpIds : c # px.fd => g[c] = up[c]
  BY <1>1, SentUp
<1> HIDE DEF g
<1>3. \A c \in UpIds : g[c].got = IF c = px.fd THEN up[c].got \o us ELSE up[c].got
  BY <1>2
<1> QED BY <1>2, <1>3 DEF g

\* A read sends nothing.
LEMMA EmptiedGot ==
    ASSUME SlotInv, px.fd # NoUp, NEW n \in 0 .. Len(up[px.fd].in)
    PROVE  Emptied(n) \in [UpIds -> UpRecords] /\ \A c \in UpIds : Emptied(n)[c].got = up[c].got
<1>1. px.fd \in UpIds /\ up \in [UpIds -> UpRecords]
  BY SlotTypes
<1> DEFINE g == [up EXCEPT ![px.fd].in = Drop(@, n)]
<1>2. g \in [UpIds -> UpRecords] /\ g[px.fd].got = up[px.fd].got /\ \A c \in UpIds : c # px.fd => g[c] = up[c]
  BY <1>1, ReadUp
<1> QED BY <1>2 DEF Emptied

\* proxy_reopen starts the request over on a socket that has nothing.
LEMMA RenewsRestarts ==
    ASSUME SlotInv, px.fd # NoUp, script' = script, client' = client, NEW c \in UpIds, NEW p \in PxRecords,
           p.fd = px.fd, p.body = px.body, p.bodyLeft = px.bodyLeft, p.buf = px.buf, Renews(c, p),
           \/ px.phase = "SEND_REQ" /\ Len(px.hdr) >= 2
           \/ px.phase = "RECV_HDR" /\ MayRetry(px)
    PROVE  RequestStep
<1>1. /\ c # px.fd /\ up[c].st = "unused" /\ up'[c].got = <<>> /\ up'[px.fd].got = up[px.fd].got
      /\ \A d \in UpIds : d # c /\ d # px.fd => up'[d] = up[d]
  BY RenewedUp
<1>2. up[c].got = <<>>
  BY <1>1 DEF SlotInv, Owned
<1>3. Unsent
  BY <1>1, <1>2 DEF Unsent
<1>4. px' = Again(p, c) /\ hc' = hc
  BY DEF Renews
<1>5. script \in Scripts /\ Cur \in DOMAIN script
  BY SlotFacts, SlotTypes
<1>6. LET q == Again(p, c)
      IN  /\ q.fd = c /\ q.phase = "SEND_REQ" /\ q.hdr = Take(UpUnits(Cur), 2)
          /\ q.buf = p.buf /\ q.body = p.body /\ q.bodyLeft = p.bodyLeft
  BY <1>5, AgainFacts
<1>7. /\ px'.fd = c /\ px'.phase = "SEND_REQ" /\ px'.hdr = Take(UpUnits(Cur), 2)
      /\ px'.buf = px.buf /\ px'.body = px.body /\ px'.bodyLeft = px.bodyLeft
  BY <1>4, <1>6
<1>8. Restarts
  BY <1>1, <1>2, <1>3, <1>7 DEF Restarts, SameBody
<1> QED BY <1>4, <1>8 DEF RequestStep

\* 100 Continue leaves the request as it is.
LEMMA RequestFlush ==
    ASSUME SlotInv, PumpFlush100
    PROVE  RequestStep
<1>1. script' = script /\ client' = client /\ px.fd # NoUp /\ up \in [UpIds -> UpRecords] /\ px \in PxRecords
  BY PumpFacts, SlotTypes, FlushEffect DEF Pump
<1>2. \/ Loop(up, [px EXCEPT !.send100 = FALSE], 0)
      \/ Waits(up, px, "none", "write")
      \/ Falls(up, px, FALSE)
  BY FlushEffect
<1>3. CASE Loop(up, [px EXCEPT !.send100 = FALSE], 0)
  <2>1. Like([[px EXCEPT !.send100 = FALSE] EXCEPT !.send100 = px.send100], px)
    BY <1>1 DEF PxRecords, Like
  <2>2. /\ px'.fd = px.fd /\ px'.body = px.body /\ px'.bodyLeft = px.bodyLeft /\ px'.phase = px.phase
        /\ px'.hdr = px.hdr /\ px'.buf = px.buf /\ up' = up /\ hc' = hc
    BY <1>1, <1>3 DEF PxRecords, Loop
  <2> QED BY <1>1, <2>2 DEF RequestStep, Continues, Unsent, SameBody
<1> QED BY <1>1, <1>2, <1>3, WaitsContinues, FallsCeases

\* So do the lines after the loop.
LEMMA RequestBudget ==
    ASSUME SlotInv, PumpBudgetOut
    PROVE  RequestStep
<1>1. script' = script /\ client' = client /\ px.fd # NoUp /\ up \in [UpIds -> UpRecords]
  BY PumpFacts, SlotTypes, BudgetEffect DEF Pump
<1>2. (\E upio, io : Waits(up, px, upio, io)) \/ (\E cause : Falls(up, px, cause))
  BY BudgetEffect
<1> QED BY <1>1, <1>2, WaitsContinues, FallsCeases

\* PX_SEND_REQ sends a piece of the header, or starts over.
LEMMA RequestSendReq ==
    ASSUME SlotInv, PumpSendReq
    PROVE  RequestStep
<1>1. /\ script' = script /\ client' = client /\ px.fd # NoUp /\ px.phase = "SEND_REQ"
      /\ px \in PxRecords /\ px.hdr \in Seq(Units) /\ Len(px.hdr) \in Nat /\ up \in [UpIds -> UpRecords]
  BY PumpFacts, SlotTypes, SendReqEffect, Zenon DEF Pump, PumpSendReq
<1>2. PICK n \in 0 .. Len(px.hdr) :
                 LET u == ToUp(px.fd, Take(px.hdr, n))
                     p == HdrLess(n)
                 IN  \/ /\ n = Len(px.hdr)
                        /\ Loop(u, [p EXCEPT !.phase = IF BodyPending(p) THEN "SEND_BODY" ELSE "RECV_HDR",
                                             !.buf = <<>>], 1)
                     \/ n < Len(px.hdr) /\ Waits(u, p, "write", "idle")
                     \/ Falls(u, p, up[px.fd].st # "open")
                     \/ /\ px.reused /\ Len(p.hdr) = 2
                        /\ (\E c \in UpIds : Renews(c, p)) \/ Falls(up, p, FALSE)
  BY SendReqEffect, Zenon
<1> DEFINE us == Take(px.hdr, n)
           u == ToUp(px.fd, us)
           p == HdrLess(n)
           next == IF BodyPending(p) THEN "SEND_BODY" ELSE "RECV_HDR"
           q == [p EXCEPT !.phase = next, !.buf = <<>>]
<1>3. /\ p \in PxRecords /\ p.hdr = Drop(px.hdr, n) /\ p.fd = px.fd /\ p.phase = px.phase /\ p.buf = px.buf
      /\ p.body = px.body /\ p.bodyLeft = px.bodyLeft
  <2>1. HdrLess(n) \in PxRecords /\ HdrLess(n).hdr = Drop(px.hdr, n) /\ Like([HdrLess(n) EXCEPT !.hdr = px.hdr], px)
    BY <1>1, LessFacts
  <2> HIDE DEF p
  <2>2. p \in PxRecords /\ Like([p EXCEPT !.hdr = px.hdr], px)
    BY <2>1 DEF p
  <2>3. p.fd = px.fd /\ p.phase = px.phase /\ p.buf = px.buf /\ p.body = px.body /\ p.bodyLeft = px.bodyLeft
    BY <2>2 DEF PxRecords, Like
  <2> QED BY <2>1, <2>3 DEF p
<1>4. us \in Seq(Units) /\ Len(Drop(px.hdr, n)) = Len(px.hdr) - n
  BY <1>1, TakeFacts, DropFacts
<1>5. u \in [UpIds -> UpRecords] /\ \A c \in UpIds : u[c].got = IF c = px.fd THEN up[c].got \o us ELSE up[c].got
  BY <1>1, <1>4, SentGot
<1>6. next = IF BodyPending(px) THEN "SEND_BODY" ELSE "RECV_HDR"
  BY <1>3 DEF BodyPending
<1>7. \/ n = Len(px.hdr) /\ Loop(u, q, 1)
      \/ n < Len(px.hdr) /\ Waits(u, p, "write", "idle")
      \/ Falls(u, p, up[px.fd].st # "open")
      \/ Len(p.hdr) = 2 /\ \E c \in UpIds : Renews(c, p)
      \/ Falls(up, p, FALSE)
  BY <1>2
<1> HIDE DEF us, u, p, next
<1>8. CASE n = Len(px.hdr) /\ Loop(u, q, 1)
  <2>1. q.fd = p.fd /\ q.phase = next /\ q.hdr = p.hdr /\ q.buf = <<>> /\ q.body = p.body /\ q.bodyLeft = p.bodyLeft
    BY <1>3 DEF PxRecords
  <2>2. up' = u /\ px' = q /\ hc' = hc
    BY <1>8 DEF Loop
  <2>3. Sent(us)
    BY <1>5, <2>2 DEF Sent
  <2> HIDE DEF q
  <2>4. /\ px'.fd = px.fd /\ px'.phase = next /\ px'.hdr = Drop(px.hdr, n) /\ px'.buf = <<>>
        /\ px'.body = px.body /\ px'.bodyLeft = px.bodyLeft
    BY <1>3, <2>1, <2>2
  <2>5. px'.phase = IF BodyPending(px) THEN "SEND_BODY" ELSE "RECV_HDR"
    BY <1>6, <2>4
  <2>6. SendsHdr
    BY <1>1, <1>8, <2>3, <2>4, <2>5 DEF SendsHdr, SameBody, us
  <2> QED BY <1>1, <2>2, <2>6 DEF RequestStep
<1>9. CASE n < Len(px.hdr) /\ Waits(u, p, "write", "idle")
  <2>1. up' = u /\ Like(px', p) /\ hc' = hc
    BY <1>9 DEF Waits
  <2>2. Sent(us)
    BY <1>5, <2>1 DEF Sent
  <2>3. /\ px'.fd = px.fd /\ px'.phase = "SEND_REQ" /\ px'.hdr = Drop(px.hdr, n) /\ px'.buf = px.buf
        /\ px'.body = px.body /\ px'.bodyLeft = px.bodyLeft
    BY <1>1, <1>3, <2>1 DEF Like
  <2>4. SendsHdr
    BY <1>1, <1>9, <2>2, <2>3 DEF SendsHdr, SameBody, us
  <2> QED BY <1>1, <2>1, <2>4 DEF RequestStep
<1>10. CASE Falls(u, p, up[px.fd].st # "open")
  <2>1. px'.fd = NoUp /\ hc'.buf = hc.buf /\ \A c \in UpIds : up'[c].got = u[c].got
    BY <1>1, <1>5, <1>10, FallsGot
  <2>2. Sent(us)
    BY <1>5, <2>1 DEF Sent
  <2>3. SendsHdr
    BY <1>1, <2>1, <2>2 DEF SendsHdr, us
  <2> QED BY <1>1, <2>1, <2>3 DEF RequestStep
<1>11. CASE Len(p.hdr) = 2 /\ \E c \in UpIds : Renews(c, p)
  <2>1. PICK c \in UpIds : Renews(c, p)
    BY <1>11
  <2>2. Len(px.hdr) >= 2
    <3>1. Len(px.hdr) - n = 2
      BY <1>3, <1>4, <1>11, Zenon
    <3>2. n \in Nat /\ Len(px.hdr) \in Nat
      BY <1>1
    <3> HIDE <1>3, <1>4, <1>11
    <3> QED BY <3>1, <3>2
  <2> QED BY <1>1, <1>3, <2>1, <2>2, RenewsRestarts
<1>12. CASE Falls(up, p, FALSE)
  BY <1>1, <1>12, FallsCeases
<1> QED BY <1>7, <1>8, <1>9, <1>10, <1>11, <1>12

\* PX_SEND_BODY sends a piece of the body.
LEMMA RequestSendBody ==
    ASSUME SlotInv, PumpSendBody
    PROVE  RequestStep
<1>1. /\ script' = script /\ client' = client /\ px.fd # NoUp /\ px.phase = "SEND_BODY"
      /\ px \in PxRecords /\ px.buf \in Seq(Units) /\ px.body \in Seq(Units)
  BY PumpFacts, SlotTypes, SendBodyEffect DEF Pump
<1>2. ASSUME NEW us \in Seq(Units), NEW p, NEW n, NEW cause, p.fd = px.fd,
             Loop(ToUp(px.fd, us), p, 1) \/ Waits(ToUp(px.fd, us), p, "write", "idle") \/ Falls(ToUp(px.fd, us), p, cause)
      PROVE  /\ hc'.buf = hc.buf /\ Sent(us)
             /\ \/ px'.fd = NoUp
                \/ /\ px'.fd = p.fd /\ px'.phase = p.phase /\ px'.buf = p.buf
                   /\ px'.body = p.body /\ px'.bodyLeft = p.bodyLeft
  <2> DEFINE u == ToUp(px.fd, us)
  <2>1. u \in [UpIds -> UpRecords] /\ \A c \in UpIds : u[c].got = IF c = px.fd THEN up[c].got \o us ELSE up[c].got
    BY <1>1, <1>2, SentGot
  <2>2. Loop(u, p, 1) \/ Waits(u, p, "write", "idle") \/ Falls(u, p, cause)
    BY <1>2
  <2> HIDE DEF u
  <2>3. CASE Loop(u, p, 1)
    BY <2>1, <2>3 DEF Loop, Sent
  <2>4. CASE Waits(u, p, "write", "idle")
    BY <2>1, <2>4 DEF Waits, Like, Sent
  <2>5. CASE Falls(u, p, cause)
    <3>1. px'.fd = NoUp /\ hc'.buf = hc.buf /\ \A c \in UpIds : up'[c].got = u[c].got
      BY <1>1, <2>1, <2>5, FallsGot
    <3> QED BY <2>1, <3>1 DEF Sent
  <2> QED BY <2>2, <2>3, <2>4, <2>5
<1>3. CASE /\ px.buf # <<>>
           /\ \E n \in 0 .. Len(px.buf) :
                       LET u == ToUp(px.fd, Take(px.buf, n))
                       IN  \/ Loop(u, BufLess(n), 1)
                           \/ n < Len(px.buf) /\ Waits(u, BufLess(n), "write", "idle")
                           \/ Falls(u, BufLess(n), up[px.fd].st # "open")
  <2>1. PICK n \in 0 .. Len(px.buf) :
                       LET u == ToUp(px.fd, Take(px.buf, n))
                       IN  \/ Loop(u, BufLess(n), 1)
                           \/ n < Len(px.buf) /\ Waits(u, BufLess(n), "write", "idle")
                           \/ Falls(u, BufLess(n), up[px.fd].st # "open")
    BY <1>3
  <2> DEFINE us == Take(px.buf, n)
             p == BufLess(n)
  <2>2. us \in Seq(Units)
    BY <1>1, TakeFacts
  <2>3. p.buf = Drop(px.buf, n) /\ p \in PxRecords /\ Like([p EXCEPT !.buf = px.buf], px)
    BY <1>1, LessFacts
  <2>4. \/ Loop(ToUp(px.fd, us), p, 1) \/ Waits(ToUp(px.fd, us), p, "write", "idle")
        \/ Falls(ToUp(px.fd, us), p, up[px.fd].st # "open")
    BY <2>1
  <2> HIDE DEF us, p
  <2>5. p.fd = px.fd /\ p.phase = px.phase /\ p.body = px.body /\ p.bodyLeft = px.bodyLeft
    BY <2>3 DEF PxRecords, Like
  <2>6. /\ hc'.buf = hc.buf /\ Sent(us)
        /\ \/ px'.fd = NoUp
           \/ /\ px'.fd = p.fd /\ px'.phase = p.phase /\ px'.buf = p.buf
              /\ px'.body = p.body /\ px'.bodyLeft = p.bodyLeft
    BY <1>2, <2>2, <2>4, <2>5
  <2>7. SendsBody
    BY <1>1, <1>3, <2>3, <2>5, <2>6 DEF SendsBody, SameBody, us
  <2> QED BY <1>1, <2>6, <2>7 DEF RequestStep
<1>4. CASE /\ px.buf = <<>> /\ px.body # <<>>
           /\ \E n \in 0 .. Len(px.body) :
                       LET u == ToUp(px.fd, Take(px.body, n))
                       IN  \/ Loop(u, BodyLess(n), 1)
                           \/ n < Len(px.body) /\ Waits(u, BodyLess(n), "write", "idle")
                           \/ Falls(u, BodyLess(n), up[px.fd].st # "open")
  <2>1. PICK n \in 0 .. Len(px.body) :
                       LET u == ToUp(px.fd, Take(px.body, n))
                       IN  \/ Loop(u, BodyLess(n), 1)
                           \/ n < Len(px.body) /\ Waits(u, BodyLess(n), "write", "idle")
                           \/ Falls(u, BodyLess(n), up[px.fd].st # "open")
    BY <1>4
  <2> DEFINE us == Take(px.body, n)
             p == BodyLess(n)
  <2>2. us \in Seq(Units)
    BY <1>1, TakeFacts
  <2>3. p.body = Drop(px.body, n) /\ p \in PxRecords /\ Like([p EXCEPT !.body = px.body], px)
    BY <1>1, LessFacts
  <2>4. \/ Loop(ToUp(px.fd, us), p, 1) \/ Waits(ToUp(px.fd, us), p, "write", "idle")
        \/ Falls(ToUp(px.fd, us), p, up[px.fd].st # "open")
    BY <2>1
  <2> HIDE DEF us, p
  <2>5. p.fd = px.fd /\ p.phase = px.phase /\ p.buf = px.buf /\ p.bodyLeft = px.bodyLeft
    BY <2>3 DEF PxRecords, Like
  <2>6. /\ hc'.buf = hc.buf /\ Sent(us)
        /\ \/ px'.fd = NoUp
           \/ /\ px'.fd = p.fd /\ px'.phase = p.phase /\ px'.buf = p.buf
              /\ px'.body = p.body /\ px'.bodyLeft = p.bodyLeft
    BY <1>2, <2>2, <2>4, <2>5
  <2>7. SendsBody
    BY <1>1, <1>4, <2>3, <2>5, <2>6 DEF SendsBody, us
  <2> QED BY <1>1, <2>6, <2>7 DEF RequestStep
<1> QED BY <1>3, <1>4, SendBodyEffect

\* PX_SEND_BODY takes over a piece of the body from the client.
LEMMA RequestReadBody ==
    ASSUME SlotInv, PumpReadBody
    PROVE  RequestStep
<1>1. /\ script' = script /\ px.fd # NoUp /\ px.phase = "SEND_BODY" /\ px.buf \o px.body = <<>> /\ px.bodyLeft > 0
      /\ px \in PxRecords /\ px.buf \in Seq(Units) /\ px.body \in Seq(Units) /\ up \in [UpIds -> UpRecords]
  BY PumpFacts, SlotTypes, ReadBodyEffect DEF Pump
<1>2. px.buf = <<>> /\ px.body = <<>>
  BY <1>1, EmptyCat
<1>3. CASE \E n \in 1 .. Len(client.in) :
                    /\ n <= px.bodyLeft /\ n <= BufMax
                    /\ client' = [client EXCEPT !.in = Drop(@, n)]
                    /\ Loop(up, BodyRead(n), 1)
  <2>1. PICK n \in 1 .. Len(client.in) :
                    /\ n <= px.bodyLeft
                    /\ client' = [client EXCEPT !.in = Drop(@, n)]
                    /\ Loop(up, BodyRead(n), 1)
    BY <1>3
  <2> DEFINE us == Take(client.in, n)
             left == px.bodyLeft - n
             p == [px EXCEPT !.buf = us, !.bodyLeft = left]
  <2>2. px' = p /\ up' = up /\ hc' = hc
    BY <2>1 DEF Loop, BodyRead
  <2> HIDE DEF us, left
  <2>3. p.fd = px.fd /\ p.phase = px.phase /\ p.body = px.body /\ p.buf = us /\ p.bodyLeft = left
    BY <1>1 DEF PxRecords
  <2> HIDE DEF p
  <2>4. ReadsBody
    BY <1>1, <1>2, <2>1, <2>2, <2>3 DEF ReadsBody, Unsent, us, left
  <2> QED BY <1>1, <2>2, <2>4 DEF RequestStep
<1>4. CASE client' = client /\ (Waits(up, px, "idle", "read") \/ Falls(up, px, FALSE))
  BY <1>1, <1>4, WaitsContinues, FallsCeases
<1> QED BY <1>3, <1>4, ReadBodyEffect

\* The end of the body leaves the request as it is.
LEMMA RequestBodySent ==
    ASSUME SlotInv, PumpBodySent
    PROVE  RequestStep
<1>1. /\ script' = script /\ client' = client /\ px.fd # NoUp /\ px.phase = "SEND_BODY" /\ px.buf \o px.body = <<>>
      /\ px.bodyLeft = 0 /\ Loop(up, [px EXCEPT !.phase = "RECV_HDR"], 0)
      /\ px \in PxRecords /\ px.buf \in Seq(Units) /\ px.body \in Seq(Units)
  BY PumpFacts, SlotTypes DEF Pump, PumpBodySent, pumpRest
<1>2. px.buf = <<>> /\ px.body = <<>>
  BY <1>1, EmptyCat
<1>3. /\ px'.fd = px.fd /\ px'.body = px.body /\ px'.bodyLeft = px.bodyLeft /\ px'.phase = "RECV_HDR"
      /\ up' = up /\ hc' = hc
  BY <1>1 DEF PxRecords, Loop
<1> QED BY <1>1, <1>2, <1>3 DEF RequestStep, Continues, Unsent, SameBody

\* The answer is on its way.
LEMMA AnswerContinues ==
    ASSUME script' = script, client' = client, px.phase \in Answering,
           NEW u, \A c \in UpIds : u[c].got = up[c].got, NEW p, p.fd = px.fd, p.phase \in Answering,
           p.body = px.body, p.bodyLeft = px.bodyLeft,
           (\E spent : Loop(u, p, spent)) \/ (\E upio, io : Waits(u, p, upio, io))
    PROVE  RequestStep
<1>1. up' = u /\ hc' = hc
  BY DEF Loop, Waits
<1>2. px'.fd = p.fd /\ px'.phase = p.phase /\ px'.body = p.body /\ px'.bodyLeft = p.bodyLeft
  <2>1. CASE \E spent : Loop(u, p, spent)
    BY <2>1 DEF Loop
  <2>2. CASE \E upio, io : Waits(u, p, upio, io)
    BY <2>2 DEF Waits, Like
  <2> QED BY <2>1, <2>2
<1> QED BY <1>1, <1>2 DEF RequestStep, Continues, Unsent, SameBody

\* A header block of the answer leaves the request as it is.
LEMMA HeaderRequest ==
    ASSUME SlotInv, px.fd # NoUp, script' = script, client' = client, px.phase = "RECV_HDR",
           NEW u \in [UpIds -> UpRecords], \A c \in UpIds : u[c].got = up[c].got,
           NEW p \in PxRecords, p.fd = px.fd, p.phase = "RECV_HDR", p.body = px.body, p.bodyLeft = px.bodyLeft,
           HdrEnd(p.buf) # 0, Header(u, p, HdrEnd(p.buf))
    PROVE  RequestStep
<1> DEFINE at == HdrEnd(p.buf)
<1>1. at \in 1 .. Len(p.buf)
  BY HdrEndFacts DEF PxRecords
<1>2. Header(u, p, at)
  OBVIOUS
<1> HIDE DEF at
<1>3. px.phase \in Answering /\ "RECV_HDR" \in Answering /\ "SEND_RESP" \in Answering
  BY DEF Answering
<1>4. CASE \E spent : Loop(u, [p EXCEPT !.buf = Drop(p.buf, at)], spent)
  <2> DEFINE rest == Drop(p.buf, at)
             q == [p EXCEPT !.buf = rest]
  <2>1. \E spent : Loop(u, q, spent)
    BY <1>4
  <2> HIDE DEF rest
  <2>2. q.fd = p.fd /\ q.phase = p.phase /\ q.body = p.body /\ q.bodyLeft = p.bodyLeft
    BY DEF PxRecords
  <2> HIDE DEF q
  <2> QED BY <1>3, <2>1, <2>2, AnswerContinues
<1>5. CASE p.buf[at].k = "hend" /\ \E spent : Loop(u, FinalHeader(p, at), spent)
  <2> DEFINE q == FinalHeader(p, at)
  <2>1. q.fd = p.fd /\ q.phase = "SEND_RESP" /\ q.body = p.body /\ q.bodyLeft = p.bodyLeft
    BY <1>1, <1>5, FinalBody
  <2>2. \E spent : Loop(u, q, spent)
    BY <1>5
  <2> HIDE DEF q
  <2> QED BY <1>3, <2>1, <2>2, AnswerContinues
<1>6. CASE \E cause : Falls(u, p, cause)
  BY <1>6, FallsCeases
<1> QED BY <1>2, <1>4, <1>5, <1>6 DEF Header

\* PX_RECV_HDR leaves the request as it is, or starts it over.
LEMMA RequestRecvHdr ==
    ASSUME SlotInv, PumpRecvHdr
    PROVE  RequestStep
<1>1. /\ script' = script /\ client' = client /\ px.fd # NoUp /\ px.phase = "RECV_HDR"
      /\ px \in PxRecords /\ up \in [UpIds -> UpRecords] /\ Len(up[px.fd].in) \in Nat
  BY PumpFacts, SlotTypes, RecvHdrEffect DEF Pump
<1>2. CASE HdrEnd(px.buf) # 0 /\ Header(up, px, HdrEnd(px.buf))
  BY <1>1, <1>2, HeaderRequest
<1>3. CASE \E cause : Falls(up, px, cause)
  BY <1>1, <1>3, FallsCeases
<1>4. CASE Waits(up, px, "read", "idle")
  BY <1>1, <1>4, WaitsContinues
<1>5. CASE MayRetry(px) /\ \E c \in UpIds : Renews(c, px)
  BY <1>1, <1>5, RenewsRestarts
<1>6. CASE \E n \in 1 .. Len(up[px.fd].in) :
                    LET p == AnswerRead(n)
                        u == Emptied(n)
                    IN  /\ n <= BufMax - Len(px.buf)
                        /\ \/ HdrEnd(p.buf) # 0 /\ Header(u, p, HdrEnd(p.buf))
                           \/ HdrEnd(p.buf) = 0 /\ Falls(u, p, Len(p.buf) >= BufMax)
                           \/ HdrEnd(p.buf) = 0 /\ Loop(u, p, 1)
  <2>1. PICK n \in 1 .. Len(up[px.fd].in) :
                    LET p == AnswerRead(n)
                        u == Emptied(n)
                    IN  /\ n <= BufMax - Len(px.buf)
                        /\ \/ HdrEnd(p.buf) # 0 /\ Header(u, p, HdrEnd(p.buf))
                           \/ HdrEnd(p.buf) = 0 /\ Falls(u, p, Len(p.buf) >= BufMax)
                           \/ HdrEnd(p.buf) = 0 /\ Loop(u, p, 1)
    BY <1>6
  <2>2. n \in 0 .. Len(up[px.fd].in)
    BY <1>1
  <2> DEFINE p == AnswerRead(n)
             u == Emptied(n)
  <2>3. u \in [UpIds -> UpRecords] /\ \A c \in UpIds : u[c].got = up[c].got
    BY <1>1, <2>2, EmptiedGot
  <2>4. p \in PxRecords /\ p.fd = px.fd /\ p.phase = px.phase /\ p.body = px.body /\ p.bodyLeft = px.bodyLeft
    BY <1>1, <2>1, <2>2, AnswerReadSame
  <2>5. \/ HdrEnd(p.buf) # 0 /\ Header(u, p, HdrEnd(p.buf))
        \/ Falls(u, p, Len(p.buf) >= BufMax)
        \/ Loop(u, p, 1)
    BY <2>1
  <2> HIDE DEF p, u
  <2>6. px.phase \in Answering
    BY <1>1 DEF Answering
  <2> QED BY <1>1, <2>3, <2>4, <2>5, <2>6, HeaderRequest, FallsCeases, AnswerContinues
<1> QED BY <1>2, <1>3, <1>4, <1>5, <1>6, RecvHdrEffect

\* The answer goes out: whatever p is of px.hdr and px.buf, the request is left alone.
LEMMA RequestOut ==
    ASSUME SlotInv, px.fd # NoUp, script' = script, client' = client, px.phase \in Answering,
           NEW p, p.fd = px.fd, p.phase \in Answering, p.body = px.body, p.bodyLeft = px.bodyLeft,
           \/ Loop(up, p, 1)
           \/ \E upio, io : Waits(up, p, upio, io)
           \/ \E cause : Falls(up, p, cause)
           \/ Parks(up, p)
    PROVE  RequestStep
<1>1. up \in [UpIds -> UpRecords]
  BY SlotTypes
<1> QED BY <1>1, AnswerContinues, FallsCeases, ParksCeases

\* Sending a response leaves the request as it is, or ends it.
LEMMA RequestGathered ==
    ASSUME SlotInv, PumpSendGathered
    PROVE  RequestStep
<1>1. /\ script' = script /\ client' = client /\ px.fd # NoUp /\ px.phase = "SEND_RESP" /\ px \in PxRecords
      /\ px.hdr \in Seq(Units) /\ px.buf \in Seq(Units) /\ Len(px.hdr) \in Nat /\ Len(px.buf) \in Nat
  BY PumpFacts, SlotTypes, GatheredEffect DEF Pump
<1>2. px.phase \in Answering
  BY <1>1 DEF Answering
<1>3. ASSUME NEW n \in 1 .. Len(px.hdr) + Len(px.buf)
      PROVE  LET p == Gathered(n)
             IN  p.fd = px.fd /\ p.phase = px.phase /\ p.body = px.body /\ p.bodyLeft = px.bodyLeft
  <2> DEFINE b == IF n > Len(px.hdr) THEN Drop(px.buf, n - Len(px.hdr)) ELSE px.buf
             d == Drop(px.hdr, n)
             p == [px EXCEPT !.hdr = d, !.respSent = TRUE, !.buf = b]
  <2>1. Gathered(n) = p
    BY DEF Gathered
  <2> HIDE DEF b, d
  <2>2. p.fd = px.fd /\ p.phase = px.phase /\ p.body = px.body /\ p.bodyLeft = px.bodyLeft
    BY <1>1 DEF PxRecords
  <2> QED BY <2>1, <2>2
<1>4. \/ \E n \in 1 .. Len(px.hdr) + Len(px.buf) : Parks(up, Gathered(n)) \/ Loop(up, Gathered(n), 1)
      \/ Waits(up, px, "none", "write") \/ Falls(up, px, client.st # "open")
  BY GatheredEffect
<1> QED BY <1>1, <1>2, <1>3, <1>4, RequestOut

\* So does sending its header.
LEMMA RequestSendHdr ==
    ASSUME SlotInv, PumpSendHdr
    PROVE  RequestStep
<1>1. /\ script' = script /\ client' = client /\ px.fd # NoUp /\ px.phase = "SEND_RESP" /\ px \in PxRecords
  BY PumpFacts, SlotTypes, SendHdrEffect DEF Pump
<1>2. px.phase \in Answering /\ "STREAM" \in Answering
  BY <1>1 DEF Answering
<1>3. ASSUME NEW n, NEW phase
      PROVE  /\ HdrSent(n).fd = px.fd /\ HdrSent(n).phase = px.phase /\ HdrSent(n).body = px.body
             /\ HdrSent(n).bodyLeft = px.bodyLeft
             /\ LET p == [HdrSent(n) EXCEPT !.phase = phase]
                IN  p.fd = px.fd /\ p.phase = phase /\ p.body = px.body /\ p.bodyLeft = px.bodyLeft
  <2> DEFINE d == Drop(px.hdr, n)
             s == px.respSent \/ n > 0
             p == [px EXCEPT !.hdr = d, !.respSent = s]
  <2>1. HdrSent(n) = p
    BY DEF HdrSent
  <2> HIDE DEF d, s
  <2>2. p.fd = px.fd /\ p.phase = px.phase /\ p.body = px.body /\ p.bodyLeft = px.bodyLeft
    BY <1>1 DEF PxRecords
  <2>3. LET q == [p EXCEPT !.phase = phase]
        IN  q.fd = px.fd /\ q.phase = phase /\ q.body = px.body /\ q.bodyLeft = px.bodyLeft
    BY <1>1 DEF PxRecords
  <2> QED BY <2>1, <2>2, <2>3
<1>4. PICK n \in 0 .. Len(px.hdr) :
                 \/ Loop(up, [HdrSent(n) EXCEPT !.phase = "STREAM"], 1)
                 \/ Waits(up, HdrSent(n), "idle", "write")
                 \/ Falls(up, HdrSent(n), client.st # "open")
  BY SendHdrEffect
<1>5. CASE Loop(up, [HdrSent(n) EXCEPT !.phase = "STREAM"], 1)
  <2> DEFINE p == [HdrSent(n) EXCEPT !.phase = "STREAM"]
  <2>1. p.fd = px.fd /\ p.phase = "STREAM" /\ p.body = px.body /\ p.bodyLeft = px.bodyLeft
    BY <1>3
  <2>2. Loop(up, p, 1)
    BY <1>5
  <2> HIDE DEF p
  <2> QED BY <1>1, <1>2, <2>1, <2>2, RequestOut
<1>6. CASE Waits(up, HdrSent(n), "idle", "write") \/ Falls(up, HdrSent(n), client.st # "open")
  BY <1>1, <1>2, <1>3, <1>6, RequestOut
<1> QED BY <1>4, <1>5, <1>6

\* So does sending its body.
LEMMA RequestStreamOut ==
    ASSUME SlotInv, PumpStreamOut
    PROVE  RequestStep
<1>1. /\ script' = script /\ client' = client /\ px.fd # NoUp /\ px.phase = "STREAM" /\ px \in PxRecords
  BY PumpFacts, SlotTypes, StreamOutEffect DEF Pump
<1>2. px.phase \in Answering
  BY <1>1 DEF Answering
<1>3. ASSUME NEW n
      PROVE  /\ BufSent(n).fd = px.fd /\ BufSent(n).phase = px.phase /\ BufSent(n).body = px.body
             /\ BufSent(n).bodyLeft = px.bodyLeft
  <2> DEFINE d == Drop(px.buf, n)
             s == px.respSent \/ n > 0
             p == [px EXCEPT !.buf = d, !.respSent = s]
  <2>1. BufSent(n) = p
    BY DEF BufSent
  <2> HIDE DEF d, s
  <2>2. p.fd = px.fd /\ p.phase = px.phase /\ p.body = px.body /\ p.bodyLeft = px.bodyLeft
    BY <1>1 DEF PxRecords
  <2> QED BY <2>1, <2>2
<1>4. PICK n \in 0 .. Len(px.buf) :
                 \/ Parks(up, BufSent(n))
                 \/ Loop(up, BufSent(n), 1)
                 \/ Waits(up, BufSent(n), "idle", "write")
                 \/ Falls(up, BufSent(n), FALSE)
  BY StreamOutEffect
<1> QED BY <1>1, <1>2, <1>3, <1>4, RequestOut

\* note_body leaves the request alone.
LEMMA NotedSame ==
    ASSUME SlotInv, px.fd # NoUp, NEW n \in 1 .. Len(up[px.fd].in), n <= BufMax
    PROVE  LET p == Noted(n)
           IN  /\ p.fd = px.fd /\ p.phase = px.phase /\ p.send100 = px.send100 /\ p.framing = px.framing
               /\ p.respSent = px.respSent /\ p.upClose = px.upClose /\ p.clientKeep = px.clientKeep
               /\ p.reused = px.reused /\ p.hdr = px.hdr /\ p.body = px.body /\ p.bodyLeft = px.bodyLeft
<1> DEFINE us == Take(up[px.fd].in, n)
           q == Noted(n)
           p == [px EXCEPT !.buf = us]
<1>1. PICK end \in 0 .. Len(us) : Ended(q, p, us, end)
  BY NotedFacts
<1>2. px \in PxRecords
  BY SlotTypes
<1> HIDE DEF us
<1>3. /\ p.fd = px.fd /\ p.phase = px.phase /\ p.send100 = px.send100 /\ p.framing = px.framing
      /\ p.respSent = px.respSent /\ p.upClose = px.upClose /\ p.clientKeep = px.clientKeep
      /\ p.reused = px.reused /\ p.hdr = px.hdr /\ p.body = px.body /\ p.bodyLeft = px.bodyLeft
  BY <1>2 DEF PxRecords
<1> HIDE DEF p, q
<1>4. /\ q.fd = p.fd /\ q.phase = p.phase /\ q.send100 = p.send100 /\ q.framing = p.framing
      /\ q.respSent = p.respSent /\ q.upClose = p.upClose /\ q.clientKeep = p.clientKeep
      /\ q.reused = p.reused /\ q.hdr = p.hdr /\ q.body = p.body /\ q.bodyLeft = p.bodyLeft
  BY <1>1 DEF Ended
<1> QED BY <1>3, <1>4 DEF q

\* Reading the response leaves the request as it is.
LEMMA RequestStreamIn ==
    ASSUME SlotInv, PumpStreamIn
    PROVE  RequestStep
<1>1. /\ script' = script /\ client' = client /\ px.fd # NoUp /\ px.phase = "STREAM" /\ px \in PxRecords
      /\ Len(up[px.fd].in) \in Nat
  BY PumpFacts, SlotTypes, StreamInEffect DEF Pump
<1>2. px.phase \in Answering
  BY <1>1 DEF Answering
<1>3. CASE \E n \in 1 .. Len(up[px.fd].in) :
              /\ n <= BufMax /\ (px.framing = "cl" => n <= px.respLeft)
              /\ Falls(Emptied(n), px, FALSE) \/ Loop(Emptied(n), Noted(n), 1)
  <2>1. PICK n \in 1 .. Len(up[px.fd].in) :
              /\ n <= BufMax /\ (px.framing = "cl" => n <= px.respLeft)
              /\ Falls(Emptied(n), px, FALSE) \/ Loop(Emptied(n), Noted(n), 1)
    BY <1>3
  <2>2. n \in 0 .. Len(up[px.fd].in)
    BY <1>1
  <2> DEFINE u == Emptied(n)
             p == Noted(n)
  <2>3. u \in [UpIds -> UpRecords] /\ \A c \in UpIds : u[c].got = up[c].got
    BY <1>1, <2>2, EmptiedGot
  <2>4. p.fd = px.fd /\ p.phase = px.phase /\ p.body = px.body /\ p.bodyLeft = px.bodyLeft
    BY <1>1, <2>1, <2>2, NotedSame
  <2>5. Falls(u, px, FALSE) \/ Loop(u, p, 1)
    BY <2>1
  <2> HIDE DEF u, p
  <2> QED BY <1>1, <1>2, <2>3, <2>4, <2>5, FallsCeases, AnswerContinues
<1>4. CASE \/ Waits(up, px, "read", "idle") \/ Falls(up, px, FALSE)
           \/ Parks(up, px)
  BY <1>1, <1>2, <1>4, RequestOut
<1> QED BY <1>3, <1>4, StreamInEffect

\* What a turn of the pump is to the request.
LEMMA RequestPump ==
    ASSUME SlotInv, Pump
    PROVE  RequestStep
  BY RequestFlush, RequestBudget, RequestSendReq, RequestSendBody, RequestReadBody, RequestBodySent,
     RequestRecvHdr, RequestGathered, RequestSendHdr, RequestStreamOut, RequestStreamIn DEF Pump

-----------------------------------------------------------------------------
(* The client's stream. *)

\* What the client sends does not change.
LEMMA SamePieces ==
    ASSUME script' = script, NEW x, NEW id
    PROVE  FirstUnit(id)' = FirstUnit(id) /\ LastNumber(id)' = LastNumber(id) /\ NextUnit(x)' = NextUnit(x)
  BY DEF FirstUnit, LastNumber, NextUnit

\* Whether units follow each other does not change.
LEMMA SameFollows ==
    ASSUME script' = script, NEW s
    PROVE  Follows(s)' <=> Follows(s)
<1>1. /\ \A x : NextUnit(x)' = NextUnit(x)
      /\ \A id : LastNumber(id)' = LastNumber(id)
  BY SamePieces
<1> QED BY <1>1 DEF Follows

\* Nor whether the bytes read and in flight do.
LEMMA SameStream ==
    ASSUME script' = script, NEW b, NEW c, NEW p
    PROVE  Stream(b, c, p)' <=> Stream(b, c, p)
<1>1. /\ \A x : NextUnit(x)' = NextUnit(x)
      /\ \A id : FirstUnit(id)' = FirstUnit(id)
      /\ \A s : Follows(s)' <=> Follows(s)
  BY SamePieces, SameFollows
<1> QED BY <1>1 DEF Stream

\* StreamInv after a step, from the parts it is about.
LEMMA StreamNow ==
    ASSUME script' = script, NEW b, NEW c, NEW p, hc'.buf = b, client' = c, px' = p, Stream(b, c, p)
    PROVE  StreamInv'
<1>1. Stream(b, c, p)'
  BY SameStream
<1> QED BY <1>1 DEF StreamInv

\* The number of the last unit of a request.
LEMMA LastFacts ==
    ASSUME script \in Scripts, NEW id \in DOMAIN script
    PROVE  /\ LastNumber(id) \in Nat
           /\ script[id].target # "long" => LastNumber(id) = script[id].body
<1>1. script[id].body \in Nat /\ HeaderCap \in Nat
  BY ScriptFacts, SizesAssumption
<1> QED BY <1>1 DEF LastNumber

\* Units of one request, counted on.
LEMMA LaterFacts ==
    ASSUME script \in Scripts, NEW x \in Units, NEW d \in Nat
    PROVE  /\ x.id \in DOMAIN script /\ x.n \in Nat /\ LastNumber(x.id) \in Nat
           /\ Later(x, d).id = x.id /\ Later(x, d).n = x.n + d
           /\ Later(x, d).k = IF x.k = "part" THEN "part" ELSE "b"
           /\ x.n + d < LastNumber(x.id) => NextUnit(Later(x, d)) = Later(x, d + 1)
           /\ x.n < LastNumber(x.id) => NextUnit(x) = Later(x, 1)
<1>1. x.id \in DOMAIN script /\ x.n \in Nat
  BY IdFacts
<1>2. LastNumber(x.id) \in Nat
  BY <1>1, LastFacts
<1> DEFINE y == Later(x, d)
<1>3. y.id = x.id /\ y.n = x.n + d /\ y.k = IF x.k = "part" THEN "part" ELSE "b"
  BY DEF Later, Unit
<1>4. x.n < LastNumber(x.id) => NextUnit(x) = Later(x, 1)
  BY <1>1, <1>2 DEF NextUnit
<1>5. ASSUME x.n + d < LastNumber(x.id) PROVE NextUnit(y) = Later(x, d + 1)
  <2>1. NextUnit(y) = Later(y, 1)
    BY <1>1, <1>2, <1>3, <1>5 DEF NextUnit
  <2>2. (x.n + d) + 1 = x.n + (d + 1)
    BY <1>1
  <2>3. Later(y, 1) = Later(x, d + 1)
    BY <1>3, <2>2 DEF Later
  <2> QED BY <2>1, <2>3
<1> QED BY <1>1, <1>2, <1>3, <1>4, <1>5

\* A piece of consecutive units is consecutive.
LEMMA FollowsPart ==
    ASSUME script \in Scripts, NEW s \in Seq(Units), Follows(s), NEW t \in Seq(Units), NEW a \in Nat,
           a + Len(t) <= Len(s), \A i \in 1 .. Len(t) : t[i] = s[a + i]
    PROVE  Follows(t)
<1> SUFFICES ASSUME NEW i \in DOMAIN t, NEW j \in DOMAIN t, i < j
             PROVE  /\ j = i + 1 => t[j] = NextUnit(t[i])
                    /\ t[i].n + (j - i) <= LastNumber(t[i].id) => t[j] = Later(t[i], j - i)
  BY DEF Follows
<1>1. /\ DOMAIN t = 1 .. Len(t) /\ Len(t) \in Nat /\ DOMAIN s = 1 .. Len(s) /\ Len(s) \in Nat
  BY DomFacts
<1>2. t[i] = s[a + i] /\ t[j] = s[a + j]
  BY <1>1
<1>3. a + i \in DOMAIN s /\ a + j \in DOMAIN s /\ a + i < a + j /\ (a + j) - (a + i) = j - i
      /\ (j = i + 1 => a + j = (a + i) + 1)
  BY <1>1
<1>4. /\ a + j = (a + i) + 1 => s[a + j] = NextUnit(s[a + i])
      /\ s[a + i].n + ((a + j) - (a + i)) <= LastNumber(s[a + i].id) => s[a + j] = Later(s[a + i], (a + j) - (a + i))
  BY <1>3 DEF Follows
<1> QED BY <1>2, <1>3, <1>4

\* The first ones are.
LEMMA FollowsTake ==
    ASSUME script \in Scripts, NEW s \in Seq(Units), Follows(s), NEW n \in 0 .. Len(s)
    PROVE  Follows(Take(s, n))
<1> DEFINE t == Take(s, n)
<1>1. t \in Seq(Units) /\ Len(t) = n /\ \A i \in 1 .. n : t[i] = s[i]
  BY TakeFacts
<1> HIDE DEF t
<1>2. 0 \in Nat /\ 0 + Len(t) <= Len(s) /\ \A i \in 1 .. Len(t) : t[i] = s[0 + i]
  BY <1>1
<1>3. Follows(t)
  BY <1>1, <1>2, FollowsPart
<1> QED BY <1>3 DEF t

\* The remaining ones are.
LEMMA FollowsDrop ==
    ASSUME script \in Scripts, NEW s \in Seq(Units), Follows(s), NEW n \in 0 .. Len(s)
    PROVE  Follows(Drop(s, n))
<1> DEFINE t == Drop(s, n)
<1>1. t \in Seq(Units) /\ Len(t) = Len(s) - n /\ \A i \in 1 .. Len(s) - n : t[i] = s[n + i]
  BY DropFacts
<1> HIDE DEF t
<1>2. n \in Nat /\ n + Len(t) <= Len(s)
  BY <1>1
<1>3. Follows(t)
  BY <1>1, <1>2, FollowsPart
<1> QED BY <1>3 DEF t

\* All but the first are.
LEMMA FollowsTail ==
    ASSUME script \in Scripts, NEW s \in Seq(Units), Follows(s), s # <<>>
    PROVE  Follows(Tail(s))
<1> DEFINE t == Tail(s)
<1>1. t \in Seq(Units) /\ Len(t) = Len(s) - 1 /\ \A i \in 1 .. Len(s) - 1 : t[i] = s[i + 1]
  BY TailFacts
<1> HIDE DEF t
<1>2. 1 \in Nat /\ 1 + Len(t) <= Len(s) /\ \A i \in 1 .. Len(t) : t[i] = s[1 + i]
  BY <1>1
<1>3. Follows(t)
  BY <1>1, <1>2, FollowsPart
<1> QED BY <1>3 DEF t

\* The next unit may be added.
LEMMA FollowsAdd ==
    ASSUME script \in Scripts, NEW s \in Seq(Units), Follows(s), NEW x \in Units,
           s # <<>> => x = NextUnit(s[Len(s)])
    PROVE  Follows(Append(s, x))
<1> DEFINE t == Append(s, x)
           m == Len(s)
<1>1. t \in Seq(Units) /\ Len(t) = m + 1 /\ (\A i \in 1 .. m : t[i] = s[i]) /\ t[m + 1] = x /\ m \in Nat
  BY AddFacts
<1>2. DOMAIN t = 1 .. m + 1 /\ DOMAIN s = 1 .. m /\ (s = <<>> <=> m = 0)
  BY <1>1, DomFacts
<1> HIDE DEF t, m
<1>3. ASSUME NEW i \in DOMAIN t, NEW j \in DOMAIN t, i < j
      PROVE  /\ j = i + 1 => t[j] = NextUnit(t[i])
             /\ t[i].n + (j - i) <= LastNumber(t[i].id) => t[j] = Later(t[i], j - i)
  <2>1. i \in 1 .. m /\ t[i] = s[i] /\ m # 0
    BY <1>1, <1>2, <1>3
  <2>2. CASE j \in 1 .. m
    <3>1. t[j] = s[j] /\ i \in DOMAIN s /\ j \in DOMAIN s
      BY <1>1, <1>2, <2>1, <2>2
    <3> QED BY <1>3, <2>1, <3>1 DEF Follows
  <2>3. CASE j = m + 1
    <3>1. t[j] = x /\ x = NextUnit(s[m])
      BY <1>1, <1>2, <2>1, <2>3 DEF m
    <3>2. j = i + 1 => i = m
      BY <1>1, <2>1, <2>3
    <3>3. ASSUME s[i].n + (j - i) <= LastNumber(s[i].id) PROVE x = Later(s[i], j - i)
      <4>1. s[i] \in Units /\ m - i \in Nat /\ j - i = (m - i) + 1
        BY <1>1, <1>2, <2>1, <2>3
      <4>2. s[i].n \in Nat /\ LastNumber(s[i].id) \in Nat
        BY <4>1, LaterFacts
      <4>3. s[i].n + (m - i) < LastNumber(s[i].id)
        BY <3>3, <4>1, <4>2
      <4>4. CASE i = m
        <5>1. m - i = 0 /\ s[i].n < LastNumber(s[i].id) /\ j - i = 1
          BY <1>1, <4>1, <4>2, <4>3, <4>4
        <5>2. NextUnit(s[i]) = Later(s[i], 1)
          BY <4>1, <5>1, LaterFacts
        <5> QED BY <3>1, <4>4, <5>1, <5>2
      <4>5. CASE i < m
        <5>1. i \in DOMAIN s /\ m \in DOMAIN s /\ s[i].n + (m - i) <= LastNumber(s[i].id)
          BY <1>1, <1>2, <2>1, <4>1, <4>2, <4>3
        <5>2. s[m] = Later(s[i], m - i)
          BY <4>5, <5>1 DEF Follows
        <5>3. NextUnit(Later(s[i], m - i)) = Later(s[i], (m - i) + 1)
          BY <4>1, <4>3, LaterFacts
        <5> QED BY <3>1, <4>1, <5>2, <5>3
      <4> QED BY <1>1, <2>1, <4>4, <4>5
    <3> QED BY <2>1, <3>1, <3>2, <3>3
  <2> QED BY <1>1, <1>2, <2>2, <2>3
<1>4. Follows(t)
  BY <1>3 DEF Follows
<1> QED BY <1>4 DEF t

\* n units are read from the client.
LEMMA ReadOn ==
    ASSUME script \in Scripts, NEW b, NEW c \in ClientRecords, NEW p, Stream(b, c, p), NEW n \in 1 .. Len(c.in)
    PROVE  LET d == [c EXCEPT !.in = Drop(@, n)]
           IN  /\ d.in = Drop(c.in, n) /\ d.st = c.st /\ d.next = c.next /\ c.st # "rst" /\ Follows(d.in)
               /\ d.in # <<>> => d.next = NextUnit(d.in[Len(d.in)])
               /\ Unread(d) = NextUnit(c.in[n]) /\ Unread(c) = c.in[1]
<1> DEFINE s == Drop(c.in, n)
           d == [c EXCEPT !.in = s]
<1>1. c.in \in Seq(Units) /\ Len(c.in) \in Nat /\ n \in 0 .. Len(c.in) /\ c.in # <<>> /\ DOMAIN c.in = 1 .. Len(c.in)
  BY DEF ClientRecords
<1>2. s \in Seq(Units) /\ Len(s) = Len(c.in) - n /\ \A i \in 1 .. Len(c.in) - n : s[i] = c.in[n + i]
  BY <1>1, DropFacts
<1>3. Follows(c.in) /\ c.st # "rst" /\ c.next = NextUnit(c.in[Len(c.in)])
  BY <1>1 DEF Stream
<1>4. Follows(s)
  BY <1>1, <1>3, FollowsDrop
<1> HIDE DEF s
<1>5. d.in = s /\ d.st = c.st /\ d.next = c.next
  BY DEF ClientRecords
<1> HIDE DEF d
<1>6. s # <<>> => s[Len(s)] = c.in[Len(c.in)]
  <2>1. ASSUME s # <<>> PROVE s[Len(s)] = c.in[Len(c.in)]
    <3>1. Len(s) \in 1 .. Len(c.in) - n /\ n + Len(s) = Len(c.in)
      BY <1>1, <1>2, <2>1, EmptySeq
    <3> QED BY <1>2, <3>1
  <2> QED BY <2>1
<1>7. Unread(d) = NextUnit(c.in[n])
  <2>1. CASE s # <<>>
    <3>1. 1 \in 1 .. Len(c.in) - n /\ n + 1 \in 1 .. Len(c.in) /\ n < n + 1
      BY <1>1, <1>2, <2>1, EmptySeq
    <3>2. s[1] = c.in[n + 1]
      BY <1>2, <3>1
    <3>3. c.in[n + 1] = NextUnit(c.in[n])
      BY <1>1, <1>3, <3>1 DEF Follows
    <3> QED BY <1>5, <2>1, <3>2, <3>3 DEF Unread
  <2>2. CASE s = <<>>
    <3>1. n = Len(c.in)
      BY <1>1, <1>2, <2>2
    <3> QED BY <1>3, <1>5, <2>2, <3>1 DEF Unread
  <2> QED BY <2>1, <2>2
<1>8. Unread(c) = c.in[1]
  BY <1>1 DEF Unread
<1> QED BY <1>3, <1>4, <1>5, <1>6, <1>7, <1>8 DEF d, s

\* What the client's socket holds after a read.
LEMMA ReadNow ==
    ASSUME script \in Scripts, client \in ClientRecords, NEW b, NEW p, Stream(b, client, p),
           NEW n \in 1 .. Len(client.in), client' = [client EXCEPT !.in = Drop(@, n)]
    PROVE  /\ client'.in = Drop(client.in, n) /\ client'.st = client.st /\ client'.next = client.next
           /\ client.st # "rst" /\ Follows(client'.in)
           /\ client'.in # <<>> => client'.next = NextUnit(client'.in[Len(client'.in)])
           /\ NextUnit(client.in[n]) = IF client'.in # <<>> THEN client'.in[1] ELSE client'.next
           /\ Unread(client) = client.in[1]
<1> DEFINE d == [client EXCEPT !.in = Drop(@, n)]
<1>1. /\ d.in = Drop(client.in, n) /\ d.st = client.st /\ d.next = client.next /\ client.st # "rst" /\ Follows(d.in)
      /\ d.in # <<>> => d.next = NextUnit(d.in[Len(d.in)])
      /\ Unread(d) = NextUnit(client.in[n]) /\ Unread(client) = client.in[1]
  BY ReadOn, Zenon
<1>2. Unread(d) = IF d.in # <<>> THEN d.in[1] ELSE d.next
  BY DEF Unread
<1>3. client' = d
  OBVIOUS
<1> HIDE DEF d
<1> QED BY <1>1, <1>2, <1>3

\* Reading the request's body gives the next pieces of it.
LEMMA BodyFollows ==
    ASSUME script \in Scripts, NEW s \in Seq(Units), Follows(s), NEW id \in DOMAIN script,
           script[id].target # "long", NEW m \in Nat \ {0}, s[1] = Unit("b", id, m),
           NEW n \in 1 .. Len(s), m + n <= script[id].body + 1
    PROVE  /\ \A i \in 1 .. n : s[i] = Unit("b", id, m + i - 1)
           /\ m + n <= script[id].body => NextUnit(s[n]) = Unit("b", id, m + n)
<1>1. /\ DOMAIN s = 1 .. Len(s) /\ Len(s) \in Nat /\ script[id].body \in Nat /\ LastNumber(id) = script[id].body
      /\ n \in Nat /\ 1 \in DOMAIN s
  BY DomFacts, ScriptFacts, LastFacts
<1> DEFINE x == Unit("b", id, m)
<1>2. x \in Units /\ x.k = "b" /\ x.id = id /\ x.n = m
  BY UnitFacts DEF Kinds, Unit
<1>3. \A d \in Nat : Later(x, d) = Unit("b", id, m + d)
  BY <1>2 DEF Later
<1> HIDE DEF x
<1>4. ASSUME NEW i \in 1 .. n PROVE s[i] = Unit("b", id, m + i - 1)
  <2>1. CASE i = 1
    <3>1. m + i - 1 = m
      BY <2>1
    <3> QED BY <2>1, <3>1
  <2>2. CASE i > 1
    <3>1. i \in DOMAIN s /\ 1 < i /\ i - 1 \in Nat /\ m + (i - 1) = m + i - 1 /\ m + (i - 1) <= script[id].body
      BY <1>1, <2>2
    <3>2. s[1] = x
      BY DEF x
    <3>3. s[i] = Later(x, i - 1)
      BY <1>1, <1>2, <3>1, <3>2 DEF Follows
    <3> QED BY <1>3, <3>1, <3>3
  <2> QED BY <1>1, <2>1, <2>2
<1>5. ASSUME m + n <= script[id].body PROVE NextUnit(s[n]) = Unit("b", id, m + n)
  <2>1. s[n] = Unit("b", id, m + n - 1)
    BY <1>1, <1>4
  <2>2. n - 1 \in Nat /\ m + (n - 1) = m + n - 1 /\ (n - 1) + 1 = n /\ m + (n - 1) < LastNumber(id)
    BY <1>1, <1>5
  <2>3. s[n] = Later(x, n - 1)
    BY <1>3, <2>1, <2>2
  <2>4. NextUnit(Later(x, n - 1)) = Later(x, (n - 1) + 1)
    BY <1>2, <2>2, LaterFacts
  <2> QED BY <1>1, <1>3, <2>2, <2>3, <2>4
<1> QED BY <1>4, <1>5

-----------------------------------------------------------------------------
(* What the slot has in hand of the request, step by step. *)

\* What is in hand does not change with the script.
LEMMA SameHand ==
    ASSUME script' = script, NEW p, NEW id
    PROVE  Hand(p, id)' <=> Hand(p, id)
<1>1. \A us, left : Pieces(us, id, left)' <=> Pieces(us, id, left)
  BY DEF Pieces
<1> QED BY <1>1 DEF Hand

\* HandInv after a step, from the parts it is about.
LEMMA HandNow ==
    ASSUME script' = script, NEW b, NEW c, NEW p, hc'.buf = b, client' = c, px' = p, Stream(b, c, p),
           p.fd # NoUp => Hand(p, b[1].id)
    PROVE  HandInv'
<1>1. StreamInv'
  BY StreamNow
<1>2. p.fd # NoUp => Hand(p, b[1].id)'
  BY SameHand
<1>3. Cur' = b[1].id
  BY DEF Cur
<1>4. px'.fd # NoUp => Hand(px, Cur)'
  BY <1>2, <1>3
<1> QED BY <1>1, <1>4 DEF HandInv

\* A step that leaves the client's stream alone.
LEMMA HandKept ==
    ASSUME HandInv, script' = script, hc'.buf = hc.buf, client' = client,
           px'.fd # NoUp => px.fd # NoUp /\ px'.bodyLeft = px.bodyLeft /\ Hand(px', Cur)
    PROVE  HandInv'
<1> DEFINE b == hc.buf
           p == px'
<1>1. Stream(b, client, px)
  BY DEF HandInv, StreamInv
<1>2. Stream(b, client, p)
  BY <1>1 DEF Stream
<1>3. p.fd # NoUp => Hand(p, b[1].id)
  BY DEF Cur
<1>4. hc'.buf = b /\ px' = p
  OBVIOUS
<1> HIDE DEF b, p
<1> QED BY <1>2, <1>3, <1>4, HandNow

\* What is left of the body after a send still ends where it ended.
LEMMA PiecesDrop ==
    ASSUME script \in Scripts, NEW id \in DOMAIN script, NEW us \in Seq(Units), NEW left \in Nat,
           Pieces(us, id, left), NEW n \in 0 .. Len(us)
    PROVE  Pieces(Drop(us, n), id, left) /\ Len(Drop(us, n)) = Len(us) - n
<1> DEFINE t == Drop(us, n)
<1>1. t \in Seq(Units) /\ Len(t) = Len(us) - n /\ \A i \in 1 .. Len(us) - n : t[i] = us[n + i]
  BY DropFacts
<1>2. script[id].body \in Nat /\ Len(us) \in Nat /\ DOMAIN us = 1 .. Len(us) /\ DOMAIN t = 1 .. Len(t)
  BY <1>1, ScriptFacts, DomFacts
<1> HIDE DEF t
<1>3. ASSUME NEW i \in DOMAIN t PROVE t[i] = Unit("b", id, script[id].body - left - Len(t) + i)
  <2>1. i \in 1 .. Len(us) - n /\ n + i \in DOMAIN us
    BY <1>1, <1>2
  <2>2. t[i] = us[n + i]
    BY <1>1, <2>1
  <2>3. us[n + i] = Unit("b", id, script[id].body - left - Len(us) + (n + i))
    BY <2>1 DEF Pieces
  <2>4. script[id].body - left - Len(us) + (n + i) = script[id].body - left - Len(t) + i
    BY <1>1, <1>2, <2>1
  <2> QED BY <2>2, <2>3, <2>4
<1>4. Pieces(t, id, left)
  BY <1>3 DEF Pieces
<1> QED BY <1>1, <1>4 DEF t

\* The types of what the slot has in hand.
LEMMA HandTypes ==
    ASSUME SlotInv, px.fd # NoUp
    PROVE  /\ script \in Scripts /\ Cur \in DOMAIN script /\ script[Cur].body \in Nat /\ hc.buf # <<>>
           /\ hc.buf \in Seq(Units) /\ script[Cur].target # "long"
           /\ px.hdr \in Seq(Units) /\ px.buf \in Seq(Units) /\ px.body \in Seq(Units) /\ px.bodyLeft \in Nat
           /\ Len(px.hdr) \in Nat /\ Len(px.buf) \in Nat /\ Len(px.body) \in Nat
<1>1. script \in Scripts /\ hc.buf # <<>> /\ hc.buf \in Seq(Units) /\ script[Cur].target # "long"
  BY DEF SlotInv, Typed, Control, HcRecords, Req
<1>2. Cur \in DOMAIN script
  BY <1>1, CurFacts DEF Cur
<1>3. script[Cur].body \in Nat
  BY <1>1, <1>2, ScriptFacts
<1>4. px.hdr \in Seq(Units) /\ px.buf \in Seq(Units) /\ px.body \in Seq(Units) /\ px.bodyLeft \in Nat
  BY DEF SlotInv, Typed, PxRecords
<1> QED BY <1>1, <1>2, <1>3, <1>4

\* Hand by the phase.
LEMMA HandReq ==
    ASSUME NEW p, NEW id, p.phase = "SEND_REQ", Len(p.hdr) \in {1, 2},
           \A i \in DOMAIN p.hdr : p.hdr[i] = Unit("q", id, 2 - Len(p.hdr) + i),
           Pieces(p.body, id, p.bodyLeft), Len(p.body) + p.bodyLeft <= script[id].body, p.buf = <<>>
    PROVE  Hand(p, id)
  BY DEF Hand

\* What is in hand in PX_SEND_BODY.
LEMMA HandBody ==
    ASSUME NEW p, NEW id, p.phase = "SEND_BODY", p.buf = <<>> \/ p.body = <<>>,
           Pieces(p.buf, id, p.bodyLeft), Pieces(p.body, id, p.bodyLeft),
           Len(p.buf) + Len(p.body) + p.bodyLeft <= script[id].body
    PROVE  Hand(p, id)
  BY DEF Hand

\* Nothing is in hand while the answer is awaited or sent.
LEMMA HandAnswer ==
    ASSUME NEW p, NEW id, p.phase \in Answering, p.body = <<>>, p.bodyLeft = 0
    PROVE  Hand(p, id)
  BY DEF Hand, Answering

\* No units are a piece of every body.
LEMMA NoPieces == \A id, left : Pieces(<<>>, id, left)
  BY DEF Pieces

\* A step that leaves the request alone leaves what is in hand.
LEMMA HandContinues ==
    ASSUME SlotInv, px.fd # NoUp, Hand(px, Cur), Continues
    PROVE  Hand(px', Cur)
<1> DEFINE p == px'
<1> SUFFICES Hand(p, Cur)
  OBVIOUS
<1>1. p.body = px.body /\ p.bodyLeft = px.bodyLeft
  BY DEF Continues, SameBody
<1>2. \/ p.phase = px.phase /\ p.hdr = px.hdr /\ p.buf = px.buf
      \/ px.phase = "SEND_BODY" /\ px.buf = <<>> /\ px.body = <<>> /\ px.bodyLeft = 0 /\ p.phase = "RECV_HDR"
      \/ px.phase \in Answering /\ p.phase \in Answering
  BY DEF Continues
<1> HIDE DEF p
<1>3. CASE p.phase = px.phase /\ p.hdr = px.hdr /\ p.buf = px.buf
  BY <1>1, <1>3 DEF Hand
<1>4. CASE px.phase = "SEND_BODY" /\ px.buf = <<>> /\ px.body = <<>> /\ px.bodyLeft = 0 /\ p.phase = "RECV_HDR"
  BY <1>1, <1>4, HandAnswer DEF Answering
<1>5. CASE px.phase \in Answering /\ p.phase \in Answering
  <2>1. px.body = <<>> /\ px.bodyLeft = 0
    BY <1>5 DEF Hand, Answering
  <2> QED BY <1>1, <1>5, <2>1, HandAnswer
<1> QED BY <1>2, <1>3, <1>4, <1>5

\* What is in hand after a piece of the header was sent.
LEMMA HandSendsHdr ==
    ASSUME SlotInv, px.fd # NoUp, Hand(px, Cur), SendsHdr, px'.fd # NoUp
    PROVE  Hand(px', Cur) /\ px'.bodyLeft = px.bodyLeft
<1> DEFINE p == px'
           hdr == px.hdr
           k == Len(hdr)
<1> SUFFICES Hand(p, Cur) /\ p.bodyLeft = px.bodyLeft
  OBVIOUS
<1>1. PICK n \in 0 .. k :
          /\ p.fd = px.fd /\ p.hdr = Drop(hdr, n) /\ p.body = px.body /\ p.bodyLeft = px.bodyLeft
          /\ \/ n < k /\ p.phase = "SEND_REQ" /\ p.buf = px.buf
             \/ /\ n = k /\ p.buf = <<>>
                /\ p.phase = IF BodyPending(px) THEN "SEND_BODY" ELSE "RECV_HDR"
  BY DEF SendsHdr, SameBody
<1>2. /\ px.phase = "SEND_REQ" /\ k \in {1, 2}
      /\ \A i \in DOMAIN hdr : hdr[i] = Unit("q", Cur, 2 - k + i)
      /\ Pieces(px.body, Cur, px.bodyLeft) /\ Len(px.body) + px.bodyLeft <= script[Cur].body
      /\ px.buf = <<>>
  BY DEF Hand, SendsHdr
<1>3. hdr \in Seq(Units) /\ px.bodyLeft \in Nat /\ px.body \in Seq(Units) /\ Len(px.body) \in Nat
  BY HandTypes
<1> DEFINE t == Drop(hdr, n)
<1>4. t \in Seq(Units) /\ Len(t) = k - n /\ \A i \in 1 .. k - n : t[i] = hdr[n + i]
  BY <1>3, DropFacts
<1>5. DOMAIN hdr = 1 .. k
  BY <1>3, DomFacts
<1>6. /\ p.hdr = t
      /\ \/ n < k /\ p.phase = "SEND_REQ" /\ p.buf = px.buf
         \/ /\ n = k /\ p.buf = <<>>
            /\ p.phase = IF BodyPending(px) THEN "SEND_BODY" ELSE "RECV_HDR"
  BY <1>1
<1> HIDE DEF t, p, hdr, k
<1>7. CASE n < k
  <2>1. Len(t) \in {1, 2} /\ DOMAIN t = 1 .. Len(t) /\ Len(t) = k - n
    <3>1. k \in {1, 2} /\ n \in 0 .. k /\ Len(t) = k - n /\ t \in Seq(Units)
      BY <1>2, <1>4
    <3>2. DOMAIN t = 1 .. Len(t)
      BY <3>1, DomFacts
    <3>3. Len(t) \in {1, 2}
      BY <1>7, <3>1
    <3> QED BY <3>1, <3>2, <3>3
  <2>2. ASSUME NEW i \in DOMAIN t PROVE t[i] = Unit("q", Cur, 2 - Len(t) + i)
    <3>1. k \in {1, 2} /\ i \in 1 .. k - n
      BY <1>2, <2>1, <2>2
    <3>2. n + i \in DOMAIN hdr /\ 2 - k + (n + i) = 2 - (k - n) + i
      BY <1>5, <3>1
    <3>3. t[i] = hdr[n + i] /\ hdr[n + i] = Unit("q", Cur, 2 - k + (n + i))
      BY <1>2, <1>4, <3>1, <3>2
    <3> QED BY <2>1, <3>2, <3>3
  <2>3. p.phase = "SEND_REQ" /\ p.buf = <<>>
    BY <1>2, <1>6, <1>7
  <2> QED BY <1>1, <1>2, <1>6, <2>1, <2>2, <2>3, HandReq
<1>8. CASE n = k
  <2>1. p.buf = <<>> /\ p.phase = (IF BodyPending(px) THEN "SEND_BODY" ELSE "RECV_HDR")
    BY <1>6, <1>8
  <2>2. CASE BodyPending(px)
    <3>1. Len(p.buf) + Len(p.body) + p.bodyLeft <= script[Cur].body
      BY <1>1, <1>2, <1>3, <2>1
    <3> QED BY <1>1, <1>2, <2>1, <2>2, <3>1, NoPieces, HandBody
  <2>3. CASE ~BodyPending(px)
    <3>1. px.body = <<>> /\ px.bodyLeft = 0
      BY <1>3, <2>3 DEF BodyPending
    <3> QED BY <1>1, <2>1, <2>3, <3>1, HandAnswer DEF Answering
  <2> QED BY <2>2, <2>3
<1> QED BY <1>1, <1>6, <1>7, <1>8

\* What is in hand after a piece of the body was sent.
LEMMA HandSendsBody ==
    ASSUME SlotInv, px.fd # NoUp, Hand(px, Cur), SendsBody, px'.fd # NoUp
    PROVE  Hand(px', Cur) /\ px'.bodyLeft = px.bodyLeft
<1>1. /\ px.phase = "SEND_BODY" /\ (px.buf = <<>> \/ px.body = <<>>)
      /\ Pieces(px.buf, Cur, px.bodyLeft) /\ Pieces(px.body, Cur, px.bodyLeft)
      /\ Len(px.buf) + Len(px.body) + px.bodyLeft <= script[Cur].body
  BY DEF Hand, SendsBody
<1>2. /\ px.buf \in Seq(Units) /\ px.body \in Seq(Units) /\ px.bodyLeft \in Nat /\ script \in Scripts
      /\ Cur \in DOMAIN script /\ Len(px.buf) \in Nat /\ Len(px.body) \in Nat /\ script[Cur].body \in Nat
  BY HandTypes
<1>5. /\ Len(px.buf) \in Nat /\ Len(px.body) \in Nat /\ script[Cur].body \in Nat /\ px.bodyLeft \in Nat
      /\ Len(px.buf) + Len(px.body) + px.bodyLeft <= script[Cur].body
  BY <1>1, <1>2
<1>6. /\ px.buf \in Seq(Units) /\ px.body \in Seq(Units) /\ px.bodyLeft \in Nat /\ script \in Scripts
      /\ Cur \in DOMAIN script /\ Pieces(px.buf, Cur, px.bodyLeft) /\ Pieces(px.body, Cur, px.bodyLeft)
  BY <1>1, <1>2
<1>3. CASE \E n \in 0 .. Len(px.buf) :
             /\ px.buf # <<>> /\ Sent(Take(px.buf, n))
             /\ \/ px'.fd = NoUp
                \/ px'.fd = px.fd /\ px'.phase = "SEND_BODY" /\ px'.buf = Drop(px.buf, n) /\ SameBody
  <2>1. PICK n \in 0 .. Len(px.buf) :
             px.buf # <<>> /\ px'.phase = "SEND_BODY" /\ px'.buf = Drop(px.buf, n) /\ SameBody
    BY <1>3
  <2> DEFINE t == Drop(px.buf, n)
             p == px'
  <2>2. Pieces(t, Cur, px.bodyLeft) /\ Len(t) = Len(px.buf) - n
    BY <1>6, PiecesDrop, Zenon
  <2>3. p.buf = t /\ p.phase = "SEND_BODY" /\ p.body = px.body /\ p.bodyLeft = px.bodyLeft /\ px.body = <<>>
    BY <1>1, <2>1 DEF SameBody
  <2> HIDE DEF t, p
  <2>4. Len(t) + Len(px.body) + px.bodyLeft <= script[Cur].body
    <3> DEFINE a == Len(px.buf)
               b == Len(px.body)
               m == Len(t)
               left == px.bodyLeft
               all == script[Cur].body
    <3>1. a \in Nat /\ b \in Nat /\ left \in Nat /\ all \in Nat /\ a + b + left <= all /\ m = a - n /\ n \in 0 .. a
      BY <1>5, <2>2
    <3> HIDE DEF a, b, m, left, all
    <3>2. m + b + left <= all
      BY <3>1
    <3> QED BY <3>2 DEF m, b, left, all
  <2>5. Hand(p, Cur)
    BY <1>1, <2>2, <2>3, <2>4, HandBody
  <2> QED BY <2>3, <2>5 DEF p
<1>4. CASE \E n \in 0 .. Len(px.body) :
             /\ px.buf = <<>> /\ Sent(Take(px.body, n))
             /\ \/ px'.fd = NoUp
                \/ /\ px'.fd = px.fd /\ px'.phase = "SEND_BODY" /\ px'.buf = px.buf
                   /\ px'.body = Drop(px.body, n) /\ px'.bodyLeft = px.bodyLeft
  <2>1. PICK n \in 0 .. Len(px.body) :
             /\ px.buf = <<>> /\ px'.phase = "SEND_BODY" /\ px'.buf = px.buf
             /\ px'.body = Drop(px.body, n) /\ px'.bodyLeft = px.bodyLeft
    BY <1>4
  <2> DEFINE t == Drop(px.body, n)
             p == px'
  <2>2. Pieces(t, Cur, px.bodyLeft) /\ Len(t) = Len(px.body) - n
    BY <1>6, PiecesDrop, Zenon
  <2>3. p.body = t /\ p.phase = "SEND_BODY" /\ p.buf = px.buf /\ p.bodyLeft = px.bodyLeft /\ px.buf = <<>>
    BY <2>1
  <2> HIDE DEF t, p
  <2>4. Len(px.buf) + Len(t) + px.bodyLeft <= script[Cur].body
    <3> DEFINE a == Len(px.buf)
               b == Len(px.body)
               m == Len(t)
               left == px.bodyLeft
               all == script[Cur].body
    <3>1. a \in Nat /\ b \in Nat /\ left \in Nat /\ all \in Nat /\ a + b + left <= all /\ m = b - n /\ n \in 0 .. b
      BY <1>5, <2>2
    <3> HIDE DEF a, b, m, left, all
    <3>2. a + m + left <= all
      BY <3>1
    <3> QED BY <3>2 DEF a, m, left, all
  <2>5. Hand(p, Cur)
    BY <1>1, <2>2, <2>3, <2>4, HandBody
  <2> QED BY <2>3, <2>5 DEF p
<1> QED BY <1>3, <1>4 DEF SendsBody

\* What is in hand when a request starts over.
LEMMA HandRestarts ==
    ASSUME SlotInv, px.fd # NoUp, Hand(px, Cur), Restarts
    PROVE  Hand(px', Cur)
<1> DEFINE p == px'
           t == Take(UpUnits(Cur), 2)
           all == script[Cur].body
           m == Len(p.body)
           left == p.bodyLeft
<1> SUFFICES Hand(p, Cur)
  OBVIOUS
<1>1. p.phase = "SEND_REQ" /\ p.hdr = t /\ p.buf = px.buf /\ p.body = px.body /\ left = px.bodyLeft
  BY DEF Restarts, SameBody
<1>2. script \in Scripts /\ Cur \in DOMAIN script /\ all \in Nat
  BY HandTypes
<1>3. t \in Seq(Units) /\ Len(t) = 2 /\ t[1] = Unit("q", Cur, 1) /\ t[2] = Unit("q", Cur, 2)
  BY <1>2, HeadUnits
<1>4. DOMAIN t = 1 .. 2
  BY <1>3, DomFacts
<1>5. px.buf = <<>> /\ Pieces(px.body, Cur, px.bodyLeft) /\ Len(px.body) + px.bodyLeft <= all
  <2>1. CASE px.phase = "SEND_REQ"
    BY <2>1 DEF Hand
  <2>2. CASE px.phase = "RECV_HDR" /\ MayRetry(px)
    <3>1. px.body = <<>> /\ px.bodyLeft = 0 /\ px.buf = <<>>
      BY <2>2 DEF Hand, MayRetry
    <3>2. Len(px.body) = 0
      BY <3>1
    <3>3. Len(px.body) + px.bodyLeft <= all
      BY <1>2, <3>1, <3>2
    <3> QED BY <3>1, <3>3, NoPieces
  <2> QED BY <2>1, <2>2 DEF Restarts
<1>6. p.buf = <<>> /\ Pieces(p.body, Cur, left) /\ m + left <= all
  BY <1>1, <1>5
<1> HIDE DEF p, t, all, m, left
<1>7. \A i \in DOMAIN t : t[i] = Unit("q", Cur, 2 - Len(t) + i)
  <2>1. ASSUME NEW i \in DOMAIN t PROVE t[i] = Unit("q", Cur, 2 - Len(t) + i)
    <3>1. (i = 1 \/ i = 2) /\ 2 - Len(t) + i = i
      BY <1>3, <1>4
    <3> QED BY <1>3, <3>1
  <2> QED BY <2>1
<1> QED BY <1>1, <1>3, <1>6, <1>7, HandReq DEF m, left, all

\* What is in hand after a piece of the body was read from the client.
LEMMA HandReadsBody ==
    ASSUME SlotInv, px.fd # NoUp, HandInv, script' = script, hc'.buf = hc.buf, ReadsBody
    PROVE  HandInv'
<1> DEFINE b == hc.buf
           p == px'
           c == client'
           id == Cur
           all == script[id].body
           left == px.bodyLeft
           in == client.in
<1>1. PICK n \in 1 .. Len(in) :
          /\ n <= left /\ client' = [client EXCEPT !.in = Drop(@, n)]
          /\ p.fd = px.fd /\ p.phase = "SEND_BODY" /\ p.buf = Take(in, n)
          /\ p.body = px.body /\ p.bodyLeft = left - n
  BY DEF ReadsBody
<1>2. px.phase = "SEND_BODY" /\ px.buf = <<>> /\ px.body = <<>>
  BY DEF ReadsBody
<1>3. /\ script \in Scripts /\ id \in DOMAIN script /\ all \in Nat /\ b # <<>> /\ script[id].target # "long"
      /\ left \in Nat /\ client \in ClientRecords /\ in \in Seq(Units) /\ id = b[1].id
  BY HandTypes DEF SlotInv, Typed, ClientRecords, Cur
<1>4. Hand(px, id) /\ Stream(b, client, px)
  BY DEF HandInv, StreamInv
<1>5. left <= all
  <2>1. Len(px.buf) + Len(px.body) + left <= all
    BY <1>2, <1>4 DEF Hand
  <2>2. Len(px.buf) = 0 /\ Len(px.body) = 0
    BY <1>2
  <2> QED BY <1>3, <2>1, <2>2
<1>6. /\ c.in = Drop(in, n) /\ c.st = client.st /\ c.next = client.next /\ client.st # "rst" /\ Follows(c.in)
      /\ c.in # <<>> => c.next = NextUnit(c.in[Len(c.in)])
      /\ Unread(c) = NextUnit(in[n]) /\ Unread(client) = in[1]
  <2>1. /\ script \in Scripts /\ client \in ClientRecords /\ Stream(b, client, px) /\ n \in 1 .. Len(client.in)
        /\ client' = [client EXCEPT !.in = Drop(@, n)]
    BY <1>1, <1>3, <1>4
  <2>2. /\ c.in = Drop(in, n) /\ c.st = client.st /\ c.next = client.next /\ client.st # "rst" /\ Follows(c.in)
        /\ c.in # <<>> => c.next = NextUnit(c.in[Len(c.in)])
        /\ NextUnit(in[n]) = IF c.in # <<>> THEN c.in[1] ELSE c.next
        /\ Unread(client) = in[1]
    BY <2>1, ReadNow, Zenon
  <2> QED BY <2>2 DEF Unread
<1>7. in[1] = Unit("b", id, all - left + 1) /\ Follows(in)
  <2>1. left > 0
    BY <1>1, <1>3
  <2> QED BY <1>3, <1>4, <1>6, <2>1 DEF Stream
<1>8. b[1] = FirstUnit(id) /\ Follows(b)
  BY <1>3, <1>4 DEF Stream
<1> DEFINE us == Take(in, n)
           m == all - left + 1
<1>9. us \in Seq(Units) /\ Len(us) = n /\ \A i \in 1 .. n : us[i] = in[i]
  BY <1>1, <1>3, TakeFacts
<1>10. DOMAIN us = 1 .. n
  BY <1>9, DomFacts
<1>11. Len(in) \in Nat /\ n \in Nat /\ n # 0
  BY <1>1, <1>3
<1> HIDE DEF b, p, c, id, all, left, in, us
<1>12. m \in Nat \ {0} /\ m + n <= all + 1
  BY <1>1, <1>3, <1>5, <1>11
<1>13. /\ \A i \in 1 .. n : in[i] = Unit("b", id, m + i - 1)
       /\ m + n <= all => NextUnit(in[n]) = Unit("b", id, m + n)
  BY <1>1, <1>3, <1>7, <1>12, BodyFollows DEF all
<1>14. p.buf = us /\ p.body = <<>>
  BY <1>1, <1>2 DEF us
<1>15. Pieces(us, id, left - n)
  <2>1. ASSUME NEW i \in DOMAIN us PROVE us[i] = Unit("b", id, all - (left - n) - Len(us) + i)
    <3>1. i \in 1 .. n /\ m + i - 1 = all - (left - n) - Len(us) + i
      BY <1>3, <1>9, <1>10, <1>11
    <3> QED BY <1>9, <1>13, <3>1
  <2> QED BY <2>1 DEF Pieces, all
<1>16. Hand(p, id)
  <2>1. Len(us) + Len(<<>>) + (left - n) <= all
    BY <1>3, <1>5, <1>9, <1>11
  <2> QED BY <1>1, <1>14, <1>15, <2>1, NoPieces, HandBody DEF all
<1>17. left - n > 0 => Unread(c) = Unit("b", id, all - (left - n) + 1)
  <2>1. ASSUME left - n > 0 PROVE Unread(c) = Unit("b", id, all - (left - n) + 1)
    <3>1. m + n <= all /\ m + n = all - (left - n) + 1
      BY <1>3, <1>11, <2>1
    <3> QED BY <1>6, <1>13, <3>1
  <2> QED BY <2>1
<1>18. all # 0
  BY <1>1, <1>3, <1>5, <1>11
<1>19. p.fd # NoUp /\ p.bodyLeft > 0 => Unread(c) = Unit("b", b[1].id, script[b[1].id].body - p.bodyLeft + 1)
  BY <1>1, <1>3, <1>17 DEF all
<1>20. Stream(b, c, p)
  BY <1>3, <1>6, <1>8, <1>18, <1>19 DEF Stream, all
<1>21. hc'.buf = b /\ px' = p /\ client' = c
  BY DEF b, p, c
<1> QED BY <1>3, <1>16, <1>20, <1>21, HandNow

\* A step of an exchange.
LEMMA HandStep ==
    ASSUME SlotInv, HandInv, px.fd # NoUp, RequestStep
    PROVE  HandInv'
<1>1. RequestStep /\ px.fd # NoUp
  OBVIOUS
<1>2. script' = script /\ hc'.buf = hc.buf /\ Hand(px, Cur)
  BY <1>1 DEF RequestStep, HandInv
<1>3. CASE client' = client /\ (px'.fd # NoUp => px'.bodyLeft = px.bodyLeft /\ Hand(px', Cur))
  BY <1>1, <1>2, <1>3, HandKept
<1>4. CASE Ceases
  BY <1>3, <1>4 DEF Ceases
<1>5. CASE Continues
  <2>1. Hand(px', Cur)
    BY <1>1, <1>2, <1>5, HandContinues
  <2> QED BY <1>3, <1>5, <2>1 DEF Continues, SameBody
<1>6. CASE SendsHdr
  <2>1. px'.fd # NoUp => px'.bodyLeft = px.bodyLeft /\ Hand(px', Cur)
    BY <1>1, <1>2, <1>6, HandSendsHdr
  <2> QED BY <1>3, <1>6, <2>1 DEF SendsHdr
<1>7. CASE SendsBody
  <2>1. px'.fd # NoUp => px'.bodyLeft = px.bodyLeft /\ Hand(px', Cur)
    BY <1>1, <1>2, <1>7, HandSendsBody
  <2> QED BY <1>3, <1>7, <2>1 DEF SendsBody
<1>8. CASE ReadsBody
  BY <1>1, <1>2, <1>8, HandReadsBody
<1>9. CASE Restarts
  <2>1. Hand(px', Cur)
    BY <1>1, <1>2, <1>9, HandRestarts
  <2> QED BY <1>3, <1>9, <2>1 DEF Restarts, SameBody
<1> QED BY <1>1, <1>4, <1>5, <1>6, <1>7, <1>8, <1>9 DEF RequestStep

\* Every turn of the pump keeps HandInv.
LEMMA HandPump ==
    ASSUME SlotInv, HandInv, Pump
    PROVE  HandInv'
  BY PumpFacts, RequestPump, HandStep

\* The client's own steps.
LEMMA HandClientSend ==
    ASSUME SlotInv, HandInv, ClientSend
    PROVE  HandInv'
<1> DEFINE b == hc.buf
           x == client.next
           t == Append(client.in, x)
           d == client'
<1>1. script \in Scripts /\ client \in ClientRecords /\ Stream(b, client, px) /\ (px.fd # NoUp => Hand(px, b[1].id))
  BY DEF SlotInv, Typed, HandInv, StreamInv, Cur
<1>2. /\ client.st = "open" /\ x \in Units /\ client.in \in Seq(Units) /\ client' = [client EXCEPT !.next = NextUnit(x), !.in = t]
      /\ script' = script /\ hc' = hc /\ px' = px
  BY <1>1 DEF ClientSend, ClientRecords, slotVars
<1>3. t \in Seq(Units) /\ Len(t) = Len(client.in) + 1 /\ (\A i \in 1 .. Len(client.in) : t[i] = client.in[i]) /\ t[Len(client.in) + 1] = x
  BY <1>2, AddFacts
<1>4. Follows(client.in) /\ (client.in # <<>> => x = NextUnit(client.in[Len(client.in)]))
  BY <1>1, <1>2 DEF Stream
<1>5. Follows(t)
  BY <1>1, <1>2, <1>4, FollowsAdd
<1>6. Len(client.in) \in Nat /\ (client.in = <<>> <=> Len(client.in) = 0)
  BY <1>2, DomFacts
<1>7. d.next = NextUnit(x) /\ d.in = t /\ d.st = client.st
  BY <1>1, <1>2 DEF ClientRecords
<1> HIDE DEF t, d
<1>8. t # <<>> /\ t[Len(t)] = x /\ t[1] = Unread(client)
  <2>1. t # <<>> /\ t[Len(t)] = x
    BY <1>3, <1>6
  <2>2. CASE client.in = <<>>
    BY <1>3, <1>6, <2>2 DEF Unread
  <2>3. CASE client.in # <<>>
    BY <1>3, <1>6, <2>3 DEF Unread
  <2> QED BY <2>1, <2>2, <2>3
<1>9. Unread(d) = Unread(client) /\ d.next = NextUnit(d.in[Len(d.in)]) /\ Follows(d.in) /\ d.st = "open" /\ client.st = "open"
  BY <1>2, <1>5, <1>7, <1>8 DEF Unread
<1>10. Stream(b, d, px)
  BY <1>1, <1>9 DEF Stream
<1>11. hc'.buf = b /\ client' = d /\ px' = px /\ script' = script
  BY <1>2 DEF d
<1> QED BY <1>1, <1>10, <1>11, HandNow

\* The client's leaving keeps HandInv.
LEMMA HandClientLeave ==
    ASSUME SlotInv, HandInv, ClientLeave
    PROVE  HandInv'
<1> DEFINE b == hc.buf
           d == client'
<1>1. script \in Scripts /\ client \in ClientRecords /\ Stream(b, client, px) /\ (px.fd # NoUp => Hand(px, b[1].id))
  BY DEF SlotInv, Typed, HandInv, StreamInv, Cur
<1>2. /\ d.next = client.next
      /\ \/ d.st = "fin" /\ d.in = client.in
         \/ d.st = "rst" /\ d.in = <<>>
  BY <1>1, LeftClient
<1>3. client.st = "open" /\ script' = script /\ hc' = hc /\ px' = px
  BY DEF ClientLeave, slotVars
<1> HIDE DEF d
<1>4. Follows(<<>>)
  BY DEF Follows
<1>5. Stream(b, d, px)
  <2>1. CASE d.st = "fin" /\ d.in = client.in
    <3>1. Unread(d) = Unread(client)
      BY <1>2, <2>1 DEF Unread
    <3> QED BY <1>1, <1>2, <1>3, <2>1, <3>1 DEF Stream
  <2>2. CASE d.st = "rst" /\ d.in = <<>>
    BY <1>1, <1>4, <2>2 DEF Stream
  <2> QED BY <1>2, <2>1, <2>2
<1>6. hc'.buf = b /\ client' = d /\ px' = px /\ script' = script
  BY <1>3 DEF d
<1> QED BY <1>1, <1>5, <1>6, HandNow

\* The request at the front of h.buf begins to be served.
LEMMA FreshHand ==
    ASSUME script \in Scripts, NEW h \in HcRecords, h.buf # <<>>, script[h.buf[1].id].target # "long",
           h.buf[1] = FirstUnit(h.buf[1].id), Follows(h.buf), NEW c \in UpIds, NEW old \in BOOLEAN
    PROVE  LET id == h.buf[1].id
               q == Fresh(h, c, old)
           IN  /\ Hand(q, id)
               /\ q.bodyLeft > 0 => NextUnit(h.buf[Len(h.buf)]) = Unit("b", id, script[id].body - q.bodyLeft + 1)
<1> DEFINE b == h.buf
           x == b[1]
           id == x.id
           all == script[id].body
           have == Have(h)
           us == SubSeq(b, 2, have + 1)
           q == Fresh(h, c, old)
           t == Take(UpUnits(id), 2)
<1>1. /\ id \in DOMAIN script /\ x \in Units /\ b \in Seq(Units)
      /\ have \in Nat /\ have <= Len(b) - 1 /\ have <= all
      /\ Len(b) \in Nat /\ all \in Nat
      /\ us \in Seq(Units) /\ Len(us) = have
      /\ \A i \in 1 .. have : us[i] = b[i + 1]
  BY HaveFacts
<1>2. q.phase = "SEND_REQ" /\ q.hdr = t /\ q.body = us /\ q.bodyLeft = all - have /\ q.buf = <<>>
  BY FreshFacts
<1>3. t \in Seq(Units) /\ Len(t) = 2 /\ t[1] = Unit("q", id, 1) /\ t[2] = Unit("q", id, 2)
  BY <1>1, HeadUnits
<1>4. DOMAIN t = 1 .. 2 /\ DOMAIN us = 1 .. have /\ DOMAIN b = 1 .. Len(b)
  BY <1>1, <1>3, DomFacts
<1>5. LastNumber(id) = all
  BY <1>1, LastFacts
<1>6. x = Unit("req", id, 0)
  BY <1>1 DEF FirstUnit
<1>7. have = Len(b) - 1 \/ have = all
  BY <1>1 DEF Have
<1>8. Follows(b)
  OBVIOUS
<1>15. x = b[1]
  OBVIOUS
<1>16. x.k = "req" /\ x.n = 0
  BY <1>6 DEF Unit
<1> HIDE DEF b, x, all, have, us, q, t
<1>9. \A d \in Nat : Later(x, d) = Unit("b", id, d)
  <2>1. ASSUME NEW d \in Nat PROVE Later(x, d) = Unit("b", id, d)
    <3>1. x.n + d = d
      BY <1>16
    <3> QED BY <1>16, <3>1 DEF Later
  <2> QED BY <2>1
<1>10. ASSUME NEW d \in 1 .. Len(b) - 1, d <= all PROVE b[d + 1] = Unit("b", id, d)
  <2>1. 1 \in DOMAIN b /\ d + 1 \in DOMAIN b /\ 1 < d + 1 /\ (d + 1) - 1 = d /\ d \in Nat
    BY <1>1, <1>4, <1>10
  <2>2. b[1].n + ((d + 1) - 1) <= LastNumber(b[1].id)
    BY <1>5, <1>10, <1>15, <1>16, <2>1
  <2>3. b[d + 1] = Later(b[1], (d + 1) - 1)
    BY <1>8, <2>1, <2>2 DEF Follows
  <2> QED BY <1>9, <1>15, <2>1, <2>3
<1>11. Pieces(us, id, all - have)
  <2>1. ASSUME NEW i \in DOMAIN us PROVE us[i] = Unit("b", id, all - (all - have) - Len(us) + i)
    <3>1. i \in 1 .. have /\ i \in 1 .. Len(b) - 1 /\ i <= all /\ all - (all - have) - Len(us) + i = i
      BY <1>1, <1>4
    <3> QED BY <1>1, <1>10, <3>1
  <2> QED BY <2>1 DEF Pieces, all
<1>12. \A i \in DOMAIN t : t[i] = Unit("q", id, 2 - Len(t) + i)
  <2>1. ASSUME NEW i \in DOMAIN t PROVE t[i] = Unit("q", id, 2 - Len(t) + i)
    <3>1. (i = 1 \/ i = 2) /\ 2 - Len(t) + i = i
      BY <1>3, <1>4
    <3> QED BY <1>3, <3>1
  <2> QED BY <2>1
<1>13. Hand(q, id)
  <2>1. Len(us) + (all - have) <= all
    BY <1>1
  <2> QED BY <1>2, <1>3, <1>11, <1>12, <2>1, HandReq DEF all
<1>14. ASSUME all - have > 0 PROVE NextUnit(b[Len(b)]) = Unit("b", id, all - (all - have) + 1)
  <2>1. have = Len(b) - 1 /\ have < all /\ all - (all - have) + 1 = have + 1 /\ have + 1 = Len(b)
    BY <1>1, <1>7, <1>14
  <2>2. CASE have = 0
    <3>1. x.n < LastNumber(x.id)
      BY <1>5, <1>16, <2>1, <2>2
    <3>2. NextUnit(x) = Later(x, 1)
      BY <1>1, <3>1, LaterFacts
    <3> QED BY <1>9, <1>15, <2>1, <2>2, <3>2
  <2>3. CASE have # 0
    <3>1. have \in 1 .. Len(b) - 1 /\ have <= all
      BY <1>1, <2>1, <2>3
    <3>2. b[Len(b)] = Unit("b", id, have)
      BY <1>10, <2>1, <3>1
    <3>3. x.n + have < LastNumber(x.id)
      BY <1>1, <1>5, <1>16, <2>1
    <3>4. NextUnit(Later(x, have)) = Later(x, have + 1)
      BY <1>1, <3>3, LaterFacts
    <3>5. have + 1 \in Nat
      BY <1>1
    <3> QED BY <1>1, <1>9, <2>1, <3>2, <3>4, <3>5
  <2> QED BY <2>2, <2>3
<1> QED BY <1>2, <1>13, <1>14 DEF b, x, all, q

\* A step that leaves the client, the buffer and the exchange alone.
LEMMA HandSame ==
    ASSUME HandInv, script' = script, hc'.buf = hc.buf, client' = client,
           px'.fd # NoUp => px' = px
    PROVE  HandInv'
  BY HandKept DEF HandInv

\* The peers keep HandInv.
LEMMA HandPeers ==
    ASSUME SlotInv, HandInv, Peers
    PROVE  HandInv'
<1>1. CASE \E c \in UpIds : UpAnswer(c) \/ UpSend(c) \/ UpLeave(c)
  <2>1. script' = script /\ hc' = hc /\ client' = client /\ px' = px
    BY <1>1 DEF UpAnswer, UpSend, UpLeave, slotVars
  <2> QED BY <2>1, HandSame
<1> QED BY <1>1, HandClientSend, HandClientLeave DEF Peers

\* The bytes in b begin with a request that is dispatched.
FrontUnits(b, c) ==
    LET id == b[1].id
    IN  /\ b # <<>> /\ b[1] = FirstUnit(id) /\ (script[id].target # "long" => Follows(b))
        /\ Follows(c.in)
        /\ c.st = "rst" => c.in = <<>>
        /\ c.st # "rst" =>
              /\ c.in # <<>> => c.next = NextUnit(c.in[Len(c.in)])
              /\ Unread(c) = NextUnit(b[Len(b)])

\* StreamInv, when what is read is what the client sent first.
LEMMA FrontStream ==
    ASSUME NEW b, NEW c, NEW p, FrontUnits(b, c), p.fd = NoUp
    PROVE  Stream(b, c, p)
  BY DEF FrontUnits, Stream

\* Dispatching a request gives HandInv.
LEMMA HandDispatch ==
    ASSUME SlotInv, px.fd = NoUp, NEW h \in HcRecords, h.buf # <<>>, script' = script,
           NEW c, client' = c, FrontUnits(h.buf, c), Dispatch(h)
    PROVE  HandInv'
<1> DEFINE b == h.buf
           target == script[b[1].id].target
<1>1. /\ script \in Scripts /\ b[1].id \in DOMAIN script
  BY HaveFacts DEF SlotInv, Typed
<1>2. ASSUME NEW g, g.buf = b, NEW io, Idles(g, io) PROVE HandInv'
  <2>1. hc'.buf = b /\ px' = PxReset /\ PxReset.fd = NoUp
    BY <1>2, ResetFacts DEF Idles
  <2>2. Stream(b, c, PxReset)
    BY <2>1, FrontStream
  <2> QED BY <2>1, <2>2, HandNow
<1>3. ASSUME target # "long", NEW d \in UpIds, Begins(h, d) PROVE HandInv'
  <2>1. PICK old \in BOOLEAN : px' = Fresh(h, d, old)
    BY <1>3 DEF Begins
  <2> DEFINE q == Fresh(h, d, old)
  <2>2. hc'.buf = b
    BY <1>3 DEF Begins, HcRecords
  <2>3. /\ Hand(q, b[1].id)
        /\ q.bodyLeft > 0 => NextUnit(b[Len(b)]) = Unit("b", b[1].id, script[b[1].id].body - q.bodyLeft + 1)
    BY <1>1, <1>3, FreshHand DEF FrontUnits
  <2>4. px' = q
    BY <2>1
  <2> HIDE DEF q
  <2>5. Stream(b, c, q)
    BY <2>3 DEF FrontUnits, Stream
  <2> QED BY <2>2, <2>3, <2>4, <2>5, HandNow
<1>4. \/ target = "long" /\ Idles(h, "read")
      \/ target = "static" /\ Idles(Static(h), "write")
      \/ target = "deny" /\ Idles(ArmFixed(h), "write")
      \/ target \in {"a", "b"} /\ Idles(ArmFixed(Excused(h)), "write")
      \/ target \in {"a", "b"} /\ \E d \in UpIds : Begins(h, d)
  BY DispatchEffect
<1>5. Static(h).buf = b /\ ArmFixed(h).buf = b
  BY DEF Static, ArmFixed, HcRecords
<1>6. ArmFixed(Excused(h)).buf = b
  BY ExcusedFacts, ArmFacts
<1> QED BY <1>2, <1>3, <1>4, <1>5, <1>6

\* http_conn_on_read keeps HandInv.
LEMMA HandOnRead ==
    ASSUME SlotInv, Quiet, HandInv, OnRead
    PROVE  HandInv'
<1>1. script' = script /\ pc = "onread"
  BY OnReadEffect
<1>2. hc \in HcRecords /\ hc.phase = "READ" /\ client \in ClientRecords /\ script \in Scripts /\ client.in \in Seq(Units)
  BY <1>1 DEF SlotInv, Typed, Control, ClientRecords
<1>3. CASE /\ px.fd # NoUp /\ client' = client /\ pool' = pool /\ out' = out
           /\ Waits(up, px, "none", "read") \/ Falls(up, px, FALSE)
  <2>1. up \in [UpIds -> UpRecords]
    BY DEF SlotInv, Typed
  <2>2. RequestStep
    BY <1>1, <1>3, <2>1, WaitsContinues, FallsCeases
  <2> QED BY <1>3, <2>2, HandStep
<1>4. CASE /\ px.fd = NoUp /\ client' = client
           /\ Idles(ArmFixed(hc), "write") \/ Idles(hc, "read") \/ Idles(hc, "close")
  <2>1. ArmFixed(hc).buf = hc.buf
    BY <1>2 DEF ArmFixed, HcRecords
  <2>2. hc'.buf = hc.buf /\ px'.fd = NoUp
    BY <1>4, <2>1, ResetFacts DEF Idles
  <2> QED BY <1>1, <1>4, <2>2, HandSame
<1>5. CASE /\ px.fd = NoUp
           /\ \E n \in 1 .. Len(client.in) :
                 /\ n <= HeaderCap - Len(hc.buf) /\ client' = [client EXCEPT !.in = Drop(@, n)]
                 /\ Dispatch(Filled(n))
  <2>1. PICK n \in 1 .. Len(client.in) :
                 /\ n <= HeaderCap - Len(hc.buf) /\ client' = [client EXCEPT !.in = Drop(@, n)]
                 /\ Dispatch(Filled(n))
    BY <1>5
  <2> DEFINE h == Filled(n)
             b == hc.buf
             us == Take(client.in, n)
             t == b \o us
             c == client'
             in == client.in
             m == Len(b)
  <2>2. /\ h \in HcRecords /\ h.buf = t /\ Len(t) = m + n /\ t # <<>> /\ us \in Seq(Units) /\ Len(us) = n
        /\ \A i \in 1 .. n : us[i] = in[i]
        /\ b \in Seq(Units) /\ m \in Nat
    BY <2>1, FilledFacts
  <2>3. Stream(b, client, px) /\ (b # <<>> => script[b[1].id].target = "long")
    BY <1>1, <1>2, <1>5 DEF HandInv, StreamInv, SlotInv, Control, Req, Cur
  <2>4. /\ c.in = Drop(in, n) /\ c.st = client.st /\ c.next = client.next /\ client.st # "rst" /\ Follows(c.in)
        /\ c.in # <<>> => c.next = NextUnit(c.in[Len(c.in)])
        /\ NextUnit(in[n]) = IF c.in # <<>> THEN c.in[1] ELSE c.next
        /\ Unread(client) = in[1]
    BY <1>2, <2>1, <2>3, ReadNow, Zenon
  <2>5. Dispatch(h)
    BY <2>1
  <2>14. b \in Seq(Units) /\ us \in Seq(Units)
    BY <2>2
  <2>7. Len(in) \in Nat /\ n \in 1 .. Len(in) /\ n \in Nat /\ n >= 1 /\ (b = <<>> <=> m = 0)
    BY <1>2, <2>2, DomFacts
  <2>8. n \in 0 .. Len(in)
    BY <2>7
  <2>9. Follows(in) => Follows(us)
    BY <1>2, <2>8, FollowsTake
  <2> HIDE DEF h, b, us, c, in
  <2>15. /\ \A i \in 1 .. Len(b) : (b \o us)[i] = b[i]
         /\ \A i \in 1 .. Len(us) : (b \o us)[Len(b) + i] = us[i]
    BY <2>14, CatFacts
  <2>6. /\ \A i \in 1 .. m : t[i] = b[i]
        /\ \A i \in 1 .. n : t[m + i] = us[i]
    BY <2>2, <2>15
  <2> HIDE DEF t, m
  <2>10. t[Len(t)] = in[n]
    BY <2>2, <2>6, <2>7
  <2>11. t[1] = FirstUnit(t[1].id) /\ (script[t[1].id].target # "long" => Follows(t))
    <3>1. CASE b = <<>>
      <4>1. t[1] = in[1] /\ Len(t) = n /\ t = us
        <5>1. m = 0 /\ 0 + 1 = 1 /\ 1 \in 1 .. n
          BY <2>7, <3>1
        <5>2. t = us
          BY <2>2, <3>1 DEF t
        <5> QED BY <2>2, <5>1, <5>2
      <4>2. in[1] = FirstUnit(in[1].id) /\ Follows(in)
        BY <2>3, <2>4, <3>1 DEF Stream, in
      <4> QED BY <2>9, <4>1, <4>2
    <3>2. CASE b # <<>>
      <4>1. t[1] = b[1]
        BY <2>2, <2>6, <2>7, <3>2
      <4> QED BY <2>3, <3>2, <4>1 DEF Stream
    <3> QED BY <3>1, <3>2
  <2>12. FrontUnits(t, c)
    <3>1. Unread(c) = NextUnit(in[n])
      BY <2>4 DEF Unread
    <3> QED BY <2>2, <2>4, <2>10, <2>11, <3>1 DEF FrontUnits
  <2>13. h.buf = t /\ client' = c /\ h \in HcRecords
    BY <2>2 DEF c
  <2> QED BY <1>1, <1>5, <2>2, <2>5, <2>12, <2>13, HandDispatch
<1> QED BY <1>3, <1>4, <1>5, OnReadEffect

\* What StreamInv says of a buffer that is not empty.
LEMMA StreamFront ==
    ASSUME NEW b, NEW c, NEW p, Stream(b, c, p), b # <<>>
    PROVE  /\ b[1] = FirstUnit(b[1].id) /\ (script[b[1].id].target # "long" => Follows(b))
           /\ c.st # "rst" /\ (script[b[1].id].body = 0 \/ script[b[1].id].target = "long") =>
                 Unread(c) = NextUnit(b[Len(b)])
  BY DEF Stream

\* The connection is kept only after a request without a body: what follows is the next request.
LEMMA KeptFacts ==
    ASSUME SlotInv, HandInv, hc.keep, hc.buf # <<>>
    PROVE  /\ script[Cur].body = 0 /\ script[Cur].target # "long" /\ NextUnit(hc.buf[1]) = FirstUnit(Cur + 1)
           /\ Follows(hc.buf)
<1> DEFINE b == hc.buf
           id == b[1].id
<1>1. b \in Seq(Units) /\ script \in Scripts /\ id = Cur
  BY DEF SlotInv, Typed, HcRecords, Cur
<1>2. b[1] \in Units /\ id \in DOMAIN script
  BY <1>1, CurFacts
<1>3. script[id].body = 0 /\ script[id].target # "long"
  BY <1>1 DEF SlotInv, Control, ShouldKeepalive, Req
<1>4. Stream(b, client, px)
  BY DEF HandInv, StreamInv
<1>5. b[1] = FirstUnit(id) /\ Follows(b)
  BY <1>3, <1>4, StreamFront, Zenon
<1>6. b[1].n = 0
  BY <1>2, <1>3, <1>5 DEF FirstUnit, Unit
<1>7. LastNumber(b[1].id) = 0
  BY <1>1, <1>2, <1>3, LastFacts
<1>8. NextUnit(b[1]) = FirstUnit(id + 1)
  BY <1>6, <1>7 DEF NextUnit
<1> QED BY <1>1, <1>3, <1>5, <1>8

\* http_conn_reuse keeps HandInv: the bytes moved to the front begin a request.
LEMMA HandReuse ==
    ASSUME SlotInv, HandInv, Reuse
    PROVE  HandInv'
<1> DEFINE b == hc.buf
           m == Len(b)
           id == b[1].id
<1>1. /\ script' = script /\ client' = client /\ px.fd = NoUp /\ b # <<>>
  BY ReuseEffect
<1>2. b \in Seq(Units) /\ hc \in HcRecords /\ client \in ClientRecords /\ script \in Scripts /\ m \in Nat /\ m # 0
      /\ DOMAIN b = 1 .. m
  BY <1>1, DomFacts DEF SlotInv, Typed, HcRecords
<1>3. Stream(b, client, px) /\ id = Cur
  BY DEF HandInv, StreamInv, Cur
<1>4. CASE hc' = hc /\ Shut(CloseUp(up, px.fd))
  <2>1. px'.fd = NoUp
    BY <1>4, ResetFacts DEF Shut
  <2> QED BY <1>1, <1>4, <2>1, HandSame
<1>5. b[1] \in Units /\ id \in DOMAIN script
  BY <1>1, <1>2, CurFacts
<1>6. ASSUME hc.keep PROVE script[id].body = 0 /\ script[id].target # "long" /\ NextUnit(b[1]) = FirstUnit(id + 1)
                           /\ Follows(b)
  BY <1>1, <1>3, <1>6, KeptFacts
<1>7. \A i : FirstUnit(i).id = i
  BY DEF FirstUnit, Unit
<1>8. CASE hc.keep /\ m = 1 /\ Idles(HcReset(<<>>), "read")
  <2> DEFINE e == HcReset(<<>>)
             w == <<>>
  <2>1. hc'.buf = <<>> /\ px' = PxReset /\ PxReset.fd = NoUp
    BY <1>8, ResetFacts DEF Idles, HcReset
  <2>2. client.st # "rst" => Unread(client) = FirstUnit(id + 1)
    BY <1>1, <1>3, <1>6, <1>8 DEF Stream
  <2>3. client.st # "rst" => Unread(client) = FirstUnit(Unread(client).id)
    BY <1>7, <2>2
  <2> HIDE DEF b, m
  <2>4. Stream(w, client, PxReset)
    BY <1>3, <2>1, <2>3 DEF Stream
  <2> QED BY <1>1, <2>1, <2>4, HandNow
<1>9. CASE hc.keep /\ m > 1 /\ Dispatch(HcReset(Tail(b)))
  <2> DEFINE t == Tail(b)
  <2>1. t \in Seq(Units) /\ Len(t) = m - 1 /\ \A i \in 1 .. m - 1 : t[i] = b[i + 1]
    BY <1>1, <1>2, TailFacts
  <2>2. Dispatch(HcReset(t))
    BY <1>9
  <2>3. Follows(t)
    BY <1>1, <1>2, <1>6, <1>9, FollowsTail
  <2>4. client.st # "rst" => Unread(client) = NextUnit(b[m])
    BY <1>1, <1>3, <1>6, <1>9 DEF Stream
  <2> HIDE DEF t, m
  <2>5. t[1] = b[2] /\ t[Len(t)] = b[m] /\ t # <<>>
    <3>1. 1 \in 1 .. m - 1 /\ m - 1 \in 1 .. m - 1 /\ 1 + 1 = 2 /\ (m - 1) + 1 = m /\ m - 1 # 0
      BY <1>2, <1>9
    <3>2. t[1] = b[1 + 1] /\ t[m - 1] = b[(m - 1) + 1]
      BY <2>1, <3>1
    <3>3. t # <<>>
      BY <2>1, <3>1, EmptySeq
    <3> QED BY <2>1, <3>1, <3>2, <3>3
  <2>6. b[2] = NextUnit(b[1])
    <3>1. 1 \in DOMAIN b /\ 2 \in DOMAIN b /\ 1 < 2 /\ 2 = 1 + 1
      BY <1>2, <1>9
    <3>2. Follows(b)
      BY <1>6, <1>9
    <3> QED BY <3>1, <3>2 DEF Follows
  <2>7. t[1] = FirstUnit(t[1].id)
    <3>1. t[1] = FirstUnit(id + 1)
      BY <1>6, <1>9, <2>5, <2>6
    <3> QED BY <1>7, <3>1
  <2>8. /\ Follows(client.in)
        /\ client.st = "rst" => client.in = <<>>
        /\ client.st # "rst" => (client.in # <<>> => client.next = NextUnit(client.in[Len(client.in)]))
    BY <1>3 DEF Stream
  <2>9. FrontUnits(t, client)
    BY <2>3, <2>4, <2>5, <2>7, <2>8 DEF FrontUnits
  <2>10. HcReset(t) \in HcRecords /\ HcReset(t).buf = t
    BY <2>1, HcResetFacts
  <2> QED BY <1>1, <2>2, <2>5, <2>9, <2>10, HandDispatch
<1> QED BY <1>4, <1>8, <1>9, ReuseEffect

\* HandInv is inductive, given SlotInv.
LEMMA HandNext ==
    ASSUME SlotInv, Quiet, HandInv, [Next]_vars
    PROVE  HandInv'
<1>1. CASE Pump \/ Peers \/ OnRead \/ Reuse
  BY <1>1, HandPump, HandPeers, HandOnRead, HandReuse
<1>2. ASSUME hc'.buf = hc.buf, script' = script, client' = client, px'.fd = NoUp \/ px' = px PROVE HandInv'
  BY <1>2, HandSame
<1>3. CASE OnWrite
  <2>1. script' = script /\ client' = client
    BY <1>3, OnWriteEffect
  <2>2. PICK n \in 0 .. Len(hc.left), io \in {"write", "done", "close"} : Idles(Written(n), io)
    BY <1>3, OnWriteEffect
  <2>3. Written(n).buf = hc.buf
    BY WrittenFacts DEF SlotInv, Typed
  <2>4. hc'.buf = hc.buf /\ px'.fd = NoUp
    BY <2>2, <2>3, ResetFacts DEF Idles
  <2> QED BY <1>2, <2>1, <2>4
<1>4. CASE EpollWait
  BY <1>2, <1>4 DEF EpollWait
<1>5. CASE HandleEvent
  <2>1. UNCHANGED <<script, client, hc>> /\ (Shut(CloseUp(up, px.fd)) \/ px' = px)
    BY <1>5, HandleEffect
  <2> QED BY <1>2, <2>1, ResetFacts DEF Shut
<1>6. CASE Timeout
  <2>1. UNCHANGED <<script, client, hc>> /\ px' = PxReset
    BY <1>6 DEF Timeout, SlotClose
  <2> QED BY <1>2, <2>1, ResetFacts
<1>7. CASE WorkerExit
  <2>1. UNCHANGED <<script, client, hc>> /\ px' = PxReset
    BY <1>7 DEF WorkerExit, SlotClose
  <2> QED BY <1>2, <2>1, ResetFacts
<1>8. CASE UNCHANGED vars
  BY <1>2, <1>8 DEF vars
<1> QED BY <1>1, <1>3, <1>4, <1>5, <1>6, <1>7, <1>8 DEF Next

\* HandInv holds at the start.
LEMMA HandInit ==
    ASSUME Init
    PROVE  HandInv
<1>1. client = [next |-> FirstUnit(1), in |-> <<>>, st |-> "open"] /\ hc.buf = <<>> /\ px.fd = NoUp
  BY ResetFacts DEF Init, HcReset
<1>2. FirstUnit(1).id = 1
  BY DEF FirstUnit, Unit
<1>3. Follows(<<>>)
  BY DEF Follows
<1> QED BY <1>1, <1>2, <1>3 DEF HandInv, StreamInv, Stream, Unread

-----------------------------------------------------------------------------
(* What the upstreams have been sent. *)

\* A step that sends nothing upstream, keeps the connection as it is, and at most closes the slot.
Rests ==
    /\ script' = script /\ Unsent /\ hc' = hc
    /\ \/ px' = PxReset /\ pc' = "closed"
       \/ px' = px /\ (pc' = pc \/ pc \in {"wait", "batch"})

\* Closing the slot sends nothing upstream.
LEMMA ShutUnsent ==
    ASSUME SlotInv, up' = CloseUp(up, px.fd)
    PROVE  Unsent
<1>1. up \in [UpIds -> UpRecords] /\ px.fd \in UpIds \cup {NoUp}
  BY DEF SlotInv, Typed, TypeOK
<1>2. CASE px.fd = NoUp
  BY <1>2, CloseNone DEF Unsent
<1>3. CASE px.fd \in UpIds
  <2> DEFINE g == CloseUp(up, px.fd)
  <2>1. g[px.fd].got = up[px.fd].got /\ \A c \in UpIds : c # px.fd => g[c] = up[c]
    BY <1>1, <1>3, ClosedUp
  <2>2. up' = g
    OBVIOUS
  <2> HIDE DEF g
  <2> QED BY <2>1, <2>2 DEF Unsent
<1> QED BY <1>1, <1>2, <1>3

\* Nor do the peers.
LEMMA PeersUnsent ==
    ASSUME SlotInv, Peers
    PROVE  Unsent
<1>1. up \in [UpIds -> UpRecords] /\ script \in Scripts
  BY DEF SlotInv, Typed
<1>2. ASSUME NEW c \in UpIds, UpAnswer(c) PROVE Unsent
  <2>1. up'[c].got = up[c].got /\ \A d \in UpIds : d # c => up'[d] = up[d]
    BY <1>1, <1>2, AnsweredUp
  <2> QED BY <2>1 DEF Unsent
<1>3. ASSUME NEW c \in UpIds, UpSend(c) PROVE Unsent
  <2>1. up'[c].got = up[c].got /\ \A d \in UpIds : d # c => up'[d] = up[d]
    BY <1>1, <1>3, SendingUp
  <2> QED BY <2>1 DEF Unsent
<1>4. ASSUME NEW c \in UpIds, UpLeave(c) PROVE Unsent
  <2>1. up'[c].got = up[c].got /\ \A d \in UpIds : d # c => up'[d] = up[d]
    BY <1>1, <1>4, LeavingUp
  <2> QED BY <2>1 DEF Unsent
<1>5. CASE ClientSend \/ ClientLeave
  BY <1>5 DEF ClientSend, ClientLeave, Unsent
<1> QED BY <1>2, <1>3, <1>4, <1>5 DEF Peers

\* Nor do the worker's other steps.
LEMMA RestSteps ==
    ASSUME SlotInv, Peers \/ EpollWait \/ HandleEvent \/ Timeout \/ WorkerExit \/ UNCHANGED vars
    PROVE  Rests
<1>1. CASE Peers
  <2>1. script' = script /\ slotVars' = slotVars
    <3>1. CASE ClientSend
      BY <3>1, Zenon DEF ClientSend
    <3>2. CASE ClientLeave
      BY <3>2, Zenon DEF ClientLeave
    <3>3. ASSUME NEW c \in UpIds, UpAnswer(c) \/ UpSend(c) \/ UpLeave(c)
          PROVE  script' = script /\ slotVars' = slotVars
      BY <3>3, Zenon DEF UpAnswer, UpSend, UpLeave
    <3> QED BY <1>1, <3>1, <3>2, <3>3 DEF Peers
  <2>2. hc' = hc /\ px' = px /\ pc' = pc
    BY <2>1 DEF slotVars
  <2>3. Unsent
    BY <1>1, PeersUnsent
  <2> QED BY <2>1, <2>2, <2>3 DEF Rests
<1>2. CASE EpollWait
  BY <1>2 DEF EpollWait, Rests, Unsent
<1>3. CASE HandleEvent
  <2>1. /\ pc = "batch" /\ script' = script /\ hc' = hc
        /\ Shut(CloseUp(up, px.fd)) \/ (up' = up /\ px' = px)
    BY <1>3, HandleEffect
  <2>2. Unsent
    BY <2>1, ShutUnsent DEF Shut, Unsent
  <2> QED BY <2>1, <2>2 DEF Rests, Shut
<1>4. CASE Timeout
  <2>1. script' = script /\ hc' = hc /\ up' = CloseUp(up, px.fd) /\ px' = PxReset /\ pc' = "closed"
    BY <1>4 DEF Timeout, SlotClose
  <2> QED BY <2>1, ShutUnsent DEF Rests
<1>5. CASE WorkerExit
  <2>1. Unsent /\ px' = PxReset /\ pc' = "closed"
    BY <1>5, ExitUp DEF Unsent
  <2>2. script' = script /\ hc' = hc
    BY <1>5 DEF WorkerExit
  <2> QED BY <2>1, <2>2 DEF Rests
<1>6. CASE UNCHANGED vars
  BY <1>6 DEF vars, Rests, Unsent
<1> QED BY <1>1, <1>2, <1>3, <1>4, <1>5, <1>6

\* Nor does dispatching a request.
LEMMA DispatchUnsent ==
    ASSUME SlotInv, px.fd = NoUp, NEW h \in HcRecords, h.buf # <<>>, Dispatch(h)
    PROVE  Unsent
<1>1. ASSUME NEW g, NEW io, Idles(g, io) PROVE Unsent
  BY <1>1 DEF Idles, Unsent
<1>2. ASSUME NEW c \in UpIds, Begins(h, c) PROVE Unsent
  <2>1. up'[c].got = up[c].got /\ \A d \in UpIds : d # c => up'[d] = up[d]
    BY <1>2, BegunUp
  <2> QED BY <2>1 DEF Unsent
<1> QED BY <1>1, <1>2, DispatchEffect

\* Nor does http_conn_on_read.
LEMMA OnReadSteps ==
    ASSUME SlotInv, Quiet, OnRead
    PROVE  /\ script' = script /\ pc = "onread" /\ hc.phase = "READ"
           /\ px.fd # NoUp => RequestStep
           /\ px.fd = NoUp => Unsent
<1>1. script' = script /\ pc = "onread"
  BY OnReadEffect
<1>2. up \in [UpIds -> UpRecords] /\ hc.phase = "READ"
  BY <1>1 DEF SlotInv, Typed, Control
<1>3. ASSUME px.fd # NoUp PROVE RequestStep
  <2>1. client' = client /\ (Waits(up, px, "none", "read") \/ Falls(up, px, FALSE))
    BY <1>3, OnReadEffect
  <2> QED BY <1>1, <1>2, <1>3, <2>1, WaitsContinues, FallsCeases
<1>4. ASSUME px.fd = NoUp PROVE Unsent
  <2>1. ASSUME NEW g, NEW io, Idles(g, io) PROVE Unsent
    BY <2>1 DEF Idles, Unsent
  <2>2. ASSUME NEW n \in 1 .. Len(client.in), n <= HeaderCap - Len(hc.buf), Dispatch(Filled(n)) PROVE Unsent
    <3>1. Filled(n) \in HcRecords /\ Filled(n).buf # <<>>
      BY <2>2, FilledFacts
    <3> QED BY <1>4, <2>2, <3>1, DispatchUnsent
  <2> QED BY <1>4, <2>1, <2>2, OnReadEffect
<1> QED BY <1>1, <1>2, <1>3, <1>4

\* Nor does http_conn_on_write.
LEMMA OnWriteSteps ==
    ASSUME SlotInv, OnWrite
    PROVE  /\ script' = script /\ client' = client /\ Unsent /\ px.fd = NoUp /\ px'.fd = NoUp
           /\ hc'.buf = hc.buf /\ hc.phase = "WRITE" /\ hc'.phase = "WRITE" /\ pc = "onwrite"
<1>1. script' = script /\ client' = client /\ px.fd = NoUp /\ hc.phase = "WRITE" /\ pc = "onwrite"
  BY OnWriteEffect
<1>2. PICK n \in 0 .. Len(hc.left), io \in {"write", "done", "close"} : Idles(Written(n), io)
  BY OnWriteEffect
<1>3. Written(n).buf = hc.buf /\ Written(n).phase = hc.phase
  BY WrittenFacts DEF SlotInv, Typed
<1> QED BY <1>1, <1>2, <1>3, ResetFacts DEF Idles, Unsent

\* Nor does http_conn_reuse.
LEMMA ReuseSteps ==
    ASSUME SlotInv, Reuse
    PROVE  /\ script' = script /\ client' = client /\ Unsent /\ px.fd = NoUp /\ hc.buf # <<>> /\ pc = "reuse"
           /\ hc.keep \/ Rests
<1>1. /\ script' = script /\ client' = client /\ px.fd = NoUp /\ hc.buf # <<>> /\ pc = "reuse"
  BY ReuseEffect
<1>2. CASE hc' = hc /\ pool' = pool /\ out' = out /\ Shut(CloseUp(up, px.fd))
  <2>1. Unsent
    BY <1>2, ShutUnsent DEF Shut
  <2> QED BY <1>1, <1>2, <2>1 DEF Rests, Shut
<1>3. CASE hc.keep /\ Len(hc.buf) = 1 /\ out' = out /\ Idles(HcReset(<<>>), "read")
  BY <1>1, <1>3 DEF Idles, Unsent
<1>4. CASE hc.keep /\ Len(hc.buf) > 1 /\ Dispatch(HcReset(Tail(hc.buf)))
  <2> DEFINE b == Tail(hc.buf)
  <2>1. hc.buf \in Seq(Units)
    BY DEF SlotInv, Typed, HcRecords
  <2>2. b \in Seq(Units) /\ Len(b) = Len(hc.buf) - 1 /\ Len(hc.buf) \in Nat
    BY <1>1, <2>1, TailFacts
  <2>3. Dispatch(HcReset(b))
    BY <1>4
  <2> HIDE DEF b
  <2>4. b # <<>>
    BY <1>4, <2>2
  <2>5. HcReset(b) \in HcRecords /\ HcReset(b).buf = b
    BY <2>2, HcResetFacts
  <2>6. Unsent
    BY <1>1, <2>3, <2>4, <2>5, DispatchUnsent
  <2> QED BY <1>1, <1>4, <2>6
<1> QED BY <1>2, <1>3, <1>4, ReuseEffect

-----------------------------------------------------------------------------
(* PostInv. *)

\* The types of what an upstream has been sent.
LEMMA GotTypes ==
    ASSUME SlotInv, NEW c \in UpIds
    PROVE  /\ up[c].got \in Seq(Units) /\ DOMAIN up[c].got = 1 .. Len(up[c].got) /\ Len(up[c].got) \in Nat
           /\ \A i \in DOMAIN up[c].got : up[c].got[i] \in Units /\ up[c].got[i].id \in DOMAIN script
<1>1. up[c].got \in Seq(Units)
  BY DEF SlotInv, Typed, UpRecords
<1>2. DOMAIN up[c].got = 1 .. Len(up[c].got) /\ Len(up[c].got) \in Nat
  BY <1>1, DomFacts
<1>3. \A i \in DOMAIN up[c].got : up[c].got[i] \in Units
  BY <1>1, <1>2
<1> QED BY <1>1, <1>2, <1>3, IdFacts

\* What an upstream has after a step is what it had, or a unit just sent.
LEMMA SentWhere ==
    ASSUME SlotInv, px.fd # NoUp, NEW us \in Seq(Units), Sent(us), NEW c \in UpIds, NEW i \in DOMAIN up'[c].got
    PROVE  \/ \E j \in DOMAIN up[c].got : up'[c].got[i] = up[c].got[j]
           \/ c = px.fd /\ \E j \in DOMAIN us : up'[c].got[i] = us[j]
<1> DEFINE s == up[c].got
           g == up'[c].got
<1>1. s \in Seq(Units) /\ DOMAIN s = 1 .. Len(s) /\ Len(s) \in Nat
  BY GotTypes
<1>2. DOMAIN us = 1 .. Len(us) /\ Len(us) \in Nat
  BY DomFacts
<1>3. g = IF c = px.fd THEN s \o us ELSE s
  BY DEF Sent
<1> HIDE DEF s, g
<1>4. CASE c = px.fd
  <2> DEFINE t == s \o us
  <2>1. s \in Seq(Units) /\ us \in Seq(Units)
    BY <1>1
  <2>2. /\ t \in Seq(Units) /\ Len(t) = Len(s) + Len(us)
        /\ \A k \in 1 .. Len(s) : t[k] = s[k]
        /\ \A k \in 1 .. Len(us) : t[Len(s) + k] = us[k]
    BY <2>1, CatFacts
  <2>3. g = t
    BY <1>3, <1>4
  <2> HIDE DEF t
  <2>4. i \in 1 .. Len(s) + Len(us)
    <3>1. i \in DOMAIN g
      BY DEF g
    <3> QED BY <2>2, <2>3, <3>1, DomFacts
  <2>5. CASE i \in 1 .. Len(s)
    BY <1>1, <2>2, <2>3, <2>5 DEF s, g
  <2>6. CASE i > Len(s)
    <3>1. i - Len(s) \in 1 .. Len(us) /\ Len(s) + (i - Len(s)) = i
      BY <1>1, <1>2, <2>4, <2>6
    <3>2. t[i] = us[i - Len(s)]
      BY <2>2, <3>1
    <3> QED BY <1>2, <1>4, <2>3, <3>1, <3>2 DEF g
  <2> QED BY <1>1, <2>4, <2>5, <2>6
<1>5. CASE c # px.fd
  BY <1>3, <1>5 DEF s, g
<1> QED BY <1>4, <1>5

\* A step of an exchange that sends the units us of the current request.
LEMMA PostSent ==
    ASSUME SlotInv, SlotInv', PostInv, px.fd # NoUp, script' = script, hc'.buf = hc.buf,
           NEW us \in Seq(Units), \A i \in DOMAIN us : us[i].id = Cur, Sent(us),
           \/ px'.fd = NoUp
           \/ /\ px'.fd = px.fd
              /\ px'.phase = "SEND_REQ" /\ Len(px'.hdr) = 2 => us = <<>> /\ px.phase = "SEND_REQ" /\ Len(px.hdr) = 2
    PROVE  PostInv'
<1>1. hc.buf # <<>> /\ Req.target \in {"a", "b"} /\ Cur' = Cur /\ Req' = Req /\ hc'.buf # <<>>
  BY SlotFacts DEF Cur, Req
<1>2. px'.fd = NoUp => hc'.phase = "WRITE" \/ pc' \in {"reuse", "closed"}
  BY <1>1 DEF SlotInv, Control, TypeOK
<1>3. ASSUME NEW c \in UpIds, NEW i \in DOMAIN up'[c].got, script[up'[c].got[i].id].method = "POST"
      PROVE  /\ up'[c].got[i].id = Cur /\ c = px.fd
             /\ us = <<>> => ~(px.phase = "SEND_REQ" /\ Len(px.hdr) = 2)
  <2>1. CASE \E j \in DOMAIN up[c].got : up'[c].got[i] = up[c].got[j]
    <3>1. PICK j \in DOMAIN up[c].got : up'[c].got[i] = up[c].got[j]
      BY <2>1
    <3>2. script[up[c].got[j].id].method = "POST"
      BY <1>3, <3>1
    <3> QED BY <3>1, <3>2 DEF PostInv
  <2>2. CASE c = px.fd /\ \E j \in DOMAIN us : up'[c].got[i] = us[j]
    <3>1. us # <<>>
      BY <2>2
    <3> QED BY <2>2, <3>1
  <2> QED BY <1>3, <2>1, <2>2, SentWhere
<1>4. ASSUME NEW c \in UpIds, NEW i \in DOMAIN up'[c].got, script[up'[c].got[i].id].method = "POST"
      PROVE  /\ hc'.buf # <<>> /\ up'[c].got[i].id = Cur'
             /\ px'.fd \in {c, NoUp}
             /\ px'.fd = NoUp => hc'.phase = "WRITE" \/ pc' \in {"reuse", "closed"}
             /\ px'.fd # NoUp => ~(px'.phase = "SEND_REQ" /\ Len(px'.hdr) = 2)
             /\ \A d \in UpIds : \A j \in DOMAIN up'[d].got : up'[d].got[j].id = up'[c].got[i].id => c = d
  <2>1. up'[c].got[i].id = Cur /\ c = px.fd /\ (us = <<>> => ~(px.phase = "SEND_REQ" /\ Len(px.hdr) = 2))
    BY <1>3, <1>4
  <2>2. ASSUME NEW d \in UpIds, NEW j \in DOMAIN up'[d].got, up'[d].got[j].id = up'[c].got[i].id
        PROVE  c = d
    <3>1. script[up'[d].got[j].id].method = "POST"
      BY <1>4, <2>2
    <3>2. d = px.fd
      BY <1>3, <3>1
    <3> QED BY <2>1, <3>2
  <2> QED BY <1>1, <1>2, <2>1, <2>2
<1> QED BY <1>4 DEF PostInv

\* Nothing of a POST has been sent.
NoPost == \A c \in UpIds : \A i \in DOMAIN up[c].got : script[up[c].got[i].id].method # "POST"

\* Without a POST upstream, a step that sends nothing keeps PostInv.
LEMMA PostNone ==
    ASSUME NoPost, script' = script, Unsent
    PROVE  PostInv'
  BY DEF NoPost, PostInv, Unsent

\* A header of two units that are both left.
LEMMA NoneGone ==
    ASSUME NEW m \in {1, 2}, NEW n \in 0 .. m, m - n = 2
    PROVE  n = 0 /\ m = 2
  OBVIOUS

\* The units at hand are of the request id.
LEMMA HandIds ==
    ASSUME NEW p, NEW id, Hand(p, id)
    PROVE  /\ p.phase = "SEND_REQ" => Len(p.hdr) \in {1, 2} /\ \A i \in DOMAIN p.hdr : p.hdr[i].id = id
           /\ p.phase = "SEND_BODY" => /\ \A i \in DOMAIN p.buf : p.buf[i].id = id
                                      /\ \A i \in DOMAIN p.body : p.body[i].id = id
<1>1. \A k, n : Unit(k, id, n).id = id
  BY DEF Unit
<1>2. ASSUME NEW us, NEW left, Pieces(us, id, left) PROVE \A i \in DOMAIN us : us[i].id = id
  BY <1>1, <1>2 DEF Pieces
<1>3. ASSUME p.phase = "SEND_REQ" PROVE Len(p.hdr) \in {1, 2} /\ \A i \in DOMAIN p.hdr : p.hdr[i].id = id
  <2> DEFINE s == p.hdr
  <2>1. Len(s) \in {1, 2} /\ \A i \in DOMAIN s : s[i] = Unit("q", id, 2 - Len(s) + i)
    BY <1>3 DEF Hand
  <2> HIDE DEF s
  <2>2. Len(s) \in {1, 2} /\ \A i \in DOMAIN s : s[i].id = id
    BY <1>1, <2>1
  <2> QED BY <2>2 DEF s
<1>4. ASSUME p.phase = "SEND_BODY" PROVE Pieces(p.buf, id, p.bodyLeft) /\ Pieces(p.body, id, p.bodyLeft)
  BY <1>4, Zenon DEF Hand
<1> QED BY <1>2, <1>3, <1>4

\* A turn of the pump keeps PostInv: a POST is not started over once a unit is gone.
LEMMA PostStep ==
    ASSUME SlotInv, SlotInv', HandInv, PostInv, px.fd # NoUp, RequestStep
    PROVE  PostInv'
<1>1. script' = script /\ hc'.buf = hc.buf /\ Hand(px, Cur)
  BY DEF RequestStep, HandInv
<1>2. px.hdr \in Seq(Units) /\ px.buf \in Seq(Units) /\ px.body \in Seq(Units) /\ Len(px.hdr) \in Nat
  BY HandTypes
<1>3. <<>> \in Seq(Units) /\ \A i \in DOMAIN <<>> : <<>>[i].id = Cur
  OBVIOUS
<1>4. ASSUME Unsent, \/ px'.fd = NoUp
                     \/ /\ px'.fd = px.fd
                        /\ px'.phase = "SEND_REQ" /\ Len(px'.hdr) = 2 => px.phase = "SEND_REQ" /\ Len(px.hdr) = 2
      PROVE  PostInv'
  <2>1. Sent(<<>>)
    <3>1. \A c \in UpIds : up[c].got \o <<>> = up[c].got
      BY GotTypes
    <3> QED BY <1>4, <3>1 DEF Sent, Unsent
  <2> QED BY <1>1, <1>3, <1>4, <2>1, PostSent
<1>5. ASSUME NEW s \in Seq(Units), NEW n \in 0 .. Len(s), \A i \in DOMAIN s : s[i].id = Cur
      PROVE  Take(s, n) \in Seq(Units) /\ (\A i \in DOMAIN Take(s, n) : Take(s, n)[i].id = Cur) /\ Len(Take(s, n)) = n
  <2> DEFINE t == Take(s, n)
  <2>1. t \in Seq(Units) /\ Len(t) = n /\ \A i \in 1 .. n : t[i] = s[i]
    BY TakeFacts
  <2>2. DOMAIN t = 1 .. n /\ DOMAIN s = 1 .. Len(s) /\ Len(s) \in Nat
    BY <2>1, DomFacts
  <2> HIDE DEF t
  <2>3. \A i \in DOMAIN t : t[i].id = Cur
    BY <1>5, <2>1, <2>2
  <2> QED BY <2>1, <2>3 DEF t
<1>6. CASE Ceases
  BY <1>4, <1>6 DEF Ceases
<1>7. CASE Continues
  <2>1. px'.phase = "SEND_REQ" => px'.phase = px.phase /\ px'.hdr = px.hdr
    BY <1>7 DEF Continues, Answering
  <2> QED BY <1>4, <1>7, <2>1 DEF Continues
<1>8. CASE SendsHdr
  <2>1. PICK n \in 0 .. Len(px.hdr) :
          /\ Sent(Take(px.hdr, n))
          /\ \/ px'.fd = NoUp
             \/ /\ px'.fd = px.fd /\ px'.hdr = Drop(px.hdr, n) /\ SameBody
                /\ \/ n < Len(px.hdr) /\ px'.phase = "SEND_REQ" /\ px'.buf = px.buf
                   \/ /\ n = Len(px.hdr) /\ px'.buf = <<>>
                      /\ px'.phase = IF BodyPending(px) THEN "SEND_BODY" ELSE "RECV_HDR"
    BY <1>8 DEF SendsHdr
  <2>2. px.phase = "SEND_REQ" /\ Len(px.hdr) \in {1, 2} /\ \A i \in DOMAIN px.hdr : px.hdr[i].id = Cur
    BY <1>1, <1>8, HandIds DEF SendsHdr
  <2> DEFINE us == Take(px.hdr, n)
             t == Drop(px.hdr, n)
  <2>3. us \in Seq(Units) /\ (\A i \in DOMAIN us : us[i].id = Cur) /\ Len(us) = n
    BY <1>2, <1>5, <2>2
  <2>4. Len(t) = Len(px.hdr) - n
    BY <1>2, DropFacts
  <2>5. Sent(us) /\ (px'.fd = NoUp \/ (px'.fd = px.fd /\ px'.hdr = t))
    BY <2>1
  <2> HIDE DEF us, t
  <2>6. Len(t) = 2 => us = <<>> /\ Len(px.hdr) = 2
    <3> DEFINE m == Len(px.hdr)
    <3>1. m \in {1, 2} /\ n \in 0 .. m /\ Len(t) = m - n
      BY <2>2, <2>4
    <3> HIDE DEF m
    <3>2. Len(t) = 2 => n = 0 /\ m = 2
      BY <3>1, NoneGone
    <3>3. us = <<>> <=> n = 0
      BY <2>3, DomFacts
    <3>4. Len(t) = 2 => us = <<>> /\ m = 2
      BY <3>2, <3>3
    <3> QED BY <3>4 DEF m
  <2> QED BY <1>1, <2>2, <2>3, <2>5, <2>6, PostSent
<1>9. CASE SendsBody
  <2>1. /\ px.phase = "SEND_BODY" /\ (\A i \in DOMAIN px.buf : px.buf[i].id = Cur)
        /\ \A i \in DOMAIN px.body : px.body[i].id = Cur
    BY <1>1, <1>9, HandIds DEF SendsBody
  <2>2. \E us \in {Take(px.buf, n) : n \in 0 .. Len(px.buf)} \cup {Take(px.body, n) : n \in 0 .. Len(px.body)} :
           Sent(us) /\ (px'.fd = NoUp \/ (px'.fd = px.fd /\ px'.phase = "SEND_BODY"))
    BY <1>9 DEF SendsBody
  <2>3. PICK us \in {Take(px.buf, n) : n \in 0 .. Len(px.buf)} \cup {Take(px.body, n) : n \in 0 .. Len(px.body)} :
           Sent(us) /\ (px'.fd = NoUp \/ (px'.fd = px.fd /\ px'.phase = "SEND_BODY"))
    BY <2>2
  <2>4. us \in Seq(Units) /\ \A i \in DOMAIN us : us[i].id = Cur
    BY <1>2, <1>5, <2>1
  <2> QED BY <1>1, <2>3, <2>4, PostSent
<1>10. CASE ReadsBody
  BY <1>4, <1>10 DEF ReadsBody
<1>11. CASE Restarts
  <2>1. NoPost
    <3>1. ASSUME NEW c \in UpIds, NEW i \in DOMAIN up[c].got, script[up[c].got[i].id].method = "POST"
          PROVE  FALSE
      <4>1. up[c].got[i].id = Cur /\ ~(px.phase = "SEND_REQ" /\ Len(px.hdr) = 2)
        BY <3>1 DEF PostInv
      <4>2. Req.method = "POST"
        BY <3>1, <4>1 DEF Req
      <4>3. CASE px.phase = "SEND_REQ" /\ Len(px.hdr) >= 2
        <5> DEFINE m == Len(px.hdr)
        <5>1. m \in {1, 2} /\ m >= 2 /\ m # 2
          BY <1>1, <4>1, <4>3, HandIds
        <5> HIDE DEF m
        <5> QED BY <5>1
      <4>4. CASE px.phase = "RECV_HDR" /\ MayRetry(px)
        BY <4>2, <4>4 DEF MayRetry
      <4> QED BY <1>11, <4>3, <4>4 DEF Restarts
    <3> QED BY <3>1 DEF NoPost
  <2> QED BY <1>1, <1>11, <2>1, PostNone DEF Restarts
<1> QED BY <1>6, <1>7, <1>8, <1>9, <1>10, <1>11 DEF RequestStep

\* A step that sends nothing keeps PostInv.
LEMMA PostRests ==
    ASSUME PostInv, Rests
    PROVE  PostInv'
<1>1. script' = script /\ hc' = hc /\ Cur' = Cur /\ \A c \in UpIds : up'[c].got = up[c].got
  BY DEF Rests, Unsent, Cur
<1>2. ASSUME NEW c \in UpIds, NEW i \in DOMAIN up[c].got, script[up[c].got[i].id].method = "POST"
      PROVE  /\ px'.fd \in {c, NoUp}
             /\ px'.fd = NoUp => hc.phase = "WRITE" \/ pc' \in {"reuse", "closed"}
             /\ px'.fd # NoUp => ~(px'.phase = "SEND_REQ" /\ Len(px'.hdr) = 2)
  <2>1. /\ px.fd \in {c, NoUp}
        /\ px.fd = NoUp => hc.phase = "WRITE" \/ pc \in {"reuse", "closed"}
        /\ px.fd # NoUp => ~(px.phase = "SEND_REQ" /\ Len(px.hdr) = 2)
    BY <1>2 DEF PostInv
  <2>2. CASE px' = PxReset /\ pc' = "closed"
    BY <2>2, ResetFacts
  <2>3. CASE px' = px /\ (pc' = pc \/ pc \in {"wait", "batch"})
    BY <2>1, <2>3
  <2> QED BY <2>2, <2>3 DEF Rests
<1>3. \A c \in UpIds : \A i \in DOMAIN up[c].got : script[up[c].got[i].id].method = "POST" =>
        /\ hc.buf # <<>> /\ up[c].got[i].id = Cur
        /\ \A d \in UpIds : \A j \in DOMAIN up[d].got : up[d].got[j].id = up[c].got[i].id => c = d
  BY DEF PostInv
<1> QED BY <1>1, <1>2, <1>3 DEF PostInv

\* PostInv is inductive, given SlotInv and HandInv.
LEMMA PostNext ==
    ASSUME SlotInv, SlotInv', Quiet, HandInv, PostInv, [Next]_vars
    PROVE  PostInv'
<1>1. CASE Pump
  BY <1>1, PumpFacts, RequestPump, PostStep
<1>2. CASE Peers \/ EpollWait \/ HandleEvent \/ Timeout \/ WorkerExit \/ UNCHANGED vars
  BY <1>2, RestSteps, PostRests
<1>3. CASE OnRead
  <2>1. /\ script' = script /\ pc = "onread" /\ hc.phase = "READ"
        /\ px.fd # NoUp => RequestStep
        /\ px.fd = NoUp => Unsent
    BY <1>3, OnReadSteps
  <2>2. CASE px.fd = NoUp
    <3>1. NoPost
      BY <2>1, <2>2 DEF PostInv, NoPost
    <3> QED BY <2>1, <2>2, <3>1, PostNone
  <2> QED BY <2>1, <2>2, PostStep
<1>4. CASE OnWrite
  <2>1. /\ script' = script /\ Unsent /\ px.fd = NoUp /\ px'.fd = NoUp
        /\ hc'.buf = hc.buf /\ hc'.phase = "WRITE"
    BY <1>4, OnWriteSteps
  <2>2. Cur' = Cur /\ \A c \in UpIds : up'[c].got = up[c].got
    BY <2>1 DEF Cur, Unsent
  <2> QED BY <2>1, <2>2 DEF PostInv
<1>5. CASE Reuse
  <2>1. script' = script /\ Unsent /\ px.fd = NoUp /\ hc.buf # <<>> /\ pc = "reuse" /\ (hc.keep \/ Rests)
    BY <1>5, ReuseSteps
  <2>2. CASE hc.keep
    <3>1. Req.method # "POST"
      BY <2>2 DEF SlotInv, Control, ShouldKeepalive
    <3>2. NoPost
      BY <3>1 DEF PostInv, NoPost, Req
    <3> QED BY <2>1, <3>2, PostNone
  <2> QED BY <2>1, <2>2, PostRests
<1> QED BY <1>1, <1>2, <1>3, <1>4, <1>5 DEF Next

\* PostInv holds at the start.
LEMMA PostInit ==
    ASSUME Init
    PROVE  PostInv
<1>1. \A c \in UpIds : up[c].got = <<>>
  BY DEF Init
<1> QED BY <1>1 DEF PostInv

\* An upstream that has no unit of a request carries none of it.
LEMMA CarriesNone ==
    ASSUME SlotInv, NEW c \in UpIds, NEW id, \A i \in DOMAIN up[c].got : up[c].got[i].id # id
    PROVE  Carries(c, id, 0)
<1> DEFINE got == up[c].got
<1>1. Len(got) \in Nat
  BY GotTypes
<1>2. 0 \in 0 .. Len(got) - 0 /\ 1 .. 0 = {}
  BY <1>1
<1>3. \A i \in DOMAIN got : got[i].id = id => i \in 0 + 1 .. 0 + 0
  OBVIOUS
<1> HIDE DEF got
<1>4. \E at \in 0 .. Len(got) - 0 :
         /\ \A i \in 1 .. 0 : got[at + i] = UpUnits(id)[i]
         /\ \A i \in DOMAIN got : got[i].id = id => i \in at + 1 .. at + 0
  BY <1>2, <1>3
<1> QED BY <1>4 DEF Carries, Holds, got

\* PostInv gives PostOnce.
LEMMA OnePost ==
    ASSUME SlotInv, PostInv
    PROVE  PostOnce
<1> SUFFICES ASSUME NEW id \in DOMAIN script, script[id].method = "POST"
             PROVE  Cardinality({c \in UpIds : ~Carries(c, id, 0)}) <= 1
  BY DEF PostOnce
<1> DEFINE S == {c \in UpIds : ~Carries(c, id, 0)}
<1>1. ASSUME NEW c \in S, NEW d \in S PROVE c = d
  <2>1. PICK i \in DOMAIN up[c].got : up[c].got[i].id = id
    BY <1>1, CarriesNone
  <2>2. PICK j \in DOMAIN up[d].got : up[d].got[j].id = id
    BY <1>1, CarriesNone
  <2>3. script[up[c].got[i].id].method = "POST" /\ c \in UpIds /\ d \in UpIds
    BY <2>1
  <2> QED BY <2>1, <2>2, <2>3 DEF PostInv
<1> HIDE DEF S
<1>2. CASE S = {}
  <2>1. Cardinality(S) = 0
    BY <1>2, FS_EmptySet
  <2> QED BY <2>1 DEF S
<1>3. CASE S # {}
  <2>1. PICK c \in S : TRUE
    BY <1>3
  <2>2. S = {c}
    BY <1>1, <2>1
  <2>3. Cardinality(S) = 1
    BY <2>2, FS_Singleton
  <2> QED BY <2>3 DEF S
<1> QED BY <1>2, <1>3

\* proxy_retry_idle and proxy_reopen: whatever fails and whenever, no POST is ever written, not even
\* in part, to a second upstream socket.
THEOREM PostOnceHolds == Spec /\ []Quiet => []PostOnce
<1>1. Init => SlotInv /\ HandInv /\ PostInv
  BY SlotInit, HandInit, PostInit
<1>2. (SlotInv /\ HandInv /\ PostInv) /\ Quiet /\ [Next]_vars => (SlotInv /\ HandInv /\ PostInv)'
  BY SlotNext, HandNext, PostNext
<1>3. SlotInv /\ HandInv /\ PostInv => PostOnce
  BY OnePost
<1> QED BY <1>1, <1>2, <1>3, PTL DEF Spec

=============================================================================
