----------------------------- MODULE ProxySlot -----------------------------
(***************************************************************************)
(* One slot of a worker while its client's requests are proxied            *)
(* (src/proxy.c), with the parts of src/http.c and src/worker.c that call  *)
(* the pump and act on what it returns, and the worker's stack of idle     *)
(* upstream sockets.                                                       *)
(*                                                                         *)
(* The pump is a loop around non-blocking system calls.  One iteration,    *)
(* which makes at most one call, is one step here, so that the client and  *)
(* the upstream act between any two of them.  A stream is a sequence of    *)
(* units: a header block is two (or, for a request that arrives, one), a   *)
(* piece of a body is one.  A unit carries the number of the request it    *)
(* belongs to.  A call transfers any number of units that the data at hand *)
(* and the buffer allow.                                                   *)
(***************************************************************************)
EXTENDS Integers, Sequences, FiniteSets, SequencesExt

CONSTANTS
    Scripts,        \* what a client may ask for: sequences of requests
    Responses,      \* what an upstream may answer
    MaxUp,          \* bound: upstream sockets that can be opened
    PoolMax,        \* PROXY_POOL_MAX
    BufMax,         \* PROXY_BUF_MAX, in units
    HeaderCap,      \* hc->header_cap, in units
    Budget,         \* the pump's budget, 16 in the code
    Faults          \* of {"epoll", "connect", "late"}: calls that may fail, and a
                    \* client whose bytes arrive just after a read found none

ASSUME SizesAssumption ==
    /\ MaxUp \in Nat /\ PoolMax \in Nat /\ BufMax \in Nat \ {0, 1}
    /\ HeaderCap \in Nat \ {0} /\ Budget \in Nat \ {0}

\* A request: method, body units (Content-Length), whether the client allows
\* keep-alive, whether it expects 100 Continue, and the route's target.
\* A response: informational blocks, framing, body units, Connection: close, and the
\* units that the upstream sends past the end of what it framed.
Methods == {"GET", "HEAD", "POST"}
Targets == {"static", "deny", "long", "a", "b"}   \* a, b: upstream addresses; long:
                                             \* a header that no buffer can hold
Framings == {"none", "cl", "chunked", "eof",  \* none: 204 or 304
             "badhead", "badchunk"}          \* malformed headers, malformed chunk

ASSUME PeersAssumption ==
    /\ Scripts \subseteq Seq([method : Methods, body : Nat, keep : BOOLEAN, expect : BOOLEAN,
                             target : Targets])
    /\ Responses \subseteq [info : Nat, framing : Framings, len : Nat, close : BOOLEAN, over : Nat]
    /\ \A r \in Responses : r.over # 0 => r.framing \in {"none", "cl", "chunked"}

VARIABLES
    script,     \* the client's requests
    client,     \* its socket: the unit it sends next, units in flight from it, its state
    hc,         \* http_conn: phase, header_buf, keep, what is left to write
    armed,      \* slot->armed_io
    px,         \* proxy_conn
    pool,       \* proxy_pool, as a sequence
    up,         \* every upstream socket opened so far, both ends
    batch,      \* events of this slot that epoll_wait returned, still to handle
    pc,         \* where the worker is
    caller,     \* who gets the pump's result
    budget,     \* of the current call of the pump
    out         \* history: units the client was sent for the current request

vars == <<script, client, hc, armed, px, pool, up, batch, pc, caller, budget, out>>

NoUp == 0
UpIds == 1 .. MaxUp

Unit(k, id, n) == [k |-> k, id |-> id, n |-> n]

\* What the client sends: for each request its header and its body, or the pieces of a
\* header that does not end; and then nothing.
FirstUnit(id) ==
    IF id \notin DOMAIN script THEN Unit("end", id, 0)
    ELSE IF script[id].target = "long" THEN Unit("part", id, 1) ELSE Unit("req", id, 0)
LastNumber(id) == IF script[id].target = "long" THEN HeaderCap ELSE script[id].body
Later(x, d) == Unit(IF x.k = "part" THEN "part" ELSE "b", x.id, x.n + d)
NextUnit(x) == IF x.n >= LastNumber(x.id) THEN FirstUnit(x.id + 1) ELSE Later(x, 1)

\* What an upstream is to receive for it: the rewritten header and the body.
UpUnits(id) ==
    <<Unit("q", id, 1), Unit("q", id, 2)>> \o [n \in 1 .. script[id].body |-> Unit("b", id, n)]

\* Units of a response r to request id: 1xx blocks, the header in two pieces (the
\* second one ends it and says how the body is framed), the body, a last chunk.
HasBody(id, r) == script[id].method # "HEAD" /\ r.framing # "none"
RespUnits(id, r) ==
    [n \in 1 .. r.info |-> Unit("1xx", id, n)]
    \o <<Unit("h", id, 1), [k |-> "hend", id |-> id, n |-> 2, r |-> r]>>
    \o IF ~HasBody(id, r) THEN <<>>
       ELSE [n \in 1 .. r.len |-> Unit("d", id, n)]
            \o CASE r.framing = "chunked" -> <<Unit("z", id, r.len + 1)>>
                 [] r.framing = "badchunk" -> <<Unit("x", id, r.len + 1)>>
                 [] OTHER -> <<>>

\* What comes behind it: a body longer than its Content-Length, a body after the answer
\* to a HEAD or after a 204, bytes after the last chunk.  It does not itself begin
\* with a status line.  Where the answer ends with the stream, nothing is past it; behind a
\* malformed one nothing is looked at.
Past(id, n) == Unit("o", id, n)
Answer(id, r) == RespUnits(id, r) \o [n \in 1 .. r.over |-> Past(id, n)]

\* The number of the request being served: its header is at the front of hc->buf.
Cur == hc.buf[1].id
Req == script[Cur]

\* http_should_keepalive
ShouldKeepalive(q) == q.method \in {"GET", "HEAD"} /\ q.keep /\ q.body = 0

-----------------------------------------------------------------------------
(***************************************************************************)
(* Initial state: accepted, nothing read yet.                              *)
(***************************************************************************)

\* proxy_conn_reset; sent100 stands for PX_SEND_100 with the bytes to write.
PxReset ==
    [fd |-> NoUp, phase |-> "none", armed |-> "none", inEpoll |-> FALSE, send100 |-> FALSE,
     framing |-> "none", bodyDone |-> FALSE, respSent |-> FALSE, upClose |-> FALSE,
     clientKeep |-> FALSE, reused |-> FALSE, overread |-> FALSE,
     hdr |-> <<>>, buf |-> <<>>, body |-> <<>>, bodyLeft |-> 0, respLeft |-> 0]

\* reset_request_state; excused is history: a call into the kernel failed for this
\* request, which no peer is to blame for.
HcReset(buf) ==
    [phase |-> "READ", buf |-> buf, keep |-> FALSE, left |-> <<>>, excused |-> FALSE]
Excused(h) == [h EXCEPT !.excused = TRUE]

Init ==
    /\ script \in Scripts
    /\ client = [next |-> FirstUnit(1), in |-> <<>>, st |-> "open"]
    /\ hc = HcReset(<<>>)
    /\ armed = "read"
    /\ px = PxReset
    /\ pool = <<>>
    /\ up = [c \in UpIds |-> [st |-> "unused", addr |-> "a", mine |-> FALSE, got |-> <<>>,
                              plan |-> <<>>, in |-> <<>>, answered |-> 0]]
    /\ batch = <<>>
    /\ pc = "onread"
    /\ caller = "read"
    /\ budget = Budget
    /\ out = <<>>

-----------------------------------------------------------------------------
(***************************************************************************)
(* The client and the upstreams.                                           *)
(***************************************************************************)
slotVars == <<hc, armed, px, pool, batch, pc, caller, budget, out>>

\* http_conn_on_read takes a WANT_READ of the proxy for its own and reads on: this
\* is without effect unless bytes arrive between the two reads.
BetweenReads == pc = "onread" /\ px.fd # NoUp

ClientSend ==
    /\ pc # "closed"
    /\ BetweenReads => "late" \in Faults
    /\ client.st = "open"
    /\ client.next.id \in DOMAIN script
    /\ client' = [client EXCEPT !.next = NextUnit(@), !.in = Append(@, client.next)]
    /\ UNCHANGED <<script, up, slotVars>>

\* The client closes, or its connection is reset and what it sent is lost.
ClientLeave ==
    /\ pc # "closed"
    /\ client.st = "open"
    /\ client' \in {[client EXCEPT !.st = "fin"], [client EXCEPT !.st = "rst", !.in = <<>>]}
    /\ UNCHANGED <<script, up, slotVars>>

\* The request an upstream has the header of, and has not answered yet.
Asked(c) ==
    {up[c].got[i].id : i \in {j \in DOMAIN up[c].got :
        up[c].got[j].k = "q" /\ up[c].got[j].n = 2 /\ up[c].got[j].id > up[c].answered}}

UpAnswer(c) ==
    /\ up[c].mine /\ up[c].st = "open" /\ up[c].plan = <<>>
    /\ \E id \in Asked(c), r \in Responses :
         up' = [up EXCEPT ![c].answered = id, ![c].plan = Answer(id, r)]
    /\ UNCHANGED <<script, client, slotVars>>

UpSend(c) ==
    /\ up[c].mine /\ up[c].st = "open" /\ up[c].plan # <<>>
    /\ up' = [up EXCEPT ![c].in = Append(@, Head(up[c].plan)), ![c].plan = Tail(@)]
    /\ UNCHANGED <<script, client, slotVars>>

\* An upstream closes, possibly in the middle of an answer or while its socket is
\* in the pool, or it resets the connection.
UpLeave(c) ==
    /\ up[c].st = "open" /\ up[c].mine
    /\ up' \in {[up EXCEPT ![c].st = "fin", ![c].plan = <<>>],
                [up EXCEPT ![c].st = "rst", ![c].plan = <<>>, ![c].in = <<>>]}
    /\ UNCHANGED <<script, client, slotVars>>

-----------------------------------------------------------------------------
(***************************************************************************)
(* What the worker does with a result (src/worker.c).                      *)
(***************************************************************************)

\* close(fd) of an upstream socket, on the table u.
CloseUp(u, c) ==
    IF c = NoUp THEN u
    ELSE [u EXCEPT ![c].mine = FALSE, ![c].in = <<>>, ![c].plan = <<>>]

\* slot_close, with proxy_close.
SlotClose(u, p) ==
    /\ up' = CloseUp(u, p.fd)
    /\ px' = PxReset
    /\ pc' = "closed"
    /\ armed' = "none"
    /\ batch' = <<>>
    /\ budget' = Budget

\* arm_events: the worker goes on with the next event, or back to epoll_wait.
ArmEvents(io) ==
    /\ armed' = io
    /\ pc' = IF batch = <<>> THEN "wait" ELSE "batch"
    /\ budget' = Budget
    /\ UNCHANGED batch

\* The worker goes on within the same event, at the place at.
Stay(at, u, p) ==
    /\ pc' = at /\ up' = u /\ px' = p /\ budget' = Budget
    /\ UNCHANGED <<armed, batch>>

\* apply_io(io), the slot's upstream being p and the sockets u.  A changed
\* interest that epoll refuses closes the slot.
ApplyIo(io, u, p) ==
    CASE io = "close" -> SlotClose(u, p)
      [] io = "done" -> Stay("reuse", u, p)
      [] OTHER -> \/ ArmEvents(io) /\ up' = u /\ px' = p
                  \/ "epoll" \in Faults /\ io # armed /\ SlotClose(u, p)

\* The result of proxy_pump or proxy_begin.  Below dispatch_parsed a response
\* that is ready to write is written at once; below http_conn_on_read a
\* WANT_READ keeps the read loop going, whoever it came from.
Return(io, u, p, phase) ==
    CASE caller' # "event" /\ io = "write" /\ phase # "READ" ->
            Stay("onwrite", u, p)
      [] caller' = "read" /\ io = "read" ->
            Stay("onread", u, p)
      [] OTHER -> ApplyIo(io, u, p)

\* arm_fixed, here and in http.c: an answer of the server's own, then close.
Fixed(id) == <<Unit("f", id, 1), Unit("f", id, 2)>>
ArmFixed(h) == [h EXCEPT !.phase = "WRITE", !.keep = FALSE, !.left = Fixed(h.buf[1].id)]

\* Variant to be rejected: the failure is answered whatever was sent before.
FailAlways(u, p) ==
    LET closed == CloseUp(u, p.fd)
    IN  /\ hc' = ArmFixed(hc) /\ Return("write", closed, PxReset, "WRITE")

\* proxy_fail, the connection being h.
FailWith(h, u, p) ==
    LET closed == CloseUp(u, p.fd)
    IN  IF p.respSent
        THEN hc' = h /\ Return("close", closed, PxReset, hc.phase)
        ELSE hc' = ArmFixed(h) /\ Return("write", closed, PxReset, "WRITE")
Fail(u, p) == FailWith(hc, u, p)

\* proxy_close, then HTTP_IO_CLOSE.
Abandon(u, p) == UNCHANGED hc /\ Return("close", CloseUp(u, p.fd), PxReset, hc.phase)

\* Variant to be rejected: a socket that is in epoll keeps the interest it has.
YieldStale(u, p, upio, io) ==
    /\ UNCHANGED hc
    /\ Return(IF p.send100 THEN "write" ELSE io, u,
              [p EXCEPT !.inEpoll = TRUE, !.armed = IF p.inEpoll THEN @ ELSE upio], hc.phase)

\* yield_up: the upstream end waits for upio, the client end for io, or for a
\* write while 100 Continue is unsent.
Yield(u, p, upio, io) ==
    \/ /\ UNCHANGED hc
       /\ Return(IF p.send100 THEN "write" ELSE io, u,
                 [p EXCEPT !.inEpoll = TRUE, !.armed = upio], hc.phase)
    \/ /\ "epoll" \in Faults
       /\ ~(p.inEpoll /\ p.armed = upio)
       /\ FailWith(Excused(hc), u, p)

\* The pump's loop goes round again.
Loop(u, p, spent) ==
    /\ up' = u /\ px' = p
    /\ budget' = budget - spent
    /\ UNCHANGED <<hc, armed, batch, pc>>

-----------------------------------------------------------------------------
(***************************************************************************)
(* System calls.  A send of len units may end early; how depends on the    *)
(* peer.  A read returns what is there, up to the room.                    *)
(***************************************************************************)
SendOutcomes(len, st) ==
    CASE st = "rst" -> {[n |-> 0, res |-> "dead"]}
      [] st = "open" -> {[n |-> len, res |-> "ok"]}
                        \cup {[n |-> n, res |-> "again"] : n \in 0 .. len - 1}
      [] OTHER -> {[n |-> len, res |-> "ok"]}
                  \cup {[n |-> n, res |-> x] : n \in 0 .. len - 1, x \in {"again", "dead"}}

Take(s, n) == SubSeq(s, 1, n)
Drop(s, n) == SubSeq(s, n + 1, Len(s))

\* How much a read may return.
ReadSizes(s, cap) == 1 .. (IF Len(s) < cap THEN Len(s) ELSE cap)

\* The upstream socket c takes the units us.
ToUp(c, us) == [up EXCEPT ![c].got = @ \o us]

-----------------------------------------------------------------------------
(***************************************************************************)
(* proxy_begin and what precedes it (src/http.c, src/routes.c).            *)
(***************************************************************************)

Unused == {c \in UpIds : up[c].st = "unused"}
NewUp(u, c, addr) == [u EXCEPT ![c].st = "open", ![c].addr = addr, ![c].mine = TRUE]

\* proxy_pool_take: the last entry for the address, replaced by the top one.
PoolHit(addr) == {i \in DOMAIN pool : up[pool[i]].addr = addr}

\* Variant to be rejected: the entry stays on the stack.
PoolWithoutNot(i) == pool

PoolWithout(i) == Take([pool EXCEPT ![i] = pool[Len(pool)]], Len(pool) - 1)

\* proxy_begin for the request at the front of h.buf, up to the call of the pump.
\* The limits of rewrite_request are not reached: hc->buf is half of px->hdr.
ProxyBegin(h) ==
    LET id == h.buf[1].id
        q == script[id]
        have == IF Len(h.buf) - 1 < q.body THEN Len(h.buf) - 1 ELSE q.body
        fresh == [PxReset EXCEPT !.phase = "SEND_REQ", !.send100 = q.expect,
                                 !.hdr = Take(UpUnits(id), 2),
                                 !.body = SubSeq(h.buf, 2, have + 1),
                                 !.bodyLeft = q.body - have]
        Enter(u, p) == /\ hc' = [h EXCEPT !.keep = FALSE]
                       /\ Stay("pump", u, p)
        Refused(u) == /\ hc' = ArmFixed(Excused(h))
                      /\ Return("write", u, PxReset, "WRITE")
    IN  IF PoolHit(q.target) # {}
        THEN LET i == CHOOSE j \in PoolHit(q.target) : \A k \in PoolHit(q.target) : k <= j
             IN  /\ pool' = PoolWithout(i)
                 /\ Enter(up, [fresh EXCEPT !.fd = pool[i], !.reused = TRUE])
        ELSE /\ UNCHANGED pool
             /\ \/ Unused = {} /\ Refused(up)
                \/ \E c \in Unused :
                     /\ \A d \in Unused : c <= d
                     /\ Enter(NewUp(up, c, q.target), [fresh EXCEPT !.fd = c])
                \/ "connect" \in Faults /\ Refused(up)

\* try_parse_buffer, dispatch_parsed and route_begin for what is in h.buf: an
\* incomplete header is left for the next read; of a complete one, a static file
\* stands for every response that http_conn_on_write sends and that keeps
\* the connection; "deny" for the ones that do not (4xx, 5xx).
Dispatch(h) ==
    LET id == h.buf[1].id
        q == script[id]
    IN  /\ out' = <<>>
        /\ \/ /\ q.target = "long"
              /\ hc' = h
              /\ UNCHANGED pool
              /\ Return("read", up, px, "READ")
           \/ /\ q.target = "static"
              /\ hc' = [h EXCEPT !.phase = "WRITE", !.keep = ShouldKeepalive(q),
                                 !.left = <<Unit("s", id, 1), Unit("s", id, 2)>>]
              /\ UNCHANGED pool
              /\ Return("write", up, px, "WRITE")
           \/ /\ q.target = "deny"
              /\ hc' = ArmFixed(h)
              /\ UNCHANGED pool
              /\ Return("write", up, px, "WRITE")
           \/ /\ q.target \in {"a", "b"}
              /\ ProxyBegin(h)

\* http_conn_on_read, one turn of its loop: read what is there, parse, dispatch.
OnRead ==
    /\ pc = "onread"
    /\ caller' = "read"
    /\ \/ /\ Len(hc.buf) >= HeaderCap
          /\ hc' = ArmFixed(hc)
          /\ Stay("onwrite", up, px)
          /\ UNCHANGED <<client, pool, out>>
       \/ /\ Len(hc.buf) < HeaderCap
          /\ \E n \in ReadSizes(client.in, HeaderCap - Len(hc.buf)) :
               /\ client' = [client EXCEPT !.in = Drop(@, n)]
               /\ Dispatch([hc EXCEPT !.buf = @ \o Take(client.in, n)])
       \/ /\ Len(hc.buf) < HeaderCap
          /\ client.in = <<>>
          /\ ApplyIo(IF client.st = "open" THEN "read" ELSE "close", up, px)
          /\ UNCHANGED <<client, hc, pool, out>>
    /\ UNCHANGED script

\* http_conn_on_write: the rest of a fixed or static response.
OnWrite ==
    /\ pc = "onwrite"
    /\ \E o \in SendOutcomes(Len(hc.left), client.st) :
         /\ hc' = [hc EXCEPT !.left = Drop(@, o.n)]
         /\ out' = out \o Take(hc.left, o.n)
         /\ ApplyIo(CASE o.res = "ok" -> "done" [] o.res = "again" -> "write"
                      [] OTHER -> "close", up, px)
    /\ UNCHANGED <<script, client, pool, caller>>

\* http_conn_reuse: the header is consumed, pipelined bytes are parsed at once.
Reuse ==
    /\ pc = "reuse"
    /\ caller' = "reuse"
    /\ \/ /\ ~hc.keep
          /\ SlotClose(up, px)
          /\ UNCHANGED <<hc, pool, out>>
       \/ /\ hc.keep
          /\ Len(hc.buf) = 1
          /\ hc' = HcReset(<<>>)
          /\ ApplyIo("read", up, px)
          /\ UNCHANGED <<pool, out>>
       \/ /\ hc.keep
          /\ Len(hc.buf) > 1
          /\ Dispatch(HcReset(Tail(hc.buf)))
    /\ UNCHANGED <<script, client>>

-----------------------------------------------------------------------------
(***************************************************************************)
(* proxy_pump.                                                             *)
(***************************************************************************)
InPump == pc = "pump" /\ UNCHANGED caller
Pumping == InPump /\ ~px.send100 /\ budget > 0
pumpRest == <<script, client, pool, out>>

\* Variant to be rejected: a socket is parked though more than the answer was read.
CanPoolOverread(p) == p.bodyDone /\ ~p.upClose /\ p.framing # "eof"

\* proxy_can_pool
CanPool(p) == p.bodyDone /\ ~p.upClose /\ ~p.overread /\ p.framing # "eof"

\* proxy_done: the socket is parked (proxy_release) or closed.
Done(u, p) ==
    /\ hc' = [hc EXCEPT !.keep = p.clientKeep]
    /\ \/ /\ CanPool(p) /\ Len(pool) < PoolMax
          /\ pool' = Append(pool, p.fd)
          /\ Return("done", u, PxReset, hc.phase)
       \/ /\ ~(CanPool(p) /\ Len(pool) < PoolMax)
          /\ UNCHANGED pool
          /\ Return("done", CloseUp(u, p.fd), PxReset, hc.phase)

\* proxy_reopen: the dead socket is closed and the header is to be sent again on
\* a new one.  The request's body is not rewound.
Reopen(p) ==
    LET closed == CloseUp(up, p.fd)
        again == [p EXCEPT !.phase = "SEND_REQ", !.reused = FALSE, !.inEpoll = FALSE,
                           !.armed = "none", !.hdr = Take(UpUnits(Cur), 2)]
    IN  \/ \E c \in Unused :
             /\ \A d \in Unused : c <= d
             /\ Loop(NewUp(closed, c, up[p.fd].addr), [again EXCEPT !.fd = c], 0)
        \/ /\ Unused = {} \/ "connect" \in Faults
           /\ FailWith(Excused(hc), closed, [again EXCEPT !.fd = NoUp])

\* flush_100 at the top of the loop.
PumpFlush100 ==
    /\ InPump /\ px.send100
    /\ \E o \in SendOutcomes(1, client.st) :
         /\ out' = out \o Take(<<Unit("100", Cur, 0)>>, o.n)
         /\ CASE o.res = "ok" -> Loop(up, [px EXCEPT !.send100 = FALSE], 0)
              [] o.res = "again" -> UNCHANGED hc /\ Return("write", up, px, hc.phase)
              [] OTHER -> Abandon(up, px)
    /\ UNCHANGED <<script, client, pool>>

\* The budget is used up: wait for whatever the phase needs next.
PumpBudgetOut ==
    /\ InPump /\ ~px.send100 /\ budget = 0
    /\ CASE px.phase = "SEND_REQ" -> Yield(up, px, "write", "idle")
         [] px.phase = "SEND_BODY" /\ px.buf \o px.body # <<>> -> Yield(up, px, "write", "idle")
         [] px.phase = "SEND_BODY" /\ px.buf \o px.body = <<>> /\ px.bodyLeft > 0 ->
                Yield(up, px, "idle", "read")
         [] \/ px.phase = "RECV_HDR"
            \/ px.phase = "STREAM" /\ px.buf = <<>> /\ ~px.bodyDone -> Yield(up, px, "read", "idle")
         [] \/ px.phase = "SEND_RESP"
            \/ px.phase = "STREAM" /\ (px.buf # <<>> \/ px.bodyDone) -> Yield(up, px, "idle", "write")
         [] OTHER -> Fail(up, px)
    /\ UNCHANGED pumpRest

\* There is a request body to send.
BodyPending(p) == p.body # <<>> \/ p.bodyLeft > 0

\* PX_SEND_REQ.  A socket from the pool that fails before it took anything of
\* this request is replaced once.
PumpSendReq ==
    /\ Pumping /\ px.phase = "SEND_REQ"
    /\ \E o \in SendOutcomes(Len(px.hdr), up[px.fd].st) :
         LET u == ToUp(px.fd, Take(px.hdr, o.n))
             p == [px EXCEPT !.hdr = Drop(@, o.n)]
         IN  CASE o.res = "dead" ->
                    IF px.reused /\ Len(p.hdr) = 2 THEN Reopen(p) ELSE Fail(u, p)
               [] o.res = "again" -> Yield(u, p, "write", "idle")
               [] OTHER -> Loop(u, [p EXCEPT !.phase = IF BodyPending(p)
                                                       THEN "SEND_BODY" ELSE "RECV_HDR",
                                             !.buf = <<>>], 1)
    /\ UNCHANGED pumpRest

\* Variant to be rejected: a socket that would block counts as failed.
PumpSendBodyBlocksFails ==
    /\ Pumping /\ px.phase = "SEND_BODY"
    /\ px.buf \o px.body # <<>>
    /\ \E o \in SendOutcomes(Len(px.buf \o px.body), up[px.fd].st) :
         IF o.res # "ok" THEN Fail(up, px)
         ELSE Loop(ToUp(px.fd, px.buf \o px.body), [px EXCEPT !.buf = <<>>, !.body = <<>>], 1)
    /\ UNCHANGED pumpRest

\* PX_SEND_BODY with bytes at hand: those read into px->buf, or those that came
\* with the header.
PumpSendBody ==
    /\ Pumping /\ px.phase = "SEND_BODY"
    /\ px.buf \o px.body # <<>>
    /\ LET bytes == IF px.buf # <<>> THEN px.buf ELSE px.body
           After(n) == IF px.buf # <<>> THEN [px EXCEPT !.buf = Drop(@, n)]
                                        ELSE [px EXCEPT !.body = Drop(@, n)]
       IN  \E o \in SendOutcomes(Len(bytes), up[px.fd].st) :
             LET u == ToUp(px.fd, Take(bytes, o.n))
             IN  CASE o.res = "dead" -> Fail(u, After(o.n))
                   [] o.res = "again" -> Yield(u, After(o.n), "write", "idle")
                   [] OTHER -> Loop(u, After(o.n), 1)
    /\ UNCHANGED pumpRest

\* Variant to be rejected: the read is not capped by what is left of the body.
PumpReadBodyUncapped ==
    /\ Pumping /\ px.phase = "SEND_BODY"
    /\ px.buf \o px.body = <<>> /\ px.bodyLeft > 0
    /\ \E n \in ReadSizes(client.in, BufMax) :
         /\ client' = [client EXCEPT !.in = Drop(@, n)]
         /\ Loop(up, [px EXCEPT !.buf = Take(client.in, n),
                                !.bodyLeft = IF n > @ THEN 0 ELSE @ - n], 1)
    /\ UNCHANGED <<script, pool, out>>

\* PX_SEND_BODY with nothing at hand: the next piece of the body is read from the
\* client, never past its end.
PumpReadBody ==
    /\ Pumping /\ px.phase = "SEND_BODY"
    /\ px.buf \o px.body = <<>> /\ px.bodyLeft > 0
    /\ \/ \E n \in ReadSizes(client.in, IF px.bodyLeft < BufMax THEN px.bodyLeft ELSE BufMax) :
            /\ client' = [client EXCEPT !.in = Drop(@, n)]
            /\ Loop(up, [px EXCEPT !.buf = Take(client.in, n), !.bodyLeft = @ - n], 1)
       \/ /\ client.in = <<>> /\ client.st = "open"
          /\ Yield(up, px, "idle", "read")
          /\ UNCHANGED client
       \/ /\ client.in = <<>> /\ client.st # "open"
          /\ Abandon(up, px)
          /\ UNCHANGED client
    /\ UNCHANGED <<script, pool, out>>

\* PX_SEND_BODY when all of the body is sent.
PumpBodySent ==
    /\ Pumping /\ px.phase = "SEND_BODY"
    /\ px.buf \o px.body = <<>> /\ px.bodyLeft = 0
    /\ Loop(up, [px EXCEPT !.phase = "RECV_HDR"], 0)
    /\ UNCHANGED pumpRest

\* find_hdr_end: the first position that ends a header block, 0 if there is none.
HdrEnd(buf) ==
    LET ends == {i \in DOMAIN buf : buf[i].k \in {"1xx", "hend"}}
    IN  IF ends = {} THEN 0 ELSE CHOOSE i \in ends : \A j \in ends : i <= j

Chunked(p) == p.framing \in {"chunked", "badchunk"}

\* note_body: framing applied to the units us that p.buf ends with; what lies
\* past the end of the body is cut off.
NoteBody(p, us) ==
    LET base == Take(p.buf, Len(p.buf) - Len(us))
        last == {i \in DOMAIN us : us[i].k = "z"}
        end == IF Chunked(p) THEN (IF last = {} THEN Len(us) ELSE CHOOSE i \in last : TRUE)
               ELSE IF p.framing = "cl" /\ Len(us) > p.respLeft THEN p.respLeft ELSE Len(us)
        left == IF p.framing = "cl" THEN p.respLeft - end ELSE 0
    IN  [p EXCEPT !.buf = base \o Take(us, end),
                  !.overread = @ \/ end < Len(us),
                  !.respLeft = left,
                  !.bodyDone = \/ Chunked(p) /\ last # {}
                               \/ p.framing = "cl" /\ left = 0]
BadChunk(us) == \E i \in DOMAIN us : us[i].k = "x"

\* rewrite_response for the final header block that ends at position at of p.buf,
\* and what follows it in PX_RECV_HDR.
FinalHeader(p, at) ==
    LET r == p.buf[at].r
        rest == Drop(p.buf, at)
        done == r.framing = "none" \/ (r.framing = "cl" /\ r.len = 0)
        q == [p EXCEPT !.phase = "SEND_RESP", !.framing = r.framing, !.hdr = Take(p.buf, at),
                       !.buf = rest, !.upClose = r.close, !.clientKeep = ShouldKeepalive(Req),
                       !.respLeft = IF r.framing = "cl" THEN r.len ELSE 0]
    IN  IF Req.method = "HEAD" \/ done
        THEN [q EXCEPT !.bodyDone = TRUE, !.buf = <<>>, !.overread = rest # <<>>, !.respLeft = 0]
        ELSE IF rest = <<>> THEN q ELSE NoteBody(q, rest)

\* The block of p.buf that ends at position at is refused: it begins with what an
\* earlier answer left in the socket, and not with a status line, it is malformed, or
\* the piece of the body behind it is.
Malformed(p, at) ==
    \/ p.buf[1].k = "o"
    \/ /\ p.buf[at].k = "hend"
       /\ \/ p.buf[at].r.framing = "badhead"
          \/ /\ p.buf[at].r.framing = "badchunk" /\ BadChunk(Drop(p.buf, at))
             /\ Req.method # "HEAD"

\* PX_RECV_HDR once p.buf holds a whole block that ends at position at.
HeaderBlock(u, p, at, spent) ==
    IF Malformed(p, at) THEN Fail(u, p)
    ELSE Loop(u, IF p.buf[at].k = "1xx" THEN [p EXCEPT !.buf = Drop(@, at)]
                                        ELSE FinalHeader(p, at), spent)

\* Variant to be rejected: any method is retried.
MayRetryAny(p) == p.reused /\ ~p.respSent /\ p.buf = <<>>

\* proxy_retry_idle: a pooled socket that ends before any answer is replaced, for
\* requests without side effects.
MayRetry(p) == p.reused /\ ~p.respSent /\ p.buf = <<>> /\ Req.method \in {"GET", "HEAD"}

\* PX_RECV_HDR
PumpRecvHdr ==
    /\ Pumping /\ px.phase = "RECV_HDR"
    /\ \/ /\ HdrEnd(px.buf) # 0
          /\ HeaderBlock(up, px, HdrEnd(px.buf), 0)
       \/ /\ HdrEnd(px.buf) = 0 /\ Len(px.buf) >= BufMax
          /\ Fail(up, px)
       \/ /\ HdrEnd(px.buf) = 0
          /\ \E n \in ReadSizes(up[px.fd].in, BufMax - Len(px.buf)) :
               LET u == [up EXCEPT ![px.fd].in = Drop(@, n)]
                   p == [px EXCEPT !.buf = @ \o Take(up[px.fd].in, n)]
               IN  CASE HdrEnd(p.buf) # 0 -> HeaderBlock(u, p, HdrEnd(p.buf), 1)
                     [] HdrEnd(p.buf) = 0 /\ Len(p.buf) >= BufMax -> Fail(u, p)
                     [] OTHER -> Loop(u, p, 1)
       \/ /\ HdrEnd(px.buf) = 0 /\ Len(px.buf) < BufMax
          /\ up[px.fd].in = <<>>
          /\ CASE up[px.fd].st = "open" -> Yield(up, px, "read", "idle")
               [] up[px.fd].st # "open" /\ MayRetry(px) -> Reopen(px)
               [] OTHER -> Fail(up, px)
    /\ UNCHANGED pumpRest

\* PX_SEND_RESP with the whole body buffered: header and body in one sendmsg.
PumpSendGathered ==
    /\ Pumping /\ px.phase = "SEND_RESP" /\ px.bodyDone
    /\ LET all == px.hdr \o px.buf
       IN  \/ \E n \in 1 .. Len(all) :
                LET p == [px EXCEPT !.hdr = Drop(@, n), !.respSent = TRUE,
                                    !.buf = IF n > Len(px.hdr) THEN Drop(@, n - Len(px.hdr)) ELSE @]
                IN  /\ client.st # "rst"
                    /\ out' = out \o Take(all, n)
                    /\ IF n = Len(all) THEN Done(up, p)
                       ELSE Loop(up, p, 1) /\ UNCHANGED pool
           \/ /\ client.st # "rst"
              /\ UNCHANGED <<hc, out, pool>>
              /\ Return("write", up, px, hc.phase)
           \/ /\ client.st # "open"
              /\ Fail(up, px)
              /\ UNCHANGED <<out, pool>>
    /\ UNCHANGED <<script, client>>

\* PX_SEND_RESP ahead of a body that is still streaming: the header alone.
PumpSendHdr ==
    /\ Pumping /\ px.phase = "SEND_RESP" /\ ~px.bodyDone
    /\ \E o \in SendOutcomes(Len(px.hdr), client.st) :
         LET p == [px EXCEPT !.hdr = Drop(@, o.n), !.respSent = @ \/ o.n > 0]
         IN  /\ out' = out \o Take(px.hdr, o.n)
             /\ CASE o.res = "dead" -> Fail(up, p)
                  [] o.res = "again" -> Yield(up, p, "idle", "write")
                  [] OTHER -> Loop(up, [p EXCEPT !.phase = "STREAM"], 1)
    /\ UNCHANGED <<script, client, pool>>

\* PX_STREAM with bytes in the shuttle buffer.
PumpStreamOut ==
    /\ Pumping /\ px.phase = "STREAM" /\ px.buf # <<>>
    /\ \E o \in SendOutcomes(Len(px.buf), client.st) :
         LET p == [px EXCEPT !.buf = Drop(@, o.n), !.respSent = @ \/ o.n > 0]
         IN  /\ out' = out \o Take(px.buf, o.n)
             /\ CASE o.res = "dead" -> Abandon(up, p) /\ UNCHANGED pool
                  [] o.res = "again" -> Yield(up, p, "idle", "write") /\ UNCHANGED pool
                  [] o.res = "ok" /\ p.bodyDone -> Done(up, p)
                  [] OTHER -> Loop(up, p, 1) /\ UNCHANGED pool
    /\ UNCHANGED <<script, client>>

\* Variant to be rejected: the upstream's end of stream ends every response.
EofEndsAlways(p) == TRUE

\* The upstream's end of stream ends the response.
EofEnds(p) == p.framing = "eof"

\* PX_STREAM with the buffer empty: the next piece of the body, read no further
\* than a Content-Length allows.
PumpStreamIn ==
    /\ Pumping /\ px.phase = "STREAM" /\ px.buf = <<>>
    /\ LET cap == IF px.framing = "cl" /\ px.respLeft < BufMax THEN px.respLeft ELSE BufMax
       IN  \/ \E n \in ReadSizes(up[px.fd].in, cap) :
                LET us == Take(up[px.fd].in, n)
                    u == [up EXCEPT ![px.fd].in = Drop(@, n)]
                IN  /\ IF Chunked(px) /\ BadChunk(us) THEN Abandon(u, px)
                       ELSE Loop(u, NoteBody([px EXCEPT !.buf = us], us), 1)
                    /\ UNCHANGED pool
           \/ /\ up[px.fd].in = <<>>
              /\ CASE up[px.fd].st = "open" -> Yield(up, px, "read", "idle") /\ UNCHANGED pool
                   [] up[px.fd].st = "fin" /\ EofEnds(px) -> Done(up, px)
                   [] OTHER -> Abandon(up, px) /\ UNCHANGED pool
    /\ UNCHANGED <<script, client, out>>

-----------------------------------------------------------------------------
(***************************************************************************)
(* The worker's loop (src/worker.c), as far as it concerns this slot.      *)
(***************************************************************************)

\* What epoll reports for each end; hup stands for EPOLLRDHUP, EPOLLHUP, EPOLLERR.
ClientEvent ==
    [src |-> "client", in |-> armed = "read" /\ (client.in # <<>> \/ client.st # "open"),
     out |-> armed = "write", hup |-> client.st # "open"]
UpEvent ==
    [src |-> "up", in |-> px.armed = "read" /\ (up[px.fd].in # <<>> \/ up[px.fd].st # "open"),
     out |-> px.armed = "write", hup |-> up[px.fd].st # "open"]
Fires(e) == e.in \/ e.out \/ e.hup
Ready == {e \in {ClientEvent} \cup (IF px.fd # NoUp /\ px.inEpoll THEN {UpEvent} ELSE {}) :
            Fires(e)}

\* epoll_wait returns some of the events that are ready, in any order.
EpollWait ==
    /\ pc = "wait"
    /\ \E es \in (SUBSET Ready) \ {{}} : batch' \in SetToSeqs(es)
    /\ pc' = "batch"
    /\ UNCHANGED <<script, client, hc, armed, px, pool, up, caller, budget, out>>

\* sweep_deadlines, or the same test at the top of proxy_pump and the handlers.
Timeout ==
    /\ pc = "wait"
    /\ SlotClose(up, px)
    /\ UNCHANGED <<script, client, hc, pool, caller, out>>

InPool == {pool[i] : i \in DOMAIN pool}

\* The worker leaves its loop: slot_close, then proxy_pool_clear.
WorkerExit ==
    /\ pc = "wait" \/ (pc = "closed" /\ pool # <<>>)
    /\ SlotClose([c \in UpIds |-> IF c \in InPool THEN CloseUp(up, c)[c] ELSE up[c]], px)
    /\ pool' = <<>>
    /\ UNCHANGED <<script, client, hc, caller, out>>

\* One turn of the loop over the batch.
HandleEvent ==
    /\ pc = "batch"
    /\ caller' = "event"
    /\ LET e == Head(batch)
           rest == Tail(batch)
           Goto(at) == /\ pc' = at /\ batch' = rest
                       /\ UNCHANGED <<armed, px, up, budget>>
           hupOnly == e.src = "client" /\ e.hup /\ ~e.in /\ ~e.out
       IN  \/ /\ hupOnly
              /\ SlotClose(up, px)
           \/ /\ ~hupOnly /\ (e.src = "up" \/ px.fd # NoUp)
              /\ IF px.fd = NoUp THEN SlotClose(up, px) ELSE Goto("pump")
           \/ /\ ~hupOnly /\ e.src = "client" /\ px.fd = NoUp
              /\ CASE e.in /\ hc.phase = "READ" -> Goto("onread")
                   [] e.out /\ hc.phase # "READ" -> Goto("onwrite")
                   [] OTHER -> Goto(IF rest = <<>> THEN "wait" ELSE "batch")
    /\ UNCHANGED <<script, client, hc, pool, out>>

Peers ==
    \/ ClientSend \/ ClientLeave
    \/ \E c \in UpIds : UpAnswer(c) \/ UpSend(c) \/ UpLeave(c)

Pump ==
    \/ PumpFlush100 \/ PumpBudgetOut \/ PumpSendReq
    \/ PumpSendBody \/ PumpReadBody \/ PumpBodySent
    \/ PumpRecvHdr \/ PumpSendGathered \/ PumpSendHdr
    \/ PumpStreamOut \/ PumpStreamIn

Next == Peers \/ Pump \/ OnRead \/ OnWrite \/ Reuse \/ EpollWait \/ HandleEvent \/ Timeout
        \/ WorkerExit

Spec == Init /\ [][Next]_vars

-----------------------------------------------------------------------------
(***************************************************************************)
(* Properties.                                                             *)
(***************************************************************************)
Phases == {"none", "SEND_REQ", "SEND_BODY", "RECV_HDR", "SEND_RESP", "STREAM"}
Ios == {"none", "read", "write", "idle"}

\* Every variable keeps its type, and no buffer holds more than its capacity.
TypeOK ==
    /\ client.st \in {"open", "fin", "rst"}
    /\ hc.phase \in {"READ", "WRITE"} /\ Len(hc.buf) <= HeaderCap
    /\ armed \in Ios
    /\ px.fd \in UpIds \cup {NoUp} /\ px.phase \in Phases /\ px.armed \in Ios
    /\ px.bodyLeft \in Nat /\ px.respLeft \in Nat /\ Len(px.buf) <= BufMax
    /\ Len(pool) <= PoolMax /\ \A i \in DOMAIN pool : pool[i] \in UpIds
    /\ Len(batch) <= 2
    /\ pc \in {"wait", "batch", "pump", "onread", "onwrite", "reuse", "closed"}
    /\ caller \in {"read", "reuse", "event"}
    /\ budget \in 0 .. Budget

Mine == {c \in UpIds : up[c].mine}

\* Every upstream socket that is open is the slot's or in the pool, and not both
\* or twice ("One upstream socket owned by the same worker slot as the client").
OneUpstream ==
    /\ Mine = InPool \cup ({px.fd} \ {NoUp})
    /\ px.fd \notin InPool
    /\ Cardinality(InPool) = Len(pool)

Proper(us, id) == \A i \in DOMAIN us : us[i].id = id
Body(us) == IF us # <<>> /\ us[1].k = "100" THEN Tail(us) ELSE us

\* Where the next request of the client is taken, the header of a proxied response
\* was forwarded whole, and so was the body whose length that header tells.  Nothing is
\* said of a body that only the upstream's close ends: the code keeps the client after it
\* although nothing tells the client where it ended (rewrite_response, proxy_done).
WholeWhenDone ==
    pc = "reuse" /\ Body(out) # <<>> /\ Body(out)[1].k = "h" =>
        LET us == Body(out)
        IN  /\ Len(us) >= 2
            /\ us[2].r.framing # "eof" =>
                 Len(us) = 2 + (IF ~HasBody(Cur, us[2].r) THEN 0
                                ELSE us[2].r.len + (IF us[2].r.framing = "chunked" THEN 1 ELSE 0))

\* What the client is sent is the beginning of exactly one response to its own
\* request: nothing from another request's response that was left in a pooled
\* socket, nothing twice or out of order, and no 502 after a proxied byte; and none whose
\* header tells its length is cut short where the next request is taken (WholeWhenDone).
ResponseIntact ==
    LET us == Body(out)
    IN  /\ Proper(out, out[1].id) \/ out = <<>>
        /\ hc.buf # <<>> /\ out # <<>> => out[1].id = Cur
        /\ \A i \in DOMAIN us : us[i].n = i \/ us[i].n = i - 2
        /\ \A i \in DOMAIN us :
              us[i].k \in (CASE us[1].k = "f" -> {"f"} [] us[1].k = "s" -> {"s"}
                             [] OTHER -> IF i = 1 THEN {"h"} ELSE IF i = 2 THEN {"hend"}
                                         ELSE {"d", "z"})
        /\ \A i \in 3 .. Len(us) : us[i].n = i - 2
        /\ WholeWhenDone

\* What an upstream has been sent, got, has the first n units of request id in one piece,
\* and no more of it.
Holds(got, id, n) ==
    \E at \in 0 .. Len(got) - n :
        /\ \A i \in 1 .. n : got[at + i] = UpUnits(id)[i]
        /\ \A i \in DOMAIN got : got[i].id = id => i \in at + 1 .. at + n
Carries(c, id, n) == Holds(up[c].got, id, n)

\* An answer is awaited only from an upstream that was sent the whole request.
RequestWhole ==
    px.fd # NoUp /\ px.phase \in {"RECV_HDR", "SEND_RESP", "STREAM"} =>
        Carries(px.fd, Cur, Len(UpUnits(Cur)))

\* What an upstream socket is sent for a request is the beginning of that request:
\* its header, then its body, in order and without gaps; and all of it before its
\* answer is awaited (RequestWhole).
RequestIntact ==
    /\ \A c \in UpIds : \A id \in DOMAIN script :
          \E n \in 0 .. Len(UpUnits(id)) : Carries(c, id, n)
    /\ RequestWhole

\* A POST is written to one upstream socket only: the retries never repeat it.
PostOnce ==
    \A id \in DOMAIN script : script[id].method = "POST" =>
        Cardinality({c \in UpIds : ~Carries(c, id, 0)}) <= 1

\* s is the beginning of what comes past the answer to request id.
PastOnly(s, id) == \A i \in DOMAIN s : s[i] = Past(id, i)

\* A socket is parked only at the end of an exchange: the upstream has had all of the
\* request it answered, and the answer was read to its framed end and no further.
\* Of what the upstream sends past that end nothing was read, so that all that is unread
\* or to come begins with the first unit of it; and the pool and the buffers keep
\* within their capacities (TypeOK).
PoolClean ==
    /\ TypeOK
    /\ \A c \in InPool :
         /\ PastOnly(up[c].in \o up[c].plan, up[c].answered)
         /\ up[c].answered # 0
         /\ Carries(c, up[c].answered, Len(UpUnits(up[c].answered)))

\* What the slot waits for, by its phase.
Need ==
    CASE px.fd = NoUp -> IF hc.phase = "READ" THEN "clientRead" ELSE "clientWrite"
      [] px.fd # NoUp /\ px.send100 -> "clientWrite"
      [] OTHER ->
           CASE px.phase = "SEND_REQ" -> "upWrite"
             [] px.phase = "SEND_BODY" ->
                  IF px.buf \o px.body # <<>> THEN "upWrite"
                  ELSE IF px.bodyLeft > 0 THEN "clientRead" ELSE "nothing"
             [] px.phase = "RECV_HDR" -> IF HdrEnd(px.buf) = 0 THEN "upRead" ELSE "nothing"
             [] px.phase = "STREAM" /\ px.buf = <<>> -> "upRead"
             [] OTHER -> "clientWrite"

\* When the worker goes back to epoll_wait, the end that the state machine waits
\* for is armed for it; otherwise the slot sleeps until its deadline.
Waiting ==
    \/ Need = "clientRead" /\ armed = "read"
    \/ Need = "clientWrite" /\ armed = "write"
    \/ Need = "upRead" /\ px.inEpoll /\ px.armed = "read"
    \/ Need = "upWrite" /\ px.inEpoll /\ px.armed = "write"
WaitsForNeed == pc = "wait" => Waiting

\* A request that goes upstream is answered 502 only when an upstream failed:
\* closed, reset, or sends malformed answers or more than it framed, or a call failed for
\* this very request (or the client left).
Failed(c) == \/ up[c].st \in {"fin", "rst"}
             \/ \E r \in Responses : r.framing \in {"badhead", "badchunk"} \/ r.over > 0
BadGatewayForCause ==
    hc.phase = "WRITE" /\ hc.buf # <<>> /\ hc.left # <<>> /\ hc.left[1].k = "f"
        /\ Req.target \in {"a", "b"}
      => \/ \E c \in UpIds : Failed(c)
         \/ hc.excused
         \/ client.st # "open"

-----------------------------------------------------------------------------
(***************************************************************************)
(* The invariants behind these properties, and what they rest on.          *)
(***************************************************************************)

\* http_conn_on_read, going on after the proxy has asked to wait for the client, finds
\* nothing to read and room to read into.
Quiet == BetweenReads => client.in = <<>> /\ Len(hc.buf) < HeaderCap

Kinds == {"req", "b", "part", "q", "1xx", "h", "d", "z", "x", "f", "s", "100"}
Units == [k : Kinds, id : DOMAIN script, n : Nat]
         \cup [k : {"hend"}, id : DOMAIN script, n : Nat, r : Responses]
         \cup UNION {[k : {"o"}, id : DOMAIN script, n : 1 .. r.over] : r \in Responses}
PxRecords ==
    [fd : UpIds \cup {NoUp}, phase : Phases, armed : Ios, inEpoll : BOOLEAN, send100 : BOOLEAN,
     framing : Framings, bodyDone : BOOLEAN, respSent : BOOLEAN, upClose : BOOLEAN,
     clientKeep : BOOLEAN, reused : BOOLEAN, overread : BOOLEAN,
     hdr : Seq(Units), buf : Seq(Units), body : Seq(Units), bodyLeft : Nat, respLeft : Nat]
HcRecords == [phase : {"READ", "WRITE"}, buf : Seq(Units), keep : BOOLEAN, left : Seq(Units),
              excused : BOOLEAN]
UpRecords == [st : {"unused", "open", "fin", "rst"}, addr : Targets, mine : BOOLEAN,
              got : Seq(Units), plan : Seq(Units), in : Seq(Units), answered : Nat]
ClientRecords == [next : Units \cup [k : {"end"}, id : Nat \ DOMAIN script, n : {0}],
                  in : Seq(Units), st : {"open", "fin", "rst"}]
Events == [src : {"client", "up"}, in : BOOLEAN, out : BOOLEAN, hup : BOOLEAN]

Typed ==
    /\ script \in Scripts
    /\ client \in ClientRecords
    /\ hc \in HcRecords /\ px \in PxRecords
    /\ pool \in Seq(UpIds) /\ up \in [UpIds -> UpRecords]
    /\ batch \in Seq(Events) /\ out \in Seq(Units)

\* Where the worker may be, by what the slot does.
Control ==
    /\ pc = "pump" => px.fd # NoUp
    /\ px.fd = NoUp => px = PxReset
    /\ px.fd # NoUp =>
          /\ hc.phase = "READ" /\ ~hc.keep /\ hc.buf # <<>> /\ Req.target \in {"a", "b"}
          /\ px.phase # "none" /\ pc \in {"pump", "onread", "wait", "batch"}
    /\ hc.phase = "WRITE" => hc.buf # <<>>
    /\ pc = "onread" => hc.phase = "READ" /\ ~hc.keep
    /\ pc = "onwrite" => hc.phase = "WRITE"
    /\ pc = "reuse" => hc.buf # <<>>
    /\ pc = "batch" => batch # <<>>
    /\ hc.keep => ShouldKeepalive(Req) /\ (hc.phase = "WRITE" \/ pc \in {"reuse", "closed"})
    /\ hc.phase = "READ" /\ hc.buf # <<>> /\ px.fd = NoUp =>
          Req.target = "long" \/ pc \in {"reuse", "closed"}
    /\ hc.keep => Req.target # "long"
    /\ px.clientKeep => ShouldKeepalive(Req)

\* Who has which upstream socket.
Owned ==
    /\ \A c \in UpIds : up[c].mine <=> c = px.fd \/ c \in InPool
    /\ px.fd \notin InPool
    /\ \A i, j \in DOMAIN pool : pool[i] = pool[j] => i = j
    /\ \A c \in UpIds : up[c].st = "unused" =>
          ~up[c].mine /\ up[c].got = <<>> /\ up[c].in = <<>> /\ up[c].plan = <<>> /\ up[c].answered = 0

SlotInv == Typed /\ TypeOK /\ Control /\ Owned

\* The bytes read and the bytes in flight are consecutive bytes of what the client sends.
Follows(s) ==
    \A i, j \in DOMAIN s : i < j =>
        /\ j = i + 1 => s[j] = NextUnit(s[i])
        /\ s[i].n + (j - i) <= LastNumber(s[i].id) => s[j] = Later(s[i], j - i)
Unread(c) == IF c.in # <<>> THEN c.in[1] ELSE c.next
Stream(b, c, p) ==
    LET id == b[1].id
    IN  /\ b # <<>> => b[1] = FirstUnit(id) /\ (script[id].target # "long" => Follows(b))
        /\ Follows(c.in)
        /\ c.st = "rst" => c.in = <<>>
        /\ c.st # "rst" =>
              /\ c.in # <<>> => c.next = NextUnit(c.in[Len(c.in)])
              /\ b = <<>> => Unread(c) = FirstUnit(Unread(c).id)
              /\ b # <<>> /\ (script[id].body = 0 \/ script[id].target = "long") =>
                    Unread(c) = NextUnit(b[Len(b)])
              /\ p.fd # NoUp /\ p.bodyLeft > 0 => Unread(c) = Unit("b", id, script[id].body - p.bodyLeft + 1)
StreamInv == Stream(hc.buf, client, px)

\* What the slot still has to send of the request id.
Pieces(us, id, left) == \A i \in DOMAIN us : us[i] = Unit("b", id, script[id].body - left - Len(us) + i)
Hand(p, id) ==
    /\ p.phase = "SEND_REQ" =>
          /\ Len(p.hdr) \in {1, 2} /\ \A i \in DOMAIN p.hdr : p.hdr[i] = Unit("q", id, 2 - Len(p.hdr) + i)
          /\ Pieces(p.body, id, p.bodyLeft) /\ Len(p.body) + p.bodyLeft <= script[id].body
          /\ p.buf = <<>>
    /\ p.phase = "SEND_BODY" =>
          /\ p.buf = <<>> \/ p.body = <<>>
          /\ Pieces(p.buf, id, p.bodyLeft) /\ Pieces(p.body, id, p.bodyLeft)
          /\ Len(p.buf) + Len(p.body) + p.bodyLeft <= script[id].body
    /\ p.phase \in {"RECV_HDR", "SEND_RESP", "STREAM"} => p.body = <<>> /\ p.bodyLeft = 0
HandInv == StreamInv /\ (px.fd # NoUp => Hand(px, Cur))

\* A socket that has something of a POST is the only one, and the POST is the last request.
PostInv ==
    \A c \in UpIds : \A i \in DOMAIN up[c].got : script[up[c].got[i].id].method = "POST" =>
        /\ hc.buf # <<>> /\ up[c].got[i].id = Cur
        /\ px.fd \in {c, NoUp}
        /\ px.fd = NoUp => hc.phase = "WRITE" \/ pc \in {"reuse", "closed"}
        /\ px.fd # NoUp => ~(px.phase = "SEND_REQ" /\ Len(px.hdr) = 2)
        /\ \A d \in UpIds : \A j \in DOMAIN up[d].got : up[d].got[j].id = up[c].got[i].id => c = d

\* Requests go upstream in order, a later one never before an earlier one.
GotInv ==
    \A c \in UpIds : \A i \in DOMAIN up[c].got :
        /\ hc.buf # <<>> => up[c].got[i].id <= Cur
        /\ hc.buf = <<>> /\ client.st # "rst" => up[c].got[i].id < Unread(client).id

\* GET and HEAD have no body (a retry would lose it).
Bodyless == \A s \in Scripts : \A i \in DOMAIN s : s[i].method \in {"GET", "HEAD"} => s[i].body = 0

\* What the slot's socket has been sent ends with what is gone of the current request.
Ends(got, id, n) ==
    /\ n <= Len(got)
    /\ \A i \in 1 .. n : got[Len(got) - n + i] = UpUnits(id)[i]
    /\ \A i \in 1 .. Len(got) - n : got[i].id # id
Gone(p, id) ==
    CASE p.phase = "SEND_REQ" -> 2 - Len(p.hdr)
      [] p.phase = "SEND_BODY" -> 2 + script[id].body - p.bodyLeft - Len(p.buf) - Len(p.body)
      [] OTHER -> 2 + script[id].body
Whole(p, id) == p.phase = "SEND_REQ" => Len(p.body) + p.bodyLeft = script[id].body
SentInv == px.fd # NoUp => Whole(px, Cur) /\ Ends(up[px.fd].got, Cur, Gone(px, Cur))
RequestInv ==
    /\ \A c \in UpIds : \A id \in DOMAIN script : \E n \in 0 .. Len(UpUnits(id)) : Carries(c, id, n)
    /\ SentInv

\* What has been read of the answer and is not forwarded yet, by the phase.
Early == {"SEND_REQ", "SEND_BODY", "RECV_HDR"}
Shown(p) ==
    CASE p.phase = "RECV_HDR" -> p.buf
      [] p.phase \in {"SEND_RESP", "STREAM"} -> p.hdr \o p.buf
      [] OTHER -> <<>>

\* s follows the first k units of all.
Within(s, all, k) == k + Len(s) <= Len(all) /\ \A i \in DOMAIN s : s[i] = all[k + i]

\* Of the answer r the units read are known to be framed as its header says, and left are
\* not read yet.
Framed(read, p, r, left) ==
    /\ r.framing # "badhead" /\ p.framing = r.framing
    /\ Len(read) >= 2 /\ \A i \in DOMAIN read : read[i].k # "x"
    /\ p.bodyDone => left = 0
    /\ ~p.bodyDone /\ r.over # 0 => left > 0
    /\ p.framing = "cl" /\ ~p.bodyDone => p.respLeft = left
    /\ p.phase = "STREAM" => p.hdr = <<>> /\ (p.bodyDone => p.buf # <<>>)

\* What the client has been sent, us, what the slot p has read, and what its socket u has and
\* will have: it begins with what an earlier answer left there; or it is in one piece of one
\* answer to the request id, of which no more than the framed part is forwarded.  If more of it
\* was read, that is gone, and the answer is whole.
Exchange(us, p, u, id) ==
    LET read == us \o Shown(p)
        line == read \o (u.in \o u.plan)
    IN  /\ p.phase \in Early => us = <<>> /\ ~p.bodyDone /\ ~p.overread
        /\ \/ p.phase \in Early /\ u.answered <= id /\ (line = <<>> \/ line[1].k = "o")
           \/ /\ p.phase # "SEND_REQ" /\ u.answered = id
              /\ \E r \in Responses : \E k \in 0 .. r.info :
                    /\ IF p.overread THEN p.bodyDone ELSE Within(line, Answer(id, r), k)
                    /\ p.phase \notin Early =>
                          /\ k = r.info /\ Within(read, RespUnits(id, r), k)
                          /\ Framed(read, p, r, Len(RespUnits(id, r)) - k - Len(read))

\* An upstream socket u, which is the slot's for the request id if at, and in the pool if pooled:
\* it has answered a request that it got; in the pool it had all of that request, and what is left
\* in it is past the answer; elsewhere, if it is not the slot's, nothing is left in it; and if it
\* is open nothing more is asked of it.
Idle(u, at, id, pooled) ==
    /\ u.answered # 0 => \E i \in DOMAIN u.got : u.got[i].id = u.answered
    /\ ~at /\ ~pooled => u.in = <<>> /\ u.plan = <<>>
    /\ u.mine => \A i \in DOMAIN u.got : u.got[i].id <= u.answered \/ (at /\ u.got[i].id = id)
    /\ pooled => /\ u.answered # 0 /\ Holds(u.got, u.answered, Len(UpUnits(u.answered)))
                 /\ PastOnly(u.in \o u.plan, u.answered)
AnswerInv ==
    /\ \A c \in UpIds : Idle(up[c], c = px.fd, Cur, c \in InPool)
    /\ px.fd # NoUp => Exchange(Body(out), px, up[px.fd], Cur) /\ (px.send100 => out = <<>>)

\* What the client has been sent is the beginning of a response: one of the server's own, or
\* one of an upstream without what precedes its header.
IsAnswer(us, id) ==
    \/ \E kind \in {"f", "s"} : Within(us, <<Unit(kind, id, 1), Unit(kind, id, 2)>>, 0)
    \/ \E r \in Responses : Within(us, RespUnits(id, r), r.info) /\ \A i \in DOMAIN us : us[i].k # "x"
OutInv ==
    /\ out # <<>> => Proper(out, out[1].id) /\ IsAnswer(Body(out), out[1].id)
    /\ hc.buf # <<>> /\ out # <<>> => out[1].id = Cur
    /\ px.fd # NoUp =>
          /\ ~px.respSent => Body(out) = <<>>
          /\ px.send100 => out = <<>>
    /\ hc.phase = "WRITE" => \E kind \in {"f", "s"} :
          Body(out) \o hc.left = <<Unit(kind, Cur, 1), Unit(kind, Cur, 2)>>
    /\ hc.phase = "READ" /\ hc.buf # <<>> /\ px.fd = NoUp /\ pc \notin {"reuse", "closed"} => out = <<>>
    /\ WholeWhenDone

\* The budget does not end where the pump's last lines have no answer: with a whole header
\* in the buffer, or a body that is sent.
Affordable ==
    pc = "pump" /\ ~px.send100 /\ budget = 0 =>
        /\ px.phase = "RECV_HDR" => HdrEnd(px.buf) = 0
        /\ px.phase = "SEND_BODY" => px.buf \o px.body # <<>> \/ px.bodyLeft > 0

\* What the slot waits for is armed; a response that came to its end is not waited for.
WaitInv ==
    /\ px.phase = "STREAM" /\ px.bodyDone => px.buf # <<>>
    /\ pc \in {"wait", "batch"} => Waiting
    /\ pc = "onread" => Need = "clientRead"

\* Why a proxied request is answered by the server itself.
CauseInv ==
    hc.phase = "WRITE" /\ Req.target \in {"a", "b"} =>
        (\E c \in UpIds : Failed(c)) \/ hc.excused \/ client.st # "open"
=============================================================================
