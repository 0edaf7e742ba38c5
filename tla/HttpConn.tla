------------------------------ MODULE HttpConn ------------------------------
(***************************************************************************)
(* One client connection (src/http.c) from its first byte to its close:    *)
(* reading and parsing from one buffer, dispatch, the two writers of       *)
(* http.c and static.c, keep-alive with pipelined requests, the deadlines, *)
(* and the slot's bump arena (src/allocator.c), driven by the worker's     *)
(* loop.  What a resource ends in is given by its name; module Routes says *)
(* how it is found, and module ProxySlot what a proxied request does.      *)
(*                                                                         *)
(* A read returns any part of what has arrived, and the client goes on     *)
(* between any two calls, so a request is cut into pieces in every way.    *)
(***************************************************************************)
EXTENDS HttpParser

CONSTANTS
    Scripts,                            \* what clients may send: sequences of requests
    HeaderCap,                          \* hc->header_cap, in units
    ReadTime, SendTime, KeepTime,       \* the three timeouts, in ticks
    BumpSize, PathMax, HdrSize,         \* TINY_BUMP_SIZE, STATIC_PATH_MAX, STATIC_HDR_SIZE
    LocSize                             \* the path, and ? and query, of a redirected request

ASSUME ConnAssumption ==
    /\ HeaderCap \in Nat \ {0}
    /\ ReadTime \in Nat \ {0} /\ SendTime \in Nat \ {0} /\ KeepTime \in Nat \ {0}
    /\ BumpSize \in Nat /\ PathMax \in Nat /\ HdrSize \in Nat /\ LocSize \in Nat

VARIABLES
    script,     \* the client's requests
    stream,     \* the units they make
    peer,       \* the state of its end
    got,        \* units the server has read
    hc,         \* http_conn; ttl is deadline_ms - now_ms
    arena,      \* bump: offset
    armed,      \* what the socket is armed for
    pc,         \* where the worker is with this connection
    recv,       \* history: parts of responses the client was sent
    base        \* history: units before the request in the buffer

vars == <<script, stream, peer, got, hc, arena, armed, pc, recv, base>>

\* A request: its first line, the end of that line, fields and body.
CRLF == <<CR, LF>>
Wire(q) ==
    <<q.line>> \o q.eol \o FoldLeft(LAMBDA w, f : w \o <<f, CR, LF>>, <<>>, q.fields)
    \o CRLF \o q.body

\* What the client sends: the requests of s, one behind the other.
Sent(s) == FoldLeft(LAMBDA w, q : w \o Wire(q), <<>>, s)

ASSUME SentAssumption == \A s \in Scripts : Sent(s) \in Seq(ToSet(Sent(s)))

Take(s, n) == SubSeq(s, 1, n)
Drop(s, n) == SubSeq(s, n + 1, Len(s))

NoReq == [v |-> "none"]

\* reset_request_state; n is history: how many responses were armed so far.
Fresh(buf, n, ttl) ==
    [phase |-> "READ", buf |-> buf, req |-> NoReq, keep |-> FALSE, status |-> 0,
     left |-> <<>>, ttl |-> ttl, n |-> n]

\* try_accept_one: bump_reset, http_conn_prepare, then a first http_conn_on_read.
Init ==
    /\ script \in Scripts
    /\ stream = Sent(script)
    /\ peer = "open"
    /\ got = 0
    /\ hc = Fresh(<<>>, 0, ReadTime)
    /\ arena = 0
    /\ armed = "read"
    /\ pc = "onread"
    /\ recv = <<>>
    /\ base = 0

-----------------------------------------------------------------------------
(***************************************************************************)
(* The client and the clock.  How much has arrived is open until a read.   *)
(***************************************************************************)
\* It closes its end, or the connection is reset.  What it sent before it closed is
\* still read; what was not read before a reset is lost.
ClientLeave ==
    /\ pc # "closed" /\ peer = "open"
    /\ peer' \in {"fin", "rst"}
    /\ UNCHANGED <<script, stream, got, hc, arena, armed, pc, recv, base>>

\* Time passes between two turns of the worker's loop, each of which reads the
\* clock once.
Tick ==
    /\ pc = "wait" /\ hc.ttl > 0
    /\ hc' = [hc EXCEPT !.ttl = @ - 1]
    /\ UNCHANGED <<script, stream, peer, got, arena, armed, pc, recv, base>>

-----------------------------------------------------------------------------
(***************************************************************************)
(* Responses.                                                              *)
(***************************************************************************)

\* bump_alloc: the offset after an allocation, or NoRoom.
NoRoom == -1
BumpAlloc(offset, size, alignment) ==
    LET aligned == ((offset + alignment - 1) \div alignment) * alignment
    IN  IF offset = NoRoom \/ aligned > BumpSize \/ size > BumpSize - aligned THEN NoRoom
        ELSE aligned + size

\* Variant to be rejected: a request body does not end the connection.
ShouldKeepaliveBody(r) ==
    /\ r.method \in {"GET", "HEAD"} /\ "close" \notin r.tokens
    /\ r.minor = 1 \/ "keep-alive" \in r.tokens

\* http_should_keepalive
ShouldKeepalive(r) ==
    /\ r.method \in {"GET", "HEAD"} /\ "close" \notin r.tokens
    /\ r.length = 0
    /\ r.minor = 1 \/ "keep-alive" \in r.tokens

\* A response armed on h: a fixed one or a redirect is written in two parts, a file
\* is a header and a body.
Arm(h, phase, status, keep, parts) ==
    [h EXCEPT !.phase = phase, !.status = status, !.keep = keep, !.ttl = SendTime, !.n = @ + 1,
              !.left = [i \in 1 .. parts |-> [n |-> h.n + 1, status |-> status, part |-> i,
                                              of |-> parts]]]

\* arm_fixed_close of http.c, ARM_CLOSE and ARM_KEEPABLE of static.c.
ArmClose(h, status) == Arm(h, "FIXED", status, FALSE, 2)
ArmKeepable(h, status) == Arm(h, "FIXED", status, ShouldKeepalive(h.req), 2)

\* static_serve as far as memory and the form of the answer go: two buffers for the
\* path, then a header (arm_regular) or the text of a redirect (arm_dir_redirect).
PathsAt(offset) == BumpAlloc(BumpAlloc(offset, PathMax, 1), PathMax, 1)
Serve(h, offset) ==
    LET r == h.req
        paths == PathsAt(offset)
        header == BumpAlloc(paths, HdrSize, 1)
        location == BumpAlloc(paths, 160 + LocSize + 1, 1)
        Gives(q, end) == hc' = q /\ arena' = IF end = NoRoom THEN offset ELSE end
        keep == ShouldKeepalive(r)
    IN  CASE r.method \notin {"GET", "HEAD"} -> Gives(ArmKeepable(h, 405), offset)
          [] r.method \in {"GET", "HEAD"} /\ paths = NoRoom -> Gives(ArmClose(h, 500), offset)
          [] OTHER ->
               CASE r.res \in {"file", "empty"} ->
                       IF header = NoRoom THEN Gives(ArmClose(h, 500), paths)
                       ELSE Gives(Arm(h, "HDR", 200, keep,
                                      IF r.method = "GET" /\ r.res = "file" THEN 2 ELSE 1), header)
                 [] r.res = "dir" ->
                       IF location = NoRoom THEN Gives(ArmClose(h, 500), paths)
                       ELSE Gives(Arm(h, "FIXED", 301, keep, 2), location)
                 [] r.res = "missing" -> Gives(ArmKeepable(h, 404), paths)
                 [] OTHER -> Gives(ArmClose(h, 400), paths)

\* dispatch_parsed: the parser's errors and an unknown method are answered here,
\* everything else by the route.  All of these are written at once.
Dispatch(h, verdict) ==
    /\ pc' = "onwrite"
    /\ IF verdict.v # "request" \/ verdict.method = "unknown"
       THEN /\ hc' = ArmClose([h EXCEPT !.req = verdict], IF verdict = Bad THEN 400 ELSE 501)
            /\ UNCHANGED arena
       ELSE Serve([h EXCEPT !.req = verdict], arena)

\* The slot is closed: slot_close, http_conn_cleanup.
Close ==
    /\ pc' = "closed" /\ armed' = "none"
    /\ hc' = [hc EXCEPT !.left = <<>>, !.ttl = 0]

\* try_parse_buffer on h; more is where the worker goes for more bytes.
TryParse(h, more) ==
    \E verdict \in {IF h.buf = <<>> THEN Incomplete ELSE Parse(h.buf)} :
        \/ /\ verdict = Incomplete /\ Len(h.buf) >= HeaderCap
           /\ hc' = ArmClose(h, 431)
           /\ pc' = "onwrite"
           /\ UNCHANGED arena
        \/ /\ verdict = Incomplete /\ Len(h.buf) < HeaderCap
           /\ hc' = h
           /\ pc' = more
           /\ UNCHANGED arena
        \/ /\ verdict # Incomplete
           /\ Dispatch(h, verdict)

-----------------------------------------------------------------------------
(***************************************************************************)
(* http_conn_on_read, http_conn_on_write, http_conn_reuse.                 *)
(***************************************************************************)

\* The entry of http_conn_on_read: the deadline, then the bytes at hand.
OnRead ==
    /\ pc = "onread"
    /\ \/ hc.ttl = 0 /\ Close /\ UNCHANGED arena
       \/ hc.ttl > 0 /\ TryParse(hc, "reading") /\ UNCHANGED armed
    /\ UNCHANGED <<script, stream, peer, got, recv, base>>

Room(h) == HeaderCap - Len(h.buf)

\* Variant to be rejected: every read renews the deadline.
ReadingRenews ==
    /\ pc = "reading"
    /\ \E n \in 1 .. Len(stream) - got :
         /\ n <= Room(hc)
         /\ got' = got + n
         /\ TryParse([hc EXCEPT !.buf = @ \o SubSeq(stream, got + 1, got + n), !.ttl = ReadTime],
                     "reading")
         /\ UNCHANGED armed
    /\ UNCHANGED <<script, stream, peer, recv, base>>

\* One read of its loop: bytes, would block, end of file or an error.  The loop ends
\* with a full buffer only behind a proxied request, which module ProxySlot models.
Reading ==
    /\ pc = "reading"
    /\ \/ \E n \in 1 .. Len(stream) - got :
            /\ n <= Room(hc) /\ peer # "rst"
            /\ got' = got + n
            /\ TryParse([hc EXCEPT !.buf = @ \o SubSeq(stream, got + 1, got + n)], "reading")
            /\ UNCHANGED armed
       \/ /\ peer = "open"
          /\ pc' = "wait" /\ armed' = "read"
          /\ UNCHANGED <<got, hc, arena>>
       \/ /\ peer # "open"
          /\ Close /\ UNCHANGED <<got, arena>>
    /\ UNCHANGED <<script, stream, peer, recv, base>>

\* Variant to be rejected: a send that would block renews the deadline.
OnWriteRenews ==
    /\ pc = "onwrite"
    /\ \/ hc.ttl = 0 /\ Close /\ UNCHANGED recv
       \/ /\ hc.ttl > 0
          /\ \E n \in 0 .. Len(hc.left) :
               /\ recv' = recv \o Take(hc.left, n)
               /\ hc' = [hc EXCEPT !.left = Drop(@, n), !.ttl = SendTime]
               /\ IF n = Len(hc.left) THEN pc' = "reuse" /\ UNCHANGED armed
                  ELSE pc' = "wait" /\ armed' = "write"
    /\ UNCHANGED <<script, stream, peer, got, arena, base>>

\* http_conn_on_write with write_fixed or static_on_write: any number of parts is
\* taken; the peer is gone, or a file ends before its length was sent.
OnWrite ==
    /\ pc = "onwrite"
    /\ \/ hc.ttl = 0 /\ Close /\ UNCHANGED recv
       \/ /\ hc.ttl > 0 /\ peer # "rst"
          /\ \E n \in 0 .. Len(hc.left) :
               /\ recv' = recv \o Take(hc.left, n)
               /\ hc' = [hc EXCEPT !.left = Drop(@, n),
                                   !.phase = IF @ = "HDR" /\ n > 0 /\ n < Len(hc.left)
                                             THEN "SENDFILE" ELSE @]
               /\ IF n = Len(hc.left) THEN pc' = "reuse" /\ UNCHANGED armed
                  ELSE pc' = "wait" /\ armed' = "write"
       \/ /\ hc.ttl > 0
          /\ \E n \in 0 .. Len(hc.left) - 1 :
               /\ peer # "open" \/ hc.phase = "SENDFILE" \/ (hc.phase = "HDR" /\ n = 1)
               /\ recv' = recv \o Take(hc.left, n)
          /\ Close
    /\ UNCHANGED <<script, stream, peer, got, arena, base>>

\* Variant to be rejected: the bytes behind the request are left for the next read.
ReuseWaits ==
    /\ pc = "reuse"
    /\ IF ~hc.keep THEN Close /\ UNCHANGED <<arena, base>>
       ELSE /\ hc' = Fresh(Drop(hc.buf, hc.req.bytes), hc.n, KeepTime)
            /\ base' = base + hc.req.bytes
            /\ arena' = 0 /\ pc' = "wait" /\ armed' = "read"
    /\ UNCHANGED <<script, stream, peer, got, recv>>

\* Variant to be rejected: the arena is not reset between requests.
ReuseKeepsArena ==
    /\ pc = "reuse"
    /\ IF ~hc.keep THEN Close /\ UNCHANGED <<arena, base>>
       ELSE /\ base' = base + hc.req.bytes
            /\ armed' = "read"
            /\ TryParse(Fresh(Drop(hc.buf, hc.req.bytes), hc.n, KeepTime), "wait")
    /\ UNCHANGED <<script, stream, peer, got, recv>>

\* http_conn_reuse, in the loop of apply_io.  bump_reset comes before the parse, and
\* what the next request allocates is on top of nothing.
Reuse ==
    /\ pc = "reuse"
    /\ \/ ~hc.keep /\ Close /\ UNCHANGED <<arena, base>>
       \/ /\ hc.keep
          /\ base' = base + hc.req.bytes
          /\ armed' = "read"
          /\ pc' = "parse"
          /\ hc' = Fresh(Drop(hc.buf, hc.req.bytes), hc.n, KeepTime)
          /\ arena' = 0
    /\ UNCHANGED <<script, stream, peer, got, recv>>

\* Its last call: pipelined bytes may already form the next request.
ReuseParse ==
    /\ pc = "parse"
    /\ TryParse(hc, "wait")
    /\ UNCHANGED <<script, stream, peer, got, armed, recv, base>>

-----------------------------------------------------------------------------
(***************************************************************************)
(* The worker's loop (src/worker.c) for this slot.                         *)
(***************************************************************************)
EventRead ==
    /\ pc = "wait" /\ armed = "read"
    /\ got < Len(stream) \/ peer # "open"
    /\ pc' = "onread"
    /\ UNCHANGED <<script, stream, peer, got, hc, arena, armed, recv, base>>

\* The socket takes bytes again, or reports only that the peer has gone.
EventWrite ==
    /\ pc = "wait" /\ armed = "write"
    /\ \/ pc' = "onwrite" /\ UNCHANGED <<hc, armed>>
       \/ peer # "open" /\ Close
    /\ UNCHANGED <<script, stream, peer, got, arena, recv, base>>

\* sweep_deadlines
Sweep ==
    /\ pc = "wait" /\ hc.ttl = 0
    /\ Close
    /\ UNCHANGED <<script, stream, peer, got, arena, recv, base>>

Server == OnRead \/ Reading \/ OnWrite \/ Reuse \/ ReuseParse
Loop == EventRead \/ EventWrite \/ Sweep
Next == ClientLeave \/ Tick \/ Server \/ Loop

\* The worker runs and sweeps, and time passes.
Spec == Init /\ [][Next]_vars
FairSpec == Spec /\ WF_vars(Server) /\ WF_vars(Sweep) /\ SF_vars(Tick)

-----------------------------------------------------------------------------
(***************************************************************************)
(* Reference: what each request deserves, read off the request itself.     *)
(***************************************************************************)
Has(q, k) == \E i \in DOMAIN q.fields : q.fields[i].k = k
Twice(q, k) == \E i, j \in DOMAIN q.fields : i # j /\ q.fields[i].k = k /\ q.fields[j].k = k
Value(digits) == FoldLeft(LAMBDA v, d : v * 10 + d, 0, digits)
ValueOk(digits) == /\ digits # <<>> /\ \A i \in DOMAIN digits : digits[i] \in 0 .. 9
                   /\ Value(digits) <= UMax

Malformed(q) ==
    \/ q.eol # CRLF \/ q.line.k # "line"
    \/ \E i \in DOMAIN q.fields : q.fields[i].k \notin FieldKinds
    \/ Twice(q, "host") \/ Twice(q, "cl")
    \/ \E i \in DOMAIN q.fields : q.fields[i].k = "host" /\ ~q.fields[i].ok
    \/ \E i \in DOMAIN q.fields : q.fields[i].k = "cl" /\ ~ValueOk(q.fields[i].digits)
    \/ Has(q, "te") /\ Has(q, "cl")
    \/ q.line.minor = 1 /\ ~Has(q, "host")

TooLong(q) == Len(Wire(q)) - Len(q.body) > HeaderCap

Statuses(q) ==
    IF TooLong(q) THEN {431} \cup (IF Malformed(q) THEN {400} ELSE {})
    ELSE IF Malformed(q) THEN {400}
    ELSE IF Has(q, "te") \/ q.line.method = "unknown" THEN {501}
    ELSE IF q.line.method \notin {"GET", "HEAD"} THEN {405}
    ELSE CASE q.line.res \in {"file", "empty"} -> {200}
           [] q.line.res = "dir" -> {301}
           [] q.line.res = "missing" -> {404}
           [] OTHER -> {400}

\* The connection goes on after q: nothing follows that is not a request.
GoesOn(q) ==
    /\ Statuses(q) \cap {200, 301, 404} # {} /\ q.body = <<>>
    /\ \/ q.line.minor = 1 /\ ~\E i \in DOMAIN q.fields :
             q.fields[i].k = "conn" /\ "close" \in q.fields[i].tokens
       \/ /\ q.line.minor = 0
          /\ \E i \in DOMAIN q.fields : q.fields[i].k = "conn" /\ "keep-alive" \in q.fields[i].tokens
          /\ ~\E i \in DOMAIN q.fields : q.fields[i].k = "conn" /\ "close" \in q.fields[i].tokens

-----------------------------------------------------------------------------
(***************************************************************************)
(* Properties.                                                             *)
(***************************************************************************)

\* Every variable keeps its type, and the buffer its capacity.
TypeOK ==
    /\ peer \in {"open", "fin", "rst"}
    /\ got \in 0 .. Len(stream)
    /\ hc.phase \in {"READ", "FIXED", "HDR", "SENDFILE"}
    /\ Len(hc.buf) <= HeaderCap /\ hc.keep \in BOOLEAN
    /\ hc.ttl \in 0 .. ReadTime + SendTime + KeepTime
    /\ arena \in 0 .. BumpSize
    /\ armed \in {"read", "write", "none"}
    /\ pc \in {"onread", "reading", "onwrite", "reuse", "parse", "wait", "closed"}
    /\ base \in 0 .. got

\* However the stream is cut into reads, the client is sent the answers its
\* requests deserve, each whole before the next and in the order it asked, and
\* nothing after one that ends the connection: a body, or what an overflowing
\* Content-Length hides, is never taken for a request.
AnswersInOrder ==
    \A i \in DOMAIN recv :
        LET p == recv[i]
        IN  /\ p.n \in DOMAIN script
            /\ p.status \in Statuses(script[p.n])
            /\ IF p.part > 1 THEN recv[i - 1] = [p EXCEPT !.part = @ - 1]
               ELSE \/ i = 1 /\ p.n = 1
                    \/ /\ i > 1 /\ recv[i - 1].part = recv[i - 1].of
                       /\ recv[i - 1].n = p.n - 1 /\ GoesOn(script[p.n - 1])

\* How much of the stream the requests up to number n take.
EndOf(n) == FoldLeft(LAMBDA e, q : e + Len(Wire(q)), 0, Take(script, n))

\* When the worker goes to sleep until the client sends more, it has answered every
\* request that it has read: none is left in the buffer, unnoticed.
NothingForgotten ==
    pc = "wait" /\ armed = "read" =>
        \A n \in DOMAIN script : EndOf(n) <= got => n <= hc.n

\* A verdict reached on part of a header is the one reached on any more of it, so that
\* it depends on the bytes and not on how they arrive.  Only a refusal may be early: a
\* bare LF is refused at once, but waited with while a CR behind it is the last byte.
EarlyVerdictFinal ==
    pc = "onwrite" /\ hc.req # NoReq =>
        \A e \in got .. Len(stream) :
            \/ Parse(SubSeq(stream, base + 1, e)) = hc.req
            \/ Parse(SubSeq(stream, base + 1, e)) = Incomplete /\ hc.req = Bad

\* The deadline of a phase is set when the phase begins and never moved by bytes
\* that trickle in or out, so that a slow peer holds a slot for a bounded time.
DeadlineFixed ==
    [][(hc'.n = hc.n /\ (hc'.phase = "READ" <=> hc.phase = "READ")) => (hc'.ttl <= hc.ttl)]_vars

\* Every connection ends, whatever the client does or fails to do.
Closes == <>(pc = "closed")

\* The arena has room for every request of a connection, the last as the first: no
\* file, and no redirect of a target of up to LocSize, is answered 500; and arena and
\* read buffer keep within their capacities (TypeOK).
ArenaSuffices ==
    /\ TypeOK
    /\ hc.status # 500

-----------------------------------------------------------------------------
(***************************************************************************)
(* The invariant behind EarlyVerdictFinal, DeadlineFixed and ArenaSuffices. *)
(***************************************************************************)
HcFields == {"phase", "buf", "req", "keep", "status", "left", "ttl", "n"}

\* Where the worker may be while it reads, and while it answers.
Phases ==
    /\ pc \in {"onread", "reading", "parse"} => hc.phase = "READ"
    /\ pc \in {"onwrite", "reuse"} => hc.phase # "READ"
    /\ pc = "wait" => (armed = "read" <=> hc.phase = "READ")
    /\ pc = "parse" => armed = "read"

\* A request is read with an empty arena and no verdict; a verdict is of what is in
\* the buffer, and only a request keeps the connection.
Verdicts ==
    /\ hc.phase = "READ" => hc.req = NoReq /\ arena = 0
    /\ hc.req # NoReq => hc.buf # <<>> /\ hc.req = Parse(hc.buf) /\ hc.req # Incomplete
    /\ hc.keep => hc.req.v = "request"

\* The buffer holds what was read and not yet answered.
ConnInv ==
    /\ TypeOK /\ DOMAIN hc = HcFields /\ hc.n \in Nat
    /\ stream \in Seq(ToSet(stream)) /\ hc.buf = SubSeq(stream, base + 1, got)
    /\ Phases /\ Verdicts
=============================================================================
