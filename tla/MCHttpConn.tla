----------------------------- MODULE MCHttpConn -----------------------------
(***************************************************************************)
(* Instances of HttpConn.                                                  *)
(***************************************************************************)
EXTENDS HttpConn

Q(line, fields, body) == [line |-> line, eol |-> CRLF, fields |-> fields, body |-> body]
H == Host(TRUE)
Body == <<[k |-> "b"]>>
Get == Q(Line("GET", "file", 1), <<H>>, <<>>)
Dir == Q(Line("GET", "dir", 1), <<H>>, <<>>)

\* A body that reads like a request of its own.
Nested == Wire(Get)

\* Requests that leave the connection open, and ones that end it.
Kept ==
    {Get, Q(Line("HEAD", "file", 1), <<H>>, <<>>), Q(Line("GET", "empty", 1), <<H, Other>>, <<>>),
     Q(Line("GET", "missing", 1), <<H>>, <<>>), Dir,
     Q(Line("GET", "file", 1), <<H, Length(<<0>>)>>, <<>>),
     Q(Line("GET", "file", 0), <<Connection({"keep-alive"})>>, <<>>)}
Ending ==
    {Q(Line("GET", "file", 0), <<>>, <<>>),
     Q(Line("GET", "missing", 1), <<H, Connection({"close"})>>, <<>>),
     Q(Line("POST", "file", 1), <<H, Length(<<8>>)>>, Nested),
     Q(Line("GET", "file", 1), <<Length(<<8>>), H>>, Nested),
     Q(Line("GET", "file", 1), <<H, Length(<<2, 5, 6>>)>>, Body),
     Q(Line("GET", "file", 1), <<H, Length(<<>>)>>, <<>>),
     Q(Line("POST", "file", 1), <<H, Coding>>, Body),
     Q(Line("GET", "file", 1), <<H, Coding, Length(<<1>>)>>, Body),
     Q(Line("unknown", "file", 1), <<H>>, <<>>),
     Q(Line("GET", "refused", 1), <<H>>, <<>>),
     Q(Line("GET", "file", 1), <<>>, <<>>),
     Q(Line("GET", "file", 1), <<H, H>>, <<>>),
     Q(Line("GET", "file", 1), <<Host(FALSE)>>, <<>>),
     Q(Line("GET", "file", 1), <<Junk, H>>, <<>>),
     Q(Junk, <<H>>, <<>>),
     Q(Line("GET", "file", 1), <<H, Other, Other, Other, Other>>, <<>>),
     [Get EXCEPT !.eol = <<LF>>], [Get EXCEPT !.eol = <<CR>>]}

SomeScripts ==
    {<<q, Get>> : q \in Ending} \cup {<<Get, q>> : q \in Ending}
    \cup {<<p, q, Get>> : p \in Kept, q \in {Get, Dir}}
=============================================================================
