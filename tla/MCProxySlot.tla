---------------------------- MODULE MCProxySlot ----------------------------
(***************************************************************************)
(* Instances of ProxySlot.                                                 *)
(***************************************************************************)
EXTENDS ProxySlot

R(method, body, target) ==
    [method |-> method, body |-> body, keep |-> TRUE, expect |-> FALSE, target |-> target]
A(info, framing, len, close) ==
    [info |-> info, framing |-> framing, len |-> len, close |-> close, over |-> 0]
More(r, n) == [r EXCEPT !.over = n]   \* with n units past its end

Get == R("GET", 0, "a")
Post(n) == R("POST", n, "a")

\* A kept GET, then a request that finds the parked socket; a POST with more behind it.
ReuseScripts == {<<Get, Get>>, <<Get, Post(1)>>, <<Get, R("HEAD", 0, "a")>>, <<Post(1), Get>>}
ReuseResponses == {A(0, "cl", 2, FALSE), A(1, "chunked", 1, FALSE), A(0, "eof", 1, FALSE),
                   A(0, "none", 0, TRUE)}

\* One request of every kind, with every way for it to fail.
FaultyScripts ==
    {<<[Post(2) EXCEPT !.expect = TRUE]>>, <<Get, Get>>, <<Get, R("GET", 0, "b")>>,
     <<R("HEAD", 0, "a")>>, <<Get, R("GET", 0, "static")>>, <<R("GET", 0, "deny")>>,
     <<R("GET", 0, "long")>>, <<R("GET", 0, "static"), R("GET", 0, "long")>>}
FaultyResponses ==
    {A(1, "cl", 1, FALSE), More(A(0, "cl", 0, FALSE), 1), More(A(0, "chunked", 0, FALSE), 2),
     A(0, "badhead", 0, FALSE), A(0, "badchunk", 1, FALSE), A(0, "eof", 1, FALSE)}

\* A body that does not fit into the header buffer together with the header.
PostTwo == {<<Post(2)>>}
Plain == {A(0, "cl", 1, FALSE)}
=============================================================================
