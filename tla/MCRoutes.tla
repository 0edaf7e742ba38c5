------------------------------ MODULE MCRoutes ------------------------------
(***************************************************************************)
(* Instances of Routes.                                                    *)
(***************************************************************************)
EXTENDS Routes

\* Two directories with a file of the same name; one has an index that is a
\* directory itself, a device, a file that may not be read, and, beside a socket, a name
\* that is too long, as a file and as a directory.
A == <<"a">>
B == <<"b">>
D == <<"d">>
Long == <<"long">>
Www == (<<Index>> :> "file") @@ (<<B>> :> "file") @@ (<<A>> :> "dir")
       @@ (<<A, Index>> :> "file") @@ (<<A, B>> :> "file") @@ (<<D>> :> "dir")
       @@ (<<D, Index>> :> "dir") @@ (<<D, Index, Index>> :> "file")
       @@ (<<<<"x">>>> :> "denied") @@ (<<<<"s">>>> :> "other")
       @@ (<<<<"u">>>> :> "failing")
       @@ (<<Long>> :> "failing") @@ (<<Long, Index>> :> "failing")
Mnt == (<<Index>> :> "file") @@ (<<B>> :> "file") @@ (<<A>> :> "dir")
Trees == ("www" :> Www) @@ ("mnt" :> Mnt)

BothDirs == ("www" :> "dir") @@ ("mnt" :> "dir")
OneFile == ("www" :> "dir") @@ ("mnt" :> "file")

SomeKinds == {BothDirs, OneFile}

StaticRoot == RouteLine("static", Root, "www")
StaticA == RouteLine("static", <<"/", "a">>, "mnt")
StaticADir == RouteLine("static", <<"/", "a", "/">>, "mnt")
StaticAWww == RouteLine("static", <<"/", "a", "/">>, "www")
StaticAB == RouteLine("static", <<"/", "a", "/", "b">>, "mnt")
ProxyA == RouteLine("proxy", <<"/", "a">>, "upstream")
AppAB == RouteLine("app", <<"/", "a", "b">>, "app")
Lines == {StaticRoot, StaticA, StaticADir, StaticAWww, StaticAB, ProxyA, AppAB}

\* One or two routes of any kind, three of the static ones, and every refused line.
SomeFiles ==
    {<<Listen, x>> : x \in Lines}
    \cup {<<Listen, x, y>> : x \in Lines, y \in Lines}
    \cup {<<StaticRoot, Blank, x, y, Listen>> : x \in {StaticA, StaticADir}, y \in {StaticAWww, StaticAB}}
    \cup {<<StaticRoot>>, <<Listen>>, <<Listen, Listen, StaticRoot>>, <<Listen, BadLine>>,
          <<Listen, RouteLine("static", <<"a">>, "www")>>,
          <<Listen, RouteLine("proxy", <<"/", "a">>, "unknown host")>>,
          <<Listen, StaticRoot, ProxyA, AppAB, StaticADir>>,
          <<Listen, RouteLine("static", <<"/", "a", "b", "a", "b">>, "www")>>}

SomePaths ==
    {<<>>, Root, <<"/", "a">>, <<"/", "a", "/">>, <<"/", "a", "b">>, <<"/", "a", "/", "b">>,
     <<"/", "b">>, <<"/", "/", "b">>, <<"/", "a", "/", "a">>, <<"/", "%61">>, <<"/", "d">>,
     <<"/", "d", "/">>, <<"/", "/", "d">>, <<"/", "x">>, <<"/", "s">>, <<"/", "u">>,
     <<"/", "long">>, <<"/", "long", "/">>, <<"/", "a", "%2f", "b">>,
     <<"/", "a", "/", ".", ".", "/", "b">>, <<"/", "%2e", "/", "b">>, <<"/", "a", "\\", "b">>,
     <<"/", "%zz">>, <<"/", "a", "/", "a", "/", ".", ".", "/", ".", ".", "/", "b">>}
=============================================================================
