---------------------------- MODULE RoutesProofs ----------------------------
(***************************************************************************)
(* Proofs about Routes, for every site file, every content of the file     *)
(* system, and any number of changes to it during start-up and service.    *)
(***************************************************************************)
EXTENDS Routes, FiniteSetTheorems, TLAPS, SequenceTheorems

-----------------------------------------------------------------------------
(* Numbers. *)

\* Every nonempty set of naturals has a least element.
LEMMA LeastNatural ==
    ASSUME NEW T \in SUBSET Nat, T # {}
    PROVE  \E x \in T : \A y \in T : x <= y
<1>1. \E x \in T : \A y \in T : ~(<<y, x>> \in OpToRel(<, Nat))
  BY WFMin, NatLessThanWellFounded
<1>2. PICK x \in T : \A y \in T : ~(<<y, x>> \in OpToRel(<, Nat))
  BY <1>1
<1>3. \A y \in T : y < x => <<y, x>> \in OpToRel(<, Nat)
  BY DEF OpToRel
<1>4. \A y \in T : ~(y < x)
  BY <1>2, <1>3, Zenon
<1> QED BY <1>4

-----------------------------------------------------------------------------
(***************************************************************************)
(* Facts about the operators.                                              *)
(***************************************************************************)

\* The kernel hands out a descriptor that is free.
LEMMA FreeFdIsFree ==
    ASSUME IsFiniteSet(DOMAIN open), DOMAIN open \subseteq Nat
    PROVE  FreeFd \in Nat /\ FreeFd \notin DOMAIN open
<1> DEFINE D == DOMAIN open
           n == Cardinality(D)
           F == {fd \in 0 .. n : fd \notin D}
<1>1. n \in Nat
  BY FS_CardinalityType
<1>2. F # {}
  <2>1. SUFFICES ASSUME F = {} PROVE FALSE
    OBVIOUS
  <2>2. 0 .. n \subseteq D
    BY <2>1
  <2>3. Cardinality(0 .. n) <= n
    BY <2>2, FS_Subset
  <2>4. Cardinality(0 .. n) = n + 1
    <3>1. Cardinality(0 .. n) = IF 0 > n THEN 0 ELSE n - 0 + 1
      <4> HIDE DEF n
      <4> QED BY <1>1, FS_Interval
    <3> QED BY <1>1, <3>1
  <2> QED BY <1>1, <2>3, <2>4
<1> HIDE DEF n
<1>3. F \in SUBSET Nat
  BY <1>1
<1>4. PICK x \in F : \A y \in F : x <= y
  BY <1>2, <1>3, LeastNatural
<1>5. \A k \in 0 .. x - 1 : k \in D
  <2>1. \A k \in 0 .. x - 1 : k \in 0 .. n /\ ~(x <= k)
    BY <1>1
  <2> QED BY <1>4, <2>1
<1>6. \E fd \in 0 .. n : fd \notin D /\ \A k \in 0 .. fd - 1 : k \in D
  BY <1>4, <1>5
<1>7. FreeFd \in 0 .. n /\ FreeFd \notin D
  BY <1>6 DEF FreeFd, n
<1> QED BY <1>1, <1>7

\* Opening a directory adds a descriptor for it and leaves the others alone.
LEMMA OpenDirFacts ==
    ASSUME NEW t, FreeFd \notin DOMAIN open
    PROVE  /\ DOMAIN OpenDir(t) = DOMAIN open \cup {FreeFd}
           /\ OpenDir(t)[FreeFd] = t
           /\ \A fd \in DOMAIN open : OpenDir(t)[fd] = open[fd]
  BY DEF OpenDir

\* ensure_dir_slash changes the prefix only, and only to end it with a slash.
LEMMA DirSlash ==
    ASSUME NEW r \in Route, Plain(r), SlashFits(r)
    PROVE  LET q == EnsureDirSlash(r)
           IN  /\ q \in Route /\ Plain(q) /\ EndsInSlash(q.prefix)
               /\ q.type = r.type /\ q.target = r.target /\ q.dirFd = r.dirFd
               /\ q.exact = r.exact /\ q.primary = r.primary
               /\ EndsInSlash(r.prefix) => q.prefix = r.prefix
<1>1. r.prefix \in Seq(Texts) /\ r.prefix # <<>> /\ r.prefix[1] = "/" /\ PrefixMax \in Nat
  BY RoutesAssumption DEF Route, Plain
<1>2. CASE EndsInSlash(r.prefix)
  BY <1>2 DEF EnsureDirSlash
<1>3. CASE ~EndsInSlash(r.prefix)
  <2> DEFINE p == Append(r.prefix, "/")
             q == [r EXCEPT !.prefix = p]
  <2>1. "/" \in Texts
    BY DEF Texts
  <2>2. p \in Seq(Texts) /\ Len(p) = Len(r.prefix) + 1 /\ Len(r.prefix) \in Nat /\ Len(r.prefix) > 0
    BY <1>1, <2>1
  <2>3. p[Len(p)] = "/" /\ p[1] = "/" /\ p # <<>>
    BY <1>1, <2>2
  <2>4. Len(p) < PrefixMax
    BY <1>3, <2>2 DEF SlashFits
  <2> HIDE DEF p
  <2>5. q \in Route /\ q.prefix = p /\ q.type = r.type /\ q.target = r.target
    BY <2>2 DEF Route
  <2>6. q.dirFd = r.dirFd /\ q.exact = r.exact /\ q.primary = r.primary
    BY DEF Route
  <2>7. Plain(q)
    BY <2>3, <2>4, <2>5 DEF Plain
  <2>8. EnsureDirSlash(r) = q
    BY <1>3 DEF EnsureDirSlash, p
  <2> QED BY <1>3, <2>3, <2>5, <2>6, <2>7, <2>8 DEF EndsInSlash
<1> QED BY <1>2, <1>3

\* A line that names a route.
LEMMA RouteLineFacts ==
    ASSUME NEW l \in Line, l.word = "route"
    PROVE  /\ l.type \in {"static", "proxy", "app"} /\ l.prefix \in Seq(Texts)
           /\ l.target \in Texts /\ (l.type = "static" => l.target \in Targets)
<1>1. l \notin {Blank, Listen, BadLine}
  BY DEF Blank, Listen, BadLine
<1>2. Targets \subseteq Texts
  BY RoutesAssumption
<1> QED BY <1>1, <1>2 DEF Line

\* A route copied from the site has no descriptor yet.
Copied(s) == [s EXCEPT !.dirFd = NoFd, !.exact = FALSE, !.primary = FALSE]
LEMMA CopiedRoute ==
    ASSUME NEW s \in Route, Plain(s)
    PROVE  /\ Copied(s) \in Route /\ Plain(Copied(s)) /\ Unopened(Copied(s)) /\ Copied(s).exact = FALSE
           /\ Copied(s).type = s.type /\ Copied(s).prefix = s.prefix /\ Copied(s).target = s.target
<1> DEFINE r == Copied(s)
<1>1. r \in Route
  BY DEF Route, Copied
<1>2. r.type = s.type /\ r.prefix = s.prefix /\ r.target = s.target /\ r.dirFd = NoFd
  BY DEF Route, Copied
<1>3. r.exact = FALSE /\ r.primary = FALSE
  BY DEF Route, Copied
<1> QED BY <1>1, <1>2, <1>3 DEF Plain, Unopened

-----------------------------------------------------------------------------
(***************************************************************************)
(* Loading and checking the site.                                          *)
(***************************************************************************)

LEMMA InitInv == Init => RoutesInv
<1> SUFFICES ASSUME Init PROVE RoutesInv
  OBVIOUS
<1> USE DEF Init
<1>1. file \in Seq(Line) /\ Len(file) \in Nat
  BY LinesAssumption
<1>2. site \in Seq(Route) /\ Len(site) = 0 /\ DOMAIN site = {}
  OBVIOUS
<1>3. SiteInv
  BY <1>1, <1>2, RoutesAssumption DEF SiteInv
<1>4. TableInv
  BY DEF TableInv, Closed
<1>5. Agrees
  BY DEF Agrees
<1>6. OpenFailed
  BY DEF OpenFailed, NoRequest, Outcome
<1>7. kind \in [Targets -> Kinds] /\ changes \in 0 .. MaxChanges
  BY RoutesAssumption
<1> QED BY <1>3, <1>4, <1>5, <1>6, <1>7 DEF RoutesInv

\* What the sequences of the state are, for the steps below.
LEMMA SiteFacts ==
    ASSUME RoutesInv
    PROVE  /\ file \in Seq(Line) /\ Len(file) \in Nat /\ site \in Seq(Route) /\ Len(site) \in Nat
           /\ DOMAIN site = 1 .. Len(site) /\ \A i \in DOMAIN site : site[i] \in Route /\ Plain(site[i])
           /\ at \in Nat /\ at > 0 /\ MaxRoutes \in Nat /\ PrefixMax \in Nat
<1>1. file \in Seq(Line) /\ site \in Seq(Route) /\ \A i \in DOMAIN site : Plain(site[i])
  BY LinesAssumption DEF RoutesInv, SiteInv
<1>2. Len(file) \in Nat /\ Len(site) \in Nat /\ DOMAIN site = 1 .. Len(site)
  BY <1>1
<1>3. \A i \in DOMAIN site : site[i] \in Route
  BY <1>1
<1>4. at \in Nat /\ at > 0
  BY <1>2 DEF RoutesInv, SiteInv
<1>5. MaxRoutes \in Nat /\ PrefixMax \in Nat
  BY RoutesAssumption
<1> QED BY <1>1, <1>2, <1>3, <1>4, <1>5

\* The process ends with the table taken down.
LEMMA EndStep ==
    ASSUME RoutesInv, stage' = "exit", table' = <<>>, ready' = FALSE, docrootFd' = NoFd,
           DOMAIN open' = {0}, UNCHANGED <<file, kind, changes, at, sawListen, site>>,
           excuse' \in BOOLEAN, OpenFailed'
    PROVE  RoutesInv'
<1>1. SiteInv'
  BY DEF RoutesInv, SiteInv, Plain
<1>2. TableInv'
  BY DEF TableInv, Closed
<1>3. Agrees'
  BY DEF Agrees
<1> QED BY <1>1, <1>2, <1>3 DEF RoutesInv

\* It ends before there is a table.
LEMMA GiveUpStep ==
    ASSUME RoutesInv, stage \in {"load", "check"}, GiveUp,
           UNCHANGED <<file, kind, changes, last, excuse, tableVars>>
    PROVE  RoutesInv'
<1>1. table = <<>> /\ docrootFd = NoFd /\ DOMAIN open = {0} /\ ready = FALSE
  BY DEF RoutesInv, TableInv, Closed
<1>2. /\ stage' = "exit" /\ UNCHANGED <<file, kind, changes, at, sawListen, site, last, excuse>>
      /\ UNCHANGED <<table, ready, docrootFd, open, cache>>
  BY DEF GiveUp, tableVars
<1>3. OpenFailed' /\ excuse' \in BOOLEAN
  BY <1>2 DEF RoutesInv, OpenFailed
<1> QED BY <1>1, <1>2, <1>3, EndStep

\* While there is no table, a step of the load or the check is about the site only.
LEMMA NoTableStep ==
    ASSUME RoutesInv, stage \in {"load", "check"}, stage' \in {"load", "check", "begin"},
           UNCHANGED <<file, kind, changes, last, excuse, tableVars>>,
           sawListen' \in BOOLEAN, SiteInv', Agrees'
    PROVE  RoutesInv'
<1>1. UNCHANGED <<table, ready, docrootFd, open, cache, last>>
  BY DEF tableVars
<1>2. TableInv'
  BY <1>1 DEF RoutesInv, TableInv, Closed
<1>3. OpenFailed'
  BY <1>1 DEF RoutesInv, OpenFailed
<1> QED BY <1>2, <1>3 DEF RoutesInv

LEMMA LoadLineStep ==
    ASSUME RoutesInv, LoadLine
    PROVE  RoutesInv'
<1> DEFINE line == file[at]
<1>1. /\ stage = "load" /\ at <= Len(file)
      /\ UNCHANGED <<file, kind, changes, last, excuse, tableVars>>
  BY DEF LoadLine
<1>2. Len(site) < at /\ Len(site) <= MaxRoutes /\ at \in 1 .. Len(file)
  BY <1>1, SiteFacts DEF RoutesInv, SiteInv
<1>3. line \in Line
  BY <1>2, SiteFacts
<1>4. CASE GiveUp
  BY <1>1, <1>4, GiveUpStep
\* The next line is read, with one route more or none.
<1>5. ASSUME at' = at + 1, stage' = stage, sawListen' \in BOOLEAN,
             site' \in Seq(Route), \A i \in DOMAIN site' : Plain(site'[i]),
             Len(site') <= Len(site) + 1, Len(site') <= MaxRoutes
      PROVE  RoutesInv'
  <2>1. Len(site') \in Nat
    BY <1>5
  <2>2. Len(site') < at' /\ Len(site') <= Len(file) /\ at' \in 1 .. Len(file) + 1
    BY <1>2, <1>5, <2>1, SiteFacts
  <2>3. SiteInv'
    BY <1>1, <1>5, <2>2 DEF RoutesInv, SiteInv, Plain
  <2>4. Agrees'
    BY <1>1, <1>5 DEF Agrees
  <2> QED BY <1>1, <1>5, <2>3, <2>4, NoTableStep
<1>6. CASE line.word = "blank" /\ at' = at + 1 /\ UNCHANGED <<stage, sawListen, site>>
  BY <1>2, <1>5, <1>6, SiteFacts DEF RoutesInv, SiteInv
<1>7. CASE sawListen' = TRUE /\ at' = at + 1 /\ UNCHANGED <<stage, site>>
  BY <1>2, <1>5, <1>7, SiteFacts DEF RoutesInv, SiteInv
<1>8. CASE line.word = "route" /\ AddRoute(line)
  <2>1. CASE GiveUp
    BY <2>1, <1>4
  <2>2. CASE /\ ~(Len(site) >= MaxRoutes) /\ PrefixOk(line.prefix)
             /\ site' = Append(site, [Cleared EXCEPT !.type = line.type, !.prefix = line.prefix,
                                                     !.target = line.target])
             /\ at' = at + 1 /\ UNCHANGED <<stage, sawListen>>
    <3> DEFINE r == [Cleared EXCEPT !.type = line.type, !.prefix = line.prefix,
                                    !.target = line.target]
    <3>1. /\ line.type \in {"static", "proxy", "app"} /\ line.prefix \in Seq(Texts)
          /\ line.target \in Texts /\ (line.type = "static" => line.target \in Targets)
      BY <1>3, <1>8, RouteLineFacts
    <3> HIDE DEF line
    <3>2. r \in Route /\ r.type = line.type /\ r.prefix = line.prefix /\ r.target = line.target
      BY <3>1 DEF Cleared, Route, NoFd
    <3>3. Plain(r)
      BY <2>2, <3>1, <3>2 DEF Plain, PrefixOk
    <3> HIDE DEF r
    <3>4. site' = Append(site, r)
      BY <2>2 DEF r
    <3>5. site' \in Seq(Route) /\ Len(site') = Len(site) + 1
      BY <3>2, <3>4, SiteFacts
    <3>6. ASSUME NEW i \in DOMAIN site' PROVE Plain(site'[i])
      <4>1. i \in 1 .. Len(site) + 1
        BY <3>5
      <4>2. site'[i] = IF i = Len(site) + 1 THEN r ELSE site[i]
        BY <3>4, <4>1, SiteFacts
      <4> QED BY <3>3, <4>1, <4>2, SiteFacts
    <3>7. Len(site') <= MaxRoutes /\ Len(site') <= Len(site) + 1
      BY <2>2, <3>5, SiteFacts
    <3> QED BY <1>5, <2>2, <3>5, <3>6, <3>7 DEF RoutesInv
  <2> QED BY <1>8, <2>1, <2>2 DEF AddRoute
<1> QED BY <1>4, <1>6, <1>7, <1>8 DEF LoadLine

LEMMA LoadEndStep ==
    ASSUME RoutesInv, LoadEnd
    PROVE  RoutesInv'
<1>1. stage = "load" /\ UNCHANGED <<file, kind, changes, last, excuse, tableVars>>
  BY DEF LoadEnd
<1>2. CASE GiveUp
  BY <1>1, <1>2, GiveUpStep
<1>3. CASE site # <<>> /\ stage' = "check" /\ at' = 1 /\ UNCHANGED <<sawListen, site>>
  <2>1. SiteInv'
    BY <1>1, <1>3, SiteFacts DEF RoutesInv, SiteInv, Plain
  <2>2. Agrees'
    BY <1>3 DEF Agrees
  <2> QED BY <1>1, <1>3, <2>1, <2>2, NoTableStep DEF RoutesInv
<1> QED BY <1>2, <1>3 DEF LoadEnd

LEMMA CheckRouteStep ==
    ASSUME RoutesInv, CheckRoute
    PROVE  RoutesInv'
<1> DEFINE r == site[at]
           Good(q) == /\ site' = [site EXCEPT ![at] = q]
                      /\ at' = at + 1
                      /\ UNCHANGED <<stage, sawListen>>
<1>1. /\ stage = "check" /\ at <= Len(site) /\ UNCHANGED <<file, kind, changes, last, excuse, tableVars>>
  BY DEF CheckRoute
<1>2. at \in DOMAIN site /\ r \in Route /\ Plain(r) /\ at \in 1 .. Len(site)
  BY <1>1, SiteFacts
<1>3. CASE GiveUp
  BY <1>1, <1>3, GiveUpStep
<1>4. ASSUME NEW q \in Route, Plain(q), Fits(q), Good(q)
      PROVE  RoutesInv'
  <2>1. /\ site' \in Seq(Route) /\ Len(site') = Len(site) /\ site'[at] = q
        /\ \A i \in DOMAIN site : i # at => site'[i] = site[i]
        /\ DOMAIN site' = DOMAIN site
    BY <1>2, <1>4, SiteFacts
  <2>2. \A i \in DOMAIN site' : Plain(site'[i])
    BY <1>4, <2>1, SiteFacts
  <2>3. site' # <<>> /\ at' \in 1 .. Len(file) + 1 /\ at' <= Len(site') + 1
    BY <1>1, <1>2, <1>4, <2>1, SiteFacts DEF RoutesInv, SiteInv
  <2>4. SiteInv'
    BY <1>1, <1>4, <2>1, <2>2, <2>3 DEF RoutesInv, SiteInv, Plain
  <2>5. Agrees'
    <3>1. ASSUME ~excuse PROVE (\A i \in 1 .. at - 1 : Fits(site[i]))'
      <4>1. ASSUME NEW i \in 1 .. at' - 1 PROVE Fits(site[i])'
        <5>1. i \in 1 .. at /\ i \in DOMAIN site
          BY <1>2, <1>4, SiteFacts
        <5>2. CASE i = at
          BY <1>1, <1>4, <2>1, <5>2 DEF Fits
        <5>3. CASE i # at
          <6>1. i \in 1 .. at - 1
            BY <5>1, <5>3, SiteFacts
          <6>2. Fits(site[i])
            BY <1>1, <3>1, <6>1 DEF RoutesInv, Agrees
          <6> QED BY <1>1, <2>1, <5>1, <5>3, <6>2 DEF Fits
        <5> QED BY <5>2, <5>3
      <4> QED BY <4>1
    <3> QED BY <1>1, <1>4, <3>1 DEF Agrees
  <2> QED BY <1>1, <1>4, <2>4, <2>5, NoTableStep DEF RoutesInv
<1>5. CASE r.type # "static" /\ Good(r)
  BY <1>2, <1>4, <1>5 DEF Fits
<1>6. CASE r.type = "static" /\ kind[r.target] = "dir" /\ SlashFits(r) /\ Good(EnsureDirSlash(r))
  <2> DEFINE q == EnsureDirSlash(r)
  <2>1. q \in Route /\ Plain(q) /\ EndsInSlash(q.prefix) /\ q.type = r.type /\ q.target = r.target
    BY <1>2, <1>6, DirSlash
  <2>2. Fits(q)
    BY <1>6, <2>1 DEF Fits
  <2> HIDE DEF q
  <2> QED BY <1>4, <1>6, <2>1, <2>2 DEF q
<1>7. CASE r.type = "static" /\ kind[r.target] = "file" /\ FilePrefixOk(r) /\ Good(r)
  BY <1>2, <1>4, <1>7 DEF Fits
<1>8. \/ r.type # "static" /\ Good(r)
      \/ r.type = "static" /\ kind[r.target] = "dir" /\ SlashFits(r) /\ Good(EnsureDirSlash(r))
      \/ r.type = "static" /\ kind[r.target] = "file" /\ FilePrefixOk(r) /\ Good(r)
      \/ GiveUp
  BY DEF CheckRoute
<1> QED BY <1>3, <1>5, <1>6, <1>7, <1>8

LEMMA CheckEndStep ==
    ASSUME RoutesInv, CheckEnd
    PROVE  RoutesInv'
<1>1. /\ stage = "check" /\ at > Len(site)
      /\ UNCHANGED <<file, kind, changes, last, excuse, tableVars>>
  BY DEF CheckEnd
<1>2. CASE GiveUp
  BY <1>1, <1>2, GiveUpStep
<1>3. CASE ~Duplicates(site) /\ stage' = "begin" /\ UNCHANGED <<at, sawListen, site>>
  <2>1. SiteInv'
    BY <1>1, <1>3 DEF RoutesInv, SiteInv, Plain
  <2>2. Agrees'
    <3>1. \A i \in DOMAIN site : i \in 1 .. at - 1
      BY <1>1, SiteFacts
    <3>2. ~excuse => \A i \in DOMAIN site : Fits(site[i])
      BY <1>1, <3>1 DEF RoutesInv, Agrees
    <3> QED BY <1>1, <1>3, <3>2 DEF Agrees, Fits, Duplicates
  <2> QED BY <1>1, <1>3, <2>1, <2>2, NoTableStep DEF RoutesInv
<1> QED BY <1>2, <1>3 DEF CheckEnd

\* What lies at a target changes.
LEMMA ChangeStep ==
    ASSUME RoutesInv, NEW t \in Targets, NEW k \in Kinds \ {"denied"}, Change(t, k)
    PROVE  RoutesInv'
<1>1. /\ kind' = [kind EXCEPT ![t] = k] /\ changes' = changes + 1 /\ changes < MaxChanges
      /\ excuse' = (excuse \/ stage # "load") /\ last' = NoRequest
      /\ UNCHANGED <<file, stage, at, sawListen, site, table, ready, docrootFd, open, cache>>
  BY DEF Change
<1>2. kind' \in [Targets -> Kinds]
  BY <1>1 DEF RoutesInv, Kinds
<1>3. changes' \in 0 .. MaxChanges
  BY <1>1, RoutesAssumption DEF RoutesInv
<1>4. SiteInv'
  BY <1>1 DEF RoutesInv, SiteInv, Plain
<1>5. TableInv'
  BY <1>1 DEF RoutesInv, TableInv, Closed, Held, Done, SetUp, Plain, Unopened, Duplicates
<1>6. Agrees'
  <2>1. ~excuse' => stage' = "load"
    BY <1>1
  <2> QED BY <2>1 DEF Agrees
<1>7. OpenFailed'
  BY <1>1 DEF OpenFailed, NoRequest, Outcome
<1>8. excuse' \in BOOLEAN
  BY <1>1
<1> QED BY <1>1, <1>2, <1>3, <1>4, <1>5, <1>6, <1>7, <1>8 DEF RoutesInv

-----------------------------------------------------------------------------
(***************************************************************************)
(* Installing the table and taking it down.                                *)
(***************************************************************************)

\* The table while it is being set up or in use.
Up == stage \in {"stat", "open", "serve"}

\* Its descriptors and routes, for the steps below.
LEMMA TableFacts ==
    ASSUME RoutesInv, Up
    PROVE  /\ table \in [DOMAIN site -> Route] /\ DOMAIN table = DOMAIN site /\ table # <<>>
           /\ \A i \in DOMAIN table : table[i] \in Route
           /\ IsFiniteSet(DOMAIN open) /\ DOMAIN open \subseteq Nat
           /\ DOMAIN open = {0} \cup Held /\ 0 \notin Held
           /\ \A i \in DOMAIN table : Done(i) => SetUp(table[i])
           /\ \A i \in DOMAIN table : ~Done(i) => Unopened(table[i])
<1>1. /\ table \in [DOMAIN site -> Route] /\ site # <<>>
      /\ IsFiniteSet(DOMAIN open) /\ DOMAIN open \subseteq Nat
      /\ DOMAIN open = {0} \cup Held /\ 0 \notin Held
      /\ \A i \in DOMAIN table : Done(i) => SetUp(table[i])
      /\ \A i \in DOMAIN table : ~Done(i) => Unopened(table[i])
  BY DEF RoutesInv, SiteInv, TableInv, Up
<1>2. DOMAIN site # {}
  BY <1>1, SiteFacts
<1>3. table # <<>>
  BY <1>1, <1>2
<1> QED BY <1>1, <1>3

\* routes_shutdown closes every directory the table holds and nothing else.
LEMMA ShutdownCloses ==
    ASSUME RoutesInv, Up, RoutesShutdown
    PROVE  table' = <<>> /\ ready' = FALSE /\ docrootFd' = NoFd /\ DOMAIN open' = {0}
<1>1. DOMAIN open = {0} \cup Held /\ 0 \notin Held /\ table # <<>>
  BY TableFacts
<1>2. open' = CloseAll({table[i].dirFd : i \in DOMAIN table} \cup {docrootFd}) /\ docrootFd' = NoFd
  BY <1>1 DEF RoutesShutdown
<1>3. DOMAIN open' = ({0} \cup Held) \ ({table[i].dirFd : i \in DOMAIN table} \cup {docrootFd})
  BY <1>1, <1>2 DEF CloseAll
<1>4. 0 # NoFd
  BY DEF NoFd
<1>5. DOMAIN open' = {0}
  BY <1>1, <1>3, <1>4 DEF Held
<1> QED BY <1>2, <1>5 DEF RoutesShutdown

LEMMA InitFailsStep ==
    ASSUME RoutesInv, Up, InitFails, UNCHANGED siteVars, excuse' \in BOOLEAN
    PROVE  RoutesInv'
<1>1. table' = <<>> /\ ready' = FALSE /\ docrootFd' = NoFd /\ DOMAIN open' = {0}
  BY ShutdownCloses DEF InitFails
<1>2. stage' = "exit" /\ UNCHANGED <<file, kind, changes, at, sawListen, site, last>>
  BY DEF InitFails, siteVars
<1>3. OpenFailed'
  BY <1>2 DEF RoutesInv, OpenFailed
<1> QED BY <1>1, <1>2, <1>3, EndStep

LEMMA DestroyStep ==
    ASSUME RoutesInv, Destroy
    PROVE  RoutesInv'
<1>1. /\ stage = "serve" /\ RoutesShutdown /\ stage' = "exit" /\ last' = NoRequest
      /\ UNCHANGED <<file, kind, changes, sawListen, site, at, excuse>>
  BY DEF Destroy
<1>2. table' = <<>> /\ ready' = FALSE /\ docrootFd' = NoFd /\ DOMAIN open' = {0}
  BY <1>1, ShutdownCloses DEF Up
<1>3. OpenFailed' /\ excuse' \in BOOLEAN
  BY <1>1 DEF RoutesInv, OpenFailed, NoRequest, Outcome
<1> QED BY <1>1, <1>2, <1>3, EndStep

\* Nothing but the table, its stage and its descriptors changes.
LEMMA SiteKept ==
    ASSUME RoutesInv, UNCHANGED siteVars, stage' # "load",
           at' \in 1 .. Len(site) + 1, stage' = "open" => at' <= Len(site),
           stage \in {"begin", "stat", "open"}
    PROVE  SiteInv' /\ OpenFailed' /\ UNCHANGED <<file, kind, changes, sawListen, site, last>>
<1>1. UNCHANGED <<file, kind, changes, sawListen, site, last>>
  BY DEF siteVars
<1>2. OpenFailed'
  BY <1>1 DEF RoutesInv, OpenFailed
<1>3. at' \in 1 .. Len(file) + 1 /\ at' <= Len(site) + 1
  BY SiteFacts DEF RoutesInv, SiteInv
<1>4. SiteInv'
  BY <1>1, <1>3 DEF RoutesInv, SiteInv, Plain
<1> QED BY <1>1, <1>2, <1>4

LEMMA InitBeginStep ==
    ASSUME RoutesInv, InitBegin
    PROVE  RoutesInv'
<1>1. /\ stage = "begin" /\ stage' = "stat" /\ at' = 1
      /\ table' = [i \in DOMAIN site |-> Cleared]
      /\ UNCHANGED <<siteVars, ready, docrootFd, open, cache, excuse>>
  BY DEF InitBegin
<1>2. SiteInv' /\ OpenFailed' /\ UNCHANGED <<file, kind, changes, sawListen, site, last>>
  BY <1>1, SiteKept, SiteFacts
<1>3. Cleared \in Route /\ Unopened(Cleared) /\ Cleared.dirFd = NoFd /\ Cleared.primary = FALSE
  BY DEF Cleared, Route, Unopened, NoFd, Texts
<1>4. /\ DOMAIN table' = DOMAIN site /\ table' \in [DOMAIN site -> Route]
      /\ \A i \in DOMAIN table' : table'[i] = Cleared
  BY <1>1, <1>3
<1>5. docrootFd = NoFd /\ DOMAIN open = {0} /\ ready = FALSE
  BY <1>1 DEF RoutesInv, TableInv, Closed
<1>6. Held' = {}
  BY <1>1, <1>3, <1>4, <1>5 DEF Held
<1>7. \A i \in DOMAIN table' : ~Done(i)'
  BY <1>1, <1>4, SiteFacts DEF Done
<1>8. IsFiniteSet({0}) /\ {0} \subseteq Nat
  BY FS_Singleton
<1>9. \A i \in DOMAIN table' : Unopened(table[i])'
  BY <1>3, <1>4 DEF Unopened
<1>10. TableInv'
  BY <1>1, <1>2, <1>3, <1>4, <1>5, <1>6, <1>7, <1>8, <1>9 DEF TableInv, Unopened
<1>11. Agrees'
  BY <1>1, <1>2 DEF RoutesInv, Agrees, Fits, Duplicates
<1> QED BY <1>1, <1>2, <1>10, <1>11 DEF RoutesInv

\* A route of the table is written without a descriptor: it is set up, or its
\* directory is to be opened next.
LEMMA PutStep ==
    ASSUME RoutesInv, stage = "stat", at <= Len(site), UNCHANGED siteVars,
           UNCHANGED <<ready, docrootFd, open, cache, excuse>>,
           NEW q \in Route, Unopened(q), Plain(q), table' = [table EXCEPT ![at] = q],
           ~excuse => q.prefix = site[at].prefix,
           \/ stage' = "stat" /\ at' = at + 1 /\ SetUp(q)
           \/ stage' = "open" /\ at' = at /\ q.type = "static" /\ ~q.exact /\ EndsInSlash(q.prefix)
    PROVE  RoutesInv'
<1>1. Up /\ at \in DOMAIN site /\ at \in 1 .. Len(site)
  BY SiteFacts DEF Up
<1>2. at' \in 1 .. Len(site) + 1 /\ (stage' = "open" => at' <= Len(site))
  BY <1>1, SiteFacts
<1>3. SiteInv' /\ OpenFailed' /\ UNCHANGED <<file, kind, changes, sawListen, site, last>>
  BY <1>2, SiteKept
<1>4. /\ table' \in [DOMAIN site -> Route] /\ DOMAIN table' = DOMAIN table /\ table'[at] = q
      /\ \A i \in DOMAIN table : i # at => table'[i] = table[i]
      /\ at \in DOMAIN table /\ DOMAIN table = DOMAIN site
  BY <1>1, TableFacts
<1>5. Unopened(table[at])
  <2>1. ~Done(at)
    BY SiteFacts DEF Done
  <2> QED BY <1>4, <2>1, <1>1, TableFacts
<1>6. \A i \in DOMAIN table : table'[i].dirFd = table[i].dirFd /\ (table'[i].primary <=> table[i].primary)
  BY <1>4, <1>5 DEF Unopened
<1>7. Held' = Held
  BY <1>4, <1>6 DEF Held
<1>8. ASSUME NEW i \in DOMAIN table PROVE (Done(i) => SetUp(table[i]))' /\ (~Done(i) => Unopened(table[i]))'
  <2>1. CASE i = at
    <3>1. Done(i)' => stage' = "stat"
      BY <2>1, SiteFacts DEF Done
    <3>2. (stage' = "stat" => SetUp(table[i])')
      BY <1>4, <2>1, SiteFacts DEF SetUp, Plain, Unopened
    <3>3. Unopened(table[i])'
      BY <1>4, <2>1 DEF Unopened
    <3> QED BY <3>1, <3>2, <3>3
  <2>2. CASE i # at
    <3>0. i \in Nat
      BY <1>4, SiteFacts
    <3>1. Done(i)' <=> Done(i)
      BY <1>4, <2>2, <3>0, SiteFacts DEF Done
    <3>2. Done(i) => SetUp(table[i])'
      BY <1>1, <1>4, <2>2, TableFacts DEF SetUp, Plain, Unopened
    <3>3. ~Done(i) => Unopened(table[i])'
      BY <1>1, <1>4, <2>2, TableFacts DEF Unopened
    <3> QED BY <3>1, <3>2, <3>3
  <2> QED BY <2>1, <2>2
<1>9. /\ \A i, j \in DOMAIN table' : table'[i].dirFd # NoFd /\ table'[i].dirFd = table'[j].dirFd => i = j
      /\ \A i \in DOMAIN table' : table'[i].dirFd # NoFd => table'[i].dirFd # docrootFd'
      /\ \A i, j \in DOMAIN table' : table'[i].primary /\ table'[j].primary => i = j
      /\ (docrootFd' # NoFd) <=> (\E i \in DOMAIN table' : table'[i].primary)
  BY <1>4, <1>6 DEF RoutesInv, TableInv
<1>10. stage' = "open" => (Plain(table[at]) /\ table[at].type = "static" /\ ~table[at].exact
                           /\ EndsInSlash(table[at].prefix))'
  BY <1>4 DEF Plain, EndsInSlash
<1>11. TableInv'
  <2>1. /\ IsFiniteSet(DOMAIN open') /\ DOMAIN open' \subseteq Nat
        /\ DOMAIN open' = {0} \cup Held' /\ 0 \notin Held'
    BY <1>1, <1>7, TableFacts
  <2>2. /\ \A i \in DOMAIN table' : (Done(i) => SetUp(table[i]))'
        /\ \A i \in DOMAIN table' : (~Done(i) => Unopened(table[i]))'
    BY <1>4, <1>8
  <2>3. ready' = (stage' = "serve")
    BY DEF RoutesInv, TableInv
  <2> QED BY <1>3, <1>4, <1>9, <1>10, <2>1, <2>2, <2>3 DEF TableInv
<1>12. Agrees'
  <2>1. ASSUME ~excuse PROVE ~Duplicates(site) /\ \A i \in DOMAIN site : Fits(site[i])
    BY <2>1 DEF RoutesInv, Agrees
  <2>2. ASSUME ~excuse PROVE ~Duplicates(site)' /\ \A i \in DOMAIN site' : Fits(site[i])'
    BY <2>1, <2>2, <1>3 DEF Fits, Duplicates
  <2>3. ASSUME ~excuse, NEW i \in 1 .. at' - 1 PROVE table'[i].prefix = site[i].prefix
    <3>1. CASE i = at
      BY <3>1, <2>3, <1>4
    <3>2. CASE i # at
      <4>1. i \in 1 .. at - 1 /\ i \in DOMAIN table
        BY <3>2, <1>1, <1>4, SiteFacts
      <4> QED BY <4>1, <3>2, <2>3, <1>4 DEF RoutesInv, Agrees
    <3> QED BY <3>1, <3>2
  <2>4. ASSUME ~excuse, stage' = "open" PROVE table'[at'].prefix = site'[at'].prefix
    BY <2>4, <1>3, <1>4, SiteFacts
  <2> QED BY <1>3, <2>2, <2>3, <2>4 DEF Agrees
<1> QED BY <1>3, <1>11, <1>12 DEF RoutesInv

\* What routes_init makes of the route it is at.
LEMMA InitStatCases ==
    ASSUME RoutesInv, InitStat
    PROVE  \/ InitFails
           \/ \E q \in Route :
                /\ Unopened(q) /\ Plain(q) /\ table' = [table EXCEPT ![at] = q]
                /\ ~excuse => q.prefix = site[at].prefix
                /\ \/ stage' = "stat" /\ at' = at + 1 /\ SetUp(q)
                   \/ /\ stage' = "open" /\ at' = at /\ q.type = "static" /\ ~q.exact
                      /\ EndsInSlash(q.prefix)
                /\ UNCHANGED <<ready, docrootFd, open, cache>>
<1> DEFINE r == [site[at] EXCEPT !.dirFd = NoFd, !.exact = FALSE, !.primary = FALSE]
           Put(q, next) == /\ table' = [table EXCEPT ![at] = q]
                           /\ stage' = next
                           /\ at' = IF next = "stat" THEN at + 1 ELSE at
                           /\ UNCHANGED <<ready, docrootFd, open, cache>>
<1>1. at \in DOMAIN site /\ stage = "stat"
  BY SiteFacts DEF InitStat
<1>2. /\ r \in Route /\ Plain(r) /\ Unopened(r) /\ r.exact = FALSE
      /\ r.type = site[at].type /\ r.prefix = site[at].prefix /\ r.target = site[at].target
  <2>1. site[at] \in Route /\ Plain(site[at])
    BY <1>1, SiteFacts
  <2>2. r = Copied(site[at])
    BY DEF Copied
  <2> HIDE DEF r
  <2> QED BY <2>1, <2>2, CopiedRoute
<1>3. ~excuse => Fits(site[at])
  BY <1>1 DEF RoutesInv, Agrees
<1>4. \/ r.type # "static" /\ Put(r, "stat")
      \/ r.type = "static" /\ kind[r.target] = "dir" /\ SlashFits(r) /\ Put(EnsureDirSlash(r), "open")
      \/ /\ r.type = "static" /\ kind[r.target] = "file" /\ FilePrefixOk(r)
         /\ Put([r EXCEPT !.exact = TRUE], "stat")
      \/ InitFails
  BY DEF InitStat
<1>5. CASE r.type # "static" /\ Put(r, "stat")
  <2>1. SetUp(r)
    BY <1>2, <1>5 DEF SetUp, Unopened
  <2> QED BY <1>2, <1>5, <2>1
<1>6. CASE r.type = "static" /\ kind[r.target] = "dir" /\ SlashFits(r) /\ Put(EnsureDirSlash(r), "open")
  <2> DEFINE q == EnsureDirSlash(r)
  <2> HIDE DEF r
  <2>1. /\ q \in Route /\ Plain(q) /\ EndsInSlash(q.prefix) /\ q.type = r.type
        /\ q.dirFd = r.dirFd /\ q.exact = r.exact /\ q.primary = r.primary
        /\ EndsInSlash(r.prefix) => q.prefix = r.prefix
    BY <1>2, <1>6, DirSlash
  <2>2. Unopened(q)
    BY <1>2, <2>1 DEF Unopened
  <2>3. ~excuse => EndsInSlash(r.prefix)
    BY <1>2, <1>3, <1>6 DEF Fits
  <2> HIDE DEF q
  <2>4. Put(q, "open")
    BY <1>6 DEF q
  <2> QED BY <1>2, <1>6, <2>1, <2>2, <2>3, <2>4
<1>7. CASE /\ r.type = "static" /\ kind[r.target] = "file" /\ FilePrefixOk(r)
           /\ Put([r EXCEPT !.exact = TRUE], "stat")
  <2> DEFINE q == [r EXCEPT !.exact = TRUE]
  <2> HIDE DEF r
  <2>1. q \in Route /\ q.type = r.type /\ q.prefix = r.prefix /\ q.target = r.target
    BY <1>2 DEF Route
  <2>2. q.dirFd = r.dirFd /\ q.exact = TRUE /\ q.primary = r.primary
    BY <1>2 DEF Route
  <2>3. Unopened(q) /\ Plain(q)
    BY <1>2, <2>1, <2>2 DEF Unopened, Plain
  <2>4. SetUp(q)
    BY <1>7, <2>1, <2>2, <2>3 DEF SetUp, Unopened
  <2>5. Put(q, "stat")
    BY <1>7
  <2> HIDE DEF q
  <2> QED BY <1>2, <2>1, <2>3, <2>4, <2>5
<1> QED BY <1>4, <1>5, <1>6, <1>7

LEMMA InitStatStep ==
    ASSUME RoutesInv, InitStat
    PROVE  RoutesInv'
<1>1. stage = "stat" /\ at <= Len(site) /\ UNCHANGED siteVars /\ excuse' = excuse
  BY DEF InitStat
<1>2. CASE InitFails
  BY <1>1, <1>2, InitFailsStep DEF Up, RoutesInv
<1>3. ASSUME NEW q \in Route,
             Unopened(q), Plain(q), table' = [table EXCEPT ![at] = q],
             ~excuse => q.prefix = site[at].prefix,
             \/ stage' = "stat" /\ at' = at + 1 /\ SetUp(q)
             \/ stage' = "open" /\ at' = at /\ q.type = "static" /\ ~q.exact /\ EndsInSlash(q.prefix),
             UNCHANGED <<ready, docrootFd, open, cache>>
      PROVE  RoutesInv'
  BY <1>1, <1>3, PutStep
<1> QED BY <1>2, <1>3, InitStatCases

LEMMA InitEndStep ==
    ASSUME RoutesInv, InitEnd
    PROVE  RoutesInv'
<1>1. stage = "stat" /\ at > Len(site) /\ UNCHANGED siteVars /\ excuse' = excuse
  BY DEF InitEnd
<1>2. CASE InitFails
  BY <1>1, <1>2, InitFailsStep DEF Up, RoutesInv
<1>3. CASE /\ ~Duplicates(table) /\ ready' = TRUE /\ stage' = "serve"
           /\ UNCHANGED <<at, table, docrootFd, open, cache>>
  <2>1. at \in 1 .. Len(site) + 1
    BY <1>1, SiteFacts DEF RoutesInv, SiteInv
  <2>2. SiteInv' /\ OpenFailed' /\ UNCHANGED <<file, kind, changes, sawListen, site, last>>
    BY <1>1, <1>3, <2>1, SiteKept
  <2>3. \A i \in DOMAIN table : Done(i) /\ Done(i)'
    BY <1>1, <1>3, SiteFacts, TableFacts DEF Done, Up
  <2>4. \A i \in DOMAIN table : SetUp(table[i])'
    BY <1>1, <1>3, <2>3, TableFacts DEF SetUp, Plain, Unopened, Up
  <2>5. Held' = Held
    BY <1>3 DEF Held
  <2>6. TableInv'
    BY <1>1, <1>3, <2>2, <2>3, <2>4, <2>5 DEF RoutesInv, TableInv, Duplicates
  <2>7. Agrees'
    BY <1>3 DEF Agrees
  <2> QED BY <1>1, <1>3, <2>2, <2>6, <2>7 DEF RoutesInv
<1> QED BY <1>2, <1>3 DEF InitEnd

\* A directory is opened for the route routes_init is at: for itself, or, when there
\* is no document root yet, as that.
LEMMA OpenedStep ==
    ASSUME RoutesInv, stage = "open", stage' = "stat", at' = at + 1, UNCHANGED siteVars,
           UNCHANGED <<ready, cache, excuse>>, open' = OpenDir(table[at].target),
           NEW q \in Route, table' = [table EXCEPT ![at] = q],
           q.type = table[at].type, q.prefix = table[at].prefix, q.target = table[at].target,
           q.exact = table[at].exact,
           \/ q.dirFd = FreeFd /\ ~q.primary /\ docrootFd' = docrootFd /\ q.prefix # Root
           \/ /\ q.dirFd = NoFd /\ q.primary /\ docrootFd = NoFd /\ docrootFd' = FreeFd
              /\ q.prefix = Root
    PROVE  RoutesInv'
<1>1. Up /\ at \in DOMAIN site /\ at \in 1 .. Len(site)
  BY SiteFacts DEF Up, RoutesInv, SiteInv
<1>2. at' \in 1 .. Len(site) + 1
  BY <1>1, SiteFacts
<1>3. SiteInv' /\ OpenFailed' /\ UNCHANGED <<file, kind, changes, sawListen, site, last>>
  BY <1>2, SiteKept
<1>4. /\ table' \in [DOMAIN site -> Route] /\ DOMAIN table' = DOMAIN table /\ table'[at] = q
      /\ \A i \in DOMAIN table : i # at => table'[i] = table[i]
      /\ at \in DOMAIN table /\ DOMAIN table = DOMAIN site
  BY <1>1, TableFacts
<1>5. Unopened(table[at]) /\ table[at] \in Route
  <2>1. ~Done(at)
    BY SiteFacts DEF Done
  <2> QED BY <1>4, <2>1, <1>1, TableFacts
<1>6. Plain(q) /\ q.type = "static" /\ ~q.exact /\ EndsInSlash(q.prefix)
  BY DEF RoutesInv, TableInv, Plain
<1> DEFINE f == FreeFd
<1>7. f \in Nat /\ f \notin DOMAIN open /\ f # NoFd
  BY <1>1, TableFacts, FreeFdIsFree DEF NoFd
<1>8. /\ DOMAIN open' = DOMAIN open \cup {f} /\ open'[f] = table[at].target
      /\ \A fd \in DOMAIN open : open'[fd] = open[fd]
  BY <1>7, OpenDirFacts
<1> HIDE DEF f
<1>9. \/ q.dirFd = f /\ ~q.primary /\ docrootFd' = docrootFd /\ q.prefix # Root
      \/ q.dirFd = NoFd /\ q.primary /\ docrootFd = NoFd /\ docrootFd' = f /\ q.prefix = Root
  BY DEF f
<1>10. /\ Held \subseteq DOMAIN open /\ DOMAIN open = {0} \cup Held /\ 0 \notin Held
       /\ 0 \in DOMAIN open /\ DOMAIN open \subseteq Nat
  BY <1>1, TableFacts
<1>11. Held' = Held \cup {f}
  <2>1. \A i \in DOMAIN table : i # at => table'[i].dirFd = table[i].dirFd
    BY <1>4
  <2>2. {table'[i].dirFd : i \in DOMAIN table'} = {table[i].dirFd : i \in DOMAIN table \ {at}} \cup {q.dirFd}
    BY <1>4
  <2>3. {table[i].dirFd : i \in DOMAIN table} = {table[i].dirFd : i \in DOMAIN table \ {at}} \cup {NoFd}
    BY <1>4, <1>5 DEF Unopened
  <2> QED BY <1>7, <1>9, <2>2, <2>3 DEF Held
<1>12. \A i \in DOMAIN table : table[i].dirFd # NoFd => table[i].dirFd \in DOMAIN open
  BY <1>10 DEF Held
<1>13. docrootFd # NoFd => docrootFd \in DOMAIN open
  BY <1>10 DEF Held
<1>14. (docrootFd # NoFd) <=> (\E i \in DOMAIN table : table[i].primary)
  BY <1>1 DEF Up, RoutesInv, TableInv
<1>15. ASSUME NEW i \in DOMAIN table PROVE (Done(i) => SetUp(table[i]))' /\ (~Done(i) => Unopened(table[i]))'
  <2>1. CASE i = at
    <3>1. table'[i] = q /\ Done(i)'
      BY <1>4, <2>1, SiteFacts DEF Done
    <3>2. Plain(table[i])'
      BY <1>6, <3>1 DEF Plain
    <3>3. open'[f] = q.target
      BY <1>8
    <3>4. SetUp(table[i])'
      BY <1>6, <1>7, <1>9, <3>1, <3>2, <3>3 DEF SetUp, Unopened
    <3> QED BY <3>1, <3>4
  <2>2. CASE i # at
    <3>0. i \in Nat /\ table'[i] = table[i]
      BY <1>4, <2>2, SiteFacts
    <3>1. Done(i)' <=> Done(i)
      BY <1>4, <2>2, <3>0, SiteFacts DEF Done
    <3>2. ~Done(i) => Unopened(table[i])'
      BY <1>1, <3>0, TableFacts DEF Unopened
    <3>3. ASSUME Done(i) PROVE SetUp(table[i])'
      <4>1. SetUp(table[i])
        BY <1>1, <3>3, TableFacts
      <4>2. Plain(table[i])'
        BY <4>1, <3>0 DEF SetUp, Plain, Unopened
      <4>3. table[i].dirFd # NoFd => open'[table[i].dirFd] = open[table[i].dirFd]
        BY <1>8, <1>12
      <4>4. table[i].primary => docrootFd' = docrootFd /\ open'[docrootFd] = open[docrootFd]
        BY <1>8, <1>9, <1>13, <1>14
      <4> QED BY <3>0, <4>1, <4>2, <4>3, <4>4 DEF SetUp, Unopened
    <3> QED BY <3>1, <3>2, <3>3
  <2> QED BY <2>1, <2>2
<1>16. /\ \A i, j \in DOMAIN table' : table'[i].dirFd # NoFd /\ table'[i].dirFd = table'[j].dirFd => i = j
       /\ \A i \in DOMAIN table' : table'[i].dirFd # NoFd => table'[i].dirFd # docrootFd'
       /\ \A i, j \in DOMAIN table' : table'[i].primary /\ table'[j].primary => i = j
       /\ (docrootFd' # NoFd) <=> (\E i \in DOMAIN table' : table'[i].primary)
  <2>1. /\ \A i, j \in DOMAIN table : table[i].dirFd # NoFd /\ table[i].dirFd = table[j].dirFd => i = j
        /\ \A i \in DOMAIN table : table[i].dirFd # NoFd => table[i].dirFd # docrootFd
        /\ \A i, j \in DOMAIN table : table[i].primary /\ table[j].primary => i = j
    BY <1>1 DEF Up, RoutesInv, TableInv
  <2>2. \A i \in DOMAIN table : table[i].dirFd # f
    BY <1>7, <1>12
  <2>3. docrootFd # f
    BY <1>7, <1>13
  <2>4. table[at].dirFd = NoFd /\ ~table[at].primary
    BY <1>5 DEF Unopened
  <2>5. CASE q.dirFd = f /\ ~q.primary /\ docrootFd' = docrootFd
    BY <1>4, <1>7, <1>14, <2>1, <2>2, <2>3, <2>4, <2>5
  <2>6. CASE q.dirFd = NoFd /\ q.primary /\ docrootFd = NoFd /\ docrootFd' = f
    BY <1>4, <1>7, <1>14, <2>1, <2>2, <2>3, <2>4, <2>6
  <2> QED BY <1>9, <2>5, <2>6
<1>17. TableInv'
  <2>1. /\ IsFiniteSet(DOMAIN open') /\ DOMAIN open' \subseteq Nat
        /\ DOMAIN open' = {0} \cup Held' /\ 0 \notin Held'
    <3>1. IsFiniteSet(DOMAIN open \cup {f})
      BY <1>1, TableFacts, FS_AddElement
    <3> QED BY <1>7, <1>8, <1>10, <1>11, <3>1
  <2>2. /\ \A i \in DOMAIN table' : (Done(i) => SetUp(table[i]))'
        /\ \A i \in DOMAIN table' : (~Done(i) => Unopened(table[i]))'
    BY <1>4, <1>15
  <2>3. ready' = (stage' = "serve")
    BY DEF RoutesInv, TableInv
  <2> QED BY <1>3, <1>4, <1>16, <2>1, <2>2, <2>3 DEF TableInv
<1>18. Agrees'
  <2>1. ASSUME ~excuse PROVE ~Duplicates(site) /\ \A i \in DOMAIN site : Fits(site[i])
    BY <2>1 DEF RoutesInv, Agrees
  <2>2. ASSUME ~excuse PROVE ~Duplicates(site)' /\ \A i \in DOMAIN site' : Fits(site[i])'
    BY <2>1, <2>2, <1>3 DEF Fits, Duplicates
  <2>3. ASSUME ~excuse, NEW i \in 1 .. at' - 1 PROVE table'[i].prefix = site[i].prefix
    <3>1. CASE i = at
      BY <3>1, <2>3, <1>4 DEF RoutesInv, Agrees
    <3>2. CASE i # at
      <4>1. i \in 1 .. at - 1 /\ i \in DOMAIN table
        BY <3>2, <1>1, <1>4, SiteFacts
      <4> QED BY <4>1, <3>2, <2>3, <1>4 DEF RoutesInv, Agrees
    <3> QED BY <3>1, <3>2
  <2> QED BY <1>3, <2>2, <2>3 DEF Agrees
<1> QED BY <1>3, <1>17, <1>18 DEF RoutesInv

\* Before the route routes_init is at there is no document root, unless there is one
\* already: then the prefix "/" is there twice.
LEMMA RootOnce ==
    ASSUME RoutesInv, stage = "open"
    PROVE  /\ at \in DOMAIN table /\ table[at] \in Route
           /\ ~(\E i \in 1 .. at - 1 : table[i].primary) => docrootFd = NoFd
           /\ \A i \in 1 .. at - 1 : table[i].primary => i \in DOMAIN table /\ table[i].prefix = Root
<1>1. Up /\ at \in DOMAIN table /\ at \in 1 .. Len(site) /\ DOMAIN table = 1 .. Len(site)
  BY SiteFacts, TableFacts DEF Up, RoutesInv, SiteInv
<1>2. \A i \in DOMAIN table : i \in 1 .. at - 1 <=> Done(i)
  BY <1>1, SiteFacts DEF Done
<1>3. \A i \in DOMAIN table : table[i].primary => i \in 1 .. at - 1 /\ table[i].prefix = Root
  BY <1>1, <1>2, TableFacts DEF SetUp, Unopened
<1>4. \A i \in 1 .. at - 1 : i \in DOMAIN table
  BY <1>1, SiteFacts
<1>5. docrootFd # NoFd => \E i \in DOMAIN table : table[i].primary
  BY DEF RoutesInv, TableInv
<1> QED BY <1>1, <1>3, <1>4, <1>5, TableFacts

LEMMA InitOpenStep ==
    ASSUME RoutesInv, InitOpen
    PROVE  RoutesInv'
<1> DEFINE r == table[at]
<1>1. stage = "open" /\ UNCHANGED siteVars
  BY DEF InitOpen
<1>2. at \in DOMAIN table /\ r \in Route /\ Up /\ r.dirFd = NoFd /\ ~r.primary
  <2>1. at \in DOMAIN table /\ r \in Route /\ Up
    BY <1>1, RootOnce DEF Up
  <2>2. ~Done(at)
    BY <1>1, SiteFacts DEF Done
  <2> QED BY <2>1, <2>2, TableFacts DEF Unopened
<1>3. CASE InitFails /\ excuse' \in BOOLEAN
  BY <1>1, <1>2, <1>3, InitFailsStep
<1>4. CASE /\ r.prefix # Root /\ table' = [table EXCEPT ![at].dirFd = FreeFd]
           /\ open' = OpenDir(r.target) /\ UNCHANGED docrootFd
           /\ stage' = "stat" /\ at' = at + 1 /\ UNCHANGED <<ready, cache, excuse>>
  <2> DEFINE q == [r EXCEPT !.dirFd = FreeFd]
  <2>1. FreeFd \in Nat
    BY <1>2, TableFacts, FreeFdIsFree
  <2>2. q \in Route /\ q.type = r.type /\ q.prefix = r.prefix /\ q.target = r.target
    BY <1>2, <2>1 DEF Route
  <2>3. q.dirFd = FreeFd /\ q.exact = r.exact /\ q.primary = r.primary
    BY <1>2, <2>1 DEF Route
  <2>4. table' = [table EXCEPT ![at] = q]
    BY <1>4
  <2> HIDE DEF q
  <2> QED BY <1>1, <1>2, <1>4, <2>2, <2>3, <2>4, OpenedStep
<1>5. CASE /\ r.prefix = Root /\ ~(\E i \in 1 .. at - 1 : table[i].primary)
           /\ table' = [table EXCEPT ![at].primary = TRUE]
           /\ open' = OpenDir(r.target) /\ docrootFd' = FreeFd
           /\ stage' = "stat" /\ at' = at + 1 /\ UNCHANGED <<ready, cache, excuse>>
  <2> DEFINE q == [r EXCEPT !.primary = TRUE]
  <2>1. docrootFd = NoFd
    BY <1>1, <1>5, RootOnce
  <2>2. q \in Route /\ q.type = r.type /\ q.prefix = r.prefix /\ q.target = r.target
    BY <1>2 DEF Route
  <2>3. q.dirFd = NoFd /\ q.exact = r.exact /\ q.primary = TRUE
    BY <1>2 DEF Route
  <2>4. table' = [table EXCEPT ![at] = q]
    BY <1>5
  <2> HIDE DEF q
  <2> QED BY <1>1, <1>2, <1>5, <2>1, <2>2, <2>3, <2>4, OpenedStep
<1> QED BY <1>3, <1>4, <1>5 DEF InitOpen, RoutesInv

-----------------------------------------------------------------------------
(***************************************************************************)
(* Requests.                                                               *)
(***************************************************************************)

\* A prefix in terms of its symbols.
LEMMA PrefixFacts ==
    ASSUME NEW s \in Seq(Texts), NEW t \in Seq(Texts)
    PROVE  IsPrefix(s, t) <=> (Len(s) <= Len(t) /\ \A i \in 1 .. Len(s) : s[i] = t[i])
<1>1. SubSeq(s, 1, Len(s)) = s
  OBVIOUS
<1>2. CASE Len(s) <= Len(t)
  <2> DEFINE u == SubSeq(t, 1, Len(s))
  <2>1. u \in Seq(Texts) /\ Len(u) = Len(s) /\ \A i \in 1 .. Len(s) : u[i] = t[i]
    BY <1>2
  <2> HIDE DEF u
  <2>2. (s = u) <=> \A i \in 1 .. Len(s) : s[i] = u[i]
    BY <2>1, SeqEqual
  <2> QED BY <1>1, <1>2, <2>1, <2>2 DEF IsPrefix, u
<1>3. CASE ~(Len(s) <= Len(t))
  BY <1>3 DEF IsPrefix
<1> QED BY <1>2, <1>3

LEMMA FrontFacts ==
    ASSUME NEW s \in Seq(Texts), s # <<>>
    PROVE  /\ Front(s) \in Seq(Texts) /\ Len(Front(s)) = Len(s) - 1
           /\ \A i \in 1 .. Len(s) - 1 : Front(s)[i] = s[i]
<1>1. Len(s) \in Nat \ {0} /\ \A i \in 1 .. Len(s) - 1 : s[i] \in Texts
  BY EmptySeq
<1> DEFINE n == Len(s) - 1
<1>2. n \in Nat /\ \A i \in 1 .. n : s[i] \in Texts
  BY <1>1
<1> HIDE DEF n
<1>3. /\ SubSeq(s, 1, n) \in Seq(Texts)
      /\ Len(SubSeq(s, 1, n)) = IF 1 <= n THEN n - 1 + 1 ELSE 0
      /\ \A i \in 1 .. n - 1 + 1 : SubSeq(s, 1, n)[i] = s[1 + i - 1]
  BY <1>2, SubSeqProperties
<1>4. Len(SubSeq(s, 1, n)) = n /\ \A i \in 1 .. n : SubSeq(s, 1, n)[i] = s[i]
  BY <1>2, <1>3
<1> QED BY <1>3, <1>4 DEF Front, n

\* An answer 500 names what could not be opened: a file beneath a target, or a target
\* itself.
ForCause(a) ==
    a.status = 500 =>
      IF a.rel = <<>> THEN a.dir \in Targets /\ kind[a.dir] = "failing"
      ELSE a.dir \in Targets /\ KindOf(a.dir, a.rel) = "failing"

\* What an answer's status and file are.
LEMMA OutcomeFacts ==
    /\ \A n : Outcome(n).status = n
    /\ \A d, rel : Sends(d, rel).status = 200
    /\ \A p : Redirect(p).status = 301
    /\ \A d, rel : /\ Fails(d, rel).dir = d
                  /\ Fails(d, rel).rel = rel
  BY DEF Outcome, Sends, Redirect, Fails

\* A file beneath a target is answered 500 only if it cannot be opened.
LEMMA OpenedForCause ==
    ASSUME NEW dir \in Targets, NEW rel
    PROVE  ForCause(Opened(dir, rel, KindOf(dir, rel)))
<1> DEFINE kd == KindOf(dir, rel)
<1>1. CASE kd = "failing"
  <2>1. Opened(dir, rel, kd) = Fails(dir, rel)
    BY <1>1 DEF Opened
  <2>2. rel \in DOMAIN Contents[dir]
    BY <1>1 DEF KindOf
  <2>3. rel # <<>>
    BY <2>2, ContentsAssumption, RoutesAssumption
  <2> QED BY <1>1, <2>1, <2>3, OutcomeFacts DEF ForCause
<1>2. CASE kd # "failing"
  <2>1. Opened(dir, rel, kd).status # 500
    BY <1>2, OutcomeFacts DEF Opened
  <2> QED BY <2>1 DEF ForCause
<1> QED BY <1>1, <1>2

\* static_serve with a directory to serve from.
LEMMA StaticServeForCause ==
    ASSUME NEW method, NEW dir \in Targets, NEW url, NEW redir, NEW dotfiles
    PROVE  ForCause(StaticServe(method, dir, url, redir, dotfiles))
<1>1. dir # NoDir
  BY PathsAssumption
<1>2. \A n : n # 500 => ForCause(Outcome(n))
  BY OutcomeFacts DEF ForCause
<1>3. \A p : ForCause(Redirect(p))
  BY OutcomeFacts DEF ForCause
<1>4. \A rel : ForCause(Opened(dir, rel, KindOf(dir, rel)))
  BY OpenedForCause
<1>5. ForCause(Outcome(405)) /\ ForCause(Outcome(400)) /\ ForCause(Outcome(404))
  BY <1>2
<1> QED BY <1>1, <1>3, <1>4, <1>5 DEF StaticServe

\* The target of a file route.
LEMMA StaticBeginFileForCause ==
    ASSUME NEW method, NEW target \in Targets
    PROVE  ForCause(StaticBeginFile(method, target, kind[target]))
<1>1. CASE method \in {"GET", "HEAD"} /\ kind[target] = "failing"
  <2>1. StaticBeginFile(method, target, kind[target]) = Fails(target, <<>>)
    BY <1>1 DEF StaticBeginFile, Opened
  <2> QED BY <1>1, <2>1, OutcomeFacts DEF ForCause
<1>2. CASE ~(method \in {"GET", "HEAD"} /\ kind[target] = "failing")
  <2>1. StaticBeginFile(method, target, kind[target]).status # 500
    BY <1>2, OutcomeFacts DEF StaticBeginFile, Opened
  <2> QED BY <2>1 DEF ForCause
<1> QED BY <1>1, <1>2

\* A path a request asks for: from its first slash, or empty.
Asked(path) == path \in Seq(Texts) /\ (path # <<>> => path[1] = "/")

\* The prefix of a route that matches is the path's beginning, with a slash behind a
\* path that names the directory itself.
LEMMA MatchDetermines ==
    ASSUME NEW r \in Route, Plain(r), NEW path, Asked(path), RouteMatches(r, path)
    PROVE  \A k \in 1 .. Len(r.prefix) :
             r.prefix[k] = IF k <= Len(path) THEN path[k] ELSE "/"
<1> DEFINE p == r.prefix
           n == Len(p)
<1>1. p \in Seq(Texts) /\ path \in Seq(Texts) /\ p # <<>> /\ p[1] = "/" /\ n \in Nat /\ n > 0
  BY DEF Route, Plain, Asked
<1>2. CASE path = p
  BY <1>1, <1>2
<1>3. CASE p = Root
  <2>1. n = 1 /\ (1 <= Len(path) => path[1] = "/")
    BY <1>3 DEF Root, Asked
  <2> QED BY <1>1, <2>1
<1>4. CASE EndsInSlash(p) /\ path = Front(p)
  <2>1. Len(path) = n - 1 /\ \A i \in 1 .. n - 1 : path[i] = p[i]
    BY <1>1, <1>4, FrontFacts
  <2>2. p[n] = "/"
    BY <1>4 DEF EndsInSlash
  <2> QED BY <1>1, <2>1, <2>2
<1>5. CASE IsPrefix(p, path)
  <2>1. Len(p) <= Len(path) /\ \A i \in 1 .. Len(p) : p[i] = path[i]
    BY <1>1, <1>5, PrefixFacts
  <2>2. Len(path) \in Nat
    BY <1>1
  <2> QED BY <1>1, <2>1, <2>2
<1>6. path = p \/ p = Root \/ (EndsInSlash(p) /\ path = Front(p)) \/ IsPrefix(p, path)
  <2> HIDE DEF p
  <2> QED BY DEF RouteMatches, p
<1> QED BY <1>2, <1>3, <1>4, <1>5, <1>6

\* A directory with its trailing slash is its base and the slash.
LEMMA BaseSlash ==
    ASSUME NEW p \in Seq(Texts), p # <<>>, EndsInSlash(p)
    PROVE  Append(Front(p), "/") = p
<1>1. /\ Front(p) \in Seq(Texts) /\ Len(Front(p)) = Len(p) - 1
      /\ \A i \in 1 .. Len(p) - 1 : Front(p)[i] = p[i]
  BY FrontFacts
<1> DEFINE f == Front(p)
           q == Append(f, "/")
<1>2. "/" \in Texts /\ Len(p) \in Nat /\ Len(p) > 0
  BY DEF Texts
<1> HIDE DEF f
<1>3. q \in Seq(Texts) /\ Len(q) = Len(f) + 1 /\ \A i \in 1 .. Len(f) + 1 : q[i] = IF i = Len(f) + 1 THEN "/" ELSE f[i]
  BY <1>1, <1>2 DEF f
<1> HIDE DEF q
<1>4. Len(q) = Len(p) /\ \A i \in 1 .. Len(p) : q[i] = p[i]
  BY <1>1, <1>2, <1>3 DEF f, EndsInSlash
<1>5. q = p
  BY <1>3, <1>4, SeqEqual
<1> QED BY <1>5 DEF q, f

\* route_matches decides whether the route covers the path.
LEMMA MatchIsCovers ==
    ASSUME NEW r \in Route, Plain(r), NEW path, Asked(path)
    PROVE  RouteMatches(r, path) <=> Covers(r, path)
<1> DEFINE p == r.prefix
           n == Len(p)
<1>1. /\ p \in Seq(Texts) /\ path \in Seq(Texts) /\ p # <<>> /\ p[1] = "/" /\ n \in Nat /\ n > 0
      /\ "/" \in Texts /\ Len(path) \in Nat
  BY DEF Route, Plain, Asked, Texts
<1>2. r.exact \in BOOLEAN
  BY DEF Route
<1>3. CASE r.exact
  <2>1. RouteMatches(r, path) <=> path = r.prefix
    BY <1>3 DEF RouteMatches
  <2>2. Covers(r, path) <=> path = r.prefix
    BY <1>3 DEF Covers
  <2> QED BY <2>1, <2>2
<1>4. CASE ~r.exact /\ p = Root
  <2>1. RouteMatches(r, path) <=> TRUE
    BY <1>4 DEF RouteMatches
  <2>2. EndsInSlash(p) /\ n = 1
    BY <1>4 DEF EndsInSlash, Root
  <2>3. Append(Front(p), "/") = p /\ Len(Front(p)) = 0 /\ Front(p) \in Seq(Texts)
    BY <1>1, <2>2, BaseSlash, FrontFacts
  <2>4. path = <<>> \/ IsPrefix(p, path)
    <3>1. path # <<>> => 1 <= Len(path) /\ path[1] = "/"
      BY <1>1 DEF Asked
    <3> QED BY <1>1, <2>2, <3>1, PrefixFacts
  <2>5. Front(p) = <<>>
    BY <2>3
  <2> HIDE DEF p, n
  <2>6. Base(p) = <<>>
    BY <2>2, <2>5 DEF Base
  <2>7. Covers(r, path)
    BY <1>4, <2>3, <2>4, <2>5, <2>6 DEF Covers, p
  <2> QED BY <2>1, <2>7
<1>5. CASE ~r.exact /\ p # Root /\ EndsInSlash(p)
  <2>1. RouteMatches(r, path) <=> ((Len(path) + 1 = n /\ path = Front(p)) \/ IsPrefix(p, path))
    BY <1>5 DEF RouteMatches
  <2>2. path = Front(p) => Len(path) + 1 = n
    BY <1>1, FrontFacts
  <2>3. Append(Front(p), "/") = p
    BY <1>1, <1>5, BaseSlash
  <2> HIDE DEF p, n
  <2>4. Base(p) = Front(p)
    BY <1>5 DEF Base
  <2>5. Covers(r, path) <=> (path = Front(p) \/ IsPrefix(p, path))
    BY <1>5, <2>3, <2>4 DEF Covers, p
  <2> QED BY <2>1, <2>2, <2>5
<1>6. CASE ~r.exact /\ ~EndsInSlash(p)
  <2>0. p # Root
    BY <1>6 DEF EndsInSlash, Root
  <2>1. RouteMatches(r, path) <=> (IsPrefix(p, path) /\ (Len(path) = n \/ path[n + 1] = "/"))
    BY <1>6, <2>0 DEF RouteMatches
  <2> DEFINE q == Append(p, "/")
  <2>2. q \in Seq(Texts) /\ Len(q) = n + 1 /\ \A i \in 1 .. n + 1 : q[i] = IF i = n + 1 THEN "/" ELSE p[i]
    BY <1>1
  <2>3. Covers(r, path) <=> (path = p \/ IsPrefix(q, path))
    BY <1>6 DEF Covers, Base
  <2> HIDE DEF q
  <2>4. IsPrefix(p, path) <=> (n <= Len(path) /\ \A i \in 1 .. n : p[i] = path[i])
    BY <1>1, PrefixFacts
  <2>5. IsPrefix(q, path) <=> (n + 1 <= Len(path) /\ \A i \in 1 .. n + 1 : q[i] = path[i])
    BY <1>1, <2>2, PrefixFacts
  <2>6. path = p <=> (Len(path) = n /\ \A i \in 1 .. n : p[i] = path[i])
    BY <1>1, SeqEqual
  <2> HIDE DEF p, n
  <2>7. IsPrefix(q, path) <=> (n + 1 <= Len(path) /\ path[n + 1] = "/" /\ \A i \in 1 .. n : p[i] = path[i])
    BY <1>1, <2>2, <2>5
  <2>8. CASE n <= Len(path) /\ \A i \in 1 .. n : p[i] = path[i]
    <3>1. Len(path) = n \/ n + 1 <= Len(path)
      BY <1>1, <2>8
    <3>2. CASE Len(path) = n
      BY <2>1, <2>3, <2>4, <2>6, <2>8, <3>2
    <3>3. CASE n + 1 <= Len(path) /\ Len(path) # n
      BY <2>1, <2>3, <2>4, <2>6, <2>7, <2>8, <3>3
    <3> QED BY <3>1, <3>2, <3>3
  <2>9. CASE ~(n <= Len(path) /\ \A i \in 1 .. n : p[i] = path[i])
    <3>1. ~(n <= Len(path)) => ~(n + 1 <= Len(path)) /\ Len(path) # n
      BY <1>1
    <3> QED BY <2>1, <2>3, <2>4, <2>6, <2>7, <2>9, <3>1
  <2> QED BY <2>8, <2>9
<1> QED BY <1>2, <1>3, <1>4, <1>5, <1>6

\* The table in service: every route is set up.
LEMMA ServeFacts ==
    ASSUME RoutesInv, stage = "serve"
    PROVE  /\ \A i \in DOMAIN table : table[i] \in Route /\ SetUp(table[i]) /\ Plain(table[i])
           /\ DOMAIN table = 1 .. Len(site) /\ Len(site) \in Nat
           /\ (docrootFd # NoFd) <=> (\E i \in DOMAIN table : table[i].primary)
           /\ \A i, j \in DOMAIN table : table[i].prefix = table[j].prefix => i = j
<1>1. Up
  BY DEF Up
<1>2. \A i \in DOMAIN table : table[i] \in Route /\ SetUp(table[i])
  BY <1>1, TableFacts DEF Done
<1>3. \A i \in DOMAIN table : Plain(table[i])
  BY <1>2 DEF SetUp
<1>4. (docrootFd # NoFd) <=> (\E i \in DOMAIN table : table[i].primary)
  BY DEF RoutesInv, TableInv
<1>5. \A i, j \in DOMAIN table : table[i].prefix = table[j].prefix => i = j
  BY DEF RoutesInv, TableInv, Duplicates
<1> QED BY <1>1, <1>2, <1>3, <1>4, <1>5, TableFacts, SiteFacts

Hits(path) == {i \in DOMAIN table : RouteMatches(table[i], path)}

\* route_match returns the first of the longest prefixes that match, or none.
LEMMA RouteMatchFacts ==
    ASSUME RoutesInv, stage = "serve", NEW path
    PROVE  LET i == RouteMatch(path)
           IN  /\ Hits(path) = {} => i = NoRoute
               /\ Hits(path) # {} =>
                    i \in Hits(path) /\ \A j \in Hits(path) : Len(table[j].prefix) <= Len(table[i].prefix)
<1> DEFINE hits == Hits(path)
           L(i) == Len(table[i].prefix)
           beats(i, j) == L(i) > L(j) \/ (L(i) = L(j) /\ i <= j)
<1>1. CASE Hits(path) = {}
  BY <1>1 DEF RouteMatch, Hits
<1>2. CASE Hits(path) # {}
  <2>1. \A i \in hits : L(i) \in Nat /\ L(i) < PrefixMax /\ i \in Nat
    <3>1. \A i \in hits : i \in DOMAIN table /\ i \in Nat
      BY ServeFacts DEF Hits
    <3>2. \A i \in DOMAIN table : table[i].prefix \in Seq(Texts) /\ L(i) < PrefixMax
      BY ServeFacts DEF Route, Plain
    <3> QED BY <3>1, <3>2
  <2>2. PrefixMax \in Nat
    BY RoutesAssumption
  <2> HIDE DEF hits, L
  <2> DEFINE K == {PrefixMax - L(i) : i \in hits}
  <2>3. K \in SUBSET Nat /\ K # {}
    BY <1>2, <2>1, <2>2 DEF hits
  <2>4. PICK k \in K : \A y \in K : k <= y
    BY <2>3, LeastNatural
  <2> DEFINE J == {i \in hits : PrefixMax - L(i) = k}
  <2>5. J \in SUBSET Nat /\ J # {}
    BY <2>1, <2>4
  <2>6. PICK x \in J : \A y \in J : x <= y
    BY <2>5, LeastNatural
  <2>7. x \in hits /\ \A j \in hits : beats(x, j)
    <3>1. x \in hits /\ PrefixMax - L(x) = k /\ x \in Nat
      BY <2>1, <2>6
    <3>2. ASSUME NEW j \in hits PROVE beats(x, j)
      <4>1. k <= PrefixMax - L(j)
        BY <2>4
      <4>2. L(x) >= L(j)
        BY <2>1, <2>2, <3>1, <4>1
      <4>3. L(x) = L(j) => x <= j
        BY <2>6, <3>1
      <4> QED BY <2>1, <3>1, <4>2, <4>3
    <3> QED BY <3>1, <3>2
  <2>8. RouteMatch(path) = CHOOSE i \in hits : \A j \in hits : beats(i, j)
    BY <1>2 DEF RouteMatch, hits, L, Hits
  <2> HIDE DEF beats
  <2>9. RouteMatch(path) \in hits /\ \A j \in hits : beats(RouteMatch(path), j)
    <3>1. \E i \in hits : \A j \in hits : beats(i, j)
      BY <2>7
    <3> QED BY <2>8, <3>1
  <2>10. \A j \in hits : L(j) <= L(RouteMatch(path))
    BY <2>1, <2>9 DEF beats
  <2> QED BY <1>2, <2>9, <2>10 DEF hits, L
<1> QED BY <1>1, <1>2

\* The document root of a table in service is a directory.
LEMMA RootServes ==
    ASSUME RoutesInv, stage = "serve", NEW i \in DOMAIN table, table[i].primary, NEW method, NEW path
    PROVE  ForCause(StaticBegin(method, path))
<1>1. docrootFd # NoFd
  BY ServeFacts
<1>2. open[docrootFd] = table[i].target /\ table[i].target \in Targets
  BY ServeFacts DEF SetUp, Plain
<1>3. StaticBegin(method, path) = StaticServe(method, open[docrootFd], path, path, AllowDotfiles)
  BY <1>1 DEF StaticBegin
<1> QED BY <1>2, <1>3, StaticServeForCause

\* So is every other mount, and what is left of a path behind its prefix starts with
\* a slash.
LEMMA MountServes ==
    ASSUME RoutesInv, stage = "serve", NEW i \in DOMAIN table, table[i].type = "static",
           ~table[i].exact, ~table[i].primary, NEW path, Asked(path), RouteMatches(table[i], path),
           NEW method
    PROVE  ForCause(ServeMount(method, table[i], path))
<1> DEFINE r == table[i]
           p == r.prefix
           cut == Len(p) - 1
           url == IF Len(path) <= cut THEN Root ELSE SubSeq(path, cut + 1, Len(path))
<1>1. /\ r \in Route /\ Plain(r) /\ EndsInSlash(p) /\ r.dirFd # NoFd
      /\ open[r.dirFd] = r.target /\ r.target \in Targets
  BY ServeFacts DEF SetUp, Plain
<1>3. Len(p) \in Nat /\ Len(p) > 0 /\ path \in Seq(Texts) /\ Len(path) \in Nat
  BY <1>1 DEF Route, Plain, Asked
<1>4. url[1] = "/"
  <2>1. CASE Len(path) <= cut
    BY <2>1 DEF Root
  <2>2. CASE ~(Len(path) <= cut)
    <3>1. Len(p) <= Len(path)
      BY <1>3, <2>2
    <3>2. p[Len(p)] = path[Len(p)]
      BY <1>1, <1>3, <3>1, MatchDetermines
    <3>3. path[Len(p)] = "/"
      BY <1>1, <3>2 DEF EndsInSlash
    <3> DEFINE m == Len(p)
               l == Len(path)
    <3>4. m \in Nat /\ l \in Nat /\ m > 0 /\ m <= l
      BY <1>3, <3>1
    <3>5. \A j \in m .. l : path[j] \in Texts
      BY <1>3, <3>4
    <3> HIDE DEF m, l
    <3>6. \A j \in 1 .. l - m + 1 : SubSeq(path, m, l)[j] = path[m + j - 1]
      BY <3>4, <3>5, SubSeqProperties
    <3>7. SubSeq(path, m, l)[1] = path[m]
      BY <3>4, <3>6
    <3>8. cut + 1 = m
      BY <1>3 DEF m
    <3> HIDE DEF cut, p
    <3> QED BY <2>2, <3>3, <3>7, <3>8 DEF m, l, p
  <2> QED BY <2>1, <2>2
<1> HIDE DEF url
<1>5. ServeMount(method, r, path) = StaticServe(method, open[r.dirFd], url, path, AllowDotfiles)
  BY <1>1, <1>4 DEF ServeMount, url
<1> QED BY <1>1, <1>5, StaticServeForCause

\* A request of a table in service is answered 500 for no other cause.
LEMMA NoBrokenRoute ==
    ASSUME RoutesInv, stage = "serve", NEW path, Asked(path), NEW method
    PROVE  ForCause(RouteBegin(method, path))
<1> DEFINE i == RouteMatch(path)
           r == table[i]
<1>1. ForCause(Outcome(404)) /\ ForCause(Outcome(0)) /\ ForCause(Outcome(501))
  BY OutcomeFacts DEF ForCause
<1>2. CASE Len(table) = 1 /\ table[1].primary
  <2>1. 1 \in DOMAIN table
    <3>1. table \in [1 .. Len(site) -> Route] /\ Len(site) \in Nat
      BY TableFacts, ServeFacts DEF Up
    <3>2. Len(table) = Len(site)
      BY <3>1
    <3> QED BY <1>2, <3>1, <3>2
  <2>2. RouteBegin(method, path) = StaticBegin(method, path)
    BY <1>2 DEF RouteBegin
  <2> QED BY <1>2, <2>1, <2>2, RootServes
<1>3. CASE ~(Len(table) = 1 /\ table[1].primary) /\ i = NoRoute
  BY <1>1, <1>3 DEF RouteBegin
<1>4. CASE ~(Len(table) = 1 /\ table[1].primary) /\ i # NoRoute
  <2>1. i \in DOMAIN table /\ RouteMatches(r, path)
    BY <1>4, RouteMatchFacts DEF Hits
  <2>2. r \in Route /\ SetUp(r)
    BY <2>1, ServeFacts
  <2> HIDE DEF i
  <2>3. RouteBegin(method, path) =
           CASE r.type = "static" /\ r.exact -> StaticBeginFile(method, r.target, kind[r.target])
             [] r.type = "static" /\ ~r.exact /\ r.primary -> StaticBegin(method, path)
             [] r.type = "static" /\ ~r.exact /\ ~r.primary -> ServeMount(method, r, path)
             [] r.type = "proxy" -> Outcome(0)
             [] OTHER -> Outcome(501)
    BY <1>4 DEF RouteBegin, i
  <2>4. r.type = "static" => ForCause(StaticBeginFile(method, r.target, kind[r.target]))
    BY <2>2, StaticBeginFileForCause DEF SetUp, Plain
  <2>5. r.primary => ForCause(StaticBegin(method, path))
    BY <2>1, RootServes
  <2>6. r.type = "static" /\ ~r.exact /\ ~r.primary =>
           ForCause(ServeMount(method, r, path))
    BY <2>1, MountServes
  <2> QED BY <1>1, <2>3, <2>4, <2>5, <2>6
<1> QED BY <1>2, <1>3, <1>4

LEMMA RequestStep ==
    ASSUME RoutesInv, NEW method \in Methods, NEW asked \in Paths, Request(method, asked)
    PROVE  RoutesInv'
<1> DEFINE path == IF asked = <<>> THEN Root ELSE asked
           cold == RouteBegin(method, path)
<1>1. /\ stage = "serve"
      /\ UNCHANGED <<file, kind, changes, stage, at, sawListen, site, table, ready, docrootFd,
                     open, excuse>>
  BY DEF Request
<1>2. Asked(path)
  <2>1. Root \in Seq(Texts) /\ Root[1] = "/"
    BY DEF Root, Texts
  <2>2. asked \in Seq(Texts) /\ (asked # <<>> => asked[1] = "/")
    BY PathsAssumption
  <2> QED BY <2>1, <2>2 DEF Asked
<1>3. ForCause(cold)
  <2> HIDE DEF path
  <2> QED BY <1>1, <1>2, NoBrokenRoute
<1>4. \A d, rel : ForCause(Sends(d, rel))
  BY OutcomeFacts DEF ForCause
<1>5. \E a : last' = [path |-> path, method |-> method, answer |-> a] /\ ForCause(a)
  <2> HIDE DEF path
  <2>1. \/ last' = [path |-> path, method |-> method, answer |-> cold]
        \/ \E e \in cache : last' = [path |-> path, method |-> method, answer |-> Sends(e.dir, e.rel)]
    BY DEF Request, path
  <2> QED BY <1>3, <1>4, <2>1
<1>6. OpenFailed'
  BY <1>1, <1>5 DEF OpenFailed, ForCause
<1>7. SiteInv'
  BY <1>1 DEF RoutesInv, SiteInv, Plain
<1>8. TableInv'
  BY <1>1 DEF RoutesInv, TableInv, Closed, Held, Done, SetUp, Plain, Unopened, Duplicates
<1>9. Agrees'
  BY <1>1 DEF Agrees
<1> QED BY <1>1, <1>6, <1>7, <1>8, <1>9 DEF RoutesInv

-----------------------------------------------------------------------------
(***************************************************************************)
(* The theorems.                                                           *)
(***************************************************************************)

LEMMA RoutesInvStep == RoutesInv /\ [Next]_vars => RoutesInv'
<1> SUFFICES ASSUME RoutesInv, [Next]_vars PROVE RoutesInv'
  OBVIOUS
<1>1. CASE \E t \in Targets, k \in Kinds \ {"denied"} : Change(t, k)
  BY <1>1, ChangeStep
<1>2. CASE LoadLine
  BY <1>2, LoadLineStep
<1>3. CASE LoadEnd
  BY <1>3, LoadEndStep
<1>4. CASE CheckRoute
  BY <1>4, CheckRouteStep
<1>5. CASE CheckEnd
  BY <1>5, CheckEndStep
<1>6. CASE InitBegin
  BY <1>6, InitBeginStep
<1>7. CASE InitStat
  BY <1>7, InitStatStep
<1>8. CASE InitOpen
  BY <1>8, InitOpenStep
<1>9. CASE InitEnd
  BY <1>9, InitEndStep
<1>10. CASE Destroy
  BY <1>10, DestroyStep
<1>11. CASE \E m \in Methods, p \in Paths : Request(m, p)
  BY <1>11, RequestStep
<1>12. CASE UNCHANGED vars
  <2>1. UNCHANGED <<file, kind, changes, stage, at, sawListen, site, table, ready, docrootFd, open,
                    cache, last, excuse>>
    BY <1>12 DEF vars
  <2>2. SiteInv'
    BY <2>1 DEF RoutesInv, SiteInv, Plain
  <2>3. TableInv'
    BY <2>1 DEF RoutesInv, TableInv, Closed, Held, Done, SetUp, Plain, Unopened, Duplicates
  <2>4. Agrees' /\ OpenFailed'
    BY <2>1 DEF RoutesInv, Agrees, Fits, Duplicates, OpenFailed
  <2> QED BY <2>1, <2>2, <2>3, <2>4 DEF RoutesInv
<1> QED BY <1>1, <1>2, <1>3, <1>4, <1>5, <1>6, <1>7, <1>8, <1>9, <1>10, <1>11, <1>12 DEF Next

\* The site and the table keep their shape, and what the check found of the site still
\* holds, through every failure and every change at a target.
THEOREM RoutesInvariant == Spec => []RoutesInv
<1>1. Init => RoutesInv
  BY InitInv
<1>2. RoutesInv /\ [Next]_vars => RoutesInv'
  BY RoutesInvStep
<1> QED BY <1>1, <1>2, PTL DEF Spec

\* Every directory opened for the table is closed when the process ends, whichever
\* step of routes_init failed, and standard input is left alone.
THEOREM DirectoriesAreClosed == Spec => []NothingLeft
<1>1. RoutesInv => NothingLeft
  <2> SUFFICES ASSUME RoutesInv PROVE NothingLeft
    OBVIOUS
  <2>1. stage = "exit" => DOMAIN open = {0}
    BY DEF RoutesInv, TableInv, Closed
  <2>2. 0 \in DOMAIN open
    BY DEF RoutesInv, TableInv, Closed
  <2> QED BY <2>1, <2>2 DEF NothingLeft
<1> QED BY <1>1, RoutesInvariant, PTL

\* A table in service has no two equal prefixes, every static route can be served
\* from, and a request is answered 500 only where its path leads to a file whose open fails
\* for a cause that arm_open_error has no answer of its own for.
THEOREM TableIsSound == Spec => []TableSound
<1>1. RoutesInv => TableSound
  <2> SUFFICES ASSUME RoutesInv PROVE TableSound
    OBVIOUS
  <2>1. TypeOK
    <3>1. at \in 1 .. Len(file) + 2
      BY SiteFacts DEF RoutesInv, SiteInv
    <3>2. \A i \in DOMAIN site : Len(site[i].prefix) \in 1 .. PrefixMax - 1
      <4> SUFFICES ASSUME NEW i \in DOMAIN site PROVE Len(site[i].prefix) \in 1 .. PrefixMax - 1
        OBVIOUS
      <4>1. /\ site[i].prefix \in Seq(Texts) /\ site[i].prefix # <<>>
            /\ Len(site[i].prefix) < PrefixMax /\ PrefixMax \in Nat
        BY SiteFacts DEF Route, Plain
      <4>2. Len(site[i].prefix) \in Nat /\ Len(site[i].prefix) > 0
        BY <4>1
      <4> QED BY <4>1, <4>2
    <3>3. Len(site) <= MaxRoutes /\ Len(table) <= MaxRoutes
      <4>1. CASE Up
        <5>1. table \in [1 .. Len(site) -> Route] /\ Len(site) \in Nat
          BY <4>1, TableFacts, SiteFacts
        <5>2. Len(table) = Len(site)
          BY <5>1
        <5> QED BY <5>2 DEF RoutesInv, SiteInv
      <4>2. CASE ~Up
        <5>1. table = <<>>
          BY <4>2 DEF RoutesInv, TableInv, Up
        <5>2. Len(table) = 0
          BY <5>1
        <5> QED BY <5>2, RoutesAssumption DEF RoutesInv, SiteInv
      <4> QED BY <4>1, <4>2
    <3>4. docrootFd \in DOMAIN open \cup {NoFd}
      <4>1. CASE Up
        BY <4>1, TableFacts DEF Held
      <4>2. CASE ~Up
        BY <4>2 DEF RoutesInv, TableInv, Up, Closed
      <4> QED BY <4>1, <4>2
    <3>5. ready \in BOOLEAN
      BY DEF RoutesInv, TableInv
    <3> QED BY <3>1, <3>2, <3>3, <3>4, <3>5 DEF TypeOK, RoutesInv
  <2>2. ASSUME ready
        PROVE  /\ ~Duplicates(table)
               /\ Cardinality({i \in DOMAIN table : table[i].primary}) = IF docrootFd = NoFd THEN 0 ELSE 1
               /\ \A i \in DOMAIN table : table[i].type = "static" =>
                    \/ table[i].exact /\ table[i].dirFd = NoFd
                    \/ table[i].primary /\ open[docrootFd] = table[i].target
                    \/ /\ table[i].dirFd \in DOMAIN open \ {0, docrootFd}
                       /\ open[table[i].dirFd] = table[i].target
                       /\ \A j \in DOMAIN table : j # i => table[j].dirFd # table[i].dirFd
    <3>1. stage = "serve" /\ Up
      BY <2>2 DEF RoutesInv, TableInv, Up
    <3>2. ~Duplicates(table)
      BY <3>1 DEF RoutesInv, TableInv
    <3>3. /\ \A i, j \in DOMAIN table : table[i].dirFd # NoFd /\ table[i].dirFd = table[j].dirFd => i = j
          /\ \A i \in DOMAIN table : table[i].dirFd # NoFd => table[i].dirFd # docrootFd
          /\ \A i, j \in DOMAIN table : table[i].primary /\ table[j].primary => i = j
      BY <3>1 DEF RoutesInv, TableInv
    <3>4. Cardinality({i \in DOMAIN table : table[i].primary}) = IF docrootFd = NoFd THEN 0 ELSE 1
      <4> DEFINE P == {i \in DOMAIN table : table[i].primary}
      <4>1. CASE docrootFd = NoFd
        <5>1. P = {}
          BY <3>1, <4>1, ServeFacts
        <5> QED BY <4>1, <5>1, FS_EmptySet
      <4>2. CASE docrootFd # NoFd
        <5>1. PICK i \in DOMAIN table : table[i].primary
          BY <3>1, <4>2, ServeFacts
        <5>2. P = {i}
          BY <3>3, <5>1
        <5>3. Cardinality({i}) = 1
          BY FS_Singleton
        <5> HIDE DEF P
        <5>4. Cardinality(P) = 1
          BY <5>2, <5>3
        <5> QED BY <4>2, <5>4 DEF P
      <4> QED BY <4>1, <4>2
    <3>5. ASSUME NEW i \in DOMAIN table, table[i].type = "static"
          PROVE  \/ table[i].exact /\ table[i].dirFd = NoFd
                 \/ table[i].primary /\ open[docrootFd] = table[i].target
                 \/ /\ table[i].dirFd \in DOMAIN open \ {0, docrootFd}
                    /\ open[table[i].dirFd] = table[i].target
                    /\ \A j \in DOMAIN table : j # i => table[j].dirFd # table[i].dirFd
      <4>1. SetUp(table[i])
        BY <3>1, ServeFacts
      <4>2. CASE table[i].exact
        BY <3>5, <4>1, <4>2 DEF SetUp, Unopened
      <4>3. CASE ~table[i].exact /\ table[i].primary
        BY <3>5, <4>1, <4>3 DEF SetUp
      <4>4. CASE ~table[i].exact /\ ~table[i].primary
        <5>1. table[i].dirFd # NoFd /\ open[table[i].dirFd] = table[i].target
          BY <3>5, <4>1, <4>4 DEF SetUp
        <5>2. table[i].dirFd \in Held /\ table[i].dirFd # 0 /\ table[i].dirFd \in DOMAIN open
          BY <3>1, <5>1, TableFacts DEF Held
        <5> QED BY <3>3, <5>1, <5>2
      <4> QED BY <4>2, <4>3, <4>4
    <3> QED BY <3>2, <3>4, <3>5
  <2>3. OpenFailed
    BY DEF RoutesInv
  <2> QED BY <2>1, <2>2, <2>3 DEF TableSound
<1> QED BY <1>1, RoutesInvariant, PTL

\* route_match finds the longest of the prefixes that cover a path, and there is one
\* longest: the order of the routes in the file is immaterial.
THEOREM LongestPrefixWins == Spec => []MatchIsBest
<1>1. RoutesInv => MatchIsBest
  <2> SUFFICES ASSUME RoutesInv, ready, NEW path \in Paths
               PROVE  LET hits == {i \in DOMAIN table : Covers(table[i], path)}
                      IN  IF hits = {} THEN RouteMatch(path) = NoRoute
                          ELSE /\ RouteMatch(path) \in hits
                               /\ \A i \in hits \ {RouteMatch(path)} :
                                     Len(table[i].prefix) < Len(table[RouteMatch(path)].prefix)
    BY DEF MatchIsBest
  <2>1. stage = "serve"
    BY DEF RoutesInv, TableInv
  <2>2. Asked(path)
    BY PathsAssumption DEF Asked
  <2>3. \A i \in DOMAIN table : RouteMatches(table[i], path) <=> Covers(table[i], path)
    BY <2>1, <2>2, ServeFacts, MatchIsCovers
  <2>4. {i \in DOMAIN table : Covers(table[i], path)} = Hits(path)
    BY <2>3 DEF Hits
  <2> DEFINE b == RouteMatch(path)
  <2>5. /\ Hits(path) = {} => b = NoRoute
        /\ Hits(path) # {} =>
             b \in Hits(path) /\ \A j \in Hits(path) : Len(table[j].prefix) <= Len(table[b].prefix)
    BY <2>1, RouteMatchFacts
  <2> HIDE DEF b
  <2>6. ASSUME Hits(path) # {}, NEW i \in Hits(path) \ {b}
        PROVE  Len(table[i].prefix) < Len(table[b].prefix)
    <3>1. i \in DOMAIN table /\ b \in DOMAIN table /\ i # b
          /\ RouteMatches(table[i], path) /\ RouteMatches(table[b], path)
      BY <2>5, <2>6 DEF Hits
    <3>2. /\ table[i] \in Route /\ Plain(table[i]) /\ table[b] \in Route /\ Plain(table[b])
          /\ table[i].prefix # table[b].prefix
      BY <2>1, <3>1, ServeFacts
    <3> DEFINE p == table[i].prefix
               q == table[b].prefix
    <3>3. p \in Seq(Texts) /\ q \in Seq(Texts) /\ p # q
      BY <3>2 DEF Route
    <3>4. \A k \in 1 .. Len(p) : p[k] = IF k <= Len(path) THEN path[k] ELSE "/"
      BY <2>2, <3>1, <3>2, MatchDetermines
    <3>5. \A k \in 1 .. Len(q) : q[k] = IF k <= Len(path) THEN path[k] ELSE "/"
      BY <2>2, <3>1, <3>2, MatchDetermines
    <3>6. Len(p) <= Len(q)
      BY <2>5, <2>6
    <3> HIDE DEF p, q
    <3>7. Len(p) # Len(q)
      <4>1. ASSUME Len(p) = Len(q) PROVE FALSE
        <5>1. \A k \in 1 .. Len(p) : p[k] = q[k]
          BY <3>4, <3>5, <4>1
        <5> QED BY <3>3, <4>1, <5>1, SeqEqual
      <4> QED BY <4>1
    <3>8. Len(p) \in Nat /\ Len(q) \in Nat
      BY <3>3
    <3>9. Len(p) < Len(q)
      BY <3>6, <3>7, <3>8
    <3> QED BY <3>9 DEF p, q
  <2> QED BY <2>4, <2>5, <2>6 DEF b
<1> QED BY <1>1, RoutesInvariant, PTL

\* routes_init refuses a site that passed site_check only if a target changed or an
\* open failed since.
THEOREM CheckIsConclusive == Spec => CheckPredictsInit
<1>1. ASSUME RoutesInv, [Next]_vars
      PROVE  [(stage \in {"begin", "stat", "open"} /\ stage' = "exit") => (excuse' = TRUE)]_vars
  <2> SUFFICES ASSUME Next, stage \in {"begin", "stat", "open"}, stage' = "exit"
               PROVE  excuse' = TRUE
    BY <1>1, Zenon
  <2>0. excuse \in BOOLEAN
    BY <1>1 DEF RoutesInv
  <2>1. InitStat \/ InitOpen \/ InitEnd
    <3>1. ~(\E t \in Targets, k \in Kinds \ {"denied"} : Change(t, k))
      BY DEF Change
    <3>2. ~LoadLine /\ ~LoadEnd /\ ~CheckRoute /\ ~CheckEnd
      BY DEF LoadLine, LoadEnd, CheckRoute, CheckEnd
    <3>3. ~InitBegin /\ ~Destroy
      BY DEF InitBegin, Destroy
    <3>4. ~(\E m \in Methods, p \in Paths : Request(m, p))
      BY DEF Request
    <3> QED BY <3>1, <3>2, <3>3, <3>4 DEF Next
  <2>2. CASE InitStat
    <3>1. stage = "stat" /\ at \in DOMAIN site /\ excuse' = excuse
      BY <1>1, <2>2, SiteFacts DEF InitStat
    <3>2. SUFFICES ASSUME ~excuse PROVE FALSE
      BY <2>0, <3>1
    <3> DEFINE r == [site[at] EXCEPT !.dirFd = NoFd, !.exact = FALSE, !.primary = FALSE]
    <3>3. r.type = site[at].type /\ r.prefix = site[at].prefix /\ r.target = site[at].target
      <4>1. r = Copied(site[at]) /\ site[at] \in Route /\ Plain(site[at])
        BY <1>1, <3>1, SiteFacts DEF Copied
      <4> HIDE DEF r
      <4> QED BY <4>1, CopiedRoute
    <3>4. Fits(site[at])
      BY <1>1, <3>1, <3>2 DEF RoutesInv, Agrees
    <3>5. r.type = "static" => \/ kind[r.target] = "dir" /\ SlashFits(r)
                               \/ kind[r.target] = "file" /\ FilePrefixOk(r)
      <4> HIDE DEF r
      <4> QED BY <3>3, <3>4 DEF Fits, SlashFits, FilePrefixOk
    <3>6. \/ r.type = "static" /\ kind[r.target] = "dir" /\ ~SlashFits(r)
          \/ r.type = "static" /\ kind[r.target] = "file" /\ ~FilePrefixOk(r)
          \/ r.type = "static" /\ kind[r.target] \notin {"dir", "file"}
      BY <2>2 DEF InitStat
    <3> HIDE DEF r
    <3> QED BY <3>5, <3>6
  <2>3. CASE InitOpen
    <3>1. stage = "open"
      BY <2>3 DEF InitOpen
    <3>2. CASE excuse' = TRUE
      BY <3>2
    <3>3. CASE excuse' = excuse /\ table[at].prefix = Root /\ \E i \in 1 .. at - 1 : table[i].primary
      <4>1. SUFFICES ASSUME ~excuse PROVE FALSE
        BY <2>0, <3>3
      <4>2. PICK i \in 1 .. at - 1 : table[i].primary
        BY <3>3
      <4>3. i \in DOMAIN table /\ table[i].prefix = Root /\ at \in DOMAIN table
        BY <1>1, <3>1, <4>2, RootOnce
      <4>4. DOMAIN table = DOMAIN site /\ i # at
        BY <1>1, <3>1, <4>2, TableFacts, SiteFacts DEF Up
      <4>5. site[i].prefix = Root /\ site[at].prefix = Root /\ ~Duplicates(site)
        BY <1>1, <3>1, <3>3, <4>1, <4>2, <4>3 DEF RoutesInv, Agrees
      <4> QED BY <4>3, <4>4, <4>5 DEF Duplicates
    <3> QED BY <2>3, <3>2, <3>3 DEF InitOpen
  <2>4. CASE InitEnd
    <3>1. stage = "stat" /\ at > Len(site) /\ Duplicates(table) /\ excuse' = excuse
      BY <2>4 DEF InitEnd
    <3>2. SUFFICES ASSUME ~excuse PROVE FALSE
      BY <2>0, <3>1
    <3>3. DOMAIN table = DOMAIN site /\ \A i \in DOMAIN site : i \in 1 .. at - 1
      BY <1>1, <3>1, TableFacts, SiteFacts DEF Up
    <3>4. ~Duplicates(site) /\ \A i \in DOMAIN site : table[i].prefix = site[i].prefix
      BY <1>1, <3>1, <3>2, <3>3 DEF RoutesInv, Agrees
    <3> QED BY <3>1, <3>3, <3>4 DEF Duplicates
  <2> QED BY <2>1, <2>2, <2>3, <2>4, Zenon
<1> QED BY <1>1, RoutesInvariant, PTL DEF Spec, CheckPredictsInit
=============================================================================
