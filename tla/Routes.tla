------------------------------- MODULE Routes -------------------------------
(***************************************************************************)
(* The routing table (src/routes.c): the site file is loaded line by line  *)
(* and checked (tiny_site_load, site_check), installed when the runtime    *)
(* starts (routes_init), asked by every request (route_begin) and taken    *)
(* down (routes_shutdown).  Every stat and every open is a step of its     *)
(* own, and the targets may change between any two of them.                *)
(*                                                                         *)
(* A prefix or a path is a sequence of symbols (see StaticPath).           *)
(***************************************************************************)
EXTENDS StaticPath

CONSTANTS
    SiteFiles,      \* what a site file may hold: sequences of lines
    Targets,        \* paths in the file system that routes name
    FirstKinds,     \* what lies at the targets at first: functions to Kinds
    Paths,          \* the paths requests ask for
    Methods,        \* the methods they use
    MaxRoutes,      \* TINY_MAX_ROUTES
    PrefixMax,      \* TINY_PREFIX_MAX
    MaxChanges,     \* bound: how often a target may change
    MaxCached       \* bound: files the cache has room for

\* Symbols of paths, and names of targets; those the module itself writes are listed,
\* the provers knowing no member of STRING.
Texts == STRING \cup {"/", NoDir}

ASSUME RoutesAssumption ==
    /\ Targets \subseteq DOMAIN Contents /\ Targets \subseteq Texts
    /\ FirstKinds \subseteq [Targets -> Kinds]
    /\ MaxRoutes \in Nat \ {0} /\ PrefixMax \in Nat /\ MaxChanges \in Nat /\ MaxCached \in Nat

\* The name of no directory is that of none; the parser hands on a path from its
\* first slash, or an empty one.
ASSUME PathsAssumption ==
    /\ NoDir \notin Targets
    /\ Paths \subseteq Seq(Texts)
    /\ \A p \in Paths : p # <<>> => p[1] = "/"

VARIABLES
    file,       \* the site file
    kind,       \* kind[t]: what lies at the target t now
    changes,    \* how often that has changed
    stage,      \* where start-up is: load, check, begin, stat, open, serve, exit
    at,         \* the line or the route it is at, from 1
    sawListen,  \* saw_listen
    site,       \* tiny_site: the routes read so far
    table,      \* g_site, its routes
    ready,      \* g_ready
    docrootFd,  \* docroot_fd of static.c
    open,       \* the process's open descriptors and what each refers to
    cache,      \* the open-file cache: relative paths and the directory they are of
    last,       \* the last request and its answer
    excuse      \* history: an open failed, or a target changed since the check began

vars == <<file, kind, changes, stage, at, sawListen, site, table, ready, docrootFd, open,
          cache, last, excuse>>

\* Lines: blank or a comment, listen with a port, a route, or one that is refused
\* (an unknown directive, a missing or extra word, a line too long, a bad port).
Blank == [word |-> "blank"]
Listen == [word |-> "listen"]
BadLine == [word |-> "bad"]
RouteLine(type, prefix, target) ==
    [word |-> "route", type |-> type, prefix |-> prefix, target |-> target]


Line ==
    {Blank, Listen, BadLine}
    \cup [word : {"route"}, type : {"static"}, prefix : Seq(Texts), target : Targets]
    \cup [word : {"route"}, type : {"proxy", "app"}, prefix : Seq(Texts), target : Texts]

ASSUME LinesAssumption == SiteFiles \subseteq Seq(Line)

NoFd == -1
NoRoute == 0
Cleared == [type |-> "none", prefix |-> <<>>, target |-> NoDir, dirFd |-> NoFd,
            exact |-> FALSE, primary |-> FALSE]
NoRequest == [path |-> <<>>, method |-> "none", answer |-> Outcome(0)]

Init ==
    /\ file \in SiteFiles
    /\ kind \in FirstKinds
    /\ changes = 0
    /\ stage = "load"
    /\ at = 1
    /\ sawListen = FALSE
    /\ site = <<>>                          \* site_clear
    /\ table = <<>> /\ ready = FALSE
    /\ docrootFd = NoFd
    /\ open = [fd \in {0} |-> "stdin"]
    /\ cache = {}
    /\ last = NoRequest
    /\ excuse = FALSE

-----------------------------------------------------------------------------
(***************************************************************************)
(* The file system.                                                        *)
(***************************************************************************)

\* Someone removes, creates or replaces what lies at a target.
Change(t, k) ==
    /\ stage # "exit"
    /\ changes < MaxChanges
    /\ k # kind[t]
    /\ kind' = [kind EXCEPT ![t] = k]
    /\ changes' = changes + 1
    /\ excuse' = (excuse \/ stage # "load")
    /\ last' = NoRequest
    /\ UNCHANGED <<file, stage, at, sawListen, site, table, ready, docrootFd, open, cache>>

\* The lowest descriptor that is free.
FreeFd == CHOOSE fd \in 0 .. Cardinality(DOMAIN open) :
             fd \notin DOMAIN open /\ \A n \in 0 .. fd - 1 : n \in DOMAIN open
OpenDir(t) == [fd \in DOMAIN open \cup {FreeFd} |-> IF fd = FreeFd THEN t ELSE open[fd]]
CloseAll(fds) == [fd \in DOMAIN open \ fds |-> open[fd]]

-----------------------------------------------------------------------------
(***************************************************************************)
(* tiny_site_load, site_check.  A failure ends the process (src/main.c).   *)
(***************************************************************************)
tableVars == <<table, ready, docrootFd, open, cache>>

GiveUp ==
    /\ stage' = "exit"
    /\ UNCHANGED <<at, sawListen, site>>

\* copy_token for a prefix, and prefix_ok.  A target is never too long here.
PrefixOk(p) == p # <<>> /\ p[1] = "/" /\ Len(p) < PrefixMax

\* add_route; parse_upstream fails for a target that no upstream has.
Resolves(line) == line.type = "proxy" => line.target # "unknown host"
AddRoute(line) ==
    IF Len(site) >= MaxRoutes \/ ~PrefixOk(line.prefix) \/ ~Resolves(line) THEN GiveUp
    ELSE /\ site' = Append(site, [Cleared EXCEPT !.type = line.type, !.prefix = line.prefix,
                                                 !.target = line.target])
         /\ at' = at + 1
         /\ UNCHANGED <<stage, sawListen>>

\* One turn of the loop of tiny_site_load.
LoadLine ==
    /\ stage = "load" /\ at <= Len(file)
    /\ LET line == file[at]
       IN  \/ /\ line.word = "blank"
              /\ at' = at + 1
              /\ UNCHANGED <<stage, sawListen, site>>
           \/ /\ line.word = "listen"
              /\ IF sawListen THEN GiveUp
                 ELSE sawListen' = TRUE /\ at' = at + 1 /\ UNCHANGED <<stage, site>>
           \/ line.word = "route" /\ AddRoute(line)
           \/ line.word = "bad" /\ GiveUp
    /\ UNCHANGED <<file, kind, changes, last, excuse, tableVars>>

\* The end of the file, and the first test of site_check.
LoadEnd ==
    /\ stage = "load" /\ at > Len(file)
    /\ IF sawListen /\ site # <<>>
       THEN stage' = "check" /\ at' = 1 /\ UNCHANGED <<sawListen, site>>
       ELSE GiveUp
    /\ UNCHANGED <<file, kind, changes, last, excuse, tableVars>>

EndsInSlash(p) == p[Len(p)] = "/"

\* ensure_dir_slash; the prefix stays as it is when there is no room.
EnsureDirSlash(r) == IF EndsInSlash(r.prefix) THEN r ELSE [r EXCEPT !.prefix = Append(@, "/")]
SlashFits(r) == EndsInSlash(r.prefix) \/ Len(r.prefix) + 1 < PrefixMax

\* A file route must not look like a directory.
FilePrefixOk(r) == Len(r.prefix) = 1 \/ ~EndsInSlash(r.prefix)

\* same_prefix for two routes of a table.
Duplicates(rs) == \E i, j \in DOMAIN rs : i # j /\ rs[i].prefix = rs[j].prefix

\* One turn of the first loop of site_check: a stat of a static target.
CheckRoute ==
    /\ stage = "check" /\ at <= Len(site)
    /\ LET r == site[at]
           k == kind[r.target]
           Good(q) == /\ site' = [site EXCEPT ![at] = q]
                      /\ at' = at + 1
                      /\ UNCHANGED <<stage, sawListen>>
       IN  \/ r.type # "static" /\ Good(r)
           \/ /\ r.type = "static" /\ k = "dir"
              /\ IF SlashFits(r) THEN Good(EnsureDirSlash(r)) ELSE GiveUp
           \/ /\ r.type = "static" /\ k = "file"
              /\ IF FilePrefixOk(r) THEN Good(r) ELSE GiveUp
           \/ r.type = "static" /\ k \notin {"dir", "file"} /\ GiveUp
    /\ UNCHANGED <<file, kind, changes, last, excuse, tableVars>>

\* Variant to be rejected: duplicates are left for routes_init to find.
CheckEndService ==
    /\ stage = "check" /\ at > Len(site)
    /\ IF \E i \in DOMAIN site : site[i].type \in {"static", "proxy"}
       THEN stage' = "begin" /\ UNCHANGED <<at, sawListen, site>>
       ELSE GiveUp
    /\ UNCHANGED <<file, kind, changes, last, excuse, tableVars>>

\* The rest of site_check.
CheckEnd ==
    /\ stage = "check" /\ at > Len(site)
    /\ IF (\E i \in DOMAIN site : site[i].type \in {"static", "proxy"}) /\ ~Duplicates(site)
       THEN stage' = "begin" /\ UNCHANGED <<at, sawListen, site>>
       ELSE GiveUp
    /\ UNCHANGED <<file, kind, changes, last, excuse, tableVars>>

-----------------------------------------------------------------------------
(***************************************************************************)
(* routes_init, called by tiny_runtime_init.                               *)
(***************************************************************************)
siteVars == <<file, kind, changes, sawListen, site, last>>

\* Variant to be rejected: only the directories of an installed table are closed.
RoutesShutdownReady ==
    /\ open' = IF ready THEN CloseAll({table[i].dirFd : i \in DOMAIN table} \cup {docrootFd})
               ELSE open
    /\ docrootFd' = NoFd
    /\ table' = <<>> /\ ready' = FALSE
    /\ cache' = {}

\* routes_shutdown with static_shutdown.  The workers have dropped their caches.
RoutesShutdown ==
    /\ open' = CloseAll({table[i].dirFd : i \in DOMAIN table}
                        \cup IF ready \/ table # <<>> THEN {docrootFd} ELSE {})
    /\ docrootFd' = IF ready \/ table # <<>> THEN NoFd ELSE docrootFd
    /\ table' = <<>> /\ ready' = FALSE
    /\ cache' = {}

\* A failure: routes_shutdown, and once more from tiny_runtime_destroy, which then
\* finds nothing to do.
InitFails == RoutesShutdown /\ stage' = "exit" /\ UNCHANGED at

\* Up to the loop: g_site is cleared and given its length.
InitBegin ==
    /\ stage = "begin"
    /\ table' = [i \in DOMAIN site |-> Cleared]
    /\ stage' = "stat" /\ at' = 1
    /\ UNCHANGED <<siteVars, ready, docrootFd, open, cache, excuse>>

\* One turn of the loop up to the open: the route is copied, its target looked at.
InitStat ==
    /\ stage = "stat" /\ at <= Len(site)
    /\ LET r == [site[at] EXCEPT !.dirFd = NoFd, !.exact = FALSE, !.primary = FALSE]
           k == kind[r.target]
           Put(q, next) == /\ table' = [table EXCEPT ![at] = q]
                           /\ stage' = next
                           /\ at' = IF next = "stat" THEN at + 1 ELSE at
                           /\ UNCHANGED <<ready, docrootFd, open, cache>>
       IN  \/ r.type # "static" /\ Put(r, "stat")
           \/ /\ r.type = "static" /\ k = "dir"
              /\ IF SlashFits(r) THEN Put(EnsureDirSlash(r), "open") ELSE InitFails
           \/ /\ r.type = "static" /\ k = "file"
              /\ IF FilePrefixOk(r) THEN Put([r EXCEPT !.exact = TRUE], "stat") ELSE InitFails
           \/ r.type = "static" /\ k \notin {"dir", "file"} /\ InitFails
    /\ UNCHANGED <<siteVars, excuse>>

Root == <<"/">>

\* The open of a directory: static_init for "/", dir_fd for every other mount.  It
\* fails when the directory is gone by now, or for want of descriptors.
InitOpen ==
    /\ stage = "open"
    /\ LET r == table[at]
       IN  \/ /\ kind[r.target] = "dir"
              /\ IF r.prefix # Root
                 THEN /\ table' = [table EXCEPT ![at].dirFd = FreeFd]
                      /\ open' = OpenDir(r.target)
                      /\ UNCHANGED docrootFd
                      /\ stage' = "stat" /\ at' = at + 1
                      /\ UNCHANGED <<ready, cache>>
                 ELSE IF \E i \in 1 .. at - 1 : table[i].primary THEN InitFails
                 ELSE /\ table' = [table EXCEPT ![at].primary = TRUE]
                      /\ open' = OpenDir(r.target)
                      /\ docrootFd' = FreeFd
                      /\ stage' = "stat" /\ at' = at + 1
                      /\ UNCHANGED <<ready, cache>>
              /\ UNCHANGED excuse
           \/ InitFails /\ excuse' = TRUE
    /\ UNCHANGED siteVars

\* Variant to be rejected: the table of a checked site is not checked again.
InitEndUnchecked ==
    /\ stage = "stat" /\ at > Len(site)
    /\ ready' = TRUE /\ stage' = "serve"
    /\ UNCHANGED <<siteVars, at, table, docrootFd, open, cache, excuse>>

\* The end of routes_init.
InitEnd ==
    /\ stage = "stat" /\ at > Len(site)
    /\ IF Duplicates(table) THEN InitFails
       ELSE ready' = TRUE /\ stage' = "serve" /\ UNCHANGED <<at, table, docrootFd, open, cache>>
    /\ UNCHANGED <<siteVars, excuse>>

\* tiny_runtime_destroy, at the end or because a later step of start-up failed.
Destroy ==
    /\ stage = "serve"
    /\ RoutesShutdown
    /\ stage' = "exit" /\ last' = NoRequest
    /\ UNCHANGED <<file, kind, changes, sawListen, site, at, excuse>>

-----------------------------------------------------------------------------
(***************************************************************************)
(* route_begin.                                                            *)
(***************************************************************************)

\* Variant to be rejected: a prefix matches in the middle of a name.
RouteMatchesAnywhere(r, path) ==
    IF r.exact THEN path = r.prefix ELSE IsPrefix(r.prefix, path)

\* Variant to be rejected: a directory does not match without its slash.
RouteMatchesSlashOnly(r, path) ==
    LET n == Len(r.prefix)
    IN  IF r.exact THEN path = r.prefix
        ELSE /\ IsPrefix(r.prefix, path)
             /\ \/ EndsInSlash(r.prefix) \/ Len(path) = n \/ path[n + 1] = "/"

\* route_matches
RouteMatches(r, path) ==
    LET n == Len(r.prefix)
    IN  CASE r.exact -> path = r.prefix
          [] ~r.exact /\ r.prefix = Root -> TRUE
          [] ~r.exact /\ r.prefix # Root /\ EndsInSlash(r.prefix) ->
                \/ Len(path) + 1 = n /\ path = Front(r.prefix)
                \/ IsPrefix(r.prefix, path)
          [] OTHER -> /\ IsPrefix(r.prefix, path)
                      /\ Len(path) = n \/ path[n + 1] = "/"

\* route_match: the first of the longest.
RouteMatch(path) ==
    LET hits == {i \in DOMAIN table : RouteMatches(table[i], path)}
        beats(i, j) == \/ Len(table[i].prefix) > Len(table[j].prefix)
                       \/ Len(table[i].prefix) = Len(table[j].prefix) /\ i <= j
    IN  IF hits = {} THEN NoRoute ELSE CHOOSE i \in hits : \A j \in hits : beats(i, j)

\* The policy tiny_runtime_init sets: TINY_ALLOW_DOTFILES.
AllowDotfiles == FALSE

\* serve_mount: the rest of the path is looked up in the mounted directory.
ServeMount(method, r, path) ==
    LET cut == IF EndsInSlash(r.prefix) THEN Len(r.prefix) - 1 ELSE Len(r.prefix)
        url == IF Len(path) <= cut THEN Root ELSE SubSeq(path, cut + 1, Len(path))
    IN  IF url[1] # "/" THEN Outcome(500)
        ELSE StaticServe(method, IF r.dirFd = NoFd THEN NoDir ELSE open[r.dirFd],
                         url, path, AllowDotfiles)

\* static_begin for a path: everything of the document root.
StaticBegin(method, path) ==
    StaticServe(method, IF docrootFd = NoFd THEN NoDir ELSE open[docrootFd], path, path,
                AllowDotfiles)

\* route_begin: what a request for path ends in when the cache is cold.  A proxied
\* request is for module ProxySlot; 0 stands for its answer.
RouteBegin(method, path) ==
    LET i == RouteMatch(path)
        r == table[i]
    IN  IF Len(table) = 1 /\ table[1].primary THEN StaticBegin(method, path)
        ELSE IF i = NoRoute THEN Outcome(404)
        ELSE CASE r.type = "static" /\ r.exact ->
                     StaticBeginFile(method, r.target, kind[r.target])
               [] r.type = "static" /\ ~r.exact /\ r.primary -> StaticBegin(method, path)
               [] r.type = "static" /\ ~r.exact /\ ~r.primary -> ServeMount(method, r, path)
               [] r.type = "proxy" -> Outcome(0)
               [] OTHER -> Outcome(501)

\* Variant to be rejected: every directory's files go through the cache.
UseCacheAll(path) == TRUE

\* Whether static_serve may use the cache: the document root's files only.
UseCache(path) ==
    LET i == RouteMatch(path)
    IN  \/ Len(table) = 1 /\ table[1].primary
        \/ i # NoRoute /\ table[i].primary

\* A request; an absolute-form target without a path asks for "/".  A file sent
\* through the cache may come from the entry that has its relative path, and leaves
\* one behind if there is room.
Request(method, asked) ==
    /\ stage = "serve"
    /\ LET path == IF asked = <<>> THEN Root ELSE asked
           cold == RouteBegin(method, path)
           hits == {e \in cache : e.rel = cold.rel}
           Answer(a) == last' = [path |-> path, method |-> method, answer |-> a]
       IN  IF cold.status = 200 /\ cold.rel # <<>> /\ UseCache(path)
           THEN \/ \E e \in hits : Answer(Sends(e.dir, e.rel)) /\ UNCHANGED cache
                \/ /\ Answer(cold)
                   /\ cache' = IF Cardinality(cache \ hits) >= MaxCached THEN cache
                                ELSE (cache \ hits) \cup {[rel |-> cold.rel, dir |-> cold.dir]}
           ELSE Answer(cold) /\ UNCHANGED cache
    /\ UNCHANGED <<file, kind, changes, stage, at, sawListen, site, table, ready, docrootFd,
                   open, excuse>>

Next ==
    \/ \E t \in Targets, k \in Kinds \ {"denied"} : Change(t, k)
    \/ LoadLine \/ LoadEnd \/ CheckRoute \/ CheckEnd
    \/ InitBegin \/ InitStat \/ InitOpen \/ InitEnd \/ Destroy
    \/ \E m \in Methods, p \in Paths : Request(m, p)

Spec == Init /\ [][Next]_vars

-----------------------------------------------------------------------------
(***************************************************************************)
(* Properties.                                                             *)
(***************************************************************************)

\* Every variable keeps its type.
TypeOK ==
    /\ kind \in [Targets -> Kinds]
    /\ changes \in 0 .. MaxChanges
    /\ stage \in {"load", "check", "begin", "stat", "open", "serve", "exit"}
    /\ at \in 1 .. Len(file) + 2
    /\ sawListen \in BOOLEAN /\ ready \in BOOLEAN /\ excuse \in BOOLEAN
    /\ Len(site) <= MaxRoutes /\ Len(table) <= MaxRoutes
    /\ \A i \in DOMAIN site : Len(site[i].prefix) \in 1 .. PrefixMax - 1
    /\ docrootFd \in DOMAIN open \cup {NoFd}

\* An answer 500 is the file system's doing (arm_open_error): the file that the route
\* leads to, or the target of a file route, is one whose open fails.  None of the
\* 500s that guard against a broken table is met.
OpenFailed ==
    LET a == last.answer
    IN  a.status = 500 =>
          IF a.rel = <<>> THEN a.dir \in Targets /\ kind[a.dir] = "failing"
          ELSE a.dir \in Targets /\ KindOf(a.dir, a.rel) = "failing"

\* An installed table can be searched and served from: no two routes have the same
\* prefix, though a file may have become a directory since the check; a static
\* route is a file, or the document root, or has an open directory of its own; and a
\* request meets a 500 only where the open of its file fails (OpenFailed).
TableSound ==
    /\ TypeOK
    /\ OpenFailed
    /\ ready =>
         /\ ~Duplicates(table)
         /\ Cardinality({i \in DOMAIN table : table[i].primary}) = IF docrootFd = NoFd THEN 0 ELSE 1
         /\ \A i \in DOMAIN table : table[i].type = "static" =>
              \/ table[i].exact /\ table[i].dirFd = NoFd
              \/ table[i].primary /\ open[docrootFd] = table[i].target
              \/ /\ table[i].dirFd \in DOMAIN open \ {0, docrootFd}
                 /\ open[table[i].dirFd] = table[i].target
                 /\ \A j \in DOMAIN table : j # i => table[j].dirFd # table[i].dirFd

\* Whichever step of start-up fails, and at shutdown, every directory the table
\* opened is closed and no other descriptor is.
NothingLeft ==
    /\ stage = "exit" => DOMAIN open = {0}
    /\ 0 \in DOMAIN open

\* site_check and routes_init look at the same things twice: a site that passed the
\* check is refused at start-up only if a target changed or an open failed since.
CheckPredictsInit ==
    [][(stage \in {"begin", "stat", "open"} /\ stage' = "exit") => (excuse' = TRUE)]_vars

\* A route covers a path: the path itself for a file, the tree below otherwise.
Base(p) == IF EndsInSlash(p) THEN Front(p) ELSE p
Covers(r, path) ==
    IF r.exact THEN path = r.prefix
    ELSE path = Base(r.prefix) \/ IsPrefix(Append(Base(r.prefix), "/"), path)

\* "Longest prefix wins": of the routes that cover a path the one with the longest
\* prefix is taken, and there is only one, so that the order of lines is immaterial.
MatchIsBest ==
    ready => \A path \in Paths :
        LET hits == {i \in DOMAIN table : Covers(table[i], path)}
        IN  IF hits = {} THEN RouteMatch(path) = NoRoute
            ELSE /\ RouteMatch(path) \in hits
                 /\ \A i \in hits \ {RouteMatch(path)} :
                       Len(table[i].prefix) < Len(table[RouteMatch(path)].prefix)

\* A file that is sent lies in the tree of the route that covers the path, at the
\* place where the file system's own reading of the decoded path leads (or is the
\* index found there), and not above its top; the cache never supplies another
\* tree's file of the same name.
OwnTree ==
    last.answer.status = 200 =>
        LET r == table[RouteMatch(last.path)]
            below == SubSeq(last.path, Len(Base(r.prefix)) + 1, Len(last.path))
            named == Walk(Names(PercentDecode(below)))
        IN  /\ last.answer.dir = r.target
            /\ r.exact \/ last.answer.rel \in {named, Append(named, Index),
                                              Append(Append(named, Index), Index)}

\* A redirect leads to a path that the same route serves, and not to another
\* redirect; or else it leads away from this server, and it does so when the path
\* that was asked for begins with two slashes, never otherwise.
RedirectSettles ==
    LET loc == last.answer.loc
    IN  last.answer.status = 301 =>
          IF NamesHost(loc) THEN NamesHost(last.path)
          ELSE /\ RouteMatch(loc) = RouteMatch(last.path)
               /\ RouteBegin(last.method, loc).status # 301

-----------------------------------------------------------------------------
(***************************************************************************)
(* The inductive invariant behind TableSound, NothingLeft, MatchIsBest and *)
(* CheckPredictsInit.                                                      *)
(***************************************************************************)
Route == [type : {"none", "static", "proxy", "app"}, prefix : Seq(Texts), target : Texts,
          dirFd : Nat \cup {NoFd}, exact : BOOLEAN, primary : BOOLEAN]

\* A route as add_route leaves it and site_check may lengthen it.
Plain(r) ==
    /\ r.type # "none" /\ r.prefix # <<>> /\ r.prefix[1] = "/" /\ Len(r.prefix) < PrefixMax
    /\ r.type = "static" => r.target \in Targets
Unopened(r) == r.dirFd = NoFd /\ ~r.primary

SiteInv ==
    /\ file \in SiteFiles /\ site \in Seq(Route)
    /\ \A i \in DOMAIN site : Plain(site[i])
    /\ Len(site) <= MaxRoutes /\ Len(site) <= Len(file)
    /\ at \in 1 .. Len(file) + 1
    /\ stage = "load" => Len(site) < at
    /\ stage \in {"check", "begin", "stat", "open"} => at <= Len(site) + 1
    /\ stage = "open" => at <= Len(site)
    /\ stage \notin {"load", "exit"} => site # <<>>

\* The routes that are set up: up to the one routes_init is at.
Done(i) == i \in DOMAIN table /\ (stage = "serve" \/ i < at)

\* A route that is set up answers by itself, from a file, from the document root or
\* from an open directory of its own.
SetUp(r) ==
    /\ Plain(r)
    /\ r.primary => r.type = "static" /\ ~r.exact
    /\ r.type # "static" => ~r.exact /\ Unopened(r)
    /\ r.type = "static" /\ r.exact => Unopened(r)
    /\ r.type = "static" /\ ~r.exact =>
         /\ EndsInSlash(r.prefix)
         /\ \/ r.primary /\ r.prefix = Root /\ r.dirFd = NoFd /\ open[docrootFd] = r.target
            \/ ~r.primary /\ r.prefix # Root /\ r.dirFd # NoFd /\ open[r.dirFd] = r.target

\* Whose descriptors they are: standard input's, the document root's, the routes'.
Held == ({table[i].dirFd : i \in DOMAIN table} \cup {docrootFd}) \ {NoFd}
Closed == docrootFd = NoFd /\ DOMAIN open = {0}

TableInv ==
    /\ ready = (stage = "serve")
    /\ stage \in {"load", "check", "begin", "exit"} => table = <<>> /\ Closed
    /\ stage \in {"stat", "open", "serve"} =>
         /\ table \in [DOMAIN site -> Route]
         /\ IsFiniteSet(DOMAIN open) /\ DOMAIN open \subseteq Nat
         /\ DOMAIN open = {0} \cup Held /\ 0 \notin Held
         /\ \A i \in DOMAIN table : Done(i) => SetUp(table[i])
         /\ \A i \in DOMAIN table : ~Done(i) => Unopened(table[i])
         /\ \A i, j \in DOMAIN table : table[i].dirFd # NoFd /\ table[i].dirFd = table[j].dirFd => i = j
         /\ \A i \in DOMAIN table : table[i].dirFd # NoFd => table[i].dirFd # docrootFd
         /\ \A i, j \in DOMAIN table : table[i].primary /\ table[j].primary => i = j
         /\ (docrootFd # NoFd) <=> (\E i \in DOMAIN table : table[i].primary)
    /\ stage = "open" =>
         /\ Plain(table[at]) /\ table[at].type = "static" /\ ~table[at].exact
         /\ EndsInSlash(table[at].prefix)
    /\ stage = "serve" => ~Duplicates(table)

\* What site_check found of a route still holds, and routes_init finds it again.
Fits(r) ==
    r.type = "static" => \/ kind[r.target] = "dir" /\ EndsInSlash(r.prefix)
                         \/ kind[r.target] = "file" /\ FilePrefixOk(r)
Agrees ==
    ~excuse =>
      /\ stage = "check" => \A i \in 1 .. at - 1 : Fits(site[i])
      /\ stage \in {"begin", "stat", "open"} =>
           ~Duplicates(site) /\ \A i \in DOMAIN site : Fits(site[i])
      /\ stage \in {"stat", "open"} => \A i \in 1 .. at - 1 : table[i].prefix = site[i].prefix
      /\ stage = "open" => table[at].prefix = site[at].prefix

RoutesInv ==
    /\ kind \in [Targets -> Kinds] /\ changes \in 0 .. MaxChanges
    /\ sawListen \in BOOLEAN /\ excuse \in BOOLEAN
    /\ stage \in {"load", "check", "begin", "stat", "open", "serve", "exit"}
    /\ SiteInv /\ TableInv /\ Agrees /\ OpenFailed
=============================================================================
