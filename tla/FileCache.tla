----------------------------- MODULE FileCache -----------------------------
(***************************************************************************)
(* The open-file cache of one worker (src/static.c) and the descriptors    *)
(* its connections send from.  A request finds the path in an open-        *)
(* addressed table and shares the descriptor there; at most once a second  *)
(* the path is looked at again, and a changed file gets a new descriptor   *)
(* while the old one is retired until the last send from it is over.       *)
(*                                                                         *)
(* Other processes replace and remove files at any moment, also between    *)
(* two system calls of one request.  A file is a version number: every     *)
(* replacement is a new inode with its own size and times, and some are no *)
(* regular files (a directory, say).  A descriptor number is free again    *)
(* once it is closed, and the kernel hands out the lowest free one.        *)
(***************************************************************************)
EXTENDS Integers, FiniteSets, FiniteSetsExt

CONSTANTS
    Paths,          \* paths under the document root
    Conns,          \* the connections of the worker
    CacheSlots,     \* FILE_CACHE_SLOTS
    RetiredSlots,   \* FILE_CACHE_RETIRED
    Hash,           \* path -> home slot: path_hash & (FILE_CACHE_SLOTS - 1)
    NFds,           \* descriptors the process may have open for files
    MaxVersion,     \* bound: files written in all
    Irregular       \* the versions that are no regular files

ASSUME SizesAssumption ==
    /\ CacheSlots \in Nat \ {0} /\ RetiredSlots \in Nat \ {0}
    /\ NFds \in Nat /\ MaxVersion \in Nat
    /\ IsFiniteSet(Conns)
    /\ Hash \in [Paths -> 0 .. CacheSlots - 1]
    /\ Irregular \subseteq 1 .. MaxVersion

Slots == 0 .. CacheSlots - 1
Retired == 0 .. RetiredSlots - 1
Fds == 0 .. NFds - 1
Versions == 0 .. MaxVersion
Gone == 0               \* nothing there
Shut == -1              \* a descriptor that is not open

Empty == -1             \* e->fd: the probe stops here
Tombstone == -2         \* e->fd: removed, the probe goes on
NoFd == -1              \* hc->file_fd, and a free retired slot

VARIABLES
    fs,         \* the file system: path -> version
    written,    \* versions used up
    open,       \* the kernel's table: descriptor -> version it reads, or Shut
    cache,      \* file_cache
    retired,    \* file_cache_retired
    conn,       \* per connection: file_fd, file_owned and file_size (as the version
                \* it was read from) and, as history, the version file_fd was
                \* opened on and the oldest version it may be
    step,       \* the request being served: where, for whom, what it has seen
    seen        \* history: the file when a request last had to look at the path

vars == <<fs, written, open, cache, retired, conn, step, seen>>

NoEntry == [fd |-> Empty, path |-> "none", meta |-> Gone, fresh |-> FALSE, uses |-> 0]
NoRetired == [fd |-> NoFd, uses |-> 0]
NoFile == [fd |-> NoFd, owned |-> TRUE, size |-> Gone, version |-> Gone, atLeast |-> Gone]
Idle == [at |-> "idle"]

Init ==
    /\ fs = [p \in Paths |-> Gone]
    /\ written = 0
    /\ open = [d \in Fds |-> Shut]
    /\ cache = [i \in Slots |-> NoEntry]
    /\ retired = [r \in Retired |-> NoRetired]
    /\ conn = [c \in Conns |-> NoFile]
    /\ step = Idle
    /\ seen = fs

-----------------------------------------------------------------------------
(***************************************************************************)
(* Other processes, and time.                                              *)
(***************************************************************************)
WriteFile(p) ==
    /\ step.at # "exited"
    /\ written < MaxVersion
    /\ written' = written + 1
    /\ fs' = [fs EXCEPT ![p] = written + 1]
    /\ UNCHANGED <<open, cache, retired, conn, step, seen>>

RemoveFile(p) ==
    /\ step.at # "exited"
    /\ fs[p] # Gone
    /\ fs' = [fs EXCEPT ![p] = Gone]
    /\ UNCHANGED <<written, open, cache, retired, conn, step, seen>>

\* S_ISREG of what fstatat or fstat says of a version.
IsReg(v) == v # Gone /\ v \notin Irregular

\* now_ms - e->checked_ms reaches FILE_CACHE_RECHECK_MS, between two requests.
Due(i) ==
    /\ step = Idle
    /\ cache[i].fresh
    /\ cache' = [cache EXCEPT ![i].fresh = FALSE]
    /\ UNCHANGED <<fs, written, open, retired, conn, step, seen>>

-----------------------------------------------------------------------------
(***************************************************************************)
(* The table.                                                              *)
(***************************************************************************)

\* The slot reached by n steps of the probe that starts at p's home.
Probe(p, n) == (Hash[p] + n) % CacheSlots

\* file_cache_find: the set of the slot found, empty if there is none.
Find(p) ==
    LET hits == {n \in Slots :
                    /\ cache[Probe(p, n)].fd >= 0 /\ cache[Probe(p, n)].path = p
                    /\ \A m \in 0 .. n - 1 : cache[Probe(p, m)].fd # Empty}
    IN  IF hits = {} THEN {} ELSE {Probe(p, Min(hits))}

\* file_cache_store: the first empty slot on the probe path; if the table has
\* none, the first tombstone; otherwise nowhere.
StoreAt(p) ==
    LET where(mark) == {n \in Slots : cache[Probe(p, n)].fd = mark}
    IN  CASE where(Empty) # {} -> {Probe(p, Min(where(Empty)))}
          [] where(Empty) = {} /\ where(Tombstone) # {} -> {Probe(p, Min(where(Tombstone)))}
          [] OTHER -> {}

\* retire_fd on the descriptor table tab: close if unused, else keep it in a
\* free retired slot; with none left it stays open and is in no table.
Retire(tab, d, uses) ==
    LET room == {r \in Retired : retired[r].fd = NoFd}
    IN  CASE uses = 0 -> [open |-> [tab EXCEPT ![d] = Shut], retired |-> retired]
          [] uses > 0 /\ room # {} ->
                [open |-> tab,
                 retired |-> [retired EXCEPT ![Min(room)] = [fd |-> d, uses |-> uses]]]
          [] OTHER -> [open |-> tab, retired |-> retired]

FreeFds == {d \in Fds : open[d] = Shut}

\* arm_regular: the connection sends size bytes from descriptor d of the table
\* tab.  The 500 for a full arena is left out: the arena holds the two path
\* buffers and the header at once.
Arm(c, d, size, owned, tab, atLeast) ==
    conn' = [conn EXCEPT ![c] = [fd |-> d, owned |-> owned, size |-> size,
                                 version |-> tab[d], atLeast |-> atLeast]]

-----------------------------------------------------------------------------
(***************************************************************************)
(* static_serve.                                                           *)
(***************************************************************************)

\* Variant to be rejected: a hit is not counted as a use.
HoldNot(i, tab) == tab

\* file_cache_hold on the table tab.  The UINT16_MAX stop is never met: a use
\* is a connection, and a worker has TINY_CONNS_PER_WORKER of them.
Hold(i, tab) == [tab EXCEPT ![i].uses = @ + 1]

\* A request for p on the document root: a hit that was checked within the
\* interval is served at once, one that was not is looked at again.  For a
\* directory p is its index file; the directory's own descriptor is closed
\* before the request goes on.
Serve(c, p) ==
    /\ step = Idle
    /\ conn[c].fd = NoFd
    /\ \/ /\ Find(p) = {}
          /\ seen' = [seen EXCEPT ![p] = fs[p]]
          /\ step' = [at |-> "open", c |-> c, p |-> p]
          /\ UNCHANGED <<cache, conn>>
       \/ \E i \in Find(p) :
            /\ ~cache[i].fresh
            /\ seen' = [seen EXCEPT ![p] = fs[p]]
            /\ step' = [at |-> "stat", c |-> c, p |-> p, i |-> i]
            /\ UNCHANGED <<cache, conn>>
       \/ \E i \in Find(p) :
            /\ cache[i].fresh
            /\ cache' = Hold(i, cache)
            /\ Arm(c, cache[i].fd, cache[i].meta, FALSE, open, seen[p])
            /\ UNCHANGED <<step, seen>>
    /\ UNCHANGED <<fs, written, open, retired>>

\* Variant to be rejected: the slot of a dropped entry becomes empty.
DropEntryEmpties(i) ==
    LET r == Retire(open, cache[i].fd, cache[i].uses)
    IN  /\ open' = r.open
        /\ retired' = r.retired
        /\ cache' = [cache EXCEPT ![i] = NoEntry]

\* tombstone(e): the entry is given up and its descriptor retired.
DropEntry(i) ==
    LET r == Retire(open, cache[i].fd, cache[i].uses)
    IN  /\ open' = r.open
        /\ retired' = r.retired
        /\ cache' = [cache EXCEPT ![i] = [NoEntry EXCEPT !.fd = Tombstone]]

\* Variant to be rejected: a file that is still there is taken to be the same.
StatTrusts ==
    /\ step.at = "stat"
    /\ IsReg(fs[step.p])
    /\ cache' = Hold(step.i, [cache EXCEPT ![step.i].fresh = TRUE])
    /\ Arm(step.c, cache[step.i].fd, cache[step.i].meta, FALSE, open, seen[step.p])
    /\ step' = Idle
    /\ UNCHANGED <<fs, written, open, retired, seen>>

\* file_cache_recheck up to the reopen: fstatat on the entry's path.
Stat ==
    /\ step.at = "stat"
    /\ LET i == step.i
       IN  \/ /\ ~IsReg(fs[step.p])
              /\ DropEntry(i)
              /\ step' = [at |-> "open", c |-> step.c, p |-> step.p]
              /\ UNCHANGED conn
           \/ /\ IsReg(fs[step.p])
              /\ fs[step.p] = cache[i].meta
              /\ cache' = Hold(i, [cache EXCEPT ![i].fresh = TRUE])
              /\ Arm(step.c, cache[i].fd, cache[i].meta, FALSE, open, seen[step.p])
              /\ step' = Idle
              /\ UNCHANGED <<open, retired>>
           \/ /\ IsReg(fs[step.p])
              /\ fs[step.p] # cache[i].meta
              /\ step' = [at |-> "reopen", c |-> step.c, p |-> step.p, i |-> i,
                          st |-> fs[step.p]]
              /\ UNCHANGED <<open, cache, retired, conn>>
    /\ UNCHANGED <<fs, written, seen>>

\* Variant to be rejected: the old descriptor is forgotten, not retired.
ReopenForgets ==
    /\ step.at = "reopen"
    /\ fs[step.p] # Gone /\ FreeFds # {}
    /\ LET i == step.i
           d == Min(FreeFds)
           tab == [open EXCEPT ![d] = fs[step.p]]
       IN  /\ open' = tab
           /\ cache' = Hold(i, [cache EXCEPT ![i] =
                            [fd |-> d, path |-> cache[i].path, meta |-> step.st,
                             fresh |-> TRUE, uses |-> 0]])
           /\ Arm(step.c, d, step.st, FALSE, tab, seen[step.p])
    /\ step' = Idle
    /\ UNCHANGED <<fs, written, retired, seen>>

\* The rest of file_cache_recheck: the path is opened again, with what fstatat
\* said of it kept as the new size and times.  The file may be another one by now,
\* or no regular file, which may open as well.
Reopen ==
    /\ step.at = "reopen"
    /\ LET i == step.i
       IN  \/ /\ ~IsReg(fs[step.p]) \/ FreeFds = {}
              /\ DropEntry(i)
              /\ step' = [at |-> "open", c |-> step.c, p |-> step.p]
              /\ UNCHANGED conn
           \/ /\ fs[step.p] # Gone /\ FreeFds # {}
              /\ LET d == Min(FreeFds)
                     r == Retire([open EXCEPT ![d] = fs[step.p]], cache[i].fd, cache[i].uses)
                 IN  /\ open' = r.open
                     /\ retired' = r.retired
                     /\ cache' = Hold(i, [cache EXCEPT ![i] =
                            [fd |-> d, path |-> cache[i].path, meta |-> step.st,
                             fresh |-> TRUE, uses |-> 0]])
                     /\ Arm(step.c, d, step.st, FALSE, r.open, seen[step.p])
              /\ step' = Idle
    /\ UNCHANGED <<fs, written, seen>>

\* The end of static_serve: open, fstat on the descriptor, store if there is a
\* place.  Without a file (or a descriptor) an error response is sent instead.
Open ==
    /\ step.at = "open"
    /\ \/ /\ ~IsReg(fs[step.p]) \/ FreeFds = {}
          /\ UNCHANGED <<open, cache, conn>>
       \/ /\ IsReg(fs[step.p]) /\ FreeFds # {}
          /\ LET d == Min(FreeFds)
                 v == fs[step.p]
             IN  /\ open' = [open EXCEPT ![d] = v]
                 /\ Arm(step.c, d, v, StoreAt(step.p) = {}, open', seen[step.p])
                 /\ \/ StoreAt(step.p) = {} /\ UNCHANGED cache
                    \/ \E i \in StoreAt(step.p) :
                         cache' = Hold(i, [cache EXCEPT ![i] =
                             [fd |-> d, path |-> step.p, meta |-> v, fresh |-> TRUE, uses |-> 0]])
    /\ step' = Idle
    /\ UNCHANGED <<fs, written, retired, seen>>

\* static_begin_at and static_begin_file: another mount, or a route's own file,
\* never through the cache.
ServeUncached(c, p) ==
    /\ step = Idle
    /\ conn[c].fd = NoFd
    /\ IsReg(fs[p]) /\ FreeFds # {}
    /\ open' = [open EXCEPT ![Min(FreeFds)] = fs[p]]
    /\ Arm(c, Min(FreeFds), fs[p], TRUE, open', fs[p])
    /\ UNCHANGED <<fs, written, cache, retired, step, seen>>

-----------------------------------------------------------------------------
(***************************************************************************)
(* The end of a response, of a connection and of the worker.               *)
(***************************************************************************)

\* static_cache_release: the descriptor is looked up by its number, first in the
\* cache and then among the retired ones; the last user of a retired one closes it.
Release(d) ==
    LET hit == {i \in Slots : cache[i].fd = d}
        old == {r \in Retired : retired[r].fd = d}
        Less(e) == [e EXCEPT !.uses = IF @ > 0 THEN @ - 1 ELSE 0]
        last == old # {} /\ Less(retired[Min(old)]).uses = 0
    IN  IF hit # {}
        THEN [cache |-> [cache EXCEPT ![Min(hit)] = Less(@)],
              retired |-> retired, open |-> open]
        ELSE [cache |-> cache,
              retired |-> [r \in Retired |->
                            IF old = {} \/ r # Min(old) THEN retired[r]
                            ELSE IF last THEN NoRetired ELSE Less(retired[r])],
              open |-> IF last THEN [open EXCEPT ![d] = Shut] ELSE open]

\* The response is sent (static_on_write), or the connection is closed in the
\* middle of it (http_conn_cleanup).
Finish(c) ==
    /\ step = Idle
    /\ conn[c].fd # NoFd
    /\ conn' = [conn EXCEPT ![c] = NoFile]
    /\ \/ /\ conn[c].owned
          /\ open' = [open EXCEPT ![conn[c].fd] = Shut]
          /\ UNCHANGED <<cache, retired>>
       \/ /\ ~conn[c].owned
          /\ LET r == Release(conn[c].fd)
             IN  cache' = r.cache /\ retired' = r.retired /\ open' = r.open
    /\ UNCHANGED <<fs, written, step, seen>>

\* static_cache_clear, called by a worker that has closed its connections.
Exit ==
    /\ step = Idle
    /\ \A c \in Conns : conn[c].fd = NoFd
    /\ open' = [d \in Fds |-> IF \/ \E i \in Slots : cache[i].fd = d
                                 \/ \E r \in Retired : retired[r].fd = d
                              THEN Shut ELSE open[d]]
    /\ cache' = [i \in Slots |-> NoEntry]
    /\ retired' = [r \in Retired |-> NoRetired]
    /\ step' = [at |-> "exited"]
    /\ UNCHANGED <<fs, written, conn, seen>>

Next ==
    \/ \E p \in Paths : WriteFile(p) \/ RemoveFile(p)
    \/ \E i \in Slots : Due(i)
    \/ \E c \in Conns, p \in Paths : Serve(c, p) \/ ServeUncached(c, p)
    \/ Stat \/ Reopen \/ Open
    \/ \E c \in Conns : Finish(c)
    \/ Exit

Spec == Init /\ [][Next]_vars

-----------------------------------------------------------------------------
(***************************************************************************)
(* Properties.                                                             *)
(***************************************************************************)

Entry == [fd : Fds \cup {Empty, Tombstone}, path : Paths \cup {"none"},
          meta : Versions, fresh : BOOLEAN, uses : 0 .. Cardinality(Conns)]
Kept == [fd : Fds \cup {NoFd}, uses : 0 .. Cardinality(Conns)]
Sent == [fd : Fds \cup {NoFd}, owned : BOOLEAN, size : Versions,
         version : Versions, atLeast : Versions]

\* Every variable keeps its type; a retired slot in use has a user.
TypeOK ==
    /\ fs \in [Paths -> Versions] /\ seen \in [Paths -> Versions]
    /\ written \in Versions
    /\ open \in [Fds -> Versions \cup {Shut}]
    /\ cache \in [Slots -> Entry]
    /\ retired \in [Retired -> Kept]
    /\ \A r \in Retired : retired[r].fd # NoFd => retired[r].uses > 0
    /\ conn \in [Conns -> Sent]
    /\ step.at \in {"idle", "stat", "reopen", "open", "exited"}

Sending(c) == conn[c].fd # NoFd
Live(i) == cache[i].fd >= 0
Users(d) == {c \in Conns : conn[c].fd = d /\ ~conn[c].owned}

\* retire_fd's "In-flight sends still hold fd. Dropping it here would break
\* them": whatever is replaced, removed, rechecked or released meanwhile, the
\* descriptor a response is sent from stays open on the file it was armed with.
InFlightOpen ==
    \A c \in Conns : Sending(c) => open[conn[c].fd] = conn[c].version

\* The use count of an entry, live or retired, is the number of connections that
\* share its descriptor, although they are told apart by its number only; hence no
\* response in flight loses its file (InFlightOpen), and the types are kept.
UsesExact ==
    /\ TypeOK
    /\ InFlightOpen
    /\ \A i \in Slots : Live(i) => cache[i].uses = Cardinality(Users(cache[i].fd))
    /\ \A r \in Retired : retired[r].fd # NoFd =>
          retired[r].uses = Cardinality(Users(retired[r].fd))

\* A worker that exits leaves no file open (static.h: "Drop this thread's
\* open-file cache. Call from each worker before exit.").
ClosedAtExit == step.at = "exited" => \A d \in Fds : open[d] = Shut

\* Every open descriptor has exactly one owner that will close it: the cache, a
\* retired slot or a connection (http.h: "1: cleanup closes file_fd. 0: open-file
\* cache owns it"), and none outlives its worker (ClosedAtExit).
OneOwner ==
    /\ \A d \in Fds : open[d] # Shut =>
         Cardinality({i \in Slots : cache[i].fd = d})
         + Cardinality({r \in Retired : retired[r].fd = d})
         + Cardinality({c \in Conns : conn[c].fd = d /\ conn[c].owned}) = 1
    /\ ClosedAtExit

\* Every entry can be found again from its path's home slot, so that no entry is
\* cut off behind an empty slot and no path has two: holes left by removed files
\* do not hide the entries stored past them.
Reachable == \A i \in Slots : Live(i) => Find(cache[i].path) = {i}

\* A response is never older than the file was when a request last had to look
\* at the path: an edit shows up once FILE_CACHE_RECHECK_MS has passed.
EditShowsUp == \A c \in Conns : Sending(c) => conn[c].version >= conn[c].atLeast

-----------------------------------------------------------------------------
(***************************************************************************)
(* The inductive invariants: CacheInv behind UsesExact, Reachable and      *)
(* EditShowsUp, and on it OwnerInv behind OneOwner.                        *)
(***************************************************************************)

\* The parts about descriptors are stated of any tables, so that a handler can be
\* followed from call to call: o is the kernel's, ca, re and co the worker's.

\* No descriptor has two owners, and only its owner sends from an owned one.
Apart(ca, re, co) ==
    LET Keeps(r) == re[r].fd # NoFd
        Owns(c) == co[c].fd # NoFd /\ co[c].owned
    IN  /\ \A i, j \in Slots : ca[i].fd >= 0 /\ ca[i].fd = ca[j].fd => i = j
        /\ \A q, r \in Retired : Keeps(q) /\ re[q].fd = re[r].fd => q = r
        /\ \A i \in Slots, r \in Retired : ca[i].fd >= 0 => ca[i].fd # re[r].fd
        /\ \A c, e \in Conns : Owns(c) /\ co[c].fd = co[e].fd => c = e
        /\ \A c \in Conns, i \in Slots : Owns(c) => co[c].fd # ca[i].fd
        /\ \A c \in Conns, r \in Retired : Owns(c) => co[c].fd # re[r].fd

\* What anyone holds is open: an entry's descriptor on a file at least as new as
\* what fstatat or fstat said of it, a connection's on the one it was armed with.
Backed(o, ca, re, co) ==
    /\ \A i \in Slots : ca[i].fd >= 0 => o[ca[i].fd] >= ca[i].meta
    /\ \A r \in Retired : re[r].fd # NoFd => o[re[r].fd] # Shut
    /\ \A c \in Conns : co[c].fd # NoFd => o[co[c].fd] = co[c].version

\* The use counts are exact, and a retired slot in use has a user.
Sharers(co, d) == {c \in Conns : co[c].fd = d /\ ~co[c].owned}
Counted(ca, re, co) ==
    /\ \A i \in Slots : ca[i].fd >= 0 => ca[i].uses = Cardinality(Sharers(co, ca[i].fd))
    /\ \A r \in Retired : re[r].fd # NoFd => /\ re[r].uses > 0
                                             /\ re[r].uses = Cardinality(Sharers(co, re[r].fd))

Sound(o, ca, re, co) ==
    /\ o \in [Fds -> Versions \cup {Shut}] /\ ca \in [Slots -> Entry]
    /\ re \in [Retired -> Kept] /\ co \in [Conns -> Sent]
    /\ Apart(ca, re, co) /\ Backed(o, ca, re, co) /\ Counted(ca, re, co)

\* A path has one entry, and no empty slot cuts it off from its home.
OnPath(i) ==
    \E n \in Slots :
        /\ Probe(cache[i].path, n) = i
        /\ \A m \in 0 .. n - 1 : cache[Probe(cache[i].path, m)].fd # Empty

Chained ==
    /\ \A i \in Slots : Live(i) => cache[i].path \in Paths
    /\ \A i, j \in Slots : Live(i) /\ Live(j) /\ cache[i].path = cache[j].path => i = j
    /\ \A i \in Slots : Live(i) => OnPath(i)

\* Files only get newer, and an entry within its interval reads a file at least
\* as new as the last look at its path.
Newer ==
    /\ fs \in [Paths -> Versions] /\ seen \in [Paths -> Versions] /\ written \in Versions
    /\ \A p \in Paths : fs[p] <= written /\ seen[p] <= written
    /\ \A p \in Paths : fs[p] = Gone \/ fs[p] >= seen[p]
    /\ \A i \in Slots : Live(i) /\ cache[i].fresh => open[cache[i].fd] >= seen[cache[i].path]

\* What a request in the middle of static_serve may rely on.
Looking(c, p, i) == conn[c].fd = NoFd /\ Live(i) /\ cache[i].path = p

Serving ==
    \/ step \in {Idle, [at |-> "exited"]}
    \/ \E c \in Conns, p \in Paths, i \in Slots :
          step = [at |-> "stat", c |-> c, p |-> p, i |-> i] /\ Looking(c, p, i)
    \/ \E c \in Conns, p \in Paths, i \in Slots, st \in Versions :
          /\ step = [at |-> "reopen", c |-> c, p |-> p, i |-> i, st |-> st]
          /\ Looking(c, p, i)
          /\ fs[p] = Gone \/ fs[p] >= st
          /\ st <= written
    \/ \E c \in Conns, p \in Paths :
          /\ step = [at |-> "open", c |-> c, p |-> p]
          /\ conn[c].fd = NoFd
          /\ \A i \in Slots : Live(i) => cache[i].path # p

CacheInv ==
    /\ Sound(open, cache, retired, conn)
    /\ Chained /\ Newer /\ Serving /\ EditShowsUp

\* Whoever will close d.
Held(ca, re, co, d) ==
    \/ \E i \in Slots : ca[i].fd = d
    \/ \E r \in Retired : re[r].fd = d
    \/ \E c \in Conns : co[c].fd = d /\ co[c].owned

\* No open descriptor is forgotten, by a worker that runs or by one that has exited.
OwnerInv ==
    /\ \A d \in Fds : open[d] # Shut => Held(cache, retired, conn, d)
    /\ ClosedAtExit

\* retire_fd has a free slot, should the entry that is looked at again be in use.
Room ==
    step.at \in {"stat", "reopen"} /\ cache[step.i].uses > 0 =>
        \E r \in Retired : retired[r].fd = NoFd

=============================================================================
