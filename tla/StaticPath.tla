----------------------------- MODULE StaticPath -----------------------------
(***************************************************************************)
(* What src/static.c makes of a URL before it opens a file: percent        *)
(* decoding, normalisation to a path relative to a directory, the choice   *)
(* of file, index or redirect, and the status each ends in.  The functions *)
(* are pure; module Routes calls them with the state they read.            *)
(*                                                                         *)
(* A path is a sequence of symbols, each a character or a whole %XX         *)
(* escape.  STATIC_PATH_MAX is not reached: a target is part of a header   *)
(* block, which is no longer than that.                                    *)
(***************************************************************************)
EXTENDS Integers, Sequences, FiniteSets, SequencesExt

CONSTANTS
    Contents    \* Contents[t]: what the directory t holds, a function from
                \* relative paths (sequences of names) to kinds

\* What lies at a path: nothing, a regular file, a directory, something else that
\* opens (a device), something the server may not open, or something whose open fails
\* with any other error (a socket, a name that is too long).
Kinds == {"none", "file", "dir", "other", "denied", "failing"}

\* A directory is not among the paths beneath it.
ASSUME ContentsAssumption == \A t \in DOMAIN Contents : <<>> \notin DOMAIN Contents[t]

\* Escapes that percent_decode turns into a character, and those it refuses: a
\* separator, a control byte, and two digits that are not hexadecimal.
Escape == [e \in {"%61", "%2e"} |-> IF e = "%61" THEN "a" ELSE "."]
Refused == {"%2f", "%5c", "%0a", "%00", "%7f", "%zz", "%6"}

\* Both functions return a length, and 0 for a path they refuse.
NoPath == <<>>

\* percent_decode
PercentDecode(url) ==
    IF \E i \in DOMAIN url : url[i] \in Refused THEN NoPath
    ELSE [i \in DOMAIN url |-> IF url[i] \in DOMAIN Escape THEN Escape[url[i]] ELSE url[i]]

\* Where the segments of a path start, and where the one that starts at s ends.
SegStarts(p) == {i \in 2 .. Len(p) : p[i] # "/" /\ p[i - 1] = "/"}
SegEnd(p, s) == CHOOSE e \in s .. Len(p) :
                   /\ e = Len(p) \/ p[e + 1] = "/"
                   /\ \A i \in s .. e : p[i] # "/"
Segment(p, s) == SubSeq(p, s, SegEnd(p, s))
Segments(p) == LET starts == SetToSortSeq(SegStarts(p), <)
               IN  [k \in DOMAIN starts |-> Segment(p, starts[k])]

Index == <<"index.html">>

\* normalize_path; dotfiles is g_policy.allow_dotfiles.
NormalizePath(p, dotfiles) ==
    LET segs == Segments(p)
        bad(s) == \/ \E i \in DOMAIN s : s[i] = "\\"
                  \/ s \in {<<".">>, <<".", ".">>}
                  \/ s[1] = "." /\ ~dotfiles
    IN  IF p[1] # "/" \/ \E k \in DOMAIN segs : bad(segs[k]) THEN NoPath
        ELSE IF segs = <<>> \/ p[Len(p)] = "/" THEN Append(segs, Index) ELSE segs

\* What openat2 finds at a relative path beneath the directory dir.
KindOf(dir, rel) == IF rel \in DOMAIN Contents[dir] THEN Contents[dir][rel] ELSE "none"

-----------------------------------------------------------------------------
(***************************************************************************)
(* Outcomes: a status, the directory and the file that are sent, and where *)
(* a redirect points.                                                      *)
(***************************************************************************)
NoDir == "no directory"
Outcome(status) == [status |-> status, dir |-> NoDir, rel |-> <<>>, loc |-> <<>>]
Sends(dir, rel) == [Outcome(200) EXCEPT !.dir = dir, !.rel = rel]
Fails(dir, rel) == [Outcome(500) EXCEPT !.dir = dir, !.rel = rel]

\* arm_dir_redirect: Location is the path as it was asked for, and a slash.
Redirect(path) == [Outcome(301) EXCEPT !.loc = Append(path, "/")]

\* How a client reads Location: what begins with two slashes names another host first.
NamesHost(loc) == Len(loc) > 1 /\ loc[1] = "/" /\ loc[2] = "/"

\* arm_open_error, and the test for a regular file behind it.  Descriptors do not
\* run out here (module FileCache lets an open fail).
Opened(dir, rel, kind) ==
    CASE kind = "file" -> Sends(dir, rel)
      [] kind = "none" -> Outcome(404)
      [] kind = "failing" -> Fails(dir, rel)
      [] OTHER -> Outcome(403)

\* static_serve without its cache, from the directory dir.  redir is the path the
\* client asked for.
StaticServe(method, dir, url, redir, dotfiles) ==
    LET decoded == PercentDecode(url)
        rel == NormalizePath(decoded, dotfiles)
        kind == KindOf(dir, rel)
        index == Append(rel, Index)
    IN  CASE method \notin {"GET", "HEAD"} -> Outcome(405)
          [] method \in {"GET", "HEAD"} /\ dir = NoDir -> Outcome(500)
          [] OTHER ->
               IF decoded = NoPath THEN Outcome(400)
               ELSE IF rel = NoPath THEN Outcome(404)
               ELSE IF kind # "dir" THEN Opened(dir, rel, kind)
               ELSE IF decoded[Len(decoded)] # "/" THEN Redirect(redir)
               ELSE Opened(dir, index, KindOf(dir, index))

\* static_begin_file: the target of a file route, of the kind it now has.
StaticBeginFile(method, target, kind) ==
    IF method \notin {"GET", "HEAD"} THEN Outcome(405) ELSE Opened(target, <<>>, kind)

-----------------------------------------------------------------------------
(***************************************************************************)
(* Reference: the file system's own reading of a decoded path.             *)
(***************************************************************************)

\* The directory reached by walking the names in segs: "." stays, ".." goes up,
\* and leaving the directory one started from is Outside.
Outside == << <<"outside">> >>
Walk(segs) ==
    LET go[k \in 0 .. Len(segs)] ==
            IF k = 0 THEN <<>>
            ELSE LET here == go[k - 1]
                 IN  CASE here = Outside -> Outside
                       [] segs[k] = <<".">> -> here
                       [] segs[k] = <<".", ".">> -> IF here = <<>> THEN Outside ELSE Front(here)
                       [] OTHER -> Append(here, segs[k])
    IN  go[Len(segs)]

\* The names between the slashes of a path, as a file system splits it.
Names(p) ==
    LET cut == {0} \cup {i \in DOMAIN p : p[i] = "/"} \cup {Len(p) + 1}
        at == SetToSortSeq(cut, <)
        pieces == [k \in 1 .. Len(at) - 1 |-> SubSeq(p, at[k] + 1, at[k + 1] - 1)]
    IN  SelectSeq(pieces, LAMBDA s : s # <<>>)
=============================================================================
