----------------------------- MODULE HttpParser -----------------------------
(***************************************************************************)
(* http_parse_request (src/http_parser.c) over an abstract alphabet.       *)
(*                                                                         *)
(* A byte stream is a sequence of units: what a line holds is one unit,    *)
(* CR and LF are units, and so is a piece of a body.  A unit that is a     *)
(* request line or a header field says what the parser's tests on its      *)
(* characters come to; which line it stands on, how lines end, what may    *)
(* come twice and what is missing is decided here.                         *)
(***************************************************************************)
EXTENDS Integers, Sequences, FiniteSets, SequencesExt

CONSTANTS
    UMax        \* UINT32_MAX

\* What a line may hold: a request line, a field the parser knows, any other field,
\* or text that is neither (bad characters, no colon, leading space).
Line(method, res, minor) == [k |-> "line", method |-> method, res |-> res, minor |-> minor]
Host(ok) == [k |-> "host", ok |-> ok]
Length(digits) == [k |-> "cl", digits |-> digits]
Coding == [k |-> "te"]
Connection(tokens) == [k |-> "conn", tokens |-> tokens]
Other == [k |-> "other"]
Junk == [k |-> "junk"]
CR == [k |-> "CR"]
LF == [k |-> "LF"]

FieldKinds == {"host", "cl", "te", "conn", "other"}

Bad == [v |-> "bad"]
Incomplete == [v |-> "incomplete"]
Unsupported == [v |-> "unsupported"]

\* The first position from p on that holds k, 0 if there is none.
FirstOf(buf, k, p) ==
    LET hits == {i \in p .. Len(buf) : buf[i].k = k}
    IN  IF hits = {} THEN 0 ELSE CHOOSE i \in hits : \A j \in hits : i <= j

\* Variant to be rejected: a CR that ends the buffer is taken for a bare one.
FindCrlfEager(buf, p) ==
    LET cr == FirstOf(buf, "CR", p)
    IN  CASE cr = 0 -> IF FirstOf(buf, "LF", p) # 0 THEN Bad ELSE Incomplete
          [] cr # 0 /\ (cr = Len(buf) \/ buf[cr + 1] # LF) -> Bad
          [] OTHER -> [v |-> "eol", at |-> cr]

\* find_crlf from position p on.
FindCrlf(buf, p) ==
    LET cr == FirstOf(buf, "CR", p)
    IN  CASE cr = 0 -> IF FirstOf(buf, "LF", p) # 0 THEN Bad ELSE Incomplete
          [] cr # 0 /\ cr = Len(buf) -> Incomplete
          [] cr # 0 /\ cr # Len(buf) /\ buf[cr + 1] # LF -> Bad
          [] OTHER -> [v |-> "eol", at |-> cr]

\* parse_content_length: the number digits spells, -1 if it is none or too large.
NoNumber == -1
ParseContentLength(digits) ==
    IF digits = <<>> THEN NoNumber
    ELSE FoldLeft(LAMBDA v, d : IF v = NoNumber \/ d \notin 0 .. 9 \/ v > (UMax - d) \div 10
                                THEN NoNumber ELSE v * 10 + d,
                  0, digits)

\* A whole line from position p on that is one well-formed field.
IsField(buf, p) ==
    p + 2 <= Len(buf) /\ buf[p].k \in FieldKinds /\ buf[p + 1] = CR /\ buf[p + 2] = LF

\* The loop of parse over the lines behind the first one and its CR and LF, up to the
\* first line that is not a field: how many fields it comes past, and which.
NFields(buf) ==
    CHOOSE n \in 0 .. Len(buf) : ~IsField(buf, 4 + 3 * n) /\ \A i \in 0 .. n - 1 : IsField(buf, 4 + 3 * i)
Fields(buf, n) == [i \in 1 .. n |-> buf[1 + 3 * i]]

\* What ends it: the empty line, or one that is no field or not whole.
End(buf, n) ==
    LET eol == FindCrlf(buf, 4 + 3 * n)
    IN  IF eol.v = "eol" /\ eol.at # 4 + 3 * n THEN Bad ELSE eol

\* Where a field of kind k was seen.
Seen(fields, k) == {i \in DOMAIN fields : fields[i].k = k}

\* handle_header for each field in turn: a second Host or Content-Length, a Host or
\* a Content-Length without a proper value.
FieldsRefused(fields) ==
    \/ \E k \in {"host", "cl"} : \E i, j \in Seen(fields, k) : i # j
    \/ \E i \in Seen(fields, "host") : ~fields[i].ok
    \/ \E i \in Seen(fields, "cl") : ParseContentLength(fields[i].digits) = NoNumber

\* parse_connection
Tokens(fields) == UNION {fields[i].tokens : i \in Seen(fields, "conn")}

\* What the first line, the fields and the end of the loop come to.
Judge(line, fields, end) ==
    LET has(k) == Seen(fields, k) # {}
    IN  IF FieldsRefused(fields) THEN Bad
        ELSE IF end.v # "eol" THEN end
        ELSE IF has("te") /\ has("cl") THEN Bad
        ELSE IF line.minor = 1 /\ ~has("host") THEN Bad
        ELSE IF has("te") THEN Unsupported
        ELSE [v |-> "request", method |-> line.method, res |-> line.res, minor |-> line.minor,
              tokens |-> Tokens(fields),
              length |-> IF ~has("cl") THEN 0
                         ELSE LET i == CHOOSE i \in Seen(fields, "cl") : TRUE
                              IN  ParseContentLength(fields[i].digits),
              bytes |-> end.at + 1]

\* parse, for a buffer that is not empty.
Parse(buf) ==
    LET eol == FindCrlf(buf, 1)
        n == NFields(buf)
    IN  CASE eol.v # "eol" -> eol
          [] eol.v = "eol" /\ (eol.at # 2 \/ buf[1].k # "line") -> Bad
          [] OTHER -> Judge(buf[1], Fields(buf, n), End(buf, n))
=============================================================================
