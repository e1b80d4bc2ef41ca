------------------------------- MODULE Codec -------------------------------
(***************************************************************************)
(* internal/protocol: the payloads inside frames, cell by cell.  A cell is a *)
(* byte of a smaller base (Base is 256 in the code), so that counts and      *)
(* lengths reach the limits of their width.  Decoding walks a payload one    *)
(* field per step, as the cursor does; the payload may be anything.          *)
(***************************************************************************)
EXTENDS Integers, Sequences, SequencesExt

CONSTANTS
    Base,             \* how many values a byte has
    MaxPathLen,       \* MaxPathLen
    MaxHeaders,       \* MaxHeaders: the largest count one byte holds
    MaxCustomNameLen, \* MaxCustomNameLen
    MaxMessage,       \* maxFramePayload
    Table,            \* tableNames: the well-known names, in order of their ids
    NameCells,        \* the bytes validCustomName allows
    TextCells,        \* the bytes that are text (UTF-8, one byte a character)
    Statuses,         \* the statuses validStatus lets through
    Digits,           \* the digits of a number, in order
    MaxDigits,        \* how many digits checkLength reads at most
    MaxInt            \* the largest int64

Bytes == 0..(Base - 1)
MethodGet == 1
ContentType == Table[1]
ContentLength == Table[2]
ServerHeader == Table[3]

ASSUME CodecAssumption ==
    /\ Base \in Nat \ {0, 1}
    /\ MaxHeaders = Base - 1
    /\ {MaxPathLen, MaxCustomNameLen, MaxMessage} \subseteq 1..(Base * Base - 1)
    /\ NameCells \subseteq TextCells /\ TextCells \subseteq Bytes
    /\ Table \in Seq(Seq(NameCells)) /\ Len(Table) \in 3..MaxHeaders /\ IsInjective(Table)
    /\ Statuses \subseteq 0..(Base * Base - 1)

VARIABLES
    kind,      \* which decoder runs: "request", "response" or "error"
    payload,   \* what it is given
    at,        \* how much of it the cursor has taken
    stage,     \* the next field, or how decoding ended: "ok", "malformed"
    left,      \* how many headers readHeaders still expects
    entry,     \* the header it is in: its name, and whether it is kept
    msg        \* what has been decoded

codecVars == <<kind, payload, at, stage, left, entry, msg>>

\* A request has a method and a path, a response a status, an error a code and
\* a text.
Message(k, num, text, headers) ==
    [kind |-> k, num |-> num, text |-> text, headers |-> headers]
Header(name, value) == [name |-> name, value |-> value]
NoEntry == [name |-> <<>>, keep |-> FALSE]

-----------------------------------------------------------------------------
(* Encoding *)

\* appendU16 of a conversion to uint16: what does not fit is lost.
Num16(n) == <<(n \div Base) % Base, n % Base>>
Text16(t) == Num16(Len(t)) \o t

InTable(name) == Contains(Table, name)
TableID(name) == CHOOSE i \in DOMAIN Table : Table[i] = name

ValidCustomName(name) ==
    Len(name) \in 1..MaxCustomNameLen /\ Range(name) \subseteq NameCells

EncodedHeader(h) ==
    (IF InTable(h.name) THEN <<TableID(h.name)>> ELSE <<0>> \o Text16(h.name)) \o Text16(h.value)

EncodedHeaders(hs) ==
    <<Len(hs) % Base>> \o FlattenSeq([i \in DOMAIN hs |-> EncodedHeader(hs[i])])

\* Bug: any number of headers is let through.
CountFitsAny(hs) == TRUE

CountFits(hs) == Len(hs) <= MaxHeaders

\* What appendHeaders refuses to build.
HeadersBuildable(hs) ==
    /\ CountFits(hs)
    /\ \A i \in DOMAIN hs :
        Len(hs[i].value) < Base * Base /\ (InTable(hs[i].name) \/ ValidCustomName(hs[i].name))

EncodedRequest(m) == <<m.num>> \o Text16(m.text) \o EncodedHeaders(m.headers)
EncodedResponse(m) == Num16(m.num) \o EncodedHeaders(m.headers)
EncodedError(m) == Num16(m.num) \o Text16(m.text)

Encoded(m) ==
    CASE m.kind = "request" -> EncodedRequest(m)
      [] m.kind = "response" -> EncodedResponse(m)
      [] m.kind = "error" -> EncodedError(m)

PathFits(p) == Len(p) \in 1..MaxPathLen /\ Range(p) \subseteq TextCells

Buildable(m) ==
    /\ m.kind = "request" => m.num = MethodGet /\ PathFits(m.text)
    /\ m.kind = "response" => m.num \in Statuses
    /\ HeadersBuildable(m.headers)
    /\ Len(Encoded(m)) <= MaxMessage

-----------------------------------------------------------------------------
(* Decoding *)

CodecInit(k, p) ==
    /\ kind = k /\ payload = p
    /\ at = 0 /\ stage = "first" /\ left = 0 /\ entry = NoEntry
    /\ msg = Message(k, 0, <<>>, <<>>)

DecodeAgain(k, p) ==
    /\ kind' = k /\ payload' = p
    /\ at' = 0 /\ stage' = "first" /\ left' = 0 /\ entry' = NoEntry
    /\ msg' = Message(k, 0, <<>>, <<>>)

Remaining == Len(payload) - at
Cell(i) == payload[at + i]
U16(i) == Cell(i) * Base + Cell(i + 1)
Part(i, n) == SubSeq(payload, at + i, at + i + n - 1)

\* A field of n cells is taken if it is there and passes its checks, and the
\* message goes on as m; otherwise the payload is malformed.
Field(n, ok, then, m) ==
    /\ IF Remaining >= n /\ ok
       THEN at' = at + n /\ stage' = then /\ msg' = m
       ELSE stage' = "malformed" /\ UNCHANGED <<at, msg>>
    /\ UNCHANGED <<kind, payload>>

ReadMethod ==
    /\ stage = "first" /\ kind = "request"
    /\ Field(1, Cell(1) = MethodGet, "text", [msg EXCEPT !.num = MethodGet])
    /\ UNCHANGED <<left, entry>>

ReadStatus ==
    /\ stage = "first" /\ kind = "response"
    /\ Field(2, U16(1) \in Statuses, "count", [msg EXCEPT !.num = U16(1)])
    /\ UNCHANGED <<left, entry>>

\* The code of an error may be any.
ReadCode ==
    /\ stage = "first" /\ kind = "error"
    /\ Field(2, TRUE, "text", [msg EXCEPT !.num = U16(1)])
    /\ UNCHANGED <<left, entry>>

\* A length and as many cells.
Text(ok, then) ==
    IF Remaining < 2 THEN Field(2, FALSE, "", msg)
    ELSE Field(2 + U16(1), ok, then, [msg EXCEPT !.text = Part(3, U16(1))])

ReadPath ==
    /\ stage = "text" /\ kind = "request"
    /\ Text(PathFits(Part(3, U16(1))), "count")
    /\ UNCHANGED <<left, entry>>

ReadMessage ==
    /\ stage = "text" /\ kind = "error"
    /\ Text(TRUE, "finish")
    /\ UNCHANGED <<left, entry>>

\* Bug: a header is thought to take four cells at least.
LeastHeaderFour == 4

\* The smallest header: an id and an empty value.
LeastHeader == 3

\* A count that cannot fit is refused before anything is allocated.
ReadCount ==
    /\ stage = "count"
    /\ Field(1, Cell(1) * LeastHeader <= Remaining - 1, "name", msg)
    /\ left' = IF Remaining >= 1 THEN Cell(1) ELSE left
    /\ UNCHANGED entry

\* A custom name that is in the table is never handed on ...
Kept(name) == ~InTable(name)

\* ... and a server refuses it, and any name outside the rules.
Allowed(name) ==
    /\ Len(name) \in 1..MaxCustomNameLen
    /\ kind = "request" => ValidCustomName(name) /\ ~InTable(name)

\* The id of the next header, and its name if it is a custom one.
ReadName ==
    /\ stage = "name" /\ left > 0
    /\ IF Remaining < 1 THEN Field(1, FALSE, "", msg) /\ entry' = entry
       ELSE IF Cell(1) # 0
       THEN /\ Field(1, TRUE, "value", msg)
            /\ entry' = IF Cell(1) \in DOMAIN Table
                        THEN [name |-> Table[Cell(1)], keep |-> TRUE] ELSE NoEntry
       ELSE IF Remaining < 3 THEN Field(3, FALSE, "", msg) /\ entry' = entry
       ELSE LET name == Part(4, U16(2)) IN
            /\ Field(3 + U16(2), Allowed(name), "value", msg)
            /\ entry' = IF Remaining < 3 + U16(2) THEN entry
                        ELSE [name |-> name, keep |-> Kept(name)]
    /\ UNCHANGED left

ReadValue ==
    /\ stage = "value"
    /\ IF Remaining < 2 THEN Field(2, FALSE, "", msg)
       ELSE LET h == Header(entry.name, Part(3, U16(1))) IN
            Field(2 + U16(1), TRUE, "name",
                  IF entry.keep THEN [msg EXCEPT !.headers = Append(@, h)] ELSE msg)
    /\ left' = left - 1
    /\ UNCHANGED entry

\* cursor.finish: everything must have been used.
Finish ==
    /\ stage = "finish" \/ (stage = "name" /\ left = 0)
    /\ Field(0, Remaining = 0, "ok", msg)
    /\ UNCHANGED <<left, entry>>

Decode ==
    \/ ReadMethod \/ ReadPath \/ ReadStatus \/ ReadCode \/ ReadMessage
    \/ ReadCount \/ ReadName \/ ReadValue \/ Finish

Decoded == stage \in {"ok", "malformed"}

-----------------------------------------------------------------------------
(* content-length, from a number and back *)

\* strconv.FormatInt: no leading zeros, one digit for zero.
FormatInt(n) ==
    LET b == Len(Digits)
        len == CHOOSE k \in 1..MaxDigits : n < b^k /\ (k = 1 \/ n >= b^(k - 1))
    IN  [i \in 1..len |-> Digits[((n \div b^(len - i)) % b) + 1]]

\* What checkLength looks at before it converts.
LengthReadable(v) == Len(v) \in 1..MaxDigits /\ Range(v) \subseteq Range(Digits)

\* One content-length as checkLength understands it; -1 when it is no number.
ParseLength(v) ==
    LET digit(c) == (CHOOSE i \in DOMAIN Digits : Digits[i] = c) - 1
        n == FoldLeft(LAMBDA sum, c : sum * Len(Digits) + digit(c), 0, v)
    IN  IF LengthReadable(v) /\ n <= MaxInt THEN n ELSE -1

Lengths(hs) ==
    LET ls == SelectSeq(hs, LAMBDA h : h.name = ContentLength)
    IN  [i \in DOMAIN ls |-> ParseLength(ls[i].value)]
=============================================================================
