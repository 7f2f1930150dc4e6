------------------------------ MODULE JsonText ------------------------------
(***************************************************************************)
(* The parser and the printer of src/src/json/cJSON.c, over buffers whose  *)
(* ends they must respect.  A text is a sequence of bytes.  The literals   *)
(* null, true and false are one byte here, and so is a number.             *)
(*                                                                         *)
(* A function of the parser takes and returns a parse_buffer, one of the   *)
(* printer a printbuffer; ok is what the C function returns.               *)
(*                                                                         *)
(* An operator marked "Deviation" is a wrong variant of the one after it.  *)
(***************************************************************************)
EXTENDS Integers, SequencesExt

CONSTANTS
    Documents,      \* values to print, and the texts of which to change and parse
    Alphabet,       \* the bytes that a byte of a text is changed to
    Codes,          \* sequences of UTF-16 codes, to be escaped in a string
    Lengths,        \* sizes of the printer's first buffer
    NestingLimit,   \* CJSON_NESTING_LIMIT
    IntMax,         \* INT_MAX
    Allocations     \* how many allocations succeed

VARIABLES
    job,     \* the call of the application
    result   \* what it returned

vars == <<job, result>>

NUL == 0   Tab == 9   Newline == 10   Space == 32   Quote == 34   Comma == 44
Slash == 47   Digit == 49   Colon == 58   OpenArray == 91   Backslash == 92
CloseArray == 93   n == 110   tab == 116   u == 117   OpenObject == 123   CloseObject == 125
Null == 78
Bom == <<239, 187, 191>>

Value(type, text, names, kids) == [type |-> type, text |-> text, names |-> names, kids |-> kids]
NullItem    == Value("null", <<>>, <<>>, <<>>)
NumberItem  == Value("number", <<>>, <<>>, <<>>)
StringItem(s) == Value("string", s, <<>>, <<>>)
ArrayItem(kids) == Value("array", <<>>, <<>>, kids)
ObjectItem(names, kids) == Value("object", <<>>, names, kids)

\* The blocks of an item, of a list of items: the items, their texts and names.
RECURSIVE Blocks(_), BlocksOf(_)
Blocks(v) == 1 + Len(v.names) + (IF v.type = "string" THEN 1 ELSE 0) + BlocksOf(v.kids)
BlocksOf(vs) == IF vs = <<>> THEN 0 ELSE Blocks(Head(vs)) + BlocksOf(Tail(vs))

-----------------------------------------------------------------------------
(* Parsing.  Offsets count from 0.                                         *)

At(t, i) == t[i + 1]

Failed(p) == [p EXCEPT !.ok = FALSE]
Moved(p, k) == [p EXCEPT !.offset = @ + k]

\* hooks.allocate
Allocate(p) ==
    IF p.left = 0 THEN Failed(p) ELSE [p EXCEPT !.left = @ - 1, !.blocks = @ + 1]

\* buffer_skip_whitespace stops at the end of the text, which is a NUL.
RECURSIVE SkipWhitespace(_, _)
SkipWhitespace(t, p) ==
    IF p.offset < Len(t) /\ At(t, p.offset) <= Space THEN SkipWhitespace(t, Moved(p, 1))
    ELSE IF p.offset = Len(t) THEN Moved(p, -1)
    ELSE p

\* skip_utf8_bom
SkipBom(t, p) == IF 4 < Len(t) /\ SubSeq(t, 1, 3) = Bom THEN Moved(p, 3) ELSE p

HexValue(b) ==
    CASE b \in 48 .. 57 -> b - 48
      [] b \in 65 .. 70 -> b - 55
      [] b \in 97 .. 102 -> b - 87
HexDigits == 48 .. 57 \cup 65 .. 70 \cup 97 .. 102

\* parse_hex4.  What is no hexadecimal number counts as 0.
ParseHex4(t, i) ==
    IF \E k \in 0 .. 3 : At(t, i + k) \notin HexDigits THEN 0
    ELSE 4096 * HexValue(At(t, i)) + 256 * HexValue(At(t, i + 1))
         + 16 * HexValue(At(t, i + 2)) + HexValue(At(t, i + 3))

\* The last k bytes of the encoding of a code point.
RECURSIVE Continuation(_, _)
Continuation(codepoint, k) ==
    IF k = 0 THEN <<>> ELSE Append(Continuation(codepoint \div 64, k - 1), 128 + (codepoint % 64))

EncodeUtf8(codepoint) ==
    CASE codepoint < 128 -> <<codepoint>>
      [] 128 <= codepoint /\ codepoint < 2048 ->
            <<192 + codepoint \div 64>> \o Continuation(codepoint, 1)
      [] 2048 <= codepoint /\ codepoint < 65536 ->
            <<224 + codepoint \div 4096>> \o Continuation(codepoint, 2)
      [] OTHER -> <<240 + codepoint \div 262144>> \o Continuation(codepoint, 3)

Low(code)  == 56320 <= code /\ code <= 57343
High(code) == 55296 <= code /\ code <= 56319

\* utf16_literal_to_utf8 of the text from i to end: how much it reads (0 for an
\* error) and what it writes.
Utf16Literal(t, i, end) ==
    LET first  == ParseHex4(t, i + 2)
        second == ParseHex4(t, i + 8)
    IN  IF end - i < 6 THEN [length |-> 0, bytes |-> <<>>]
        ELSE IF Low(first) THEN [length |-> 0, bytes |-> <<>>]
        ELSE IF ~ High(first) THEN [length |-> 6, bytes |-> EncodeUtf8(first)]
        ELSE IF \/ end - i < 12 \/ At(t, i + 6) # Backslash \/ At(t, i + 7) # u
                \/ ~ Low(second)
        THEN [length |-> 0, bytes |-> <<>>]
        ELSE [length |-> 12,
              bytes  |-> EncodeUtf8(65536 + 1024 * (first % 1024) + (second % 1024))]

\* The letters for control characters; b, f and r are like these.
ControlOf == n :> Newline @@ tab :> Tab

\* The closing quote of a string, from i on, or the end of the text; skipped
\* counts the backslashes on the way.
RECURSIVE InputEnd(_, _, _)
InputEnd(t, i, skipped) ==
    IF i >= Len(t) \/ At(t, i) = Quote THEN <<i, skipped>>
    ELSE IF At(t, i) = Backslash THEN InputEnd(t, i + 2, skipped + 1)
    ELSE InputEnd(t, i + 1, skipped)

\* The bytes from i to end, unescaped: where that stopped, whether it failed
\* there, and the output.
RECURSIVE Unescape(_, _, _, _)
Unescape(t, i, end, output) ==
    LET literal == Utf16Literal(t, i, end)
    IN  IF end <= i THEN [at |-> i, ok |-> TRUE, output |-> output]
        ELSE IF At(t, i) # Backslash THEN Unescape(t, i + 1, end, Append(output, At(t, i)))
        ELSE CASE At(t, i + 1) \in DOMAIN ControlOf ->
                     Unescape(t, i + 2, end, Append(output, ControlOf[At(t, i + 1)]))
               [] At(t, i + 1) \in {Quote, Backslash, Slash} ->
                     Unescape(t, i + 2, end, Append(output, At(t, i + 1)))
               [] At(t, i + 1) = u /\ literal.length # 0 ->
                     Unescape(t, i + literal.length, end, output \o literal.bytes)
               [] OTHER -> [at |-> i, ok |-> FALSE, output |-> output]

\* A string of C ends at its first NUL.
CString(bytes) ==
    IF NUL \in Range(bytes) THEN SubSeq(bytes, 1, SelectInSeq(bytes, LAMBDA b : b = NUL) - 1)
    ELSE bytes

\* parse_string of the bytes from the offset to the quote at end, where skipped
\* of them do not count.  The output has its closing NUL within what was allocated.
UnescapeString(p, end, skipped, s) ==
    LET size == end - p.offset - skipped + 1
    IN  IF ~ s.ok
        THEN [Failed(p) EXCEPT !.offset = s.at, !.blocks = @ - 1, !.fits = @ /\ Len(s.output) <= size]
        ELSE [p EXCEPT !.offset = end + 1, !.value = StringItem(CString(s.output)),
                       !.fits = @ /\ Len(s.output) < size]

ParseString(t, p) ==
    LET start == p.offset + 1
        input == InputEnd(t, start, 0)
    IN  IF At(t, p.offset) # Quote \/ Len(t) <= input[1] \/ ~ Allocate(p).ok
        THEN [Failed(p) EXCEPT !.offset = start]
        ELSE UnescapeString(Allocate(p), input[1], input[2], Unescape(t, start, input[1], <<>>))

\* Deviation: the names of the items are left behind.
AbandonNamed(p, names, kids) ==
    [Failed(p) EXCEPT !.blocks = @ - Blocks(ArrayItem(kids)) + 1]

\* cJSON_Delete of a list, on the way out of a function that fails
Abandon(p, names, kids) ==
    [Failed(p) EXCEPT !.blocks = @ - Blocks(ObjectItem(names, kids)) + 1]

\* parse_value, with parse_number; parse_array and parse_object, of whose elements
\* names and kids are already there, in the steps of their loop: ParseName and
\* ParseElement go on after a name and a value, p being what parsing it returned.
RECURSIVE ParseValue(_, _), ParseElements(_, _, _, _, _), ParseName(_, _, _, _),
          ParseElement(_, _, _, _, _), NextElement(_, _, _, _, _)
ParseValue(t, p) ==
    LET first == At(t, p.offset)
        close == IF first = OpenArray THEN CloseArray ELSE CloseObject
        p1 == SkipWhitespace(t, [Moved(p, 1) EXCEPT !.depth = @ + 1])
        empty == IF first = OpenArray THEN ArrayItem(<<>>) ELSE ObjectItem(<<>>, <<>>)
    IN  CASE first = Null  -> [Moved(p, 1) EXCEPT !.value = NullItem]
          [] first = Digit -> [Moved(p, 1) EXCEPT !.value = NumberItem]
          [] first = Quote -> ParseString(t, p)
          [] first \in {OpenArray, OpenObject} ->
                IF NestingLimit <= p.depth THEN Failed(p)
                ELSE IF At(t, p1.offset) = close
                THEN [Moved(p1, 1) EXCEPT !.value = empty, !.depth = @ - 1]
                ELSE ParseElements(t, p1, close, <<>>, <<>>)
          [] OTHER -> Failed(p)
ParseElements(t, p, close, names, kids) ==
    LET p1 == Allocate(p)
    IN  IF ~ p1.ok THEN Abandon(p1, names, kids)
        ELSE IF close = CloseObject
        THEN ParseName(t, ParseString(t, SkipWhitespace(t, p1)), names, kids)
        ELSE ParseElement(t, ParseValue(t, SkipWhitespace(t, p1)), close, names, kids)
ParseName(t, p, names, kids) ==
    LET p1 == SkipWhitespace(t, p)
        names1 == Append(names, p.value.text)
    IN  IF ~ p.ok THEN Abandon(p, names, Append(kids, NullItem))
        ELSE IF At(t, p1.offset) # Colon THEN Abandon(p1, names1, Append(kids, NullItem))
        ELSE ParseElement(t, ParseValue(t, SkipWhitespace(t, Moved(p1, 1))), CloseObject, names1, kids)
ParseElement(t, p, close, names, kids) ==
    IF ~ p.ok THEN Abandon(p, names, Append(kids, NullItem))
    ELSE NextElement(t, SkipWhitespace(t, p), close, names, Append(kids, p.value))
NextElement(t, p, close, names, kids) ==
    IF At(t, p.offset) = Comma THEN ParseElements(t, Moved(p, 1), close, names, kids)
    ELSE IF At(t, p.offset) # close THEN Abandon(p, names, kids)
    ELSE [Moved(p, 1) EXCEPT !.depth = @ - 1,
             !.value = IF close = CloseArray THEN ArrayItem(kids) ELSE ObjectItem(names, kids)]

\* cJSON_ParseWithOpts, from where parse_value returned p
EndOfText(t, p, require_null_terminated) ==
    LET p1 == IF require_null_terminated THEN SkipWhitespace(t, p) ELSE p
    IN  IF ~ p.ok \/ (require_null_terminated /\ At(t, p1.offset) # NUL)
        THEN [Abandon(p1, <<>>, IF p.ok THEN <<p1.value>> ELSE <<NullItem>>)
                 EXCEPT !.offset = Min({@, Len(t) - 1})]
        ELSE p1

\* cJSON_ParseWithOpts of a text, with the NUL that ends it
Parse(text, left, require_null_terminated) ==
    LET t == Append(text, NUL)
        p == Allocate([offset |-> 0, depth |-> 0, left |-> left, blocks |-> 0,
                       ok |-> TRUE, fits |-> TRUE, value |-> NullItem])
    IN  IF ~ p.ok THEN p
        ELSE EndOfText(t, ParseValue(t, SkipWhitespace(t, SkipBom(t, p))), require_null_terminated)

-----------------------------------------------------------------------------
(* Printing.  out is what the buffer holds, ended whether a NUL follows it. *)

\* ensure that needed bytes follow the offset, and one more.
Ensure(p, needed) ==
    LET total == needed + p.offset + 1
    IN  IF ~ p.ok \/ (0 < p.length /\ p.length <= p.offset) \/ IntMax < needed THEN Failed(p)
        ELSE IF total <= p.length THEN p
        ELSE IF p.noalloc \/ IntMax < total \/ p.left = 0 THEN Failed(p)
        ELSE [p EXCEPT !.left = @ - 1,
                       !.length = IF IntMax \div 2 < total THEN IntMax ELSE 2 * total]

Copied(p, bytes, nul) ==
    IF ~ p.ok THEN p
    ELSE [p EXCEPT !.out = SubSeq(@, 1, p.offset) \o bytes, !.ended = nul,
                   !.fits = @ /\ p.offset + Len(bytes) + (IF nul THEN 1 ELSE 0) <= p.length]

\* The bytes are written at the offset, and after them a NUL if so.
Write(p, needed, bytes, nul) == Copied(Ensure(p, needed), bytes, nul)

\* update_offset goes on to the NUL, so there must be one.
UpdateOffset(p) == [p EXCEPT !.offset = Len(p.out), !.fits = @ /\ (p.ok => p.ended)]

\* Deviation: every escape sequence is taken for one of a letter.
EscapeLetters(b) == IF b \in {Quote, Backslash} \/ b < Space THEN 1 ELSE 0

\* Additional bytes for a byte of a string, as they are counted before.
EscapeCharacters(b) ==
    IF b \in {Quote, Backslash, Newline, Tab} THEN 1 ELSE IF b < Space THEN 5 ELSE 0

HexDigit(k) == IF k < 10 THEN 48 + k ELSE 87 + k

Escaped(b) ==
    CASE b = Newline -> <<Backslash, n>>
      [] b = Tab -> <<Backslash, tab>>
      [] b \in {Quote, Backslash} -> <<Backslash, b>>
      [] b < Space /\ b \notin {Newline, Tab} ->
            <<Backslash, u, 48, 48, HexDigit(b \div 16), HexDigit(b % 16)>>
      [] OTHER -> <<b>>

\* print_string_ptr
PrintString(p, s) ==
    LET output_length == FoldSeq(LAMBDA b, sum : sum + 1 + EscapeCharacters(b), 0, s)
        bytes == FlattenSeq([i \in DOMAIN s |-> Escaped(s[i])])
        q == Write(p, output_length + 3, <<Quote>> \o bytes \o <<Quote>>, TRUE)
    IN  [q EXCEPT !.fits = @ /\ Len(bytes) = output_length]

Tabs(k) == [i \in 1 .. k |-> Tab]

\* print_value, with print_number; print_array and print_object with their loops
\* over the items from number i on.
RECURSIVE PrintValue(_, _), PrintItems(_, _, _), PrintMembers(_, _, _)
PrintValue(p, v) ==
    LET array  == Write(p, 1, <<OpenArray>>, FALSE)
        open   == IF p.format THEN <<OpenObject, Newline>> ELSE <<OpenObject>>
        object == Write(p, Len(open) + 1, open, FALSE)
    IN  CASE v.type = "null"   -> Write(p, 2, <<Null>>, TRUE)
          [] v.type = "number" -> UpdateOffset(Write(p, 2, <<Digit>>, TRUE))
          [] v.type = "string" -> PrintString(p, v.text)
          [] v.type = "array"  -> PrintItems([Moved(array, 1) EXCEPT !.depth = @ + 1], v, 1)
          [] v.type = "object" -> PrintMembers([Moved(object, Len(open)) EXCEPT !.depth = @ + 1], v, 1)
PrintItems(p, v, i) ==
    LET p1 == UpdateOffset(PrintValue(p, v.kids[i]))
        comma == IF p.format THEN <<Comma, Space>> ELSE <<Comma>>
        p2 == Write(p1, Len(comma) + 1, comma, TRUE)
    IN  IF ~ p.ok THEN p
        ELSE IF i > Len(v.kids)
        THEN [Write(p, 2, <<CloseArray>>, TRUE) EXCEPT !.depth = @ - 1]
        ELSE IF i < Len(v.kids) THEN PrintItems(Moved(p2, Len(comma)), v, i + 1)
        ELSE PrintItems(p1, v, i + 1)
PrintMembers(p, v, i) ==
    LET p1 == IF p.format THEN Moved(Write(p, p.depth, Tabs(p.depth), FALSE), p.depth) ELSE p
        p2 == UpdateOffset(PrintString(p1, v.names[i]))
        colon == IF p.format THEN <<Colon, Tab>> ELSE <<Colon>>
        p3 == Moved(Write(p2, Len(colon), colon, FALSE), Len(colon))
        p4 == UpdateOffset(PrintValue(p3, v.kids[i]))
        comma == (IF i < Len(v.kids) THEN <<Comma>> ELSE <<>>)
                 \o (IF p.format THEN <<Newline>> ELSE <<>>)
        p5 == Moved(Write(p4, Len(comma) + 1, comma, TRUE), Len(comma))
        close == (IF p.format THEN Tabs(p.depth - 1) ELSE <<>>) \o <<CloseObject>>
    IN  IF ~ p.ok THEN p
        ELSE IF i > Len(v.kids)
        THEN [Write(p, IF p.format THEN p.depth + 1 ELSE 2, close, TRUE) EXCEPT !.depth = @ - 1]
        ELSE PrintMembers(p5, v, i + 1)

\* cJSON_PrintPreallocated (noalloc), cJSON_PrintBuffered; print adds a last
\* allocation, of the size of the text.
Render(v, format, noalloc, length, left) ==
    PrintValue([length |-> length, offset |-> 0, out |-> <<>>, ended |-> TRUE, depth |-> 0,
                noalloc |-> noalloc, format |-> format, left |-> left, ok |-> TRUE, fits |-> TRUE], v)

-----------------------------------------------------------------------------
(* A call of the application, and its result.                              *)

Pending == [call |-> "pending"]

\* The texts with one byte removed, replaced or inserted.
Edited(t) ==
    {RemoveAt(t, i) : i \in DOMAIN t}
    \cup {ReplaceAt(t, i, b) : i \in DOMAIN t, b \in Alphabet}
    \cup {InsertAt(t, i, b) : i \in 1 .. Len(t) + 1, b \in Alphabet}

\* Two numbers that are one, as a number is one byte here; an escape sequence that
\* lacks hexadecimal digits, which counts as a NUL.
Excluded(t) ==
    \E i \in 1 .. Len(t) - 1 :
        \/ t[i] = Digit /\ t[i + 1] = Digit
        \/ /\ t[i] = Backslash /\ t[i + 1] = u
           /\ ~ Range(SubSeq(t, i + 2, Min({i + 5, Len(t)}))) \subseteq HexDigits

Printed == {Render(v, format, FALSE, 1, 100).out : v \in Documents, format \in BOOLEAN}

Texts == {t \in Printed \cup UNION {Edited(t) : t \in Printed} : ~ Excluded(t)}

\* A string of escape sequences.
Escapes(codes) ==
    LET hex(c) == <<HexDigit(c \div 4096), HexDigit((c \div 256) % 16),
                    HexDigit((c \div 16) % 16), HexDigit(c % 16)>>
    IN  <<Quote>> \o FlattenSeq([i \in DOMAIN codes |-> <<Backslash, u>> \o hex(codes[i])]) \o <<Quote>>

Init ==
    /\ \/ job \in [call : {"unescape"}, codes : Codes]
       \/ job \in [call : {"parse"}, text : Texts, left : Allocations, require : BOOLEAN]
       \/ job \in [call : {"print"}, value : Documents, format : BOOLEAN, noalloc : BOOLEAN,
                   length : Lengths, left : Allocations]
    /\ result = Pending

CallParse ==
    /\ job.call = "parse" /\ result = Pending
    /\ result' = [call |-> "parse", p |-> Parse(job.text, job.left, job.require)]
    /\ UNCHANGED job

CallUnescape ==
    /\ job.call = "unescape" /\ result = Pending
    /\ result' = [call |-> "unescape", p |-> Parse(Escapes(job.codes), 2, TRUE)]
    /\ UNCHANGED job

CallPrint ==
    /\ job.call = "print" /\ result = Pending
    /\ result' = [call |-> "print",
                  p |-> Render(job.value, job.format, job.noalloc, job.length, job.left)]
    /\ UNCHANGED job

Next == CallParse \/ CallUnescape \/ CallPrint

Spec == Init /\ [][Next]_vars

-----------------------------------------------------------------------------
(* What a text of JSON is.                                                 *)

S == 1  \* a string
V == 2  \* another value

\* The strings of a text, whitespace left out.
ClosingQuotes(t) ==
    {k \in 2 .. Len(t) : t[k] = Quote /\ InputEnd(Append(t, NUL), 1, 0)[1] = k - 1}

\* Every escape sequence of a string is one of the grammar's.
RECURSIVE WellEscaped(_)
WellEscaped(s) ==
    \/ s = <<>>
    \/ s[1] # Backslash /\ WellEscaped(Tail(s))
    \/ /\ s[1] = Backslash /\ 2 <= Len(s)
       /\ \/ /\ s[2] \in {n, tab, Quote, Backslash, Slash}
             /\ WellEscaped(SubSeq(s, 3, Len(s)))
          \/ /\ s[2] = u /\ 6 <= Len(s) /\ Range(SubSeq(s, 3, 6)) \subseteq HexDigits
             /\ WellEscaped(SubSeq(s, 7, Len(s)))

RECURSIVE Tokens(_)
Tokens(t) ==
    IF t = <<>> THEN <<>>
    ELSE IF Head(t) <= Space THEN Tokens(Tail(t))
    ELSE IF Head(t) # Quote THEN <<Head(t)>> \o Tokens(Tail(t))
    ELSE IF ClosingQuotes(t) = {} THEN t
    ELSE LET k == Min(ClosingQuotes(t))
         IN  (IF WellEscaped(SubSeq(t, 2, k - 1)) THEN <<S>> ELSE <<Quote>>)
             \o Tokens(SubSeq(t, k + 1, Len(t)))

Element == {S, V}
Rules ==
    {<< <<Null>>, <<V>> >>, << <<Digit>>, <<V>> >>,
     << <<OpenArray, CloseArray>>, <<V>> >>, << <<OpenObject, CloseObject>>, <<V>> >>}
    \cup UNION {{<< <<OpenArray, x, CloseArray>>, <<V>> >>,
                << <<OpenObject, S, Colon, x, CloseObject>>, <<V>> >>,
                << <<OpenObject, S, Colon, x, Comma, S, Colon>>, <<OpenObject, S, Colon>> >>} : x \in Element}
    \cup {<< <<OpenArray, x, Comma, y>>, <<OpenArray, y>> >> : x \in Element, y \in Element}

Uses(ts) ==
    {use \in Rules \X DOMAIN ts :
        LET end == use[2] + Len(use[1][1]) - 1
        IN  end <= Len(ts) /\ SubSeq(ts, use[2], end) = use[1][1]}

RECURSIVE Reduced(_)
Reduced(ts) ==
    IF Uses(ts) = {} THEN ts
    ELSE LET use == CHOOSE use \in Uses(ts) : TRUE
         IN  Reduced(ReplaceSubSeqAt(use[2], use[1][2], use[1][1], ts))

Nesting(ts) ==
    LET depth[i \in 0 .. Len(ts)] ==
            IF i = 0 THEN 0
            ELSE depth[i - 1] + (IF ts[i] \in {OpenArray, OpenObject} THEN 1
                                 ELSE IF ts[i] \in {CloseArray, CloseObject} THEN -1 ELSE 0)
    IN  Max({depth[i] : i \in 0 .. Len(ts)})

IsJson(text) ==
    LET ts == Tokens(text)
    IN  Reduced(ts) \in {<<S>>, <<V>>} /\ Nesting(ts) <= NestingLimit

\* cJSON_Parse accepts the texts that are JSON, or begin with it unless it is to
\* be followed by nothing; it reads no byte past the end, and when it fails it
\* has freed whatever it had allocated, wherever that was.
ParsesJson ==
    result.call = "parse" =>
        LET p == result.p
            accepted == IF job.require THEN IsJson(job.text)
                        ELSE \E k \in 1 .. Len(job.text) : IsJson(SubSeq(job.text, 1, k))
        IN  /\ p.ok => accepted /\ p.blocks = Blocks(p.value)
            /\ ~ p.ok => p.blocks = 0 /\ (accepted => p.left = 0)
            /\ p.fits /\ p.offset \in 0 .. Len(job.text)

\* The code points of well-formed UTF-16; of UTF-8.
RECURSIVE Utf16Points(_), Utf8Points(_)
Utf16Points(codes) ==
    IF codes = <<>> THEN <<>>
    ELSE IF ~ High(codes[1]) THEN <<codes[1]>> \o Utf16Points(Tail(codes))
    ELSE <<65536 + (codes[1] - 55296) * 1024 + (codes[2] - 56320)>>
         \o Utf16Points(SubSeq(codes, 3, Len(codes)))
Utf8Points(bytes) ==
    LET first == bytes[1]
        length == IF first < 128 THEN 1 ELSE IF first < 224 THEN 2 ELSE IF first < 240 THEN 3 ELSE 4
        mark == <<0, 192, 224, 240>>[length]
    IN  IF bytes = <<>> THEN <<>>
        ELSE <<FoldLeft(LAMBDA sum, b : 64 * sum + (b - 128), first - mark, SubSeq(bytes, 2, length))>>
             \o Utf8Points(SubSeq(bytes, length + 1, Len(bytes)))

\* Every half of a pair has its other half.
WellFormed(codes) ==
    \A i \in DOMAIN codes :
        /\ High(codes[i]) => i + 1 \in DOMAIN codes /\ Low(codes[i + 1])
        /\ Low(codes[i])  => i - 1 \in DOMAIN codes /\ High(codes[i - 1])

\* A string of escape sequences denotes the code points of the UTF-16 it spells,
\* at the boundaries of the encodings and across surrogate pairs; spelled wrong it
\* is refused (utf16_literal_to_utf8).
DecodesUtf16 ==
    result.call = "unescape" =>
        /\ result.p.ok <=> WellFormed(job.codes)
        /\ result.p.ok => Utf8Points(result.p.value.text) = Utf16Points(job.codes)
        /\ result.p.fits

\* The text that cJSON_Print makes of a value is parsed as that value, unless it
\* is nested too deeply.
PrintsWhatParses ==
    result.call = "print" /\ result.p.ok /\ Nesting(Tokens(result.p.out)) <= NestingLimit =>
        \E p \in {Parse(result.p.out, 100, TRUE)} : p.ok /\ p.value = job.value

\* The printer writes nothing past the end of its buffer, and only a buffer that
\* is too small makes it fail (cJSON.h: "to be safe allocate 5 bytes more than
\* you actually need").
OutputFits ==
    result.call = "print" =>
        LET p == result.p
            needed == Len(Render(job.value, job.format, FALSE, 1, 100).out) + 1
        IN  /\ p.fits
            /\ p.noalloc /\ needed + 5 <= job.length => p.ok
            /\ ~ p.noalloc /\ needed + 5 <= IntMax => p.ok \/ p.left = 0
=============================================================================
