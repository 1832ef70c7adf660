------------------------------ MODULE RequestUrl ------------------------------
(***************************************************************************)
(* How a pattern travels from the page to the server: encodeURIComponent   *)
(* of the browser and fetch of fa-drawing/app.js on one side; main,        *)
(* parseGETParams and decodeURI of fa-drawing/server.cpp on the other.     *)
(* Texts are sequences of bytes; the words of a request that no byte of    *)
(* their own matters of are one byte each, above 255.                      *)
(***************************************************************************)
EXTENDS Integers, Sequences, SequencesExt

PercentSign == 37
Space     == 32
Plus      == 43
Ampersand == 38
Equals    == 61
Question  == 63
Slash     == 47

Word == [GET |-> 256, generate |-> 257, endpoint |-> 258, pattern |-> 259, type |-> 260, full |-> 261, HTTP |-> 262]

\* The digits of a byte in ASCII, and their values: a letter may be small.
HexDigits == 48 .. 57 \cup 65 .. 70 \cup 97 .. 102
HexDigit(v) == IF v < 10 THEN 48 + v ELSE 55 + v
HexToValue(c) == CASE c <= 57 -> c - 48
                   [] c \in 65 .. 70 -> c - 55
                   [] OTHER -> c - 87

-----------------------------------------------------------------------------
(* The page.                                                               *)

\* encodeURIComponent: letters, digits and -_.!~*'() stand for themselves.
Unreserved == 48 .. 57 \cup 65 .. 90 \cup 97 .. 122 \cup {45, 95, 46, 33, 126, 42, 39, 40, 41}
EncodeURIComponent(text) ==
    FlattenSeq([i \in DOMAIN text |->
        IF text[i] \in Unreserved THEN <<text[i]>>
        ELSE <<PercentSign, HexDigit(text[i] \div 16), HexDigit(text[i] % 16)>>])

\* The request that fetchAndDraw sends.
RequestLine(pattern) ==
    <<Word.GET, Space, Slash, Word.generate, Question, Word.pattern, Equals>> \o EncodeURIComponent(pattern)
    \o <<Ampersand, Word.type, Equals, Word.full, Space, Word.HTTP>>

-----------------------------------------------------------------------------
(* The server.                                                             *)

IndexOf(text, byte) == SelectInSeq(text, LAMBDA b : b = byte)
Behind(text, i) == SubSeq(text, i + 1, Len(text))
Before(text, i) == SubSeq(text, 1, i - 1)

\* main: what stands between the first two spaces.
Url(request) ==
    LET rest == Behind(request, IndexOf(request, Space))
    IN  Before(rest, IndexOf(rest, Space))

\* getline: the items between the ampersands.
Items(query) ==
    FoldLeft(LAMBDA items, b : IF b = Ampersand THEN Append(items, << >>)
                               ELSE [items EXCEPT ![Len(items)] = Append(@, b)],
             << << >> >>, query)

\* parseGETParams: of two items with one name the later counts, and the path is
\* the last one of all.  Without a question mark there are none.
ParseGETParams(url) ==
    LET mark == IndexOf(url, Question)
        items == SelectSeq(Items(Behind(url, mark)), LAMBDA item : IndexOf(item, Equals) # 0)
        add(params, item) ==
          [name \in DOMAIN params \cup {Before(item, IndexOf(item, Equals))} |->
              IF name = Before(item, IndexOf(item, Equals)) THEN Behind(item, IndexOf(item, Equals))
              ELSE params[name]]
        params == FoldLeft(add, << >>, items)
    IN  IF mark = 0 THEN << >>
        ELSE [name \in DOMAIN params \cup {<<Word.endpoint>>} |->
                IF name = <<Word.endpoint>> THEN SubSeq(url, 2, mark - 1) ELSE params[name]]

\* A deliberate mistake: the last escape of a value is overlooked.
DecodeURIShort(value) ==
    LET decoded[i \in 1 .. Len(value) + 3] ==
          CASE i > Len(value) -> << >>
            [] i + 2 < Len(value) /\ value[i] = PercentSign /\ {value[i + 1], value[i + 2]} \subseteq HexDigits ->
                  <<16 * HexToValue(value[i + 1]) + HexToValue(value[i + 2])>> \o decoded[i + 3]
            [] OTHER -> <<value[i]>> \o decoded[i + 1]
    IN  decoded[1]

\* decodeURI: a percent sign that two digits do not follow stands for itself.
DecodeURI(value) ==
    LET escapeAt(i) == /\ i + 2 <= Len(value)
                       /\ value[i] = PercentSign
                       /\ {value[i + 1], value[i + 2]} \subseteq HexDigits
        decoded[i \in 1 .. Len(value) + 3] ==
          IF i > Len(value) THEN << >>
          ELSE IF escapeAt(i) THEN <<16 * HexToValue(value[i + 1]) + HexToValue(value[i + 2])>> \o decoded[i + 3]
          ELSE <<IF value[i] = Plus THEN Space ELSE value[i]>> \o decoded[i + 1]
    IN  decoded[1]
=============================================================================
