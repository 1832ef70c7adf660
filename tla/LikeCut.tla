------------------------------- MODULE LikeCut -------------------------------
(***************************************************************************)
(* Every pattern and text up to a length, grown one byte at a time, to     *)
(* compare what splitIntoSubpatterns and likePatternToRegex make of a      *)
(* pattern with what LIKE means by it, and what arrives of a pattern at    *)
(* the server with what was sent.                                          *)
(***************************************************************************)
EXTENDS VectorscanRegex, RequestUrl

CONSTANTS
    PatternBytes, MaxPattern,  \* patterns: bytes and longest length
    TextBytes, MaxText,        \* texts: bytes and longest length
    UrlBytes                   \* bytes that mean something in a URL

ASSUME BytesAssumption ==
    PatternBytes \subseteq 0 .. 255 /\ TextBytes \subseteq 0 .. 255 /\ MaxPattern \in Nat \ {0}

VARIABLES p, s

vars == <<p, s>>

Init == p \in {<<b>> : b \in PatternBytes} /\ s = << >>

ExtendPattern ==
    /\ s = << >>
    /\ Len(p) < MaxPattern
    /\ \E b \in PatternBytes : p' = Append(p, b)
    /\ UNCHANGED s

ExtendText ==
    /\ Len(s) < MaxText
    /\ \E b \in TextBytes : s' = Append(s, b)
    /\ UNCHANGED p

Next == ExtendPattern \/ ExtendText
Spec == Init /\ [][Next]_vars

-----------------------------------------------------------------------------
\* The number of bytes an escape takes away: is the byte at i escaped?
EscapedAt(i) ==
    LET escaped[j \in 0 .. Len(p)] ==
          j > 1 /\ p[j - 1] = Backslash /\ ~escaped[j - 1]
    IN  escaped[i]

HasPercent == \E i \in 1 .. Len(p) : p[i] = Percent /\ ~EscapedAt(i)

\* A wildcard behind an escaped backslash: the code looks only one byte back.
BehindBackslash == \E i \in 2 .. Len(p) : p[i] \in Wildcards /\ p[i - 1] = Backslash /\ ~EscapedAt(i)

Supported == WellFormedPattern(p) /\ HasPercent /\ Implemented(SplitIntoSubpatterns(p))

\* A pattern with a percent sign means what its parts mean: the text begins
\* with the start part, ends with the end part, and holds the middle parts in
\* their order between the two.
CutMeansLike == (Supported /\ ~BehindBackslash) => (PartsMatch(SplitIntoSubpatterns(p), s) = Like(p, s))

\* The same without the exception, of every pattern in which no underscore
\* stands for a byte: percent signs behind an escaped backslash included.
EveryCutMeansLike ==
    (Supported /\ \A i \in 1 .. Len(p) : p[i] = Underscore => EscapedAt(i)) =>
        (PartsMatch(SplitIntoSubpatterns(p), s) = Like(p, s))

\* An underscore directly behind a backslash, at the end or in front of a
\* percent sign: the last byte of its part.
LastBehindBackslash(i) == i > 1 /\ p[i - 1] = Backslash /\ (i = Len(p) \/ p[i + 1] = Percent)

\* A pattern with an underscore that no backslash escapes is refused, wherever
\* the underscore stands and whatever stands around it: among the wildcards at
\* the ends of a part, between its literals, behind an escaped backslash.  The
\* code has one gap: the last byte of a part, behind an escaped backslash.
UnderscoresAreRefused ==
    (WellFormedPattern(p) /\ Implemented(SplitIntoSubpatterns(p))) =>
        \A i \in 1 .. Len(p) : (p[i] = Underscore /\ ~EscapedAt(i)) => LastBehindBackslash(i)


\* Two of the exceptions of the regular expressions: a letter or digit that is
\* escaped, and an escaped percent sign at the end, which loses the anchor.
EscapedLetter == \E i \in 2 .. Len(p) : EscapedAt(i) /\ IsAlphanumeric(p[i])
EscapedPercentEnds == p[Len(p)] = Percent /\ EscapedAt(Len(p))

\* The matcher of the benchmarks means the same by a pattern as LIKE does,
\* underscores and escaped wildcards included, whichever percent signs are
\* dropped at its ends for the sake of an anchor; it refuses only a pattern
\* of nothing else.
RegexMeansLike ==
    (WellFormedPattern(p) /\ ~EscapedLetter /\ ~EscapedPercentEnds) =>
        LET regex == LikePatternToRegex(p)
        IN  IF \A i \in 1 .. Len(p) : p[i] = Percent THEN regex = Refused
            ELSE regex # Refused /\ (RegexMatches(regex, s) = Like(p, s))

\* A pattern consists of percent signs, which are what a URL escapes bytes
\* with, and the page has to escape every one of them: the server gets the
\* pattern that was typed, and its name and the endpoint are found, whatever
\* bytes of the language of URLs stand in the pattern.
UrlKeepsPattern ==
    s = << >> =>
        \A b \in UrlBytes :
            LET typed == [i \in DOMAIN p |-> IF p[i] \in Wildcards \cup {Backslash} THEN p[i] ELSE b]
                params == ParseGETParams(Url(RequestLine(typed)))
            IN  /\ DecodeURI(params[<<Word.pattern>>]) = typed
                /\ params[<<Word.endpoint>>] = <<Word.generate>>
=============================================================================
