# FSST LIKE matching in TLA+

This directory holds a verification project for *FSST-LIKE-Matching*: a C++
program that evaluates SQL `LIKE` patterns directly on strings compressed with
FSST, without decompressing them. The project consists of TLA+ modules that model
the program's own logic, TLC configurations that check them on small instances,
and theorems that TLAPS proves for all instances. Paths below are relative to the
root of the repository (`src/` and `include/` directories).

1. [The system](#1-the-system)
2. [The modules](#2-the-modules)
3. [What the runs check](#3-what-the-runs-check)
4. [What is proved](#4-what-is-proved)
5. [Where the code disagrees with itself](#5-where-the-code-disagrees-with-itself)
6. [What is not modelled, and the plan](#6-what-is-not-modelled-and-the-plan)

## 1. The system

FSST replaces substrings of a text by one-byte codes of a *symbol table* of up to
255 symbols of 1 to 8 bytes. The code 255 is the *escape*: the byte behind it
stands for itself. A LIKE pattern is turned into automata whose transitions are
labelled with codes; a part of a pattern may begin and end in the middle of
symbols, and that is where all the difficulty lies.

| Component | Source | State | Operations | What makes it correct |
|---|---|---|---|---|
| Symbol table, encoder | `src/encoder.cpp` | symbols, escapable bytes; never changes | which codes end with, contain, or equal a prefix of a string; `isEncodingValid` | the queries say exactly which symbols can cover which part of a pattern |
| Automaton states | `src/automata.cpp` | a heap of states: transitions, end transition, `endIdx`, `level` | add, copy and follow transitions | a state never gets two transitions on one byte; an end state leads to what comes next, not to itself |
| Start automaton | `src/percentage.cpp:29` | the automaton of `abc%` | `constructPrefixAutomaton` | accepts exactly the compressed texts that begin with the part |
| End automaton | `src/percentage.cpp:190` | the automaton of `%abc`, walked backwards | `constructSuffixAutomaton`, `initialisePseudoEnds` | finds the code and the byte in it where the end of the text begins |
| Middle automaton | `src/percentage.cpp:254-571`, `src/common.cpp`, `src/pattern.cpp:169` | the automaton of `%abc%` with its starts, one per offset in a code | copy per start, integrate containing symbols, split starts, link starts, escape states, fallbacks (as in Knuth-Morris-Pratt), levels | finds the *first* occurrence behind the part in front, also across and inside symbols |
| Pattern cutting | `src/pattern.cpp:25-157` | none | `splitIntoSubpatterns`, `createPattern` | the parts together mean what the pattern means |
| Pattern automaton | `src/like_pattern_automaton.cpp:26-203` | two buffers of temporary starts used in turn; the two tables | `build`; `AutomatonTable` | tables are closed: no row leads to a state of a cleared buffer |
| Matcher | `include/like_pattern_automaton.hpp:86`, `src/like_pattern_automaton.cpp:205` | the state and the index of each walk | `parse<false>`, `parse<true>`, `parse` | answers what LIKE says of the text; reads inside the string |
| Parallel scan | `benchmark/measure_multithreaded.cpp` | two atomics, one local count per thread | claim, scan, add; spawn and join | every element counted once; the total read when it is complete |
| Code generators | `src/codegen/` | of the code they emit: index and state of each walk | emit C++ or LLVM IR: length check, comparison of the fixed ends, backward and forward function | the same answers as LIKE; loads inside the string or one byte beside it; the trap is unreachable |
| Hybrid search | `include/hybrid_string_search.hpp` | the compiled program; of a call: two pointers, the bytes still needed | `buildMatcher`; compare or walk the ends, search each middle part with vector blocks or the two-way search, resume behind a mismatch | the first occurrence of each needle; no shift passes over one; the same answers as LIKE by code points |
| Vectorscan | `src/vectorscan.cpp` | the compiled expression | pattern to regular expression; scan | the expression means what the pattern means |
| Data files | `src/utils.cpp`, `SymbolTable::readFromFile` | the text file, three binary files per column | read a text column; dump a binary one over an older one; get an element | what was dumped completely is read back, whatever stands behind it |
| Drawing server | `fa-drawing/server.cpp` | its connection; the files of the columns; a source and a library in its directory | accept, read, answer, close; `compress`, `generate`, `codegen` | an answer says the truth about the files; every connection ends |
| Serializer | `src/serializer.cpp` | none | three automata to bytes | a reader finds every state, pointer and level where it looks |
| Drawing client | `fa-drawing/app.js` | the automaton that was read | read, translate pointers, prune, label, draw | the drawing is the automaton of the server; its labels are right |
| Benchmarks | `benchmark/measure_singlethreaded.cpp`, `measure_decoding.cpp` | none | timing loops | not modelled |

**Interaction.** `Pattern::splitIntoSubpatterns` cuts the pattern into an optional
start part, middle parts and an optional end part. `LikePatternAutomaton::build`
then constructs their automata from the *last* middle part to the first and the
start part in front of them, since a part's accepting transitions must lead to
what the next part's starts lead to. `LikePatternAutomatonParser` numbers the states
reached and packs them into two tables, and `parse` walks the backward table
from the end of the string and then the forward table up to where the match of the end begins. The
parallel scan only ever calls `parse`, which writes nothing shared.

The drawing tool is a second program around the same automata. The page asks the server to compress
a text file, which leaves three files; to build and serialise the automaton of a pattern
from the stored symbol table, which the page then draws; or to generate the code of its
matcher. The benchmarks read the same three files.

**What is hard here.** There is little concurrency; there is much
pointer surgery whose correctness depends on the order of phases and on
coincidences between symbols and patterns:

* shared sub-automata that are extended in place, copied only when a symbol leads
  to more than one of them, and walked in the order of a hash map;
* temporary starts in two alternating buffers, one of which is cleared while
  the automaton built against the other is still being connected;
* bytes that are codes or literals depending on the byte in front, walked
  backwards;
* unsigned arithmetic on levels and indices that wraps;
* loop bounds derived from those levels instead of from the string's length;
* threads that share an atomic index;
* files that are written over older ones without truncating them, by writes whose results nobody
  looks at, in a process that any exception may end;
* one compiler, one source and one library in one directory for all requests;
* a binary format that two programs in two languages know by heart.

Every such place is a row of `hazards` in `PROJECT.json` with its line and
with the properties that would catch it going wrong, or, for the few that no property
covers, the reason; section 6 lists those.

## 2. The modules

```
Outcomes                   the states that end a walk; numbers as the code stores them
Fsst                       symbol tables, the compressor and decoder, the encoder's queries
 └ Automaton               the heap of states                 (extends Outcomes, too)
    ├ PrefixAutomaton      start part; also the cached sub-automata of a middle part
    │  └ MiddleAutomaton   middle part
    └ SuffixAutomaton      end part
LikePattern                the pattern, cut into parts; the meaning of LIKE
LikeAutomaton              build(), and the tables             (extends all above)
ParserTables               any tables: when they are sound, what they say of a string   (extends Outcomes)
 ├ ParserTablesProofs      lemmas about the walks that tables describe
 ├ TableParse              the matcher, for any tables         (state machine)
 │  ├ MCTableParse         all small tables
 │  └ TableParseProofs     theorems about the matcher, for any tables
 ├ CompiledParse           the generated matchers, for any automata   (state machine)
 │  └ CompiledParseProofs  theorems about them: types, the trap, places, the answer   (extends ParserTablesProofs, too)
 └ LikeInstance            the tables of patterns and symbol tables   (extends LikeAutomaton, too)
    ├ LikeInstances        the values of the two instances
    ├ LikeMatch            LikeInstance and TableParse: LIKE by the table-driven matcher
    │  └ MCLikeMatch       instance
    └ CompiledMatch        LikeInstance and CompiledParse: LIKE by the generated matchers
       └ MCCompiledMatch   instance
TwoWay                     preparation of a needle: its cut and its period
 └ HybridSearch            one call of the search               (state machine)
    └ LikeProgram          LIKE over decompressed text, around HybridSearch
       ├ MCLikeProgram     instances
       └ LikeProgramProofs  theorems about the search and the matcher around it
          └ LikeAnswerProofs  theorems about its answer
MatcherProgram             the program a pattern is compiled to  (used by LikeProgram)
VectorscanRegex            the regular expression of a pattern  (extends LikePattern)
RequestUrl                 a pattern on its way to the drawing server
 └ LikeCut                 LikePattern and both of these, over all patterns and texts, grown byte by byte
    ├ MCLikeCut            instances: all short patterns
    └ LikeCutProofs        theorems about the parts and the expression of a pattern
CountMatches               what a scan promises                (abstract)
BatchScan                  the threads of the scan             (state machine)
 ├ MCBatchScan             instance
 └ BatchScanProofs         theorems
ColumnFile                 the files of a column: their cells, writing over one, reading one
 └ DrawingServer           the server, its clients, files and failures  (state machine; extends Fsst)
    ├ MCDrawingServer      instance
    └ DrawingServerProofs  theorems
Serializer                 automata to fields                  (extends LikeAutomaton)
 └ Drawing                 build, serialise, read and prune    (state machine; instantiates DrawingClient)
    └ MCDrawing            instances
DrawingClient              fields to a drawing
```

**Automata as operators.** Construction is a sequential program without
interference, so it is a chain of operators on a heap
`h` (`Automaton.tla`): a record of the allocated states, where pointers are
numbers. Each C++ function that changes states is an operator
that returns the changed heap: `AddTransition`, `ConstructPrefixAutomaton`,
`IntegrateSymbolsContainingPattern`, `SplitStarts`, `LinkStarts`,
`ConstructFallbackTransitions`, `ReverseBreadthFirstSearch`, and so on, by their names in
the code; the order in which `CreateMiddleAutomaton` applies them is the order of
`StringPattern::createMiddleAutomaton`. The field `clash` of the heap is a
history variable: it becomes true when `State::addTransition` is called for a
byte that has a transition, which is what the assertion of that function
forbids. Loops over an `unordered_map` take an order as a parameter (`desc`);
two orders, ascending and descending, are checked.

**The matcher as a state machine.** `TableParse` has one action per iteration of the
two loops and one per branch around them. A row of the table is `P.next[state]`.
The index is a signed integer; the sums that the loop conditions form are
computed modulo `LevelRange` as in the code, where `int64_t` and `size_t` are
mixed. Reading a byte outside the string is not forbidden but yields *any* byte
of the constant `Outside`, since the neighbouring bytes belong to other strings of
the same buffer. `TableParse` knows nothing of patterns: tables and strings are
constants of `ParserTables`, and what the matchers need of them is written out there, in `Closed`,
`LooksOneByteAhead`, `LevelsAreFinite` and `LevelsAreHonest`. `LikeMatch` puts it together with the
tables that `LikeAutomaton` builds, so that its run checks both that those tables
satisfy the assumptions (`TablesAreSound`) and that the answers are right. The constants `Parsers`
and `Input` must equal `ParserOf` and `InputOf` of `LikeInstance` (`ConstantsAssumption`): as
constants they are computed once, since building the automata is the expensive part.

`Verdict` in `ParserTables` is what the tables of a parser say of a string, without the matcher's loops:
the backward walk over the string comes to a match of the end, and the forward walk over what is in front of that match to one of the beginning. Both
matchers are checked and proved to return it (`ReturnsVerdict`); that it is LIKE's answer for the tables of a pattern is `MatchesDecompressed`.

**The generated matchers as a state machine.** `CompiledParse` is the function that the
compilers emit, not the compilers' emitting of it. Both compilers emit the same
control, so that one definition stands for both and `map` names the file whose lines
it was taken from. They differ where the variable `llvm` decides: the C++ code
compares levels as unsigned numbers (`CppLoopGoesOn`, `CppBackwardGoesOn`), the LLVM code
as signed ones, and at a byte without a case the LLVM code traps and the C++ code
stays (`LeaveAt`). `simd` says whether vector instructions were allowed; a middle start with
at most `Block` transitions that lead somewhere then skips a block at a time.
`Block` is 16 in the code. The code's variable for the level is `LevelOf(state)`: the one
place where the C++ code does not update it is the error state, in which it
returns `false` either way. Its variable for the byte in front is that byte of the string,
or any byte when nothing of the string is in front. The switch behind the
backward loop is kept (`BackwardStop`) although a state with an `endIdx` has level
0 and leaves the loop only by reading on.

**The search on decompressed text.** A database that does not match on compressed text
decompresses it and runs `HSSDecodedMatcher`. `MatcherProgram` is `buildMatcher` with the two
functions that write the program; the packed program is a record. `LikeProgram`
is both matchers, chosen by the field `underscores`: `likeProgramImpl` compares the ends with one
`memcmp` each (`PrefixEqual`, `SuffixEqual`), `likeProgramWithUnderscores` walks them
by code points (`WalkPrefix`, `WalkSuffix`). From the state `next` on they share their actions,
since a part without underscores is searched alike in both. An action is one iteration of a
loop or one branch around the loops. The pointers are indices into the text.

`HybridSearch` is the call of `hybridStringSearch`, with variables of its own for
the arguments. One action compares a whole window or looks at a whole block; the
inner loops, which stop at the first difference, are sets of differences
(`RightDiffers`, `LeftDiffers`). The two loops of `twoWaySearchImpl` (`:117` and `:138`) are
one: without `equal` the first is the second with `lastPtr` always -1.
`FirstInBlock` is what `_mm_cmpistri` does in the mode used: the first position at which the
needle, or as much of it as the block still holds, begins. Left out are the implicit
length of that instruction, which ends a needle or a text at a zero byte, and the test for an
empty needle in `twoWaySearch` (`:204`), which no caller meets: `buildMatcher` drops empty middle
parts, and a part of nothing but underscores is not searched (`OnlyUnderscores`).

**The scan as a state machine.** `BatchScan` has one action per access to a shared
atomic or per element, per thread. The four `Run` functions (interpreted, C++
code, LLVM code, decompress and search) are the same loop around different matchers and
are one module; the matcher is the constant set `Matches`.

**The server as a state machine.** `DrawingServer` has one action per system call, or per
computation between two of them, and `pc` is where `main` and its handlers are. A client connects and
sends the first piece of its request (`Connect`), sends the next (`Deliver`) and may leave (`Leave`);
a request line is whole when all its `segments` have been read by the one `read`. The compress handler
is `ReadColumn`, then twice `OpenDump`, `Write` once per `write` of `dumpBinary`, `CloseDump`, with `Compress`
in between, and `SaveTable`. A `Write` may store less than it was asked to, the next one goes on where it has stopped,
and no result is looked at. It can only fall short where it makes the file longer: the other blocks are there already.
codegen for C++ is `WriteSource`, `RunClang`, `LoadLibrary`, `ReadSource` and the two removals of `~CppCompiler`, which
run before the answer is sent. An exception is caught or not as in the code: `Uncaught` ends the process, as do `Kill` at any
step and the signal of a `send` to a client that has left (`Sent`). `promised` is a history variable: what the last answered
compression of a stem has stored if no write was short.

A file is a sequence of cells: a machine word of the header or of the indexes, or a byte of data. The header and the indexes
thus keep their meaning (an index is computed from `totalLen` in the header, as in `BinaryFileData`), and
a torn word is not modelled. A symbol table is two cells, so that half of one can be written. `Storable` is what `fsst_compress` may
return for a column: the first `n` elements compressed, the others left empty, for it stops when it is not certain
that its buffer has room (`server.cpp:117`).

**The drawing as a state machine.** `Drawing` has three steps: the server builds the automaton (`AutomatonOf`, the operators of the modules above; a constant of the
instance holds its values, so that TLC computes each once), serialises it (`Serializer`,
one operator per function of the code), and the page makes a drawing of it (`DrawingClient`, likewise). A stream is a sequence of fields with their widths; a field
that is read in another width than it was written in gives `Misread`. The connection between the two is `DrawingServer`, where an answer is one value.
`RequestUrl` is how the pattern gets to the server, and works on bytes, since what a URL does to bytes is its subject.

**The regular expression.** `LikePatternToRegex` gives the items of the expression and its anchors; `RegexMatches` is what such an expression means, in place of the external engine.

**Reference definitions.** `Like` in `LikePattern.tla` is LIKE by definition, with
`_`, `%` and escapes, written without regard to the code. `Answer` in `LikeMatch` applies
it to the decoded text. `EarliestEnd` says where a greedy left-to-right search for the parts ends.
`CountMatches` is the scan in one step.

**Deliberate mistakes.** Operators under comments "Deliberate mistakes" are variants of
a definition with a plausible bug each. They are used by nothing; substituted
for the definition they sit next to, each makes a property fail
(`PROJECT.json`, `mutants`), which shows that the property can.

## 3. What the runs check

| Run | Instance | Properties |
|---|---|---|
| `like_match` | four symbol tables, about a hundred patterns of one to three parts, all texts of 1 to 6 bytes over two bytes; and *every* table of two symbols of 1 to 3 bytes over two bytes with nine patterns and all texts of up to 4 bytes; both map orders | `MatchesDecompressed`: the answer is LIKE's on the decompressed text. `SuffixBegins`: after the backward walk the remembered code and byte are where the end part begins. `AcceptsAtEarliestEnd`: the forward walk accepts where the parts first end, to the byte. `SkipsAtCodes`: the skipping loop never takes a literal for a code. `AddsEachTransitionOnce`: the assertion of `State::addTransition`. `TablesAreSound`: what `TableParse` assumes of its tables |
| `table_parse` | *every* sound pair of tables of two rows, backwards alone, forwards alone, and forwards behind a match of the end; all strings of 1 to 3 bytes over two bytes; any byte around them | `ReadsNearby`: the reads of both loops, one byte in front (`ReadsOneByteInFront`) and none behind (`ReadsNothingBehind`); `ForwardPartInside`: what the backward walk leaves to the forward walk; `ReturnsVerdict`: the answer is what the tables say; `Returns`: the matcher stops |
| `compiled_match` | the automata of the four symbol tables of `like_match` and 17 patterns of all shapes, with parts that no code can spell and the pattern of nothing but `%`; texts of up to 6 bytes; C++ and LLVM, with and without blocks of 2 bytes | `MatchesDecompressed`, of the generated matchers; `ReturnsVerdict`: the same answer as the tables give, whichever compiler made the code; `FixedPartsFit`: the fixed ends are compared only when the string holds them, although only the levels were checked; `LoadsNearby`: which bytes beside the string each compiler's code may load, and that a block lies inside; `NeverTraps`: the skipping loop stops at no byte the switch has no case for; `Returns` |
| `like_cut` | every pattern of up to 6 bytes over a letter, `%`, `_` and `\`, every text of up to 3 bytes | `CutMeansLike`: the parts mean what the pattern means; `UnderscoresAreRefused`: a pattern with an underscore is refused, not misread; the one exception is an underscore directly behind an escaped backslash that is followed by `%` or by nothing (see `lost_underscore`). `RegexMeansLike`: the regular expression means what the pattern means, underscores included. `UrlKeepsPattern`: the server decodes the pattern that was typed, also with `&`, `=`, `+`, `?`, a space or a byte beyond ASCII in it |
| `like_program` | every needle of 1 to 4 bytes over two letters in every text of up to 7, those of 3 bytes in every text of 9; every needle of 5 to 8 in texts that begin with a part of it; 24 patterns with fixed ends, several parts, underscores, over texts of up to 5 code points of one and two bytes, up to 4 of one, two and three bytes, and all of 6 bytes; blocks of 4 bytes, short needles of at most 3, with and without vector instructions | `MatchesLike`: the answer is LIKE's on the code points. `CallsAsGiven`: each call of the search is one that the search is made for, with room behind every position, and a cut and a period that are right. `FirstOccurrence`, `ReadsInside`: the search, see section 4. `StaysInside`: the ends do not cross, and no walk by code points leaves the text. `Returns` |
| `batch_scan` | 3 threads, batches of 2, 7 elements | `ClaimsAreDisjoint`, `NoneLost`, `CountIsRight`, `Terminates`, `CountsMatches` (refinement of `CountMatches`) |
| `column_server` | two clients, two requests; two columns with one stem, of which the shorter is stored over the longer, one without elements and one that is missing; every endpoint and language, a legal and an illegal pattern, a request in two pieces; one fault of the disk or of `clang++`; one kill and restart | `AnsweredFilesHold`: the files of an answered compression begin with what was to be written. `StoredColumnReadsBack`: `BinaryFileData` and the stored table give the column back. `TablesAreWhole`: an accepted table is of one compression. `AnswersOwnProgram`: what generate and codegen answer is of the request's pattern and stem. `AnswersOnce`. `RequestsAreAnswered`: every connection ends |
| `drawing` | every part of 1 to 5 bytes over two letters as start, middle and end; full patterns of up to three parts of 1 to 2 bytes, with and without a start and an end; five symbol tables, among them the empty one and one with a symbol of eight bytes; both map orders | `DrawsWhatWasSent`: the page reads the response to its end and keeps exactly the automaton that its starts lead to, with no dangling name. `EntriesAreDrawn`: these starts are where the matching begins. `LabelsMeanTheBytes`: an edge is labelled as a literal, a code, the escape, or as either, as the byte in front decides |
| `backslash`, `lost_underscore`, `signed_char`, `drawn_start` | the smallest instance of each | one property each, violated: see section 5 |

**Why the bounds are enough.** What the automata are about is the position of a part
relative to symbol borders. The symbols of `like_match` have one to four bytes over
two letters, so a part of three bytes can lie inside a symbol, straddle two or
three, begin or end at a border, overlap itself (`XX`, `XYX`) and contain escapes
(tables in which a byte has no symbol); its first table is only literals. Six bytes
of text leave room for a false start, a fallback and a full match behind it, and
for two parts that share one code. The second group of `like_match` trades text length for all tables of its
size, so that no hand-made table hides a case. `table_parse` does the same for the
matcher: two rows are enough for a loop, a self-loop, a chain, and rows of any two
levels, and its tables need not come from a pattern. The level arithmetic only needs
a level of `LevelRange - 1`; `LevelRange` is far above any length in
the instance (65536 in the runs over automata), as `2^64` is. In `compiled_match` a block of 2 bytes is enough for a
hit at its first and at its last byte, for an escape in the block in front, and for
automata on both sides of the bound on transitions. In `like_program` four bytes over two letters
hold every kind of cut and period a needle can have (the cut at any place,
periods that repeat and that do not), and seven bytes of text room for a shift by the
period, what is remembered of it; the texts of nine bytes have room for a mismatch after that and a window behind it, for the
shortest needle that repeats. The needles of up to eight bytes check the
preparation. Blocks of 4 bytes hold a whole match at any place, a partial one at
their end, and texts of 5 to 7 bytes have a last block that overlaps. Texts of six bytes are as long as the longest pattern with underscores asks for. The scan has an odd column, so that the last batch is short, more
batches than threads, and every interleaving.

In `column_server` a chunk of two cells makes the data of a dump take more than one write; two requests are enough
for one to find what the other left, and the initial states, in which an earlier server may have stored the longer column,
give the first of them something to write over, too. One fault and one kill may fall anywhere, the fault before or after the kill. `AnswersOwnProgram` and `AnswersOnce` are about
a server that was not killed: one that was may leave a source and a library behind, and then does load the library of another pattern when `clang++` fails.
In `drawing` parts of five bytes are longer than most symbols and shorter than one, so that a part lies in a symbol, starts in one
and ends in another; eight bytes in a symbol give a middle automaton all its starts.

**Assumptions of the instances.**
* `WellFormedTable`: symbols are distinct and not empty, and a byte that is no symbol
  by itself can only be written as a literal.
* `IsEncodingValid` holds of every string (`InputOf`): the program checks this of the
  column before it uses a table, and a string with a literal that is not marked
  escapable is never matched.
* No escapable byte is the number of a code whose symbol ends with that byte (the tables of all two symbols are chosen by `LiteralsAreApart`). The code neither asks for it nor checks it;
  for the table with the symbols `Y` and `YX`, where `X` is byte 1 and escapable, the end automaton of `%X` gets two transitions on one byte
  (`src/percentage.cpp:249`), and `AddsEachTransitionOnce` fails.
* Patterns are shorter than 256 bytes: so many underscores in a row count as none (`src/pattern.cpp:107`).
* `RegexMeansLike` leaves out two kinds of patterns: those with an escaped letter or digit, which names a class or a control character in the
  expression, and those that end with an escaped percent sign, whose expression has lost its anchor (`src/vectorscan.cpp:47`). No text or pattern has a zero byte, at which `c_str()` ends.
* `EntriesAreDrawn` leaves out full patterns with a start part and others behind it; `drawn_start` shows what happens to them.
* The requests of `column_server` have the parameters that the page sends and are shorter than 1024 bytes, the size of the buffer in `main`. The text column does not change while it is read: `readASCIIFileData` reads it twice (`src/utils.cpp:121,136`).
* Neither `Outside` nor the texts contain the byte 255. The states behind the whole end
  part have level 0 and a transition on the escape (`src/percentage.cpp:195-196`), so the byte
  in front of a match of the end is taken for an escape whenever it is 255, be it a
  literal 255 or, at the beginning of the string, the byte of another string at `str[-1]`
  (`include/like_pattern_automaton.hpp:120`); the text is then refused. With 255 in `Outside` or in the
  texts `MatchesDecompressed` fails for the pattern `%X`. Valid UTF-8 has no such byte, but
  the last byte of the string in front may be a literal that follows an escape.
* The texts of `like_program` are valid UTF-8 (`multiByteSequenceLength` may otherwise
  step behind the end), its patterns have a `%` (`size - 2` wraps at
  `include/hybrid_string_search.hpp:293` otherwise) and no backslash (`buildMatcher` knows no
  escapes), and those with underscores have no byte beyond ASCII where it is read as a
  `char`; `signed_char` shows what happens otherwise.
* A pattern has at least one `%`. Without one `splitIntoSubpatterns` makes it the start and the end part at once (`src/pattern.cpp:58`), of which the end part
  must lie behind the start part in the codes: with symbols for `X` and `Y`, the pattern `XY` refuses the text `XY`. All patterns of the repository's tests and data have one.
* `Implemented`: patterns with underscores throw when the automaton is built
  (`UnderscorePattern`), so no parser for one exists.

**Fairness.** `TableParse`, `CompiledParse` and `LikeProgram` assume `WF_vars(Next)`: a function call that waits for
nothing runs to its return. `BatchScan` assumes weak fairness of the main thread
and of each worker: they are `std::thread`s, blocked by nothing but `join`, and the
operating system schedules every thread that can run. A worker's step is never
disabled by another worker, so weak fairness is all that is needed. `DrawingServer` assumes weak fairness of `Handle`, the one thread of the server, and
of `Deliver`, the network: what a client has sent arrives. Nothing is assumed of `Connect`, `Leave`, `Kill` and `Start`. A connection waits for those in front of it, and the server
reads once per connection, so that `RequestsAreAnswered` holds with these two; a client that connects and sends nothing, which the model has no
state for, would keep the others waiting, for the code sets no timeout.

**Deadlock.** All specifications end: the matcher returns, the scan is over, the
pattern is cut, the drawing is drawn, and the server waits for a connection when the requests of the instance are used up. `CHECK_DEADLOCK FALSE` is for that; that nothing stops *earlier* is
what `Returns`, `Terminates` and `RequestsAreAnswered` say.

## 4. What is proved

`BatchScanProofs` proves, from `ScanAssumption` alone (a positive number of threads
and a positive batch size, a column of any length, any set of matching elements),
every safety property of the scan and that it implements `CountMatches`. The properties are not
inductive by themselves: that the total is right when the main thread reads it
depends on what every thread has done. The invariant

    IInv = TypeOK /\ Batches /\ Exhausted /\ MainThread
           /\ ClaimsAreDisjoint /\ NoneLost /\ Counts

adds that a batch being scanned lies below the shared index (`Batches`), that a
thread past its loop has seen the end of the column (`Exhausted`), that the main thread has
spawned and joined what its counters say (`MainThread`), and, the central one, that each local count and the total
are the cardinalities of the matches among the elements they stand for
(`Counts`). When all threads have been joined, `NoneLost` and `Exhausted` say that the
elements claimed are the whole column, `ClaimsAreDisjoint` that none was counted twice,
and `Counts` that the total is the number of matches (`CountCorrect`). `Refinement` follows: the
step that loads the total is the one step of `CountMatches`, and every other is a
stutter.

`TableParseProofs` proves that the matcher reads where it may and answers what its tables say, for *every* sequence of
sound tables and any strings, whatever patterns and symbol tables they came from. The
hypothesis is `Given`: levels are numbers below `LevelRange`, the bytes around a string
are bytes, and each parser is `Sound` (its tables are closed, and a state of the backward
table that may be in with no code left leaves the table with the next byte).
`TablesAreSound` is the same formula as an invariant of the run `like_match`, so that the
runs check what the theorems assume. The invariant

    IInv = TypeOK /\ InTheirTables /\ BackwardInv /\ PartInv

keeps each walk in its own table (`InTheirTables`: otherwise a level of the other table would
decide where it stops) and says where the backward index can be: never two in front
of the string while in a row of the table, and two codes into it once it has
matched (`BackwardInv`). From that follows that the forward part is not empty
(`PartInv`, theorem `PartInside`) and that nothing more than one byte in front is read
(`InFront`), although the loop adds one to an index that may be -2 and compares it with an unsigned level. That nothing is
read behind the part either (`Nearby`, with `ForwardInv`: the forward index never passes the end of the part) needs the
further hypothesis `LevelsAreFinite`, which excludes a level of `UINT64_MAX`. A middle part
that no code can spell behind another part gives one (`%X%Z%` where `Z` is neither in a symbol nor
escapable): one added to it in the state in front is 0 (`src/percentage.cpp:34`, `src/common.cpp:126`), and the
walk then reads the byte behind the string. The theorem says that there is no
other way.

`VerdictReturned` is about the answer: it is `Verdict`, what the automata say of the string when they are walked from one end to the other.
This is what the matcher's shortcuts must not change. It gives up
when fewer codes are left than the level of the state, it skips bytes in a middle start, it reads a byte in front of the string to end a backward
match, and it walks forwards only up to where it matched the end. Besides `Given` the hypothesis is `OutcomesDiffer` (the error, the accept
states and the absence of an `endIdx` are distinct); the property itself leaves out parsers whose levels may wrap or are not
`LevelsAreHonest` (a level is no more than the number of codes to a match). The invariant `VerdictInv` has one part per stretch of control: the walk has
come as far as the codes read lead in the table (`BackwardWalked`, `ForwardWalked`), and the match of the end is where it has
been found and nowhere else (`EndFound`). Giving up early is right because a walk that needs `level` codes cannot come to a match
within fewer, an induction over the walk.

`ParserTablesProofs` has the lemmas for this, shared by both matchers. `Walk` is a recursive function on `0 .. n`. Facts about all of it are proved
by looking at the least, or the greatest, place where they fail (`LeastNat`, `Upwards`, `Downwards`), since
the induction theorems of the library take an operator as a parameter, which the installed provers cannot instantiate.

`CompiledParseProofs` proves the same of the code that both compilers generate, with vector registers of any size or without. The
hypothesis adds to `Sound` that a middle start has a transition on the escape (`StopsForEscapes`, which
`TablesAssumption` of `CompiledMatch` checks), and with it `NoTrap` follows: where the transition array stops the skipping loop, the switch
behind the loop has a case for the byte. For `PartsFit` and `Loads` the properties restrict themselves to `CompilableParsers`, whose levels do not wrap and
whose lengths asked for cover the fixed ends. The code compares these ends without looking at the length again, and relies on the check at the
beginning (`src/codegen/cppcodegen.cpp`): `PlaceInv` carries what it implies to the comparison, for both directions through their sum. The restriction is not
idle. For `Z%YX`, where no code can spell `Z`, the least length wraps and the end is compared with a string that may be shorter; `%X%Z%` reads behind
the string as above. `GeneratedVerdict` says that the generated code returns `Verdict` for `FaithfulParsers`, which
satisfy in addition that levels are honest, that the lengths asked for are no more than the levels say, that an escape that is left out of the transition array
leads back to the start (`EscapesComeBack`), and that no two escapes follow each other in a string (`OneEscapeAtATime`: 255 would be the escaped byte, and is in
no text that is UTF-8; a string is shorter than 2^63 bytes). `TablesAssumption` checks that all parsers of the run whose parts can be spelled are
faithful. The generated code may stand in a middle start where the table-driven walk has moved on to the state behind an escape; `Skipped`
says so, and the proof shows that the next byte brings both together again, one byte or a block at a time.
Since both `VerdictReturned` and `GeneratedVerdict` speak of `Verdict`, the four matchers return the same answer.

`LikeProgramProofs` first proves that a call of the search returns the first place where the needle
lies, or none if it lies nowhere within the limit, for *every* text, needle, size of block and
longest short needle. The hypothesis is `Given`, the initial condition of `SearchSpec`: the needle is not
empty, it lies in the bytes given wherever it begins within the limit, and `prepared` is `Prepared`. The
latter says what the search needs of `preparePattern`: a mismatch at a byte of the right half rules
out all places passed over (`CutIsCritical`), so does a mismatch of the left half
for the places before one period later (`PeriodIsLeast`), and a needle that is said to repeat does
(`PeriodRepeats`). `CallsAsGiven` asks the same of every call in `like_program`, where `prepared` comes from
`PreparePattern`: that the largest suffix of two orders gives such a cut is the critical
factorisation theorem, which the run checks for every needle of its instance and which is not proved. The invariant

    IInv = TypeOK /\ Given /\ InLoop /\ NoneSkipped /\ RemembersMatch /\ FirstOccurrence

contains the properties themselves: `FirstOccurrence` follows from `NoneSkipped` when a window matches, `NoneSkipped`
is kept by a shift because of the lemmas `RightShift`, `RightHalf` and `PeriodShift`, of which the
first needs `RemembersMatch` when the comparison began behind what was remembered, and
`RemembersMatch` is kept by the lemma `Remembered`. For the blocks, `NoneInBlock` and
`WholeInBlock` say what a position reported by the instruction means. `ReadsAreInside` follows from `IInv`.

The second half of the module puts the matcher around this search, for *every* program and text that `PatternsAssumption` allows:
it stays inside the text (`ReadsText`), it calls the search as `Given` asks (`CallsRight`), and so each part is found where it first lies
(`PartsFoundFirst`) without reading elsewhere (`SearchReadsText`). The assumption, which TLC evaluates for all patterns and texts of
`like_program`, says what `BuildMatcher` must deliver (`Fits`: a part is `skip` underscores, the needle, which has none and is `Prepared`, and what follows it; `sums` counts the
bytes of all parts) and that texts are UTF-8 where underscores are counted (`WellEncoded`), with needles that consist of whole code points. It says nothing about
where parts lie in a text, so the theorems do not depend on whether the text matches. In the invariant

    Inv == Programs /\ Types /\ Inside /\ Sums /\ Loops /\ Boundaries /\ InSearch

`Sums` is what keeps the two ends apart without underscores: both are compared with `memcmp` after one look at the length, and `sums` is then what
the parts not yet found hold. It also gives each call its room, since `Needed` is at least the length of the needle. With
underscores the same check is of little help, as a code point may take more bytes than the one that is counted. There `Boundaries` is needed: what is left of the text begins and
ends between two code points, so that no code point that is skipped reaches over its end (`NextCodePoint`, `CodePointInFront`). This holds after the
loop over the suffix, not inside it, where `end` may be in the middle of a code point, and not where the search begins again (`BeginAgain` may land in one); what restores
it there is that a needle which is found is whole (`NeedleIsWhole`). `InSearch` is `IInv`, and the steps of the
search are covered by `StepInv`, the theorem about one step of a call.

`LikeAnswerProofs` is about the answer. The matcher is greedy: it takes each part at the first place where it finds it, never takes one back, and after a mismatch behind a
needle goes on at a place that it computes from the next byte like the one that differed. That this costs no match and finds none
that there is not is `PartsAreFound`: the matcher answers TRUE if and only if the program `Lies` in the text. `Lies` says it without a matcher, by the existence of places: a way over the
bytes of a part goes on by a code point for an underscore and by one equal byte for any other (`StepTo`, `Way`), the way over the prefix begins at 0, the one over the suffix ends with the
text, and those over the middle parts lie between these, each behind the one before (`PartsLie`). The invariant

    Whole == Inv /\ Chosen /\ (ReadsAscii(program) => Reads)

says in `Meaning` that the question never changes: in every state the program lies in the text if and only if the parts that are left lie in what is left of it (`Behind`), or, while a part
is looked for, if that part has a start from which the parts behind it fit (`Starts`). `FirstStartDoes` is the greedy choice: the start whose way ends first will do for all others, since what lies behind
a place lies behind an earlier one (`BehindEarlier`). Which start ends first is plain when a part has no underscores. With them it is not, since the code points that an underscore stands for have different lengths: `RestInOrder`
shows that a later start never ends earlier, because the ways over the two starts run from boundary to boundary (`WaysInOrder`), which needs that needles are whole code points and that what follows them is
ASCII. `StartsLater` is for the places passed over: those before the first occurrence of the needle, and those before `BeginAgain`, of which `RestRead` knows that a start reaches the byte sought
at most `steps` behind its needle. The suffix is walked backwards, and `SuffixReads` shows that this finds the one place where the way over it ends with the text.

The hypothesis `ReadsAscii` is what `signed_char` violates: where the code reads bytes of a pattern with underscores as `char`, they are below 128. `AnswersLike` is `MatchesLike` for all patterns of which this holds
(`MCLikeProgram` evaluates it for those of the run). Its second assumption, `MeaningAssumption`, is that `Lies` is LIKE on the code points, which TLC evaluates for every pattern and text of `like_program`: both sides
are definitions without the matcher, one by places and one by recursion over the pattern, between which lie the recursions that cut the pattern into parts. `PartsAreFound` does not depend on it.

`LikeCutProofs` is about what is made of a pattern before anything is matched, for patterns and texts over *any* bytes (`BytesAssumption`): the
parts that `splitIntoSubpatterns` cuts a pattern into mean what LIKE means by the whole (`PartsMeanThePattern`), an underscore that is not escaped
makes the pattern one that is refused, unless it stands directly behind an escaped backslash and in front of a percent sign or the end (`NoUnderscoreIsLost`), and the regular expression of the benchmarks means the same as LIKE (`RegexIsTheSame`). The exceptions are those of the properties. The first two
have one more hypothesis, `MaxPattern < CountRange`: the code counts a run of underscores in eight bits, so 256 of them count as none. `RegexIsTheSame` is for patterns of any length. The inductive invariant is only the
type (`LikeCutType`, theorem `BytesOnly`), since the properties are about functions of the pattern and the text. What is hard is that several recursions read the
same bytes in different ways: some skip an escape together with its byte, one looks one byte back, one reads from the end. They are brought together by the set `Begins` of the positions where characters begin: LIKE and
the walks of the code step from one member to the next (`Onwards`, `NextCharacter`), and where no wildcard stands behind an escaped backslash (`Clear`), looking one byte back finds the same
members (`TrailingIs`, `BackIs`).
On this set the proof says where the fixed parts end (`FrontIs`, `BackIs`) and that the walk for the middle parts cuts what lies between into literal stretches with only percent signs in between
(`WalkStretches`, `MiddleIs`); that `createPattern` makes of each the bytes without the backslashes (`PartText`), and of a part with an underscore a refusal (`CreatesUnderscore`, `SplitIsRefused`).
The refusal is shown without `Clear`, for all patterns. Within a part the only way for an underscore to vanish is to be the last byte that is not trimmed (`Lost`); what needs proof is that cutting makes no
byte the last of a part that was not in front of a percent sign or the end of the pattern. It does not, because each part but the last ends behind wildcards that begin with a percent sign or with the pattern
(`Closes`; for the middle parts `StartsBehindPercent`, an induction along the walk).
The meaning is compared in two tables, the one of LIKE over the suffixes of the pattern and the one of `PartsMatch` over the parts that are left: a stretch asks for its bytes (`StretchMatches`), percent signs for any number of others
(`PercentRun`), and `PartsMean` goes through the parts from the last to the first. The regular expression is compared item by item (`ItemsBehind`).
Each of these definitions is a recursive function, whose existence is shown first (`RankedFunction`, `ConcatFunction`).

`DrawingServerProofs` proves six properties of the server for *every* set of columns, requests and clients, every chunk size and
any number of faults and kills: `TypeCorrect`, `AnsweredCompressionIsStored`, `AcceptedTableIsWhole`, `NoSecondAnswer`, `AnswersAreOwn` and `AnsweredColumnReadsBack`. The
assumptions are `ServerAssumption`, `ChunkAssumption` and `ColumnsAssumption`. The last one says that the elements of a column are texts of bytes (a type, which the prover cannot derive, as they come
out of `SelectSeq`) and that a trained table has at most 255 symbols, none of them empty, which is what `libfsst` promises. The invariant

    Inv == TypeOK /\ ReplyOK /\ NetOK /\ CodegenOK /\ FilesInv /\ TableInv

holds, besides the types, where the server stands in a compression and what it has written: while no write has been short, the position in the file is
the position in the dump and the file begins with what was written (`Progress`), the file that is complete stays as it is while the
next one is written, and a promise is only made when all three are complete and withdrawn before they are touched. The lemmas `OverlayCells` and `WrittenCells` say what writing over a longer or
shorter file leaves. `NetOK` says that an open connection waits in the queue once, or is being served; `CodegenOK` that an unkilled
server leaves neither source nor library between requests, which is why the second answer of `fileToResponse` is never sent. The table is written by one call into a file of the same length, so that it is whole or too short to be accepted (`TablesFit`, `TablesAreWhole`).

`AnswersAreOwn` is about the one source and the one library in the server's directory that every codegen request writes, compiles, loads and reads back: what
is answered was made from the pattern of this request and a symbol table of its column's stem. It needs, besides `Inv`, the invariant

    OwnInv == TablesOfStems /\ Handlers /\ MadeForRequest /\ AnswersOwnProgram

A file of a symbol table holds only parts of tables of its own stem, even when two compressions or a kill have left halves of two in it
(`TablesOfStems`); each handler serves its own endpoint and reads a table only after the whole request has come (`Handlers`); and what the server holds on its way to
an answer, the reply, the source and a library that is there, was made for this request (`MadeForRequest`). The last fails after a kill, when source and
library of an older request may be there, and the property leaves this case out.

`AnsweredColumnReadsBack` says what the three files are for. `AnsweredFilesHold` gives that they begin with what was to be written; the rest is about the data. `RowsAreLaid`: the indexes of a dump are
those at which its rows lie one behind the other, so that `DumpReadsBack` finds each row between its index and the next, and the last one by the length of all, reading at most one word behind the dump.
`DecodesEncoded` is the round trip through the table: the greedy encoder takes a symbol of the table or escapes one byte, so a downward induction over the positions of a text shows that what it
writes from there on decodes to the bytes that are left, and that every byte it escapes is marked; `EncodedRows` applies this to the elements of a column, those not compressed among them, and `StorableCells` says what its three files are to hold.
The encoder, the decoder and the fold that concatenates rows are recursive functions, whose existence the prover wants shown (`RankedFunction` where each step lowers a rank, `ConcatFunction` for texts put together from behind);
the inductions are least-counterexample arguments (`Upwards`, `Downwards`, from the well-foundedness of the numbers), since the induction theorems of the library cannot be used.

Most theorems named in `PROJECT.json` restate properties that runs check. Eight restate invariants that no run checks any more, since they are proved and others that the runs check
would fail with them: `TypeOK` of the scan, the matcher, the generated matchers and the server, `ReadsOneByteInFront` (a half of `ReadsNearby`), `NoLateWorker`, `NoneSkipped` and `RemembersMatch`. The other theorems and
the lemmas are the steps to them; each proof of an invariant has one step per action.

## 5. Where the code disagrees with itself

Each of these is a run that must find a violation; `findings` quotes the lines.

| Run | What the code does | What it says elsewhere |
|---|---|---|
| `backslash` | `%` behind an escaped backslash is taken for escaped: `\\%` does not match a lone backslash (`src/pattern.cpp:44,47,122`) | `src/pattern.cpp:33` and `src/vectorscan.cpp:56` skip an escape together with the byte it escapes |
| `lost_underscore` | a run of underscores is put on record by the literal byte behind it (`src/pattern.cpp:142`); the run of `\\_`, which the backslash keeps from being trimmed (`:122`), has none behind it: the part becomes `StringPattern("")`, with neither the backslash nor the underscore, and `\\_%` accepts every text | `src/pattern.cpp:229,233,237` throw 'Not implemented' for a part with an underscore |
| `signed_char` | in a pattern with underscores a byte of the prefix is read as `char`, which is signed on the x86 machines that have the vector instructions, and compared with `uint8_t`: `é%_` matches nothing (`include/hybrid_string_search.hpp:496-501`, likewise `:590-596`) | the suffix is read as `uint8_t` (`:521`); the tests compare every pattern with the known matches (`test/DecodePatternMatchingTest.cpp:60`) |
| `drawn_start` | the page takes the last forward automaton it reads for the one where matching begins (`fa-drawing/app.js:320`), but the start part is written first (`src/serializer.cpp:146`): of `X%Y%` only `Y%` is drawn | `README.md:60` offers the full pattern as one that 'May contain multiple `LIKE` subpatterns', without exception |

## 6. What is not modelled, and the plan

Only model-checked: that the automata find what they should
(`MatchesDecompressed` and the other properties of `LikeMatch`), since the constructors are
recursive definitions over data, although that both matchers answer what the automata say is proved; that `BuildMatcher` makes programs that fit, with a critical cut for
each needle (`PatternsAssumption`), and that where these parts lie is what LIKE says of the code points (`MeaningAssumption`), although that the matcher finds out whether they lie in the text is proved;
that a drawing is what was sent, for the same reason; that a URL keeps a pattern (`UrlKeepsPattern`), whose parameters are looked up by name; and liveness (`Returns`, `Terminates`, `RequestsAreAnswered`), which
the prover does not treat.

Abstracted: the memory layout of the tables (bit-packed rows, 8- or 16-bit cells)
to functions; the masks of the encoder's queries to comparisons of
sequences; `libfsst` (external) to a table, a greedy encoder and a decoder; the regular expression engine to the meaning of the
expressions; HTTP headers to statuses; words of a file to cells.

Hazards that no property covers, because a property leaves them out:

* a level of `UINT64_MAX` that wraps to 0 (`src/percentage.cpp:34`) and a length asked for that wraps (`src/codegen/cppcodegen.cpp:268`): a part that no code can spell makes the code read behind
  the string or compare a part that it does not hold; `LevelsAreFinite` and `CompilableParsers` exclude such parsers from `ReadsNearby`, `LoadsNearby` and `FixedPartsFit`;
* a run of 256 underscores (`src/pattern.cpp:107`), beyond the patterns of the run and excluded by `MaxPattern < CountRange`;
* the elements left over when `fsst_compress` stops early (`fa-drawing/server.cpp:121`), which are stored as empty: `StoredColumnReadsBack` is about the others;
* a library left by a killed server that the next one loads when `clang++` fails (`src/codegen/cppcodegen.cpp:557`): `AnswersOwnProgram` is about a server that was not killed;
* a kill in the middle of one large write (`fa-drawing/server.cpp:152`): a write is one step of the model, so that a kill falls between two of them.

Not modelled:

* *Single-threaded and decoding benchmarks*: loops that time the matchers, without logic of their own; timing, CSV output and command lines of the others.
* *Drawing client, presentation*: the text of the DOT graph, colours, legends, the table of symbols and the form. Reading, pruning and labelling are modelled.
* *Vectorscan, object lifecycle*: allocation, moving and error output around the external engine.
* Accesses outside an object, which have no meaning to model: a pattern without a percent sign in `HSSDecodedMatcherFactory` (`include/hybrid_string_search.hpp:293`), a request without one of its
  parameters (`fa-drawing/server.cpp:227`), a request of 1024 bytes or more (`:363`).
* An empty string given to `parse`, which asserts that there is none (`src/like_pattern_automaton.cpp:206`); columns have no empty elements.

Next, if the project is taken further:

1. **Build as a state machine**: one action per phase of `createMiddleAutomaton`, with
   invariants on the heap between phases (which buffer holds which starts, what
   may point to it), to localise what `TablesAreSound` only says of the result.
2. **Proofs**: that the parts `BuildMatcher` makes mean the pattern (`MeaningAssumption`); `UrlKeepsPattern`.
