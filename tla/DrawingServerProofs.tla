------------------------- MODULE DrawingServerProofs -------------------------
(***************************************************************************)
(* Proofs about DrawingServer, for every set of columns, clients and       *)
(* requests, every chunk size and every bound.                             *)
(***************************************************************************)
EXTENDS DrawingServer, SequenceTheorems, WellFoundedInduction, TLAPS

\* What the compress handler holds while it is at work, and the dump that is
\* being written: it is one of the column, or one of what was compressed.
StoredColumns == UNION {Storable[c] : c \in DOMAIN Lines}
Compressing == pc \in {"open", "dump", "encode", "saveTable"}
Jobs == [column : DOMAIN Lines, stem : Stems, stored : StoredColumns \cup {None},
         intact : BOOLEAN]
Dumps == [kind : {"uncompressed", "compressed"}, cells : Seq(Nat), src : Nat, pos : Nat]
JobOK ==
    /\ Compressing => job \in Jobs /\ promised[job.stem] = None
    /\ pc \in {"open", "dump"} =>
          /\ dump \in Dumps
          /\ IsDump(dump.cells)
          /\ dump.kind = "uncompressed" => dump.cells = DumpCells(Rows[job.column])
          /\ dump.kind = "compressed" =>
                job.stored \in Storable[job.column] /\ dump.cells = DumpCells(job.stored.out)
    /\ pc = "open" => dump.src = 0 /\ dump.pos = 0
    /\ pc = "dump" => dump.src <= Len(dump.cells) /\ dump.pos <= Len(files[job.stem][dump.kind])
    /\ pc = "saveTable" => job.stored \in Storable[job.column]

\* As long as no write was short: what is in the files so far.
Progress ==
    (Compressing /\ job.intact) =>
        /\ pc = "dump" => /\ dump.pos = dump.src
                          /\ \A i \in 1 .. dump.src : files[job.stem][dump.kind][i] = dump.cells[i]
        /\ \/ pc \in {"encode", "saveTable"}
           \/ pc \in {"open", "dump"} /\ dump.kind = "compressed"
           => BeginsWith(files[job.stem]["uncompressed"], DumpCells(Rows[job.column]))
        /\ pc = "saveTable" => BeginsWith(files[job.stem]["compressed"], DumpCells(job.stored.out))

\* The promises are of columns that exist.
PromisesOK == promised \in [Stems -> StoredColumns \cup {None}]

\* A table file holds one table, or less than one.
TablesFit == \A s \in Stems : Len(files[s]["symTable"]) <= 2

\* The server serves one open connection, and the others that are open wait.
Serving == pc \notin {"down", "accept"}
NetOK ==
    /\ \A i \in 1 .. Len(queue) : conn[queue[i]].phase = "open"
    /\ \A i, j \in 1 .. Len(queue) : queue[i] = queue[j] => i = j
    /\ Serving => /\ client \in Clients
                  /\ conn[client].phase = "open"
                  /\ conn[client].request \in Requests
                  /\ \A i \in 1 .. Len(queue) : queue[i] # client
    /\ \A c \in Clients : conn[c].phase = "open" => conn[c].request \in Requests

\* Only a killed server leaves files of codegen behind, and only the answer of
\* the connection that is about to be closed has been sent.
Generating == pc \in {"clang", "dlopen", "readSource", "remove", "removeLibrary"}
CodegenOK ==
    kills = 0 =>
        /\ ~Generating => source = None /\ library = None
        /\ pc = "clang" => library = None
        /\ pc \in {"dlopen", "readSource"} => (library # None => source # None)
        /\ pc = "readSource" => library # None
        /\ pc = "removeLibrary" => source = None
        /\ \A c \in Clients :
              /\ Len(conn[c].answers) <= 1
              /\ (conn[c].phase = "open" /\ ~(pc = "close" /\ client = c)) => conn[c].answers = << >>

\* The handlers hold a reply that can be sent.
ReplyOK ==
    /\ pc \in {"answer", "llvm", "cpp", "clang", "dlopen", "readSource", "remove", "removeLibrary"} =>
          reply \in Answers
    /\ pc = "cpp" => reply.body \in Programs

FilesInv == JobOK /\ Progress /\ PromisesOK /\ AnsweredFilesHold
TableInv == TablesFit /\ TablesAreWhole
Inv == TypeOK /\ ReplyOK /\ NetOK /\ CodegenOK /\ FilesInv /\ TableInv

-----------------------------------------------------------------------------
(* What generate and codegen answer.                                       *)

\* A table of one of the columns of a stem, and a program that was made for
\* the request that is being served.
OfStem(s, table) == \E c \in DOMAIN Lines : Stem[c] = s /\ table.sym = Trained[c]
Made(body, request) ==
    /\ body \notin {None, Torn}
    /\ body.pattern = request.pattern
    /\ OfStem(Stem[request.column], body.table)

\* Every part of a stored table is of the stem it is stored under.
CellsOfStem(s) == {cell \in TableCell : OfStem(s, cell.table)}
TablesOfStems ==
    /\ \A s \in Stems : files[s]["symTable"] \in Seq(CellsOfStem(s))
    /\ Compressing => job.stem = Stem[job.column]

\* Each handler serves its own endpoint, and a table is only asked for when
\* the request has been read to its end.
Replying == pc \in {"llvm", "cpp", "clang", "dlopen", "readSource", "remove", "removeLibrary"}
Handlers ==
    /\ Compressing \/ pc = "column" => Request.endpoint = "compress"
    /\ Replying \/ pc = "table" => Request.endpoint \in {"generate", "codegen"}
    /\ pc = "table" => ~(conn[client].got < Request.segments)

\* Unless the server was killed, what it holds on the way to an answer was made
\* for the request: the reply, the source, and with it a library that is there.
Asked == Request.endpoint \in {"generate", "codegen"}
MadeForRequest ==
    kills = 0 =>
        /\ ((Replying \/ pc = "answer") /\ Asked /\ reply.status = 200) => Made(reply.body, Request)
        /\ pc = "cpp" => Made(reply.body, Request)
        /\ pc = "clang" => source \in {None, Torn} \/ Made(source, Request)
        /\ (pc \in {"dlopen", "readSource"} /\ library # None) => Made(source, Request)

OwnInv == TablesOfStems /\ Handlers /\ MadeForRequest /\ AnswersOwnProgram

-----------------------------------------------------------------------------
(* Induction.                                                              *)

\* Every set of natural numbers that is not empty has a least element.
LEMMA LeastNat ==
    ASSUME NEW T \in SUBSET Nat, T # {}
    PROVE  \E x \in T : \A y \in T : x <= y
<1> DEFINE R == OpToRel(<, Nat)
<1>1. PICK x \in T : \A y \in T : <<y, x>> \notin R
  <2>1. IsWellFoundedOn(R, Nat)
    BY NatLessThanWellFounded
  <2> HIDE DEF R
  <2> QED
    BY <2>1, WFMin
<1>2. ASSUME NEW y \in T PROVE x <= y
  <2>1. x \in Nat /\ y \in Nat
    OBVIOUS
  <2>2. y < x => <<y, x>> \in R
    BY <2>1 DEF OpToRel
  <2>3. ~(y < x)
    <3> HIDE DEF R
    <3> QED
      BY <1>1, <2>2
  <2> QED
    BY <2>1, <2>3
<1> QED
  BY <1>2

\* What holds at m and, if it holds in front of i, at i, holds for all of
\* m .. n; the set S stands for what it holds for.
LEMMA Upwards ==
    ASSUME NEW m \in Nat, NEW n \in Nat, NEW S, m \in S,
           \A i \in m + 1 .. n : i - 1 \in S => i \in S
    PROVE  m .. n \subseteq S
<1> DEFINE Bad == (m .. n) \ S
<1> SUFFICES ASSUME Bad # {} PROVE FALSE
  OBVIOUS
<1>1. PICK k \in Bad : \A y \in Bad : k <= y
  <2>1. Bad \in SUBSET Nat
    OBVIOUS
  <2> HIDE DEF Bad
  <2> QED
    BY <2>1, LeastNat
<1>2. k \in m + 1 .. n /\ k - 1 \notin Bad
  BY <1>1
<1> QED
  BY <1>1, <1>2

\* What holds at i if it holds at all greater numbers up to n holds for all
\* of m .. n.
LEMMA Downwards ==
    ASSUME NEW m \in Nat, NEW n \in Nat, NEW S,
           \A i \in m .. n : i + 1 .. n \subseteq S => i \in S
    PROVE  m .. n \subseteq S
<1> DEFINE T == {d \in 0 .. n + 1 - m : (n + 1) - d .. n \subseteq S}
<1> SUFFICES ASSUME m <= n PROVE m .. n \subseteq S
  OBVIOUS
<1>1. 0 \in T
  OBVIOUS
<1>2. ASSUME NEW d \in 0 + 1 .. n + 1 - m, d - 1 \in T PROVE d \in T
  <2>1. (n + 1) - d \in m .. n /\ ((n + 1) - d) + 1 = (n + 1) - (d - 1)
    OBVIOUS
  <2>2. (n + 1) - d \in S
    BY <1>2, <2>1
  <2>3. \A j \in (n + 1) - d .. n : j = (n + 1) - d \/ j \in (n + 1) - (d - 1) .. n
    BY <2>1
  <2>4. d \in 0 .. n + 1 - m
    OBVIOUS
  <2> QED
    BY <1>2, <2>2, <2>3, <2>4
<1>3. 0 .. n + 1 - m \subseteq T
  <2>1. n + 1 - m \in Nat /\ 0 \in Nat
    OBVIOUS
  <2> HIDE DEF T
  <2> QED
    BY <1>1, <1>2, <2>1, Upwards
<1>4. n + 1 - m \in T /\ (n + 1) - (n + 1 - m) = m
  <2>1. n + 1 - m \in 0 .. n + 1 - m /\ (n + 1) - (n + 1 - m) = m
    OBVIOUS
  <2> HIDE DEF T
  <2> QED
    BY <1>3, <2>1
<1> QED
  BY <1>4

\* A recursion on D: the value at i is base[i] at a stop, and else what step[i]
\* makes of the value at next[i], which has a lower rank; and a function that
\* follows it.
Descends(D, V, N, rank, stop, base, step, next) ==
    /\ N \in Nat /\ rank \in [D -> 0 .. N]
    /\ \A i \in D : i \in stop => base[i] \in V
    /\ \A i \in D : i \notin stop =>
          next[i] \in D /\ rank[next[i]] < rank[i] /\ step[i] \in [V -> V]
Follows(f, D, V, stop, base, step, next) ==
    /\ f \in [D -> V]
    /\ \A i \in D : f[i] = IF i \in stop THEN base[i] ELSE step[i][f[next[i]]]

\* A recursion whose every step lowers the rank defines a function.
LEMMA RankedFunction ==
    ASSUME NEW D, NEW V, NEW N, NEW rank, NEW stop, NEW base, NEW step, NEW next,
           Descends(D, V, N, rank, stop, base, step, next)
    PROVE  \E f : Follows(f, D, V, stop, base, step, next)
<1> DEFINE rule(f, i) == IF i \in stop THEN base[i] ELSE step[i][f[next[i]]]
           Below(m) == {i \in D : rank[i] < m}
           H == {m \in 0 .. N + 1 : \E f \in [Below(m) -> V] : \A i \in Below(m) : f[i] = rule(f, i)}
<1> N \in Nat /\ rank \in [D -> 0 .. N]
  BY DEF Descends
<1>0. /\ \A i \in D : i \in stop => base[i] \in V
      /\ \A i \in D : i \notin stop =>
            next[i] \in D /\ rank[next[i]] < rank[i] /\ step[i] \in [V -> V]
  BY DEF Descends
<1>1. 0 \in H
  <2> DEFINE none == [i \in Below(0) |-> base[i]]
  <2>1. Below(0) = {}
    OBVIOUS
  <2>2. none \in [Below(0) -> V] /\ \A i \in Below(0) : none[i] = rule(none, i)
    BY <2>1
  <2> HIDE DEF none, Below, rule
  <2> QED
    BY <2>2
<1>2. ASSUME NEW m \in 0 + 1 .. N + 1, m - 1 \in H PROVE m \in H
  <2>1. PICK f \in [Below(m - 1) -> V] : \A i \in Below(m - 1) : f[i] = rule(f, i)
    BY <1>2
  <2> DEFINE longer == [i \in Below(m) |-> IF rank[i] < m - 1 THEN f[i] ELSE rule(f, i)]
  <2>2. ASSUME NEW i \in Below(m), i \notin stop
        PROVE  /\ next[i] \in Below(m - 1) /\ next[i] \in Below(m)
               /\ f[next[i]] \in V /\ step[i] \in [V -> V] /\ longer[next[i]] = f[next[i]]
    <3>1. i \in D /\ next[i] \in D /\ rank[i] < m /\ rank[next[i]] < rank[i] /\ step[i] \in [V -> V]
      BY <1>0, <2>2
    <3>2. rank[i] \in Nat /\ rank[next[i]] \in Nat
      BY <3>1
    <3>3. rank[next[i]] < m - 1 /\ rank[next[i]] < m
      BY <3>1, <3>2
    <3>4. next[i] \in Below(m - 1) /\ next[i] \in Below(m)
      BY <3>1, <3>3
    <3> QED
      BY <3>1, <3>3, <3>4
  <2>3. ASSUME NEW i \in Below(m) PROVE rule(f, i) \in V /\ rule(longer, i) = rule(f, i)
    <3>1. CASE i \in stop
      <4>1. i \in D
        OBVIOUS
      <4> QED
        BY <1>0, <3>1, <4>1
    <3>2. CASE i \notin stop
      <4>1. f[next[i]] \in V /\ step[i] \in [V -> V] /\ longer[next[i]] = f[next[i]]
        BY <2>2, <3>2
      <4> HIDE DEF longer
      <4> QED
        BY <3>2, <4>1
    <3> QED
      BY <3>1, <3>2
  <2>4. ASSUME NEW i \in Below(m) PROVE longer[i] \in V /\ longer[i] = rule(longer, i)
    <3>1. CASE rank[i] < m - 1
      <4>1. i \in Below(m - 1) /\ longer[i] = f[i]
        BY <3>1
      <4> HIDE DEF longer, rule, Below
      <4> QED
        BY <2>1, <2>3, <4>1
    <3>2. CASE ~(rank[i] < m - 1)
      <4>1. longer[i] = rule(f, i)
        BY <3>2
      <4> HIDE DEF longer, rule, Below
      <4> QED
        BY <2>3, <4>1
    <3> QED
      BY <3>1, <3>2
  <2>5. longer \in [Below(m) -> V]
    BY <2>4
  <2>6. \E g \in [Below(m) -> V] : \A i \in Below(m) : g[i] = rule(g, i)
    <3> HIDE DEF longer, rule, Below
    <3> QED
      BY <2>4, <2>5
  <2>7. m \in 0 .. N + 1
    OBVIOUS
  <2> QED
    BY <2>6, <2>7
<1>3. N + 1 \in H
  <2> HIDE DEF H
  <2>1. 0 .. N + 1 \subseteq H
    <3>1. N + 1 \in Nat /\ 0 \in Nat
      OBVIOUS
    <3> QED
      BY <1>1, <1>2, <3>1, Upwards
  <2> QED
    BY <2>1
<1>4. Below(N + 1) = D
  OBVIOUS
<1>5. \E f \in [Below(N + 1) -> V] : \A i \in Below(N + 1) : f[i] = rule(f, i)
  BY <1>3
<1> QED
  BY <1>4, <1>5 DEF Follows

-----------------------------------------------------------------------------
(* Rows that stand one behind the other.                                   *)

\* A text that is one text and another one behind it.
Joins(text, s, t) ==
    /\ Len(text) = Len(s) + Len(t)
    /\ \A j \in 1 .. Len(s) : text[j] = s[j]
    /\ \A j \in 1 .. Len(t) : text[Len(s) + j] = t[j]

\* So is the concatenation of the two.
LEMMA Concatenated ==
    ASSUME NEW S, NEW s \in Seq(S), NEW t \in Seq(S)
    PROVE  s \o t \in Seq(S) /\ Joins(s \o t, s, t)
<1> DEFINE l == Len(s)  w == Len(t)  text == s \o t
<1>1. text \in Seq(S) /\ Len(text) = l + w
  BY ConcatProperties
<1>2. \A j \in 1 .. l + w : text[j] = IF j <= l THEN s[j] ELSE t[j - l]
  BY ConcatProperties
<1>3. l \in Nat /\ w \in Nat
  OBVIOUS
<1> HIDE DEF l, w, text
<1>4. ASSUME NEW j \in 1 .. l PROVE text[j] = s[j]
  <2>1. j \in 1 .. l + w /\ j <= l
    BY <1>3
  <2> QED
    BY <1>2, <2>1
<1>5. ASSUME NEW j \in 1 .. w PROVE text[l + j] = t[j]
  <2>1. l + j \in 1 .. l + w /\ ~(l + j <= l) /\ (l + j) - l = j
    BY <1>3
  <2> QED
    BY <1>2, <2>1
<1>6. text \in Seq(S) /\ Joins(text, s, t)
  BY <1>1, <1>4, <1>5 DEF l, w, Joins
<1> QED
  BY <1>6 DEF text

\* The texts of the first rows, each the one before it and one row more.
Grows(texts, rows) ==
    /\ texts[0] = << >>
    /\ \A i \in 1 .. Len(rows) : texts[i] = texts[i - 1] \o rows[i]

\* For every sequence of rows there is a function that flattens it.
LEMMA FlattenSteps ==
    ASSUME NEW S, NEW rows \in Seq(Seq(S))
    PROVE  \E texts \in [0 .. Len(rows) -> Seq(S)] :
              Grows(texts, rows) /\ Joined(rows) = texts[Len(rows)]
<1> DEFINE n == Len(rows)
           rule(f, i) == IF i = 1 THEN rows[i] ELSE f[i - 1] \o rows[i]
           step == [i \in 1 .. n |-> [v \in Seq(S) |-> v \o rows[i]]]
           before == [i \in 1 .. n |-> i - 1]
           id == [i \in 1 .. n |-> i]
<1>0. n \in Nat /\ \A i \in 1 .. n : rows[i] \in Seq(S)
  OBVIOUS
<1>3. n = Len(rows)
  OBVIOUS
<1>4. n = 0 => Joined(rows) = << >>
  BY DEF Joined, FlattenSeq
<1> HIDE DEF n
<1>1. CASE n = 0
  <2>1. Joined(rows) = << >>
    BY <1>1, <1>4
  <2> DEFINE texts == [i \in 0 .. n |-> << >>]
  <2>2. texts \in [0 .. n -> Seq(S)] /\ Grows(texts, rows) /\ texts[n] = << >>
    BY <1>1, <1>3 DEF Grows
  <2> QED
    BY <1>3, <2>1, <2>2
<1>2. CASE n # 0
  <2>1. \E f \in [1 .. n -> Seq(S)] :
           \A i \in 1 .. n : f[i] = IF i \in {1} THEN rows[i] ELSE step[i][f[before[i]]]
    <3>1. id \in [1 .. n -> 0 .. n] /\ \A i \in 1 .. n : i \in {1} => rows[i] \in Seq(S)
      BY <1>0
    <3>2. ASSUME NEW i \in 1 .. n, i \notin {1}
          PROVE  before[i] \in 1 .. n /\ id[before[i]] < id[i] /\ step[i] \in [Seq(S) -> Seq(S)]
      <4>1. before[i] \in 1 .. n /\ id[before[i]] < id[i]
        BY <1>0, <3>2
      <4>2. rows[i] \in Seq(S)
        BY <1>0
      <4>3. \A v \in Seq(S) : v \o rows[i] \in Seq(S)
        BY <4>2
      <4>4. step[i] = [v \in Seq(S) |-> v \o rows[i]]
        OBVIOUS
      <4> QED
        BY <4>1, <4>3, <4>4
    <3> DEFINE V == Seq(S)  D == 1 .. n  first == {1}
    <3>3. Descends(D, V, n, id, first, rows, step, before)
      <4> HIDE DEF id, before, step
      <4> QED
        BY <1>0, <3>1, <3>2 DEF Descends
    <3>4. PICK f : Follows(f, D, V, first, rows, step, before)
      <4> HIDE DEF id, before, step, V, D, first
      <4> QED
        BY <3>3, RankedFunction
    <3> HIDE DEF before, step
    <3> QED
      BY <3>4 DEF Follows
  <2>2. PICK f \in [1 .. n -> Seq(S)] :
           \A i \in 1 .. n : f[i] = IF i \in {1} THEN rows[i] ELSE step[i][f[before[i]]]
    BY <2>1
  <2>3. ASSUME NEW i \in 1 .. n PROVE f[i] = rule(f, i)
    <3>1. CASE i = 1
      BY <2>2, <3>1
    <3>2. CASE i # 1
      <4>1. before[i] = i - 1 /\ i - 1 \in 1 .. n
        BY <1>0, <3>2
      <4>2. f[i - 1] \in Seq(S) /\ step[i] = [v \in Seq(S) |-> v \o rows[i]]
        BY <4>1
      <4>3. step[i][f[i - 1]] = f[i - 1] \o rows[i]
        BY <4>2
      <4>4. f[i] = step[i][f[before[i]]]
        <5> HIDE DEF step, before
        <5> QED
          BY <2>2, <3>2
      <4> QED
        BY <3>2, <4>1, <4>3, <4>4
    <3> QED
      BY <3>1, <3>2
  <2>4. f = [i \in 1 .. n |-> rule(f, i)]
    <3> HIDE DEF rule
    <3> QED
      BY <2>3
  <2> DEFINE flatten == CHOOSE g : g = [i \in 1 .. n |-> rule(g, i)]
  <2>5. flatten = [i \in 1 .. n |-> rule(flatten, i)]
    <3>1. \E g : g = [i \in 1 .. n |-> rule(g, i)]
      BY <2>4, Zenon
    <3> HIDE DEF rule
    <3> QED
      BY <3>1
  <2>6. Joined(rows) = flatten[n]
    BY <1>2, <1>3 DEF Joined, FlattenSeq
  <2> HIDE DEF flatten
  <2>7. ASSUME NEW i \in 1 .. n PROVE flatten[i] = rule(flatten, i)
    BY <2>5
  <2>8. \A i \in 1 .. n : flatten[i] \in Seq(S)
    <3> DEFINE G == {i \in 1 .. n : flatten[i] \in Seq(S)}
    <3>1. 1 \in G
      <4>1. 1 \in 1 .. n /\ flatten[1] = rows[1]
        BY <1>0, <1>2, <2>7
      <4> QED
        BY <1>0, <4>1
    <3>2. ASSUME NEW i \in 1 + 1 .. n, i - 1 \in G PROVE i \in G
      <4>1. i \in 1 .. n /\ i # 1
        BY <1>0
      <4>2. flatten[i] = flatten[i - 1] \o rows[i]
        BY <2>7, <4>1
      <4>3. rows[i] \in Seq(S) /\ flatten[i - 1] \in Seq(S)
        BY <1>0, <3>2, <4>1
      <4>4. flatten[i - 1] \o rows[i] \in Seq(S)
        BY <4>3, ConcatProperties
      <4> QED
        BY <4>1, <4>2, <4>4
    <3> HIDE DEF G
    <3>3. 1 .. n \subseteq G
      BY <1>0, <3>1, <3>2, Upwards
    <3> QED
      BY <3>3 DEF G
  <2> DEFINE texts == [i \in 0 .. n |-> IF i = 0 THEN << >> ELSE flatten[i]]
  <2>9. texts \in [0 .. n -> Seq(S)] /\ texts[n] = flatten[n] /\ texts[0] = << >>
    BY <1>0, <1>2, <2>8
  <2>10. ASSUME NEW i \in 1 .. n PROVE texts[i] = texts[i - 1] \o rows[i]
    <3>1. CASE i = 1
      <4>1. texts[0] = << >> /\ texts[1] = rows[1] /\ rows[1] \in Seq(S)
        BY <1>0, <2>7, <3>1
      <4>2. << >> \o rows[1] = rows[1]
        BY <4>1, ConcatEmptySeq
      <4>3. i - 1 = 0
        BY <3>1
      <4> QED
        BY <3>1, <4>1, <4>2, <4>3
    <3>2. CASE i # 1
      <4>1. flatten[i] = flatten[i - 1] \o rows[i]
        BY <2>7, <3>2
      <4>2. i - 1 \in 0 .. n /\ i - 1 # 0 /\ i \in 0 .. n /\ i # 0
        BY <1>0, <3>2
      <4>3. texts[i - 1] = flatten[i - 1] /\ texts[i] = flatten[i]
        BY <4>2
      <4> QED
        BY <4>1, <4>3
    <3> QED
      BY <3>1, <3>2
  <2> QED
    BY <1>3, <2>6, <2>9, <2>10 DEF Grows
<1> QED
  BY <1>1, <1>2

\* The text of the first rows is one of the texts that grow to the whole.
LEMMA FirstRows ==
    ASSUME NEW S, NEW rows \in Seq(Seq(S)), NEW texts \in [0 .. Len(rows) -> Seq(S)],
           Grows(texts, rows), NEW k \in 0 .. Len(rows)
    PROVE  Joined(SubSeq(rows, 1, k)) = texts[k]
<1> DEFINE n == Len(rows)
           first == SubSeq(rows, 1, k)
<1>0. n \in Nat /\ k \in Nat /\ k <= n
  OBVIOUS
<1>1. first \in Seq(Seq(S)) /\ Len(first) = k /\ \A i \in 1 .. k : first[i] = rows[i]
  <2>1. \A i \in 1 .. k : rows[i] \in Seq(S)
    BY <1>0
  <2>2. /\ first \in Seq(Seq(S))
        /\ Len(first) = IF 1 <= k THEN k - 1 + 1 ELSE 0
        /\ \A i \in 1 .. k - 1 + 1 : first[i] = rows[1 + i - 1]
    BY <1>0, <2>1, SubSeqProperties
  <2> HIDE DEF first
  <2>3. Len(first) = k
    BY <1>0, <2>2
  <2>4. ASSUME NEW i \in 1 .. k PROVE first[i] = rows[i]
    <3>1. 1 + i - 1 = i /\ i \in 1 .. k - 1 + 1
      BY <1>0
    <3> QED
      BY <2>2, <3>1
  <2> QED
    BY <2>2, <2>3, <2>4
<1> HIDE DEF first
<1>2. PICK parts \in [0 .. k -> Seq(S)] : Grows(parts, first) /\ Joined(first) = parts[k]
  BY <1>1, FlattenSteps
<1> DEFINE H == {i \in 0 .. k : parts[i] = texts[i]}
<1>3. 0 \in H
  BY <1>0, <1>2 DEF Grows
<1>4. ASSUME NEW i \in 0 + 1 .. k, i - 1 \in H PROVE i \in H
  <2>1. i \in 1 .. k /\ i \in 1 .. n
    BY <1>0
  <2>2. parts[i] = parts[i - 1] \o first[i]
    BY <1>1, <1>2, <2>1 DEF Grows
  <2>3. texts[i] = texts[i - 1] \o rows[i]
    BY <2>1 DEF Grows
  <2>4. first[i] = rows[i] /\ parts[i - 1] = texts[i - 1]
    BY <1>1, <1>4, <2>1
  <2>5. parts[i] = texts[i]
    BY <2>2, <2>3, <2>4
  <2>6. i \in 0 .. k
    BY <2>1
  <2> QED
    BY <2>5, <2>6
<1>5. 0 .. k \subseteq H
  <2> HIDE DEF H
  <2> QED
    BY <1>0, <1>3, <1>4, Upwards
<1> QED
  BY <1>0, <1>2, <1>5 DEF first

\* Each of the texts is the beginning of the whole, and the row behind it
\* follows there.
LEMMA TextsBegin ==
    ASSUME NEW S, NEW rows \in Seq(Seq(S)), NEW texts \in [0 .. Len(rows) -> Seq(S)],
           Grows(texts, rows), NEW k \in 0 .. Len(rows)
    PROVE  LET n == Len(rows)
           IN  /\ Len(texts[k]) <= Len(texts[n])
               /\ \A j \in 1 .. Len(texts[k]) : texts[n][j] = texts[k][j]
<1> DEFINE n == Len(rows)
           long(i) == Len(texts[i])
           H == {i \in k .. n : /\ long(k) <= long(i)
                                /\ \A j \in 1 .. long(k) : texts[i][j] = texts[k][j]}
<1>0. n \in Nat /\ k \in Nat /\ k <= n
  OBVIOUS
<1>1. \A i \in 0 .. n : long(i) \in Nat /\ texts[i] \in Seq(S)
  OBVIOUS
<1>2. k \in H
  BY <1>0, <1>1
<1>3. ASSUME NEW i \in k + 1 .. n, i - 1 \in H PROVE i \in H
  <2>1. i \in 1 .. n /\ i - 1 \in 0 .. n /\ i \in k .. n
    BY <1>0
  <2>2. texts[i] = texts[i - 1] \o rows[i]
    BY <2>1 DEF Grows
  <2>3. texts[i - 1] \in Seq(S) /\ rows[i] \in Seq(S)
    BY <1>1, <2>1
  <2>4. /\ long(i) = long(i - 1) + Len(rows[i])
        /\ \A j \in 1 .. long(i - 1) : texts[i][j] = texts[i - 1][j]
    <3>1. Joins(texts[i - 1] \o rows[i], texts[i - 1], rows[i])
      BY <2>2, <2>3, Concatenated
    <3>2. Joins(texts[i], texts[i - 1], rows[i])
      BY <2>2, <3>1
    <3> QED
      BY <3>2 DEF Joins
  <2>5. long(k) \in Nat /\ long(i - 1) \in Nat /\ Len(rows[i]) \in Nat /\ long(k) <= long(i - 1)
    BY <1>0, <1>1, <1>3, <2>1, <2>3
  <2>6. long(k) <= long(i)
    <3> HIDE DEF long
    <3> QED
      BY <2>4, <2>5
  <2>7. ASSUME NEW j \in 1 .. long(k) PROVE texts[i][j] = texts[k][j]
    <3>1. j \in 1 .. long(i - 1)
      <4> HIDE DEF long
      <4> QED
        BY <2>5
    <3>2. texts[i - 1][j] = texts[k][j]
      BY <1>3
    <3> QED
      BY <2>4, <3>1, <3>2
  <2> QED
    BY <2>1, <2>6, <2>7
<1>4. k .. n \subseteq H
  <2> HIDE DEF H
  <2> QED
    BY <1>0, <1>2, <1>3, Upwards
<1>5. n \in H
  <2> HIDE DEF H
  <2> QED
    BY <1>0, <1>4
<1> QED
  BY <1>5

\* Where the rows stand in their text.
Laid(rows, text, at) ==
    LET n == Len(rows)
    IN  /\ text \in Seq(Nat) /\ at \in [1 .. n + 1 -> 0 .. Len(text)]
        /\ at[n + 1] = Len(text)
        /\ \A i \in 1 .. n :
              /\ at[i + 1] = at[i] + Len(rows[i])
              /\ \A j \in 1 .. Len(rows[i]) : text[at[i] + j] = rows[i][j]
        /\ RunningIndexes(rows) = [i \in 1 .. n |-> at[i]]

\* Every row stands at its running index, up to the index of the next one or
\* the end of the text.
LEMMA RowsAreLaid ==
    ASSUME NEW rows \in Seq(Seq(Nat))
    PROVE  \E at : Laid(rows, Joined(rows), at)
<1> DEFINE n == Len(rows)
<1>0. n \in Nat /\ \A i \in 1 .. n : rows[i] \in Seq(Nat)
  OBVIOUS
<1>1. PICK texts \in [0 .. n -> Seq(Nat)] : Grows(texts, rows) /\ Joined(rows) = texts[n]
  BY FlattenSteps
<1> DEFINE long(i) == Len(texts[i])
           at == [i \in 1 .. n + 1 |-> long(i - 1)]
<1>2. \A k \in 0 .. n : /\ long(k) \in Nat /\ long(k) <= long(n)
                        /\ \A j \in 1 .. long(k) : texts[n][j] = texts[k][j]
  BY <1>1, TextsBegin
<1>3. at \in [1 .. n + 1 -> 0 .. Len(texts[n])] /\ at[n + 1] = Len(texts[n])
  <2>1. \A i \in 1 .. n + 1 : i - 1 \in 0 .. n
    BY <1>0
  <2>2. n + 1 \in 1 .. n + 1 /\ (n + 1) - 1 = n /\ n \in 0 .. n
    BY <1>0
  <2>3. \A i \in 1 .. n + 1 : long(i - 1) \in 0 .. long(n)
    <3> HIDE DEF long, n
    <3>1. long(n) \in Nat
      BY <1>2, <2>2
    <3> QED
      BY <1>2, <2>1, <3>1
  <2> HIDE DEF n
  <2> QED
    BY <2>2, <2>3
<1>4. ASSUME NEW i \in 1 .. n
      PROVE  /\ at[i + 1] = at[i] + Len(rows[i])
             /\ \A j \in 1 .. Len(rows[i]) : texts[n][at[i] + j] = rows[i][j]
  <2>1. i - 1 \in 0 .. n /\ i \in 0 .. n /\ i \in 1 .. n + 1 /\ i + 1 \in 1 .. n + 1 /\ (i + 1) - 1 = i
    BY <1>0
  <2>2. texts[i] = texts[i - 1] \o rows[i] /\ texts[i - 1] \in Seq(Nat) /\ rows[i] \in Seq(Nat)
    <3>1. texts[i] = texts[i - 1] \o rows[i]
      BY <1>1 DEF Grows
    <3> QED
      BY <1>0, <2>1, <3>1
  <2>3. /\ long(i) = long(i - 1) + Len(rows[i])
        /\ \A j \in 1 .. Len(rows[i]) : texts[i][long(i - 1) + j] = rows[i][j]
    <3>1. Joins(texts[i - 1] \o rows[i], texts[i - 1], rows[i])
      BY <2>2, Concatenated
    <3>2. Joins(texts[i], texts[i - 1], rows[i])
      BY <2>2, <3>1
    <3> QED
      BY <3>2 DEF Joins
  <2>4. at[i] = long(i - 1) /\ at[i + 1] = long(i)
    <3> HIDE DEF long
    <3> QED
      BY <2>1
  <2>5. ASSUME NEW j \in 1 .. Len(rows[i]) PROVE texts[n][at[i] + j] = rows[i][j]
    <3> DEFINE l == long(i - 1)  w == Len(rows[i])
    <3>1. l \in Nat /\ w \in Nat /\ long(i) = l + w
      BY <1>2, <2>1, <2>2, <2>3
    <3>2. texts[i][l + j] = rows[i][j]
      BY <2>3
    <3>4. l + j \in 1 .. long(i)
      <4>1. j \in 1 .. w
        OBVIOUS
      <4> HIDE DEF l, w, long
      <4> QED
        BY <3>1, <4>1
    <3>5. texts[n][l + j] = texts[i][l + j]
      <4> HIDE DEF long, l, n
      <4> QED
        BY <1>2, <2>1, <3>4
    <3> QED
      BY <2>4, <3>2, <3>5
  <2> QED
    BY <2>3, <2>4, <2>5
<1>5. RunningIndexes(rows) = [i \in 1 .. n |-> at[i]]
  <2>1. ASSUME NEW i \in 1 .. n PROVE LengthOf(SubSeq(rows, 1, i - 1)) = at[i]
    <3>1. i - 1 \in 0 .. n /\ i \in 1 .. n + 1
      BY <1>0
    <3>2. Joined(SubSeq(rows, 1, i - 1)) = texts[i - 1]
      BY <1>1, <3>1, FirstRows
    <3> QED
      BY <3>1, <3>2 DEF LengthOf
  <2> HIDE DEF at
  <2> QED
    BY <2>1 DEF RunningIndexes
<1>6. Joined(rows) \in Seq(Nat) /\ Joined(rows) = texts[n]
  BY <1>0, <1>1
<1> HIDE DEF at
<1>7. Laid(rows, Joined(rows), at)
  BY <1>3, <1>4, <1>5, <1>6 DEF Laid
<1> QED
  BY <1>7

-----------------------------------------------------------------------------
(* The dump of a column.                                                   *)

\* A part of a cell sequence that holds a row is that row.
LEMMA RowAt ==
    ASSUME NEW row \in Seq(Nat), NEW s, NEW a \in Nat,
           \A j \in 1 .. Len(row) : s[a + j] = row[j]
    PROVE  SubSeq(s, a + 1, a + Len(row)) = row
<1> DEFINE w == Len(row)
           part == SubSeq(s, a + 1, a + w)
<1>1. w \in Nat /\ \A j \in 1 .. w : row[j] \in Nat /\ s[a + j] = row[j]
  OBVIOUS
<1> HIDE DEF w
<1>2. \A i \in a + 1 .. a + w : s[i] \in Nat
  <2>1. \A i \in a + 1 .. a + w : i - a \in 1 .. w /\ a + (i - a) = i
    BY <1>1
  <2> QED
    BY <1>1, <2>1
<1>3. /\ part \in Seq(Nat)
      /\ Len(part) = IF a + 1 <= a + w THEN (a + w) - (a + 1) + 1 ELSE 0
      /\ \A i \in 1 .. (a + w) - (a + 1) + 1 : part[i] = s[(a + 1) + i - 1]
  BY <1>1, <1>2, SubSeqProperties
<1> HIDE DEF part
<1>4. Len(part) = w
  BY <1>1, <1>3
<1>5. ASSUME NEW j \in 1 .. w PROVE part[j] = row[j]
  <2>1. j \in 1 .. (a + w) - (a + 1) + 1 /\ (a + 1) + j - 1 = a + j
    BY <1>1
  <2>2. part[j] = s[a + j]
    BY <1>3, <2>1
  <2> QED
    BY <1>1, <2>2
<1>6. part = row
  BY <1>3, <1>4, <1>5, SeqEqual DEF w
<1> QED
  BY <1>6 DEF part, w

\* The elements of a column that is read from a text file are its lines, but
\* for the empty ones.
LEMMA ColumnIsRead ==
    ASSUME NEW lines, NonEmpty(lines) \in Seq(Seq(Nat))
    PROVE  StrIn(ReadASCII(lines)) = NonEmpty(lines)
<1> DEFINE rows == NonEmpty(lines)
           data == ReadASCII(lines)
           n == Len(rows)
<1>1. PICK at : Laid(rows, Joined(rows), at)
  BY RowsAreLaid
<1>2. n \in Nat /\ \A i \in 1 .. n : rows[i] \in Seq(Nat) /\ Len(rows[i]) \in Nat
  OBVIOUS
<1>3. data = [n |-> n, totalLen |-> Len(Joined(rows)), indexes |-> RunningIndexes(rows),
              buffer |-> Joined(rows)]
  BY DEF ReadASCII, LengthOf
<1>4. /\ data.n = n /\ data.totalLen = at[n + 1] /\ data.buffer = Joined(rows)
      /\ \A i \in 1 .. n : data.indexes[i] = at[i]
      /\ \A i \in 1 .. n + 1 : at[i] \in Nat
      /\ \A i \in 1 .. n : /\ at[i + 1] = at[i] + Len(rows[i])
                           /\ \A j \in 1 .. Len(rows[i]) : Joined(rows)[at[i] + j] = rows[i][j]
  <2>1. data.n = n /\ data.totalLen = at[n + 1] /\ data.buffer = Joined(rows)
    BY <1>1, <1>3 DEF Laid
  <2>2. \A i \in 1 .. n : data.indexes[i] = at[i]
    BY <1>1, <1>3 DEF Laid
  <2>3. at \in [1 .. n + 1 -> 0 .. Len(Joined(rows))] /\ Len(Joined(rows)) \in Nat
    BY <1>1 DEF Laid
  <2>4. \A i \in 1 .. n + 1 : at[i] \in Nat
    <3> HIDE DEF n
    <3> QED
      BY <2>3
  <2>5. \A i \in 1 .. n : /\ at[i + 1] = at[i] + Len(rows[i])
                          /\ \A j \in 1 .. Len(rows[i]) : Joined(rows)[at[i] + j] = rows[i][j]
    BY <1>1, Zenon DEF Laid
  <2> QED
    BY <2>1, <2>2, <2>4, <2>5
<1> HIDE DEF data
<1>5. ASSUME NEW i \in 1 .. n PROVE LenIn(data)[i] = Len(rows[i])
  <2>1. LenIn(data)[i] = IF i < n THEN data.indexes[i + 1] - data.indexes[i]
                         ELSE data.totalLen - data.indexes[n]
    BY <1>4 DEF LenIn
  <2>2. i + 1 \in 1 .. n + 1 /\ i \in 1 .. n + 1 /\ (i < n => i + 1 \in 1 .. n) /\ (~(i < n) => i = n)
    BY <1>2
  <2>3. LenIn(data)[i] = at[i + 1] - at[i]
    BY <1>4, <2>1, <2>2
  <2> DEFINE a == at[i]  w == Len(rows[i])
  <2>4. a \in Nat /\ w \in Nat /\ at[i + 1] = a + w
    BY <1>2, <1>4, <2>2
  <2>5. (a + w) - a = w
    <3> HIDE DEF a, w
    <3> QED
      BY <2>4
  <2> QED
    BY <2>3, <2>4, <2>5
<1>6. ASSUME NEW i \in 1 .. n PROVE StrIn(data)[i] = rows[i]
  <2>1. StrIn(data)[i] = SubSeq(data.buffer, data.indexes[i] + 1, data.indexes[i] + LenIn(data)[i])
    BY <1>4 DEF StrIn
  <2>2. StrIn(data)[i] = SubSeq(Joined(rows), at[i] + 1, at[i] + Len(rows[i]))
    BY <1>4, <1>5, <2>1
  <2>3. i \in 1 .. n + 1
    BY <1>2
  <2> QED
    BY <1>2, <1>4, <2>2, <2>3, RowAt
<1>7. StrIn(data) = [i \in 1 .. n |-> StrIn(data)[i]]
  BY <1>4 DEF StrIn
<1>8. rows = [i \in 1 .. n |-> rows[i]]
  BY LenProperties
<1> QED
  BY <1>6, <1>7, <1>8 DEF data

\* What the cells of a dump are, one by one.
LEMMA DumpedCells ==
    ASSUME NEW rows \in Seq(Seq(Nat)), NEW at, Laid(rows, Joined(rows), at)
    PROVE  LET cells == DumpCells(rows)
               n == Len(rows)
               total == Len(Joined(rows))
           IN  /\ cells \in Seq(Nat) /\ Len(cells) = 2 + total + n
               /\ cells[1] = total /\ cells[2] = n
               /\ \A j \in 1 .. total : cells[2 + j] = Joined(rows)[j]
               /\ \A i \in 1 .. n : cells[2 + total + i] = at[i]
<1> DEFINE n == Len(rows)
           text == Joined(rows)
           total == Len(text)
           header == <<total, n>>
           indexes == RunningIndexes(rows)
           front == header \o text
           cells == front \o indexes
<1>1. /\ n \in Nat /\ text \in Seq(Nat) /\ total \in Nat
      /\ \A i \in 1 .. n : at[i] \in Nat
      /\ indexes = [i \in 1 .. n |-> at[i]]
  BY DEF Laid
<1>2. DumpCells(rows) = cells
  BY DEF DumpCells, LengthOf
<1>3. header \in Seq(Nat) /\ Len(header) = 2 /\ header[1] = total /\ header[2] = n
  <2> HIDE DEF total, n
  <2> QED
    BY <1>1
<1>4. indexes \in Seq(Nat) /\ Len(indexes) = n /\ \A i \in 1 .. n : indexes[i] = at[i]
  <2> HIDE DEF n, indexes
  <2> QED
    BY <1>1, IsASeq
<1> HIDE DEF header, indexes
<1>5. front \in Seq(Nat) /\ Joins(front, header, text)
  BY <1>1, <1>3, Concatenated
<1> HIDE DEF front
<1>6. cells \in Seq(Nat) /\ Joins(cells, front, indexes)
  BY <1>4, <1>5, Concatenated
<1> HIDE DEF cells, text
<1>7. /\ Len(front) = 2 + total
      /\ front[1] = total /\ front[2] = n
      /\ \A j \in 1 .. total : front[2 + j] = text[j]
  BY <1>3, <1>5 DEF Joins
<1>8. /\ Len(cells) = (2 + total) + n
      /\ \A j \in 1 .. 2 + total : cells[j] = front[j]
      /\ \A i \in 1 .. n : cells[(2 + total) + i] = at[i]
  BY <1>4, <1>6, <1>7 DEF Joins
<1>9. 1 \in 1 .. 2 + total /\ 2 \in 1 .. 2 + total /\ \A j \in 1 .. total : 2 + j \in 1 .. 2 + total
  <2> HIDE DEF total
  <2> QED
    BY <1>1
<1>10. /\ cells[1] = total /\ cells[2] = n
       /\ \A j \in 1 .. total : cells[2 + j] = text[j]
  BY <1>7, <1>8, <1>9
<1> QED
  BY <1>2, <1>6, <1>8, <1>10 DEF text

\* A file that begins with the dump of a column has its elements, and no cell
\* farther behind the dump than the first is read.
LEMMA DumpReadsBack ==
    ASSUME NEW rows \in Seq(Seq(Nat)), NEW file, BeginsWith(file, DumpCells(rows))
    PROVE  /\ IsDump(DumpCells(rows))
           /\ NumElements(file) = Len(rows)
           /\ \A i \in 1 .. Len(rows) : Get(file, i) = rows[i]
           /\ LastCellRead(file, Len(rows)) = Len(DumpCells(rows)) + 1
<1> DEFINE n == Len(rows)
           text == Joined(rows)
           total == Len(text)
           cells == DumpCells(rows)
<1>1. PICK at : Laid(rows, Joined(rows), at)
  BY RowsAreLaid
<1>2. /\ n \in Nat /\ text \in Seq(Nat) /\ total \in Nat
      /\ at[n + 1] = total
      /\ \A i \in 1 .. n + 1 : at[i] \in 0 .. total
      /\ \A i \in 1 .. n : /\ at[i + 1] = at[i] + Len(rows[i])
                           /\ \A j \in 1 .. Len(rows[i]) : text[at[i] + j] = rows[i][j]
  <2>1. n \in Nat /\ text \in Seq(Nat) /\ total \in Nat /\ at[n + 1] = total
    BY <1>1 DEF Laid
  <2>2. at \in [1 .. n + 1 -> 0 .. total]
    BY <1>1, Zenon DEF Laid
  <2>3. \A i \in 1 .. n + 1 : at[i] \in 0 .. total
    <3> HIDE DEF n, total
    <3> QED
      BY <2>2
  <2>4. \A i \in 1 .. n : /\ at[i + 1] = at[i] + Len(rows[i])
                          /\ \A j \in 1 .. Len(rows[i]) : text[at[i] + j] = rows[i][j]
    BY <1>1, Zenon DEF Laid
  <2> QED
    BY <2>1, <2>3, <2>4
<1>3. /\ cells \in Seq(Nat) /\ Len(cells) = 2 + total + n
      /\ cells[1] = total /\ cells[2] = n
      /\ \A j \in 1 .. total : cells[2 + j] = text[j]
      /\ \A i \in 1 .. n : cells[2 + total + i] = at[i]
  BY <1>1, DumpedCells
<1> HIDE DEF cells, text
<1>4. /\ Len(cells) \in Nat /\ Len(cells) >= 2 /\ 2 + total <= Len(cells)
      /\ 1 \in 1 .. Len(cells) /\ 2 \in 1 .. Len(cells)
      /\ \A j \in 1 .. total : 2 + j \in 1 .. Len(cells)
      /\ \A i \in 1 .. n : 2 + total + i \in 1 .. Len(cells)
  <2> HIDE DEF total, n
  <2> QED
    BY <1>2, <1>3
<1>5. IsDump(cells)
  BY <1>3, <1>4 DEF IsDump
<1>6. \A i \in 1 .. Len(cells) : file[i] = cells[i]
  BY DEF BeginsWith, cells
<1>7. /\ file[1] = total /\ file[2] = n
      /\ \A j \in 1 .. total : file[2 + j] = text[j]
      /\ \A i \in 1 .. n : file[2 + total + i] = at[i]
  BY <1>3, <1>4, <1>6
<1>8. NumElements(file) = n /\ TotalLength(file) = total
  BY <1>7 DEF NumElements, TotalLength
<1>9. ASSUME NEW i \in 1 .. n PROVE Get(file, i) = rows[i]
  <2> DEFINE a == at[i]  w == Len(rows[i])
  <2>1. i \in 1 .. n + 1 /\ i + 1 \in 1 .. n + 1 /\ (i # n => i + 1 \in 1 .. n) /\ rows[i] \in Seq(Nat)
    BY <1>2
  <2>2. a \in Nat /\ w \in Nat /\ at[i + 1] = a + w /\ a + w <= total
    <3>1. a \in 0 .. total /\ at[i + 1] \in 0 .. total /\ at[i + 1] = a + w
      BY <1>2, <2>1
    <3>2. w \in Nat
      BY <2>1
    <3> HIDE DEF a, w, total
    <3> QED
      BY <1>2, <3>1, <3>2
  <2>3. file[IndexCell(file, i)] = a
    BY <1>7, <1>8 DEF IndexCell
  <2>4. (IF i = NumElements(file) THEN TotalLength(file) ELSE file[IndexCell(file, i + 1)]) = a + w
    <3>1. CASE i = n
      BY <1>2, <1>8, <2>2, <3>1
    <3>2. CASE i # n
      <4>1. file[IndexCell(file, i + 1)] = at[i + 1]
        BY <1>7, <1>8, <2>1, <3>2 DEF IndexCell
      <4> QED
        BY <1>8, <2>2, <3>2, <4>1
    <3> QED
      BY <3>1, <3>2
  <2>5. Get(file, i) = SubSeq(file, Buffer(a) + 1, Buffer(a + w))
    BY <2>3, <2>4 DEF Get
  <2>6. ASSUME NEW j \in 1 .. w PROVE file[(2 + a) + j] = rows[i][j]
    <3>1. a + j \in 1 .. total /\ 2 + (a + j) = (2 + a) + j
      <4> HIDE DEF a, w, total
      <4> QED
        BY <1>2, <2>2
    <3>2. file[2 + (a + j)] = text[a + j]
      <4> HIDE DEF a
      <4> QED
        BY <1>7, <3>1
    <3>3. text[a + j] = rows[i][j]
      BY <1>2
    <3> QED
      BY <3>1, <3>2, <3>3
  <2>7. 2 + a \in Nat /\ 2 + (a + w) = (2 + a) + w
    <3> HIDE DEF a, w
    <3> QED
      BY <2>2
  <2>8. SubSeq(file, (2 + a) + 1, (2 + a) + w) = rows[i]
    <3> HIDE DEF a
    <3> QED
      BY <2>1, <2>6, <2>7, RowAt
  <2> QED
    BY <2>5, <2>7, <2>8 DEF Buffer
<1>10. LastCellRead(file, n) = Len(cells) + 1
  <2>1. LastCellRead(file, n) = 2 + total + (n + 1)
    BY <1>8 DEF LastCellRead, IndexCell
  <2> HIDE DEF total, n
  <2> QED
    BY <1>2, <1>3, <2>1
<1> QED
  BY <1>5, <1>8, <1>9, <1>10 DEF cells

-----------------------------------------------------------------------------
(* The compressor and the decoder.                                         *)

\* A text that is put together from behind: at each position something stands
\* in front of the text of a later position.
GoesOn(N, stop, next) == N \in Nat /\ \A i \in 1 .. N : i \notin stop => next[i] \in i + 1 .. N
Chains(f, N, stop, front, next) ==
    f = [i \in 1 .. N |-> IF i \in stop THEN << >> ELSE front[i] \o f[next[i]]]

\* For every such prescription there is a function that follows it.
LEMMA ConcatFunction ==
    ASSUME NEW N, NEW stop, NEW front, NEW next, GoesOn(N, stop, next)
    PROVE  \E f : Chains(f, N, stop, front, next)
<1> DEFINE rule(f, i) == IF i \in stop THEN << >> ELSE front[i] \o f[next[i]]
           Right(f, m) == \A i \in 1 .. N : i > N - m => f[i] = rule(f, i)
           H == {m \in 0 .. N : \E f : f = [i \in 1 .. N |-> f[i]] /\ Right(f, m)}
<1> N \in Nat
  BY DEF GoesOn
<1>1. 0 \in H
  <2> DEFINE none == [i \in 1 .. N |-> << >>]
  <2>1. none = [i \in 1 .. N |-> none[i]] /\ Right(none, 0)
    <3>1. none = [i \in 1 .. N |-> none[i]]
      OBVIOUS
    <3>2. \A i \in 1 .. N : ~(i > N - 0)
      OBVIOUS
    <3> HIDE DEF none, rule
    <3> QED
      BY <3>1, <3>2
  <2> HIDE DEF none, Right
  <2> QED
    BY <2>1
<1>2. ASSUME NEW m \in 0 + 1 .. N, m - 1 \in H PROVE m \in H
  <2>1. PICK f : f = [i \in 1 .. N |-> f[i]] /\ Right(f, m - 1)
    BY <1>2
  <2> DEFINE p == (N - m) + 1
             longer == [i \in 1 .. N |-> IF i = p THEN rule(f, i) ELSE f[i]]
  <2>2. ASSUME NEW i \in 1 .. N, i > N - m PROVE longer[i] = rule(longer, i)
    <3>1. i \notin stop => next[i] \in 1 .. N /\ next[i] # p
      BY <2>2 DEF GoesOn
    <3>2. rule(longer, i) = rule(f, i)
      <4>1. i \notin stop => longer[next[i]] = f[next[i]]
        BY <3>1
      <4> HIDE DEF longer
      <4> QED
        BY <4>1, Zenon
    <3>3. i # p => i > N - (m - 1)
      BY <2>2
    <3>4. i # p => f[i] = rule(f, i)
      BY <2>1, <3>3
    <3>5. longer[i] = IF i = p THEN rule(f, i) ELSE f[i]
      OBVIOUS
    <3> HIDE DEF rule, longer
    <3> QED
      BY <3>2, <3>4, <3>5
  <2>3. Right(longer, m) /\ longer = [i \in 1 .. N |-> longer[i]]
    <3>1. longer = [i \in 1 .. N |-> longer[i]]
      OBVIOUS
    <3> HIDE DEF longer, rule
    <3> QED
      BY <2>2, <3>1
  <2>4. m \in 0 .. N
    OBVIOUS
  <2> HIDE DEF longer, Right
  <2> QED
    BY <2>3, <2>4
<1>3. N \in H
  <2> HIDE DEF H
  <2>1. 0 .. N \subseteq H
    BY <1>1, <1>2, Upwards
  <2> QED
    BY <2>1
<1>4. PICK f : f = [i \in 1 .. N |-> f[i]] /\ Right(f, N)
  BY <1>3
<1>5. \A i \in 1 .. N : f[i] = rule(f, i)
  <2>1. \A i \in 1 .. N : i > N - N
    OBVIOUS
  <2> HIDE DEF rule
  <2> QED
    BY <1>4, <2>1
<1>6. f = [i \in 1 .. N |-> rule(f, i)]
  <2> HIDE DEF rule
  <2> QED
    BY <1>4, <1>5
<1> QED
  BY <1>6, Zenon DEF Chains

\* The tables that are trained: symbols are not empty, and no code is the
\* escape.
Symbols(t) == t.sym \in Seq(Seq(Nat) \ {<< >>}) /\ Len(t.sym) <= FSST_ESC

\* Where the encoding goes on behind position i, and what it has for it.
Behind(t, s, i) ==
    IF GreedyCode(t, s, i) = FSST_ESC THEN i + 1 ELSE i + Len(Sym(t, GreedyCode(t, s, i)))
CodesAt(t, s, i) ==
    IF GreedyCode(t, s, i) = FSST_ESC THEN <<FSST_ESC, s[i]>> ELSE <<GreedyCode(t, s, i)>>

\* What is encoded at a position is an escape or a symbol that the text holds.
LEMMA GreedyChoice ==
    ASSUME NEW t, Symbols(t), NEW s \in Seq(Nat), NEW i \in 1 .. Len(s)
    PROVE  LET c == GreedyCode(t, s, i)
           IN  \/ c = FSST_ESC
               \/ /\ c \in Codes(t) /\ c \in Nat /\ c < FSST_ESC
                  /\ HoldsAt(s, i, Sym(t, c))
                  /\ Sym(t, c) \in Seq(Nat) /\ Len(Sym(t, c)) \in Nat \ {0}
<1> DEFINE fit == MatchingCodes(t, s, i)
           size(c) == Len(Sym(t, c))
           longest == {c \in fit : \A d \in fit : size(d) <= size(c)}
<1>1. ASSUME NEW c \in Codes(t)
      PROVE  /\ c \in Nat /\ c < FSST_ESC
             /\ Sym(t, c) \in Seq(Nat) /\ size(c) \in Nat \ {0}
  <2> DEFINE n == Len(t.sym)
  <2>1. n \in Nat /\ n <= FSST_ESC
    BY DEF Symbols
  <2>2. c \in 0 .. n - 1
    BY DEF Codes
  <2>3. c \in Nat /\ c < FSST_ESC /\ c + 1 \in 1 .. n
    <3> HIDE DEF n
    <3> QED
      BY <2>1, <2>2 DEF FSST_ESC
  <2>4. Sym(t, c) \in Seq(Nat) \ {<< >>}
    BY <2>3, ElementOfSeq DEF Symbols, Sym
  <2>5. size(c) \in Nat \ {0}
    BY <2>4, EmptySeq
  <2> QED
    BY <2>3, <2>4, <2>5
<1>2. CASE fit = {}
  BY <1>2 DEF GreedyCode
<1>3. CASE fit # {}
  <2> DEFINE n == Len(s)
             T == {d \in 0 .. n : \E c \in fit : d = n - size(c)}
  <2>1. n \in Nat /\ i \in 1 .. n
    OBVIOUS
  <2>2. \A c \in fit : size(c) \in Nat /\ size(c) <= n
    <3>1. ASSUME NEW c \in fit PROVE size(c) \in Nat /\ size(c) <= n
      <4>1. c \in Codes(t) /\ HoldsAt(s, i, Sym(t, c))
        BY DEF MatchingCodes
      <4>2. size(c) \in Nat /\ i + size(c) - 1 <= n
        BY <1>1, <4>1 DEF HoldsAt
      <4> HIDE DEF size, n
      <4> QED
        BY <2>1, <4>2
    <3> QED
      BY <3>1
  <2>3. PICK d \in T : \A e \in T : d <= e
    <3>1. T # {}
      <4>1. PICK c \in fit : TRUE
        BY <1>3
      <4>2. n - size(c) \in 0 .. n
        <5> HIDE DEF n, size, fit
        <5> QED
          BY <2>1, <2>2
      <4> QED
        BY <4>2
    <3>2. T \in SUBSET Nat
      BY <2>1
    <3> HIDE DEF T
    <3> QED
      BY <3>1, <3>2, LeastNat
  <2>4. PICK c \in fit : d = n - size(c)
    OBVIOUS
  <2>5. ASSUME NEW e \in fit PROVE size(e) <= size(c)
    <3>1. n - size(e) \in 0 .. n /\ size(e) \in Nat /\ size(c) \in Nat
      <4> HIDE DEF n, size, fit
      <4> QED
        BY <2>1, <2>2
    <3>2. d <= n - size(e)
      BY <2>3, <3>1
    <3> HIDE DEF n, size, fit
    <3> QED
      BY <2>1, <2>4, <3>1, <3>2
  <2>6. longest # {}
    BY <2>5
  <2>7. GreedyCode(t, s, i) = CHOOSE e \in longest : TRUE
    BY <1>3 DEF GreedyCode
  <2>8. GreedyCode(t, s, i) \in fit
    <3>1. (CHOOSE e \in longest : TRUE) \in longest
      <4> HIDE DEF longest
      <4> QED
        BY <2>6
    <3> QED
      BY <2>7, <3>1
  <2>9. GreedyCode(t, s, i) \in Codes(t) /\ HoldsAt(s, i, Sym(t, GreedyCode(t, s, i)))
    BY <2>8 DEF MatchingCodes
  <2> QED
    BY <1>1, <2>9
<1> QED
  BY <1>2, <1>3

\* What the encodings of the rests of a text are.
Encodes(enc, t, s) ==
    /\ enc \in [1 .. Len(s) + 1 -> Seq(Nat)]
    /\ enc[Len(s) + 1] = << >>
    /\ \A i \in 1 .. Len(s) : enc[i] = CodesAt(t, s, i) \o enc[Behind(t, s, i)]

\* Where the encoding of a text goes on, and what stands before that.
LEMMA EncodingAt ==
    ASSUME NEW t, Symbols(t), NEW s \in Seq(Nat), NEW i \in 1 .. Len(s)
    PROVE  Behind(t, s, i) \in i + 1 .. Len(s) + 1 /\ CodesAt(t, s, i) \in Seq(Nat)
<1> DEFINE n == Len(s)  c == GreedyCode(t, s, i)
<1>1. n \in Nat /\ i \in 1 .. n /\ s[i] \in Nat
  OBVIOUS
<1>2. CASE c = FSST_ESC
  <2>1. Behind(t, s, i) = i + 1 /\ CodesAt(t, s, i) = <<FSST_ESC, s[i]>>
    BY <1>2 DEF Behind, CodesAt
  <2>2. <<FSST_ESC, s[i]>> \in Seq(Nat)
    BY <1>1 DEF FSST_ESC
  <2>3. i + 1 \in i + 1 .. n + 1
    <3> HIDE DEF n
    <3> QED
      BY <1>1
  <2> QED
    BY <2>1, <2>2, <2>3
<1>3. CASE c # FSST_ESC
  <2> DEFINE w == Len(Sym(t, c))
  <2>1. c \in Nat /\ HoldsAt(s, i, Sym(t, c)) /\ w \in Nat \ {0}
    BY <1>3, GreedyChoice
  <2>2. i + w - 1 <= n
    BY <2>1 DEF HoldsAt
  <2>3. Behind(t, s, i) = i + w /\ CodesAt(t, s, i) = <<c>>
    BY <1>3 DEF Behind, CodesAt
  <2>4. i + w \in i + 1 .. n + 1
    <3> HIDE DEF w, n
    <3> QED
      BY <1>1, <2>1, <2>2
  <2>5. <<c>> \in Seq(Nat)
    <3> HIDE DEF c
    <3> QED
      BY <2>1
  <2> QED
    BY <2>3, <2>4, <2>5
<1> QED
  BY <1>2, <1>3

\* The compressor makes a sequence of codes and bytes for every text.
LEMMA EncodeSteps ==
    ASSUME NEW t, Symbols(t), NEW s \in Seq(Nat)
    PROVE  \E enc : Encodes(enc, t, s) /\ Encode(t, s) = enc[1]
<1> DEFINE n == Len(s)
           D == 1 .. n + 1
           front == [i \in D |-> CodesAt(t, s, i)]
           next == [i \in D |-> Behind(t, s, i)]
           code(i) == GreedyCode(t, s, i)
           rule(f, i) == IF i > n THEN << >>
                         ELSE IF code(i) = FSST_ESC THEN <<FSST_ESC, s[i]>> \o f[i + 1]
                         ELSE <<code(i)>> \o f[i + Len(Sym(t, code(i)))]
<1>0. n \in Nat
  OBVIOUS
<1>1. \A i \in D : i \notin {n + 1} => i \in 1 .. n /\ next[i] \in i + 1 .. n + 1
  <2>1. \A i \in D : i \notin {n + 1} => i \in 1 .. n
    BY <1>0
  <2> QED
    BY <2>1, EncodingAt
<1>2. PICK f : f = [i \in D |-> IF i \in {n + 1} THEN << >> ELSE front[i] \o f[next[i]]]
  <2> DEFINE N == n + 1  stop == {n + 1}
  <2>1. GoesOn(N, stop, next)
    <3>1. n + 1 \in Nat
      BY <1>0
    <3> HIDE DEF next
    <3> QED
      BY <1>1, <3>1 DEF GoesOn
  <2>2. \E f : Chains(f, N, stop, front, next)
    <3> HIDE DEF front, next, N, stop
    <3> QED
      BY <2>1, ConcatFunction
  <2> QED
    BY <2>2, Zenon DEF Chains
<1>3. ASSUME NEW i \in D, NEW g
      PROVE  (IF i \in {n + 1} THEN << >> ELSE front[i] \o g[next[i]]) = rule(g, i)
  <2>1. CASE i = n + 1
    <3>1. i > n
      BY <1>0, <2>1
    <3> QED
      BY <2>1, <3>1
  <2>2. CASE i # n + 1
    <3>1. ~(i > n)
      BY <1>0, <2>2
    <3>2. front[i] = CodesAt(t, s, i) /\ next[i] = Behind(t, s, i)
      OBVIOUS
    <3>3. rule(g, i) = IF code(i) = FSST_ESC THEN <<FSST_ESC, s[i]>> \o g[i + 1]
                       ELSE <<code(i)>> \o g[i + Len(Sym(t, code(i)))]
      BY <3>1, Zenon
    <3>4. rule(g, i) = CodesAt(t, s, i) \o g[Behind(t, s, i)]
      BY <3>3, Zenon DEF CodesAt, Behind
    <3>5. i \notin {n + 1}
      BY <2>2
    <3> HIDE DEF rule, front, next
    <3> QED
      BY <3>2, <3>4, <3>5, Zenon
  <2> QED
    BY <2>1, <2>2
<1>4. f = [i \in D |-> rule(f, i)]
  <2> HIDE DEF rule, front, next, D
  <2> QED
    BY <1>2, <1>3
<1> DEFINE enc == CHOOSE g : g = [i \in D |-> rule(g, i)]
<1>5. Encode(t, s) = enc[1]
  BY DEF Encode
<1>6. enc = [i \in D |-> rule(enc, i)]
  <2> HIDE DEF rule
  <2> QED
    BY <1>4, Zenon
<1> HIDE DEF enc
<1>7. ASSUME NEW i \in D PROVE enc[i] = IF i \in {n + 1} THEN << >> ELSE front[i] \o enc[next[i]]
  <2>1. enc[i] = rule(enc, i)
    <3> HIDE DEF rule, D
    <3> QED
      BY <1>6
  <2> HIDE DEF rule, front, next
  <2> QED
    BY <1>3, <2>1, Zenon
<1>8. enc[n + 1] = << >>
  BY <1>0, <1>7
<1>9. ASSUME NEW i \in 1 .. n PROVE enc[i] = CodesAt(t, s, i) \o enc[Behind(t, s, i)]
  <2>1. i \in D /\ i \notin {n + 1}
    BY <1>0
  <2>2. front[i] = CodesAt(t, s, i) /\ next[i] = Behind(t, s, i)
    BY <2>1
  <2> HIDE DEF front, next
  <2> QED
    BY <1>7, <2>1, <2>2
<1> DEFINE H == {i \in D : enc[i] \in Seq(Nat)}
<1>10. ASSUME NEW i \in D, i + 1 .. n + 1 \subseteq H PROVE i \in H
  <2>1. CASE i = n + 1
    <3>1. enc[i] = << >> /\ << >> \in Seq(Nat)
      BY <1>8, <2>1
    <3> QED
      BY <3>1
  <2>2. CASE i # n + 1
    <3>1. i \in 1 .. n
      BY <1>0, <2>2
    <3>2. Behind(t, s, i) \in H /\ CodesAt(t, s, i) \in Seq(Nat)
      BY <1>10, <3>1, EncodingAt
    <3>3. CodesAt(t, s, i) \o enc[Behind(t, s, i)] \in Seq(Nat)
      BY <3>2, Concatenated
    <3> QED
      BY <1>9, <3>1, <3>3
  <2> QED
    BY <2>1, <2>2
<1>11. D \subseteq H
  <2>1. n + 1 \in Nat /\ 1 \in Nat
    BY <1>0
  <2> HIDE DEF H
  <2> QED
    BY <1>10, <2>1, Downwards
<1>12. enc \in [D -> Seq(Nat)]
  <2> HIDE DEF rule
  <2> QED
    BY <1>6, <1>11
<1>13. Encodes(enc, t, s)
  BY <1>8, <1>9, <1>12 DEF Encodes
<1> QED
  BY <1>5, <1>13

\* What the decoder makes of the rests of a compressed string, and what the
\* two searches for escapes find in them.
Decodes(text, t, out) ==
    LET m == Len(out)
    IN  /\ text[m + 1] = << >>
        /\ \A k \in 1 .. m :
              /\ out[k] # FSST_ESC => text[k] = Sym(t, out[k]) \o text[k + 1]
              /\ (out[k] = FSST_ESC /\ k # m) => text[k] = <<out[k + 1]>> \o text[k + 2]
Validates(ok, t, out) ==
    LET m == Len(out)
    IN  /\ ok[m + 1] = TRUE
        /\ \A k \in 1 .. m :
              /\ out[k] # FSST_ESC => ok[k] = ok[k + 1]
              /\ out[k] = FSST_ESC => ok[k] = (IsEscapable(t, out[k + 1]) /\ ok[k + 2])
Collects(bytes, out) ==
    LET m == Len(out)
    IN  /\ bytes[m + 1] = {}
        /\ \A k \in 1 .. m :
              /\ out[k] # FSST_ESC => bytes[k] = bytes[k + 1]
              /\ out[k] = FSST_ESC => bytes[k] = {out[k + 1]} \cup bytes[k + 2]

\* The decoder takes these steps,
LEMMA DecodeSteps ==
    ASSUME NEW t, NEW out \in Seq(Nat)
    PROVE  \E text : Decodes(text, t, out) /\ DecodeFirst(t, out, Len(out)) = text[1]
<1> DEFINE m == Len(out)
           N == m + 2
           D == 1 .. m + 2
           stop == {k \in D : k > m \/ (out[k] = FSST_ESC /\ k = m)}
           front == [k \in D |-> IF out[k] = FSST_ESC THEN <<out[k + 1]>> ELSE Sym(t, out[k])]
           next == [k \in D |-> IF out[k] = FSST_ESC THEN k + 2 ELSE k + 1]
           rule(f, k) == CASE k > m -> << >>
                           [] k <= m /\ out[k] = FSST_ESC ->
                                 IF k = m THEN << >> ELSE <<out[k + 1]>> \o f[k + 2]
                           [] OTHER -> Sym(t, out[k]) \o f[k + 1]
           chain(f, k) == IF k \in stop THEN << >> ELSE front[k] \o f[next[k]]
<1>0. m \in Nat
  OBVIOUS
<1>1. m = Len(out)
  OBVIOUS
<1> HIDE DEF m
<1>2. GoesOn(N, stop, next)
  <2>1. ASSUME NEW k \in 1 .. N, k \notin stop PROVE next[k] \in k + 1 .. N
    BY <1>0, <2>1
  <2>2. N \in Nat
    BY <1>0
  <2> HIDE DEF next, stop, N
  <2> QED
    BY <2>1, <2>2 DEF GoesOn
<1>3. PICK f : Chains(f, N, stop, front, next)
  <2> HIDE DEF next, stop, N, front
  <2> QED
    BY <1>2, ConcatFunction
<1>4. f = [k \in D |-> chain(f, k)]
  BY <1>3, Zenon DEF Chains
<1>5. ASSUME NEW k \in D, NEW g PROVE chain(g, k) = rule(g, k)
  <2>1. CASE k > m
    <3>1. k \in stop /\ ~(k <= m)
      BY <1>0, <2>1
    <3>2. rule(g, k) = << >>
      BY <2>1, <3>1
    <3> HIDE DEF rule, stop
    <3> QED
      BY <3>1, <3>2
  <2>2. CASE ~(k > m) /\ out[k] = FSST_ESC /\ k = m
    <3>1. k \in stop /\ k <= m
      BY <1>0, <2>2
    <3> QED
      BY <2>2, <3>1
  <2>3. CASE ~(k > m) /\ out[k] = FSST_ESC /\ k # m
    <3>1. k \notin stop /\ k <= m
      BY <1>0, <2>3
    <3>2. front[k] = <<out[k + 1]>> /\ next[k] = k + 2
      BY <2>3
    <3>3. chain(g, k) = <<out[k + 1]>> \o g[k + 2]
      <4> HIDE DEF front, next, stop
      <4> QED
        BY <3>1, <3>2, Zenon
    <3>4. rule(g, k) = IF k = m THEN << >> ELSE <<out[k + 1]>> \o g[k + 2]
      BY <2>3, <3>1
    <3> HIDE DEF chain, rule
    <3> QED
      BY <2>3, <3>3, <3>4, Zenon
  <2>4. CASE ~(k > m) /\ out[k] # FSST_ESC
    <3>1. k \notin stop
      BY <2>4
    <3>2. front[k] = Sym(t, out[k]) /\ next[k] = k + 1
      BY <2>4
    <3>3. chain(g, k) = Sym(t, out[k]) \o g[k + 1]
      <4> HIDE DEF front, next, stop
      <4> QED
        BY <3>1, <3>2, Zenon
    <3>4. rule(g, k) = Sym(t, out[k]) \o g[k + 1]
      BY <2>4
    <3> HIDE DEF chain, rule
    <3> QED
      BY <3>3, <3>4, Zenon
  <2> HIDE DEF chain, rule
  <2> QED
    BY <2>1, <2>2, <2>3, <2>4
<1>6. f = [k \in D |-> rule(f, k)]
  <2> HIDE DEF rule, chain, D
  <2> QED
    BY <1>4, <1>5
<1> DEFINE text == CHOOSE g : g = [k \in D |-> rule(g, k)]
<1>7. DecodeFirst(t, out, Len(out)) = text[1]
  BY <1>1 DEF DecodeFirst
<1>8. text = [k \in D |-> rule(text, k)]
  <2> HIDE DEF rule
  <2> QED
    BY <1>6, Zenon
<1> HIDE DEF text
<1>9. ASSUME NEW k \in D PROVE text[k] = rule(text, k)
  <2> HIDE DEF rule, D
  <2> QED
    BY <1>8
<1>10. text[m + 1] = << >>
  <2>1. m + 1 \in D /\ m + 1 > m /\ ~(m + 1 <= m)
    BY <1>0
  <2>2. rule(text, m + 1) = << >>
    BY <2>1
  <2> HIDE DEF rule
  <2> QED
    BY <1>9, <2>1, <2>2
<1>11. ASSUME NEW k \in 1 .. m
       PROVE  /\ out[k] # FSST_ESC => text[k] = Sym(t, out[k]) \o text[k + 1]
              /\ (out[k] = FSST_ESC /\ k # m) => text[k] = <<out[k + 1]>> \o text[k + 2]
  <2>1. k \in D /\ ~(k > m) /\ k <= m
    BY <1>0
  <2>2. text[k] = rule(text, k)
    BY <1>9, <2>1
  <2>3. CASE out[k] # FSST_ESC
    <3>1. rule(text, k) = Sym(t, out[k]) \o text[k + 1]
      BY <2>1, <2>3
    <3> HIDE DEF rule
    <3> QED
      BY <2>2, <2>3, <3>1, Zenon
  <2>4. CASE out[k] = FSST_ESC
    <3>1. rule(text, k) = IF k = m THEN << >> ELSE <<out[k + 1]>> \o text[k + 2]
      BY <2>1, <2>4
    <3> HIDE DEF rule
    <3> QED
      BY <2>2, <2>4, <3>1, Zenon
  <2> QED
    BY <2>3, <2>4
<1>12. Decodes(text, t, out)
  BY <1>1, <1>10, <1>11, Zenon DEF Decodes
<1> QED
  BY <1>7, <1>12

\* so does the encoder when it looks for a literal that is not escapable,
LEMMA ValidSteps ==
    ASSUME NEW t, NEW out \in Seq(Nat)
    PROVE  \E ok : Validates(ok, t, out) /\ IsEncodingValid(t, out) = ok[1]
<1> DEFINE m == Len(out)
           N == m + 2
           D == 1 .. m + 2
           stop == {k \in D : k > m}
           base == [k \in D |-> TRUE]
           rank == [k \in D |-> (m + 2) - k]
           step == [k \in D |-> [v \in BOOLEAN |->
                       IF out[k] # FSST_ESC THEN v ELSE IsEscapable(t, out[k + 1]) /\ v]]
           next == [k \in D |-> IF out[k] # FSST_ESC THEN k + 1 ELSE k + 2]
           rule(f, k) == CASE k > m -> TRUE
                           [] k <= m /\ out[k] # FSST_ESC -> f[k + 1]
                           [] OTHER -> IsEscapable(t, out[k + 1]) /\ f[k + 2]
           chain(f, k) == IF k \in stop THEN base[k] ELSE step[k][f[next[k]]]
<1>0. m \in Nat
  OBVIOUS
<1>1. m = Len(out)
  OBVIOUS
<1> HIDE DEF m
<1>2. Descends(D, BOOLEAN, N, rank, stop, base, step, next)
  <2>1. N \in Nat /\ rank \in [D -> 0 .. N]
    BY <1>0
  <2>2. ASSUME NEW k \in D, k \in stop PROVE base[k] \in BOOLEAN
    OBVIOUS
  <2>3. ASSUME NEW k \in D, k \notin stop
        PROVE  next[k] \in D /\ rank[next[k]] < rank[k] /\ step[k] \in [BOOLEAN -> BOOLEAN]
    <3>1. next[k] \in D /\ rank[next[k]] < rank[k]
      BY <1>0, <2>3
    <3>2. step[k] \in [BOOLEAN -> BOOLEAN]
      BY DEF IsEscapable
    <3> QED
      BY <3>1, <3>2
  <2> HIDE DEF D, N, rank, stop, base, step, next
  <2> QED
    BY <2>1, <2>2, <2>3 DEF Descends
<1>3. PICK f : Follows(f, D, BOOLEAN, stop, base, step, next)
  <2> HIDE DEF D, N, rank, stop, base, step, next
  <2> QED
    BY <1>2, RankedFunction
<1>4. f \in [D -> BOOLEAN] /\ \A k \in D : f[k] = chain(f, k)
  <2> HIDE DEF D, stop, base, step, next
  <2> QED
    BY <1>3 DEF Follows
<1>5. ASSUME NEW k \in D PROVE f[k] = rule(f, k)
  <2>1. CASE k > m
    <3>1. k \in stop /\ ~(k <= m)
      BY <1>0, <2>1
    <3>2. rule(f, k) = TRUE
      BY <2>1, <3>1
    <3>3. base[k] = TRUE
      OBVIOUS
    <3> HIDE DEF rule, stop, base
    <3> QED
      BY <1>4, <3>1, <3>2, <3>3
  <2>2. CASE ~(k > m)
    <3>1. k <= m /\ k \notin stop /\ k + 1 \in D /\ k + 2 \in D
      BY <1>0, <2>2
    <3>2. CASE out[k] # FSST_ESC
      <4>1. next[k] = k + 1 /\ f[k + 1] \in BOOLEAN /\ step[k] = [v \in BOOLEAN |-> v]
        BY <1>4, <3>1, <3>2
      <4>2. chain(f, k) = f[k + 1]
        <5> HIDE DEF next, step, stop
        <5> QED
          BY <3>1, <4>1
      <4>3. rule(f, k) = f[k + 1]
        BY <2>2, <3>1, <3>2
      <4> HIDE DEF chain, rule
      <4> QED
        BY <1>4, <4>2, <4>3
    <3>3. CASE out[k] = FSST_ESC
      <4>1. /\ next[k] = k + 2 /\ f[k + 2] \in BOOLEAN
            /\ step[k] = [v \in BOOLEAN |-> IsEscapable(t, out[k + 1]) /\ v]
        BY <1>4, <3>1, <3>3
      <4>2. chain(f, k) = (IsEscapable(t, out[k + 1]) /\ f[k + 2])
        <5> HIDE DEF next, step, stop
        <5> QED
          BY <3>1, <4>1
      <4>3. rule(f, k) = (IsEscapable(t, out[k + 1]) /\ f[k + 2])
        BY <2>2, <3>1, <3>3
      <4> HIDE DEF chain, rule
      <4> QED
        BY <1>4, <4>2, <4>3
    <3> QED
      BY <3>2, <3>3
  <2> QED
    BY <2>1, <2>2
<1>6. f = [k \in D |-> rule(f, k)]
  <2> HIDE DEF rule, D
  <2> QED
    BY <1>4, <1>5
<1> DEFINE ok == CHOOSE g : g = [k \in D |-> rule(g, k)]
<1>7. IsEncodingValid(t, out) = ok[1]
  BY <1>1 DEF IsEncodingValid
<1>8. ok = [k \in D |-> rule(ok, k)]
  <2> HIDE DEF rule
  <2> QED
    BY <1>6, Zenon
<1> HIDE DEF ok
<1>9. ASSUME NEW k \in D PROVE ok[k] = rule(ok, k)
  <2> HIDE DEF rule, D
  <2> QED
    BY <1>8
<1>10. ok[m + 1] = TRUE
  <2>1. m + 1 \in D /\ m + 1 > m /\ ~(m + 1 <= m)
    BY <1>0
  <2>2. rule(ok, m + 1) = TRUE
    BY <2>1
  <2> HIDE DEF rule
  <2> QED
    BY <1>9, <2>1, <2>2
<1>11. ASSUME NEW k \in 1 .. m
       PROVE  /\ out[k] # FSST_ESC => ok[k] = ok[k + 1]
              /\ out[k] = FSST_ESC => ok[k] = (IsEscapable(t, out[k + 1]) /\ ok[k + 2])
  <2>1. k \in D /\ ~(k > m) /\ k <= m
    BY <1>0
  <2>2. ok[k] = rule(ok, k)
    BY <1>9, <2>1
  <2>3. out[k] # FSST_ESC => rule(ok, k) = ok[k + 1]
    BY <2>1
  <2>4. out[k] = FSST_ESC => rule(ok, k) = (IsEscapable(t, out[k + 1]) /\ ok[k + 2])
    BY <2>1
  <2> HIDE DEF rule
  <2> QED
    BY <2>2, <2>3, <2>4, Zenon
<1>12. Validates(ok, t, out)
  BY <1>1, <1>10, <1>11, Zenon DEF Validates
<1> QED
  BY <1>7, <1>12

\* and so does the server when it collects the literals.
LEMMA CollectSteps ==
    ASSUME NEW out \in Seq(Nat)
    PROVE  \E bytes : Collects(bytes, out) /\ Escaped(out) = bytes[1]
<1> DEFINE m == Len(out)
           N == m + 2
           D == 1 .. m + 2
           stop == {k \in D : k > m}
           base == [k \in D |-> {}]
           rank == [k \in D |-> (m + 2) - k]
           V == SUBSET {out[k + 1] : k \in 1 .. m}
           step == [k \in D |-> [v \in V |->
                       IF out[k] # FSST_ESC THEN v ELSE {out[k + 1]} \cup v]]
           next == [k \in D |-> IF out[k] # FSST_ESC THEN k + 1 ELSE k + 2]
           rule(f, k) == CASE k > m -> {}
                           [] k <= m /\ out[k] = FSST_ESC -> {out[k + 1]} \cup f[k + 2]
                           [] OTHER -> f[k + 1]
           chain(f, k) == IF k \in stop THEN base[k] ELSE step[k][f[next[k]]]
<1>0. m \in Nat
  OBVIOUS
<1>1. m = Len(out)
  OBVIOUS
<1> HIDE DEF m
<1>2. Descends(D, V, N, rank, stop, base, step, next)
  <2>1. N \in Nat /\ rank \in [D -> 0 .. N]
    BY <1>0
  <2>2. ASSUME NEW k \in D, k \in stop PROVE base[k] \in V
    OBVIOUS
  <2>3. ASSUME NEW k \in D, k \notin stop
        PROVE  next[k] \in D /\ rank[next[k]] < rank[k] /\ step[k] \in [V -> V]
    <3>1. next[k] \in D /\ rank[next[k]] < rank[k]
      BY <1>0, <2>3
    <3>2. step[k] \in [V -> V]
      <4>1. k \in 1 .. m
        BY <1>0, <2>3
      <4>2. \A v \in V : v \in V /\ {out[k + 1]} \cup v \in V
        BY <4>1
      <4> HIDE DEF V
      <4> QED
        BY <4>2
    <3> QED
      BY <3>1, <3>2
  <2> HIDE DEF D, N, rank, stop, base, step, next
  <2> QED
    BY <2>1, <2>2, <2>3 DEF Descends
<1>3. PICK f : Follows(f, D, V, stop, base, step, next)
  <2> HIDE DEF D, N, rank, stop, base, step, next
  <2> QED
    BY <1>2, RankedFunction
<1>4. f \in [D -> V] /\ \A k \in D : f[k] = chain(f, k)
  <2> HIDE DEF D, stop, base, step, next
  <2> QED
    BY <1>3 DEF Follows
<1>5. ASSUME NEW k \in D PROVE f[k] = rule(f, k)
  <2>1. CASE k > m
    <3>1. k \in stop /\ ~(k <= m)
      BY <1>0, <2>1
    <3>2. rule(f, k) = {}
      BY <2>1, <3>1
    <3>3. base[k] = {}
      OBVIOUS
    <3> HIDE DEF rule, stop, base
    <3> QED
      BY <1>4, <3>1, <3>2, <3>3
  <2>2. CASE ~(k > m)
    <3>1. k <= m /\ k \notin stop /\ k + 1 \in D /\ k + 2 \in D
      BY <1>0, <2>2
    <3>2. CASE out[k] # FSST_ESC
      <4>1. next[k] = k + 1 /\ f[k + 1] \in V /\ step[k] = [v \in V |-> v]
        BY <1>4, <3>1, <3>2
      <4>2. chain(f, k) = f[k + 1]
        <5> HIDE DEF next, step, stop
        <5> QED
          BY <3>1, <4>1
      <4>3. rule(f, k) = f[k + 1]
        BY <2>2, <3>1, <3>2
      <4> HIDE DEF chain, rule
      <4> QED
        BY <1>4, <4>2, <4>3
    <3>3. CASE out[k] = FSST_ESC
      <4>1. /\ next[k] = k + 2 /\ f[k + 2] \in V
            /\ step[k] = [v \in V |-> {out[k + 1]} \cup v]
        BY <1>4, <3>1, <3>3
      <4>2. chain(f, k) = ({out[k + 1]} \cup f[k + 2])
        <5> HIDE DEF next, step, stop
        <5> QED
          BY <3>1, <4>1
      <4>3. rule(f, k) = ({out[k + 1]} \cup f[k + 2])
        BY <2>2, <3>1, <3>3
      <4> HIDE DEF chain, rule
      <4> QED
        BY <1>4, <4>2, <4>3
    <3> QED
      BY <3>2, <3>3
  <2> QED
    BY <2>1, <2>2
<1>6. f = [k \in D |-> rule(f, k)]
  <2> HIDE DEF rule, D
  <2> QED
    BY <1>4, <1>5
<1> DEFINE bytes == CHOOSE g : g = [k \in D |-> rule(g, k)]
<1>7. Escaped(out) = bytes[1]
  BY <1>1 DEF Escaped
<1>8. bytes = [k \in D |-> rule(bytes, k)]
  <2> HIDE DEF rule
  <2> QED
    BY <1>6, Zenon
<1> HIDE DEF bytes
<1>9. ASSUME NEW k \in D PROVE bytes[k] = rule(bytes, k)
  <2> HIDE DEF rule, D
  <2> QED
    BY <1>8
<1>10. bytes[m + 1] = {}
  <2>1. m + 1 \in D /\ m + 1 > m /\ ~(m + 1 <= m)
    BY <1>0
  <2>2. rule(bytes, m + 1) = {}
    BY <2>1
  <2> HIDE DEF rule
  <2> QED
    BY <1>9, <2>1, <2>2
<1>11. ASSUME NEW k \in 1 .. m
       PROVE  /\ out[k] # FSST_ESC => bytes[k] = bytes[k + 1]
              /\ out[k] = FSST_ESC => bytes[k] = ({out[k + 1]} \cup bytes[k + 2])
  <2>1. k \in D /\ ~(k > m) /\ k <= m
    BY <1>0
  <2>2. bytes[k] = rule(bytes, k)
    BY <1>9, <2>1
  <2>3. out[k] # FSST_ESC => rule(bytes, k) = bytes[k + 1]
    BY <2>1
  <2>4. out[k] = FSST_ESC => rule(bytes, k) = ({out[k + 1]} \cup bytes[k + 2])
    BY <2>1
  <2> HIDE DEF rule
  <2> QED
    BY <2>2, <2>3, <2>4, Zenon
<1>12. Collects(bytes, out)
  BY <1>1, <1>10, <1>11, Zenon DEF Collects
<1> QED
  BY <1>7, <1>12

\* A compressed string ends with these cells, which p cells stand before.
EndsWith(out, p, cells) ==
    /\ Len(out) = p + Len(cells)
    /\ \A j \in 1 .. Len(cells) : out[p + j] = cells[j]

\* One that ends with two parts holds the first and ends with the second.
LEMMA EndsBehind ==
    ASSUME NEW out \in Seq(Nat), NEW p \in Nat, NEW x \in Seq(Nat), NEW y \in Seq(Nat),
           EndsWith(out, p, x \o y)
    PROVE  /\ EndsWith(out, p + Len(x), y)
           /\ \A j \in 1 .. Len(x) : p + j \in 1 .. Len(out) /\ out[p + j] = x[j]
           /\ p + Len(x) \in 0 .. Len(out)
<1> DEFINE e == x \o y  l == Len(x)  w == Len(y)  m == Len(out)
<1>1. l \in Nat /\ w \in Nat /\ m \in Nat
  OBVIOUS
<1>2. Joins(e, x, y)
  BY Concatenated
<1>3. /\ Len(e) = l + w
      /\ \A j \in 1 .. l : e[j] = x[j]
      /\ \A j \in 1 .. w : e[l + j] = y[j]
  BY <1>2 DEF Joins
<1>4. m = p + Len(e) /\ \A j \in 1 .. Len(e) : out[p + j] = e[j]
  BY DEF EndsWith
<1> HIDE DEF e, l, w, m
<1>5. m = (p + l) + w /\ p + l \in 0 .. m
  BY <1>1, <1>3, <1>4
<1>6. ASSUME NEW j \in 1 .. l PROVE p + j \in 1 .. m /\ out[p + j] = x[j]
  <2>1. p + j \in 1 .. m /\ j \in 1 .. Len(e)
    BY <1>1, <1>3, <1>5
  <2> QED
    BY <1>3, <1>4, <2>1
<1>7. ASSUME NEW j \in 1 .. w PROVE out[(p + l) + j] = y[j]
  <2>1. l + j \in 1 .. Len(e) /\ p + (l + j) = (p + l) + j
    BY <1>1, <1>3
  <2>2. out[p + (l + j)] = e[l + j]
    BY <1>4, <2>1
  <2> QED
    BY <1>3, <2>1, <2>2
<1> QED
  BY <1>5, <1>6, <1>7 DEF EndsWith, l, w, m

\* The decoder, the search for literals that are not escapable and the one
\* for all literals agree, behind p cells, with the text from i on.
ReadsRest(t, s, out, text, ok, bytes, i, p) ==
    /\ text[p + 1] = SubSeq(s, i, Len(s))
    /\ bytes[p + 1] \subseteq Nat
    /\ bytes[p + 1] \subseteq t.esc => ok[p + 1] = TRUE

\* A symbol or a literal in front of what is read makes it longer by that.
LEMMA ReadsOneMore ==
    ASSUME NEW t, Symbols(t), NEW u, u.sym = t.sym, NEW s \in Seq(Nat), NEW enc, Encodes(enc, t, s),
           NEW out \in Seq(Nat), NEW text, Decodes(text, u, out), NEW ok, Validates(ok, u, out),
           NEW bytes, Collects(bytes, out), NEW i \in 1 .. Len(s), NEW p \in Nat,
           EndsWith(out, p, enc[i]),
           \A q \in Nat : EndsWith(out, q, enc[Behind(t, s, i)]) =>
                             ReadsRest(u, s, out, text, ok, bytes, Behind(t, s, i), q)
    PROVE  ReadsRest(u, s, out, text, ok, bytes, i, p)
<1> DEFINE n == Len(s)  m == Len(out)  c == GreedyCode(t, s, i)
           b == Behind(t, s, i)  fr == CodesAt(t, s, i)
<1>1. n \in Nat /\ m \in Nat /\ i \in 1 .. n /\ s[i] \in Nat
  OBVIOUS
<1>2. b \in i + 1 .. n + 1 /\ fr \in Seq(Nat)
  BY EncodingAt
<1>3. enc[i] = fr \o enc[b] /\ enc[b] \in Seq(Nat)
  <2>1. enc \in [1 .. n + 1 -> Seq(Nat)] /\ enc[i] = fr \o enc[b]
    BY DEF Encodes
  <2>2. b \in 1 .. n + 1
    <3> HIDE DEF b, n
    <3> QED
      BY <1>1, <1>2
  <2> HIDE DEF b, n, fr
  <2> QED
    BY <2>1, <2>2
<1>4. /\ EndsWith(out, p + Len(fr), enc[b])
      /\ \A j \in 1 .. Len(fr) : p + j \in 1 .. m /\ out[p + j] = fr[j]
      /\ p + Len(fr) \in 0 .. m
  <2>1. EndsWith(out, p, fr \o enc[b])
    BY <1>3
  <2> HIDE DEF fr, b
  <2> QED
    BY <1>2, <1>3, <2>1, EndsBehind
<1>5. ReadsRest(u, s, out, text, ok, bytes, b, p + Len(fr))
  <2>1. p + Len(fr) \in Nat
    BY <1>4
  <2> QED
    BY <1>4, <2>1
<1>6. CASE c = FSST_ESC
  <2>1. fr = <<FSST_ESC, s[i]>> /\ b = i + 1
    BY <1>6 DEF CodesAt, Behind
  <2>2. /\ p + 1 \in 1 .. m /\ p + 2 \in 1 .. m
        /\ out[p + 1] = FSST_ESC /\ out[p + 2] = s[i]
        /\ (p + 1) + 1 = p + 2 /\ (p + 1) + 2 = (p + 2) + 1 /\ p + 1 # m
        /\ Len(fr) = 2
    <3>1. Len(fr) = 2 /\ fr[1] = FSST_ESC /\ fr[2] = s[i]
      BY <2>1
    <3>2. 1 \in 1 .. 2 /\ 2 \in 1 .. 2
      OBVIOUS
    <3>3. p + 1 \in 1 .. m /\ p + 2 \in 1 .. m /\ out[p + 1] = FSST_ESC /\ out[p + 2] = s[i]
      BY <1>4, <3>1, <3>2
    <3> HIDE DEF m
    <3> QED
      BY <1>1, <3>1, <3>3
  <2>3. /\ text[(p + 2) + 1] = SubSeq(s, i + 1, n)
        /\ bytes[(p + 2) + 1] \subseteq Nat
        /\ bytes[(p + 2) + 1] \subseteq u.esc => ok[(p + 2) + 1] = TRUE
    BY <1>5, <2>1, <2>2 DEF ReadsRest
  <2>4. text[p + 1] = <<s[i]>> \o SubSeq(s, i + 1, n)
    <3>1. text[p + 1] = <<out[(p + 1) + 1]>> \o text[(p + 1) + 2]
      BY <2>2 DEF Decodes
    <3> QED
      BY <2>2, <2>3, <3>1
  <2>5. SubSeq(s, i, n) = <<s[i]>> \o SubSeq(s, i + 1, n)
    <3>1. n \in i .. n
      BY <1>1
    <3> QED
      BY <3>1, SubSeqRecursiveFirst
  <2>6. bytes[p + 1] = {s[i]} \cup bytes[(p + 2) + 1]
    BY <2>2 DEF Collects
  <2>7. ok[p + 1] = (IsEscapable(u, s[i]) /\ ok[(p + 2) + 1])
    <3>1. ok[p + 1] = (IsEscapable(u, out[(p + 1) + 1]) /\ ok[(p + 1) + 2])
      BY <2>2, Zenon DEF Validates
    <3> QED
      BY <2>2, <3>1
  <2>8. bytes[p + 1] \subseteq u.esc => ok[p + 1] = TRUE
    <3>1. bytes[p + 1] \subseteq u.esc => s[i] \in u.esc /\ bytes[(p + 2) + 1] \subseteq u.esc
      BY <2>6
    <3> QED
      BY <2>3, <2>7, <3>1 DEF IsEscapable
  <2>9. bytes[p + 1] \subseteq Nat
    BY <1>1, <2>3, <2>6
  <2> QED
    BY <2>4, <2>5, <2>8, <2>9 DEF ReadsRest
<1>7. CASE c # FSST_ESC
  <2> DEFINE w == Len(Sym(t, c))  a == i - 1
  <2>1. c \in Nat /\ HoldsAt(s, i, Sym(t, c)) /\ Sym(t, c) \in Seq(Nat) /\ w \in Nat \ {0}
    BY <1>7, GreedyChoice
  <2>2. fr = <<c>> /\ b = i + w
    BY <1>7 DEF CodesAt, Behind
  <2>3. Len(fr) = 1 /\ p + 1 \in 1 .. m /\ out[p + 1] = c
    <3>1. Len(fr) = 1 /\ fr[1] = c
      <4> HIDE DEF c, fr
      <4> QED
        BY <2>2
    <3>2. 1 \in 1 .. 1
      OBVIOUS
    <3> QED
      BY <1>4, <3>1, <3>2
  <2>4. /\ text[(p + 1) + 1] = SubSeq(s, i + w, n)
        /\ bytes[(p + 1) + 1] \subseteq Nat
        /\ bytes[(p + 1) + 1] \subseteq u.esc => ok[(p + 1) + 1] = TRUE
    BY <1>5, <2>2, <2>3 DEF ReadsRest
  <2>5. text[p + 1] = Sym(t, c) \o SubSeq(s, i + w, n)
    <3>1. text[p + 1] = Sym(u, c) \o text[(p + 1) + 1]
      <4> HIDE DEF c
      <4> QED
        BY <1>7, <2>3 DEF Decodes
    <3>2. Sym(u, c) = Sym(t, c)
      BY DEF Sym
    <3> QED
      BY <2>4, <3>1, <3>2
  <2>6. SubSeq(s, i, n) = Sym(t, c) \o SubSeq(s, i + w, n)
    <3>1. a \in Nat /\ (a + w) + 1 = i + w /\ a + 1 = i /\ a + w \in i - 1 .. n /\ n \in a + w .. n
          /\ i \in 1 .. n + 1
      <4>1. i + w - 1 <= n
        BY <2>1 DEF HoldsAt
      <4> HIDE DEF w, n
      <4> QED
        BY <1>1, <2>1, <4>1
    <3>2. ASSUME NEW j \in 1 .. w PROVE s[a + j] = Sym(t, c)[j]
      <4>1. s[i + j - 1] = Sym(t, c)[j]
        BY <2>1 DEF HoldsAt
      <4>2. i + j - 1 = a + j
        BY <1>1
      <4> QED
        BY <4>1, <4>2
    <3>3. SubSeq(s, a + 1, a + w) = Sym(t, c)
      <4> HIDE DEF a, c
      <4> QED
        BY <2>1, <3>1, <3>2, RowAt
    <3>4. SubSeq(s, i, a + w) \o SubSeq(s, (a + w) + 1, n) = SubSeq(s, i, n)
      <4> HIDE DEF a, w
      <4> QED
        BY <3>1, ConcatAdjacentSubSeq
    <3> HIDE DEF a, w, c, n
    <3> QED
      BY <3>1, <3>3, <3>4
  <2>7. bytes[p + 1] = bytes[(p + 1) + 1]
    <3> HIDE DEF c
    <3> QED
      BY <1>7, <2>3 DEF Collects
  <2>8. ok[p + 1] = ok[(p + 1) + 1]
    <3>1. out[p + 1] # FSST_ESC
      BY <1>7, <2>3
    <3> QED
      BY <2>3, <3>1, Zenon DEF Validates
  <2> QED
    BY <2>4, <2>5, <2>6, <2>7, <2>8 DEF ReadsRest
<1> QED
  BY <1>6, <1>7

\* Decoding undoes encoding, with whatever escape marks; if these have all
\* literals, the encoding is valid.
LEMMA DecodesEncoded ==
    ASSUME NEW t, Symbols(t), NEW u, u.sym = t.sym, NEW s \in Seq(Nat), NEW out, out = Encode(t, s)
    PROVE  /\ out \in Seq(Nat)
           /\ DecodeFirst(u, out, Len(out)) = s
           /\ Escaped(out) \subseteq Nat
           /\ Escaped(out) \subseteq u.esc => IsEncodingValid(u, out)
<1> DEFINE n == Len(s)
<1>1. PICK enc : Encodes(enc, t, s) /\ out = enc[1]
  BY EncodeSteps
<1>2. n \in Nat /\ enc \in [1 .. n + 1 -> Seq(Nat)]
  BY <1>1 DEF Encodes
<1>3. out \in Seq(Nat)
  BY <1>1, <1>2
<1>4. PICK text : Decodes(text, u, out) /\ DecodeFirst(u, out, Len(out)) = text[1]
  BY <1>3, DecodeSteps
<1>5. PICK ok : Validates(ok, u, out) /\ IsEncodingValid(u, out) = ok[1]
  BY <1>3, ValidSteps
<1>6. PICK bytes : Collects(bytes, out) /\ Escaped(out) = bytes[1]
  BY <1>3, CollectSteps
<1> DEFINE Reads(i) == \A p \in Nat :
                          EndsWith(out, p, enc[i]) => ReadsRest(u, s, out, text, ok, bytes, i, p)
           H == {i \in 1 .. n + 1 : Reads(i)}
<1>7. ASSUME NEW i \in 1 .. n + 1, i + 1 .. n + 1 \subseteq H PROVE i \in H
  <2>1. CASE i = n + 1
    <3>1. enc[i] = << >>
      BY <1>1, <2>1 DEF Encodes
    <3>2. ASSUME NEW p \in Nat, EndsWith(out, p, enc[i])
          PROVE  ReadsRest(u, s, out, text, ok, bytes, i, p)
      <4>1. Len(out) = p
        BY <3>1, <3>2 DEF EndsWith
      <4>2. text[p + 1] = << >>
        BY <1>4, <4>1 DEF Decodes
      <4>3. bytes[p + 1] = {}
        BY <1>6, <4>1 DEF Collects
      <4>4. ok[p + 1] = TRUE
        BY <1>5, <4>1, Zenon DEF Validates
      <4>5. SubSeq(s, i, n) = << >>
        <5>1. i \in Int /\ n \in Int /\ n < i
          BY <1>2, <2>1
        <5> QED
          BY <5>1, SubSeqEmpty
      <4> QED
        BY <4>2, <4>3, <4>4, <4>5 DEF ReadsRest
    <3> QED
      BY <3>2
  <2>2. CASE i # n + 1
    <3>1. i \in 1 .. n
      BY <1>2, <2>2
    <3>2. Reads(Behind(t, s, i))
      BY <1>7, <3>1, EncodingAt
    <3>3. ASSUME NEW p \in Nat, EndsWith(out, p, enc[i])
          PROVE  ReadsRest(u, s, out, text, ok, bytes, i, p)
      BY <1>1, <1>3, <1>4, <1>5, <1>6, <3>1, <3>2, <3>3, ReadsOneMore
    <3> QED
      BY <3>3
  <2> QED
    BY <2>1, <2>2
<1>8. Reads(1)
  <2>1. n + 1 \in Nat /\ 1 \in Nat /\ 1 \in 1 .. n + 1
    BY <1>2
  <2>2. 1 .. n + 1 \subseteq H
    <3> HIDE DEF H
    <3> QED
      BY <1>7, <2>1, Downwards
  <2> QED
    BY <2>1, <2>2
<1>9. ReadsRest(u, s, out, text, ok, bytes, 1, 0)
  <2>1. EndsWith(out, 0, enc[1])
    <3>1. Len(out) = 0 + Len(out) /\ \A j \in 1 .. Len(out) : 0 + j = j
      BY <1>3
    <3> QED
      BY <1>1, <3>1 DEF EndsWith
  <2>2. 0 \in Nat
    OBVIOUS
  <2> HIDE DEF n
  <2> QED
    BY <1>8, <2>1, <2>2
<1>10. /\ text[1] = SubSeq(s, 1, n) /\ bytes[1] \subseteq Nat
       /\ bytes[1] \subseteq u.esc => ok[1] = TRUE
  <2>1. 0 + 1 = 1
    OBVIOUS
  <2> QED
    BY <1>9, <2>1 DEF ReadsRest
<1>11. SubSeq(s, 1, n) = s
  BY SubSeqFull
<1> QED
  BY <1>3, <1>4, <1>5, <1>6, <1>10, <1>11

-----------------------------------------------------------------------------
(* Files.                                                                  *)

\* Writing over a file changes what it covers and leaves what is before it.
Overlaid(over, file, pos, cells) ==
    /\ Len(over) = IF Len(file) < pos + Len(cells) THEN pos + Len(cells) ELSE Len(file)
    /\ \A i \in 1 .. pos : over[i] = file[i]
    /\ \A i \in 1 .. Len(cells) : over[pos + i] = cells[i]

\* What Overlay leaves of the old file, and what it puts there.
LEMMA OverlayCells ==
    ASSUME NEW S, NEW file \in Seq(S), NEW cells \in Seq(S), NEW pos \in Nat, pos <= Len(file)
    PROVE  /\ Overlay(file, pos, cells) \in Seq(S)
           /\ Overlaid(Overlay(file, pos, cells), file, pos, cells)
<1> DEFINE n == IF Len(file) < pos + Len(cells) THEN pos + Len(cells) ELSE Len(file)
           f(i) == IF i \in pos + 1 .. pos + Len(cells) THEN cells[i - pos] ELSE file[i]
<1>1. Len(file) \in Nat /\ Len(cells) \in Nat
  OBVIOUS
<1>2. n \in Nat
  BY <1>1
<1>3. \A i \in 1 .. n : f(i) \in S
  <2> TAKE i \in 1 .. n
  <2>1. CASE i \in pos + 1 .. pos + Len(cells)
    <3>1. i - pos \in 1 .. Len(cells)
      BY <2>1, <1>1
    <3> QED
      BY <2>1, <3>1
  <2>2. CASE i \notin pos + 1 .. pos + Len(cells)
    <3>1. i \in 1 .. Len(file)
      BY <2>2, <1>1
    <3> QED
      BY <2>2, <3>1
  <2> QED
    BY <2>1, <2>2
<1>4. Overlay(file, pos, cells) = [i \in 1 .. n |-> f(i)]
  BY DEF Overlay
<1> HIDE DEF n, f
<1>5. /\ [i \in 1 .. n |-> f(i)] \in Seq(S)
      /\ Len([i \in 1 .. n |-> f(i)]) = n
  BY <1>2, <1>3, IsASeq
<1>6. \A i \in 1 .. pos : i \in 1 .. n /\ f(i) = file[i]
  BY <1>1 DEF n, f
<1>7. \A i \in 1 .. Len(cells) : pos + i \in 1 .. n /\ f(pos + i) = cells[i]
  BY <1>1 DEF n, f
<1> QED
  BY <1>4, <1>5, <1>6, <1>7 DEF n, Overlaid

\* What a file holds after a write of some of the cells of a dump.
Written(over, file, pos, cells, src, took) ==
    /\ Len(over) >= pos + took
    /\ \A i \in 1 .. pos : over[i] = file[i]
    /\ \A i \in 1 .. took : over[pos + i] = cells[src + i]

\* A write goes on with the dump: its cells follow those written before.
LEMMA WrittenCells ==
    ASSUME NEW file \in Seq(Nat), NEW cells \in Seq(Nat), NEW src \in Nat, NEW pos \in Nat, NEW took \in Nat,
           src + took <= Len(cells), pos <= Len(file),
           NEW over, over = Overlay(file, pos, SubSeq(cells, src + 1, src + took))
    PROVE  over \in Seq(Nat) /\ Written(over, file, pos, cells, src, took)
<1> DEFINE part == SubSeq(cells, src + 1, src + took)
<1>1. \A i \in src + 1 .. src + took : cells[i] \in Nat
  <2>1. \A i \in src + 1 .. src + took : i \in 1 .. Len(cells)
    OBVIOUS
  <2> QED
    BY <2>1
<1>2. /\ part \in Seq(Nat)
      /\ Len(part) = IF src + 1 <= src + took THEN (src + took) - (src + 1) + 1 ELSE 0
      /\ \A i \in 1 .. (src + took) - (src + 1) + 1 : part[i] = cells[(src + 1) + i - 1]
  BY <1>1, SubSeqProperties
<1> HIDE DEF part
<1>3. Len(part) = took /\ \A i \in 1 .. took : part[i] = cells[src + i]
  <2>1. Len(part) = took
    BY <1>2
  <2>2. ASSUME NEW i \in 1 .. took PROVE part[i] = cells[src + i]
    <3>1. (src + 1) + i - 1 = src + i /\ i \in 1 .. (src + took) - (src + 1) + 1
      OBVIOUS
    <3> QED
      BY <3>1, <1>2
  <2> QED
    BY <2>1, <2>2
<1>4. over = Overlay(file, pos, part)
  BY DEF part
<1>5. /\ over \in Seq(Nat)
      /\ Len(over) = IF Len(file) < pos + Len(part) THEN pos + Len(part) ELSE Len(file)
      /\ \A i \in 1 .. pos : over[i] = file[i]
      /\ \A i \in 1 .. Len(part) : over[pos + i] = part[i]
  <2>1. over \in Seq(Nat) /\ Overlaid(over, file, pos, part)
    BY <1>2, <1>4, OverlayCells
  <2> QED
    BY <2>1 DEF Overlaid
<1>6. Len(file) \in Nat
  OBVIOUS
<1>7. Len(over) >= pos + took
  <2> DEFINE n == Len(file)  m == Len(over)
  <2>1. n \in Nat /\ m = IF n < pos + took THEN pos + took ELSE n
    BY <1>3, <1>5, <1>6
  <2> HIDE DEF n, m
  <2>2. m >= pos + took
    BY <2>1
  <2> QED
    BY <2>2 DEF m
<1> QED
  BY <1>3, <1>5, <1>7 DEF Written

\* No write asks for more than there is left of the dump.
LEMMA WriteSizeFits ==
    ASSUME NEW cells, IsDump(cells), NEW src \in Nat, src < Len(cells)
    PROVE  WriteSize(cells, src) \in Nat /\ src + WriteSize(cells, src) <= Len(cells)
<1> DEFINE total == cells[1]  size == Len(cells)
<1>1. Chunk \in Nat /\ total \in Nat /\ size \in Nat /\ size >= 2 /\ 2 + total <= size
  BY ChunkAssumption DEF IsDump
<1>2. WriteSize(cells, src) = IF src < 2 \/ src >= 2 + total THEN 1
                              ELSE IF Chunk < 2 + total - src THEN Chunk ELSE 2 + total - src
  BY DEF WriteSize
<1>3. src < size
  OBVIOUS
<1> HIDE DEF total, size
<1>4. WriteSize(cells, src) \in Nat /\ src + WriteSize(cells, src) <= size
  BY <1>1, <1>2, <1>3
<1> QED
  BY <1>4 DEF size

\* A dump has the cells that its header announces.
LEMMA DumpIsDump ==
    ASSUME NEW rows \in Seq(Seq(Nat))
    PROVE  IsDump(DumpCells(rows))
<1>1. PICK at : Laid(rows, Joined(rows), at)
  BY RowsAreLaid
<1>2. DumpCells(rows) \in Seq(Nat)
  BY <1>1, DumpedCells
<1>3. BeginsWith(DumpCells(rows), DumpCells(rows))
  BY <1>2 DEF BeginsWith
<1> QED
  BY <1>3, DumpReadsBack

\* The rows of a column are its lines, and its table has symbols.
LEMMA ColumnRows ==
    ASSUME NEW c \in DOMAIN Lines
    PROVE  /\ Rows[c] = NonEmpty(Lines[c]) /\ Rows[c] \in Seq(Seq(Nat))
           /\ Symbols([sym |-> Trained[c], esc |-> {}])
<1>1. NonEmpty(Lines[c]) \in Seq(Seq(Nat))
  BY ColumnsAssumption
<1>2. Rows[c] = StrIn(ReadASCII(Lines[c]))
  BY DEF Rows
<1>3. Rows[c] = NonEmpty(Lines[c])
  BY <1>1, <1>2, ColumnIsRead
<1>4. Symbols([sym |-> Trained[c], esc |-> {}])
  BY ColumnsAssumption DEF Symbols
<1> QED
  BY <1>1, <1>3, <1>4

\* Nothing is escaped in an element that was not compressed.
LEMMA NothingEscaped == Escaped(<< >>) = {}
<1>1. << >> \in Seq(Nat) /\ Len(<< >>) = 0 /\ 0 + 1 = 1
  OBVIOUS
<1>2. PICK bytes : Collects(bytes, << >>) /\ Escaped(<< >>) = bytes[1]
  BY <1>1, CollectSteps
<1>3. bytes[0 + 1] = {}
  BY <1>1, <1>2 DEF Collects
<1> QED
  BY <1>1, <1>2, <1>3

\* A column that has been compressed: each element is one that was left over
\* or the encoding of its row.
LEMMA EncodedRows ==
    ASSUME NEW c \in DOMAIN Lines, NEW n \in Nat, NEW out, out = Encoded(c, n)
    PROVE  /\ out \in Seq(Seq(Nat)) /\ Len(out) = Len(Rows[c])
           /\ \A i \in 1 .. Len(Rows[c]) :
                 /\ \/ out[i] = << >>
                    \/ out[i] = Encode([sym |-> Trained[c], esc |-> {}], Rows[c][i])
                 /\ Escaped(out[i]) \subseteq Nat
<1> DEFINE l == Len(Rows[c])
           t == [sym |-> Trained[c], esc |-> {}]
           e(i) == IF i <= n THEN Encode(t, Rows[c][i]) ELSE << >>
<1>1. Rows[c] \in Seq(Seq(Nat)) /\ Symbols(t) /\ l \in Nat
  BY ColumnRows
<1>2. out = [i \in 1 .. l |-> e(i)]
  BY DEF Encoded
<1> HIDE DEF t
<1>3. ASSUME NEW i \in 1 .. l
      PROVE  /\ e(i) \in Seq(Nat) /\ Escaped(e(i)) \subseteq Nat
             /\ e(i) = << >> \/ e(i) = Encode(t, Rows[c][i])
  <2>1. CASE i <= n
    <3>1. e(i) = Encode(t, Rows[c][i])
      BY <2>1
    <3>2. Rows[c][i] \in Seq(Nat) /\ t.sym = t.sym
      BY <1>1
    <3> DEFINE w == Encode(t, Rows[c][i])
    <3>3. w \in Seq(Nat) /\ Escaped(w) \subseteq Nat
      <4>1. w = Encode(t, Rows[c][i])
        OBVIOUS
      <4> HIDE DEF w
      <4> QED
        BY <1>1, <3>2, <4>1, DecodesEncoded
    <3> QED
      BY <3>1, <3>3
  <2>2. CASE ~(i <= n)
    <3>1. e(i) = << >>
      BY <2>2
    <3>2. Escaped(e(i)) = {} /\ << >> \in Seq(Nat)
      <4> HIDE DEF e
      <4> QED
        BY <3>1, NothingEscaped
    <3> HIDE DEF e
    <3> QED
      BY <3>1, <3>2
  <2> QED
    BY <2>1, <2>2
<1> HIDE DEF e, l
<1>4. [i \in 1 .. l |-> e(i)] \in Seq(Seq(Nat)) /\ Len([i \in 1 .. l |-> e(i)]) = l
  BY <1>1, <1>3, IsASeq
<1>5. \A i \in 1 .. l : out[i] = e(i)
  BY <1>2
<1> QED
  BY <1>2, <1>3, <1>4, <1>5 DEF l, t

\* What CellsOf says of a compressed column.
LEMMA StorableCells ==
    ASSUME NEW column \in DOMAIN Lines, NEW stored \in Storable[column]
    PROVE  /\ stored = [column |-> column, out |-> stored.out, table |-> stored.table]
           /\ CellsOf(stored) = [uncompressed |-> DumpCells(Rows[column]),
                                 compressed |-> DumpCells(stored.out),
                                 symTable |-> TableCells(stored.table)]
           /\ IsDump(DumpCells(Rows[column])) /\ IsDump(DumpCells(stored.out))
           /\ stored.table \in SymbolTables
<1>1. PICK n \in 0 .. Len(Rows[column]) : stored = Stored(column, Encoded(column, n))
  BY DEF Storable
<1>2. stored = [column |-> column, out |-> stored.out, table |-> stored.table]
  BY <1>1 DEF Stored
<1>3. stored.out = Encoded(column, n) /\ stored.table = TableFor(column, stored.out)
  BY <1>1 DEF Stored
<1>4. Rows[column] \in Seq(Seq(Nat)) /\ n \in Nat
  <2>1. Rows[column] \in Seq(Seq(Nat))
    BY ColumnRows
  <2> QED
    BY <2>1
<1>5. /\ stored.out \in Seq(Seq(Nat)) /\ Len(stored.out) = Len(Rows[column])
      /\ \A i \in 1 .. Len(Rows[column]) : Escaped(stored.out[i]) \subseteq Nat
  BY <1>3, <1>4, EncodedRows
<1>6. IsDump(DumpCells(Rows[column])) /\ IsDump(DumpCells(stored.out))
  BY <1>4, <1>5, DumpIsDump
<1>7. stored.table \in SymbolTables
  <2>1. Trained[column] \in Seq(Seq(Nat))
    <3>1. Trained[column] \in Seq(Seq(Nat) \ {<< >>}) /\ Seq(Nat) \ {<< >>} \subseteq Seq(Nat)
      BY ColumnsAssumption
    <3> QED
      BY <3>1, SeqMonotonic
  <2>2. \A i \in DOMAIN stored.out : Escaped(stored.out[i]) \subseteq Nat
    <3>1. DOMAIN stored.out = 1 .. Len(Rows[column])
      BY <1>5
    <3> QED
      BY <1>5, <3>1
  <2>3. stored.table = [sym |-> Trained[column],
                        esc |-> UNION {Escaped(stored.out[i]) : i \in DOMAIN stored.out}]
    BY <1>3 DEF TableFor
  <2> QED
    BY <2>1, <2>2, <2>3 DEF SymbolTables
<1> QED
  BY <1>2, <1>6, <1>7 DEF CellsOf

-----------------------------------------------------------------------------
(* Types.                                                                  *)

Types == TypeOK /\ ReplyOK /\ NetOK /\ JobOK /\ PromisesOK

\* The invariant holds of the directory that an earlier server has left.
LEMMA InitInv == Init => Inv
<1> SUFFICES ASSUME Init PROVE Inv
  OBVIOUS
<1>1. /\ files \in [Stems -> Files]
      /\ AnsweredFilesHold /\ PromisesOK /\ TableInv
  <2>1. CASE files = NoFiles /\ promised = NoPromise
    <3> DEFINE empty == [uncompressed |-> << >>, compressed |-> << >>, symTable |-> << >>]
    <3>1. \A s \in Stems : promised[s] = None /\ files[s] = empty
      BY <2>1 DEF NoFiles, NoPromise
    <3>2. empty \in Files /\ empty.symTable = << >>
      BY DEF Files
    <3>3. files \in [Stems -> Files]
      BY <3>2, <2>1 DEF NoFiles
    <3>4. \A s \in Stems : Len(files[s]["symTable"]) = 0
      BY <3>1, <3>2
    <3>5. AnsweredFilesHold /\ PromisesOK
      BY <2>1, <3>1 DEF AnsweredFilesHold, PromisesOK, NoPromise
    <3>6. TableInv
      BY <3>4 DEF TableInv, TablesFit, TablesAreWhole, TableIsComplete
    <3> QED
      BY <3>3, <3>5, <3>6
  <2>2. CASE \E c \in Earlier : \E stored \in Storable[c] :
                /\ files = [NoFiles EXCEPT ![Stem[c]] = CellsOf(stored)]
                /\ promised = [NoPromise EXCEPT ![Stem[c]] = stored]
    <3>1. PICK c \in Earlier : \E stored \in Storable[c] :
                /\ files = [NoFiles EXCEPT ![Stem[c]] = CellsOf(stored)]
                /\ promised = [NoPromise EXCEPT ![Stem[c]] = stored]
      BY <2>2
    <3>2. PICK stored \in Storable[c] :
                /\ files = [NoFiles EXCEPT ![Stem[c]] = CellsOf(stored)]
                /\ promised = [NoPromise EXCEPT ![Stem[c]] = stored]
      BY <3>1
    <3>3. c \in DOMAIN Lines /\ Stem[c] \in Stems
      BY ServerAssumption DEF Columns
    <3>4. /\ CellsOf(stored) = [uncompressed |-> DumpCells(Rows[c]), compressed |-> DumpCells(stored.out),
                                symTable |-> TableCells(stored.table)]
          /\ IsDump(DumpCells(Rows[c])) /\ IsDump(DumpCells(stored.out))
          /\ stored.table \in SymbolTables
      BY <3>3, StorableCells
    <3>5. TableCells(stored.table) \in Seq(TableCell)
          /\ Len(TableCells(stored.table)) = 2
          /\ TableCells(stored.table)[1].table = stored.table
      BY <3>4 DEF TableCells, TableCell
    <3>6. CellsOf(stored) \in Files
      BY <3>4, <3>5 DEF Files, IsDump
    <3> DEFINE empty == [uncompressed |-> << >>, compressed |-> << >>, symTable |-> << >>]
    <3>7. empty \in Files /\ empty.symTable = << >>
      BY DEF Files
    <3>8. \A s \in Stems : IF s = Stem[c] THEN files[s] = CellsOf(stored) /\ promised[s] = stored
                           ELSE files[s] = empty /\ promised[s] = None
      BY <3>2 DEF NoFiles, NoPromise
    <3>9. files \in [Stems -> Files]
      BY <3>2, <3>3, <3>6, <3>7 DEF NoFiles
    <3>10. \A k \in Kinds : BeginsWith(CellsOf(stored)[k], CellsOf(stored)[k])
      BY <3>4, <3>5 DEF Kinds, BeginsWith, IsDump
    <3> HIDE DEF empty
    <3>11. AnsweredFilesHold
      BY <3>8, <3>10 DEF AnsweredFilesHold
    <3>12. PromisesOK
      <4>1. stored \in StoredColumns
        BY <3>3 DEF StoredColumns
      <4> QED
        BY <3>2, <3>3, <4>1 DEF PromisesOK, NoPromise
    <3>13. TableInv
      <4>1. \A s \in Stems : files[s]["symTable"] = TableCells(stored.table) \/ Len(files[s]["symTable"]) = 0
        BY <3>8, <3>4, <3>7
      <4>2. TablesFit
        <5>1. ASSUME NEW s \in Stems PROVE Len(files[s]["symTable"]) <= 2
          <6> DEFINE len == Len(files[s]["symTable"])
          <6>1. len = 2 \/ len = 0
            BY <4>1, <3>5
          <6> HIDE DEF len
          <6>2. len <= 2
            BY <6>1
          <6> QED
            BY <6>2 DEF len
        <5> QED
          BY <5>1 DEF TablesFit
      <4>3. ASSUME NEW s \in Stems, TableIsComplete(files[s]["symTable"])
            PROVE  files[s]["symTable"] = TableCells(TableOf(files[s]["symTable"]))
        <5>1. files[s]["symTable"] = TableCells(stored.table)
          BY <4>1, <4>3 DEF TableIsComplete
        <5> QED
          BY <5>1, <3>5 DEF TableOf
      <4> QED
        BY <4>2, <4>3 DEF TableInv, TablesAreWhole
    <3> QED
      BY <3>9, <3>11, <3>12, <3>13
  <2> QED
    BY <2>1, <2>2 DEF Init
<1>2. conn \in [Clients -> Connections]
  BY DEF Init, Closed, Connections
<1>3. TypeOK
  BY <1>1, <1>2, ServerAssumption DEF Init, TypeOK
<1>4. ReplyOK /\ JobOK /\ Progress
  BY DEF Init, ReplyOK, JobOK, Progress, Compressing
<1>5. NetOK /\ CodegenOK
  BY DEF Init, NetOK, CodegenOK, Serving, Generating, Closed
<1> QED
  BY <1>1, <1>3, <1>4, <1>5 DEF Inv, FilesInv

\* A write keeps the type of the file.
LEMMA WriteTypes ==
    ASSUME Types, Write
    PROVE  /\ files' \in [Stems -> Files]
           /\ \A k \in Kinds : k # dump.kind => files'[job.stem][k] = files[job.stem][k]
           /\ \A s \in Stems : s # job.stem => files'[s] = files[s]
           /\ dump'.src \in Nat /\ dump'.src <= Len(dump.cells)
           /\ dump'.pos \in Nat /\ dump'.pos <= Len(files'[job.stem][dump.kind])
           /\ dump' = [dump EXCEPT !.src = dump'.src, !.pos = dump'.pos]
           /\ job' = [job EXCEPT !.intact = job'.intact] /\ job'.intact \in BOOLEAN
           /\ faults' \in 0 .. MaxFaults
           /\ job'.intact /\ dump.pos = dump.src =>
                /\ job.intact
                /\ dump'.pos = dump'.src
                /\ \A i \in 1 .. dump'.src :
                      files'[job.stem][dump.kind][i] = IF i <= dump.src THEN files[job.stem][dump.kind][i]
                                                                          ELSE dump.cells[i]
<1> DEFINE file == files[job.stem][dump.kind]
           size == WriteSize(dump.cells, dump.src)
<1>1. /\ files \in [Stems -> Files] /\ job \in Jobs /\ dump \in Dumps /\ IsDump(dump.cells)
      /\ dump.pos <= Len(file) /\ dump.src < Len(dump.cells) /\ faults \in 0 .. MaxFaults
  BY DEF Types, TypeOK, JobOK, Write, Compressing
<1>2. /\ job.stem \in Stems /\ job.intact \in BOOLEAN /\ dump.kind \in {"uncompressed", "compressed"}
      /\ dump.cells \in Seq(Nat) /\ dump.src \in Nat /\ dump.pos \in Nat
  BY <1>1 DEF Jobs, Dumps
<1>3. file \in Seq(Nat) /\ files[job.stem] \in Files
  BY <1>1, <1>2 DEF Files
<1>4. size \in Nat /\ dump.src + size <= Len(dump.cells)
  BY <1>1, <1>2, WriteSizeFits
<1>5. PICK took \in 0 .. size :
          /\ \/ took = size /\ UNCHANGED faults
             \/ took < size /\ dump.pos + took >= Len(file) /\ Fault
          /\ files' = [files EXCEPT ![job.stem][dump.kind] =
                         Overlay(file, dump.pos, SubSeq(dump.cells, dump.src + 1, dump.src + took))]
          /\ dump' = [dump EXCEPT !.src = @ + size, !.pos = @ + took]
          /\ job' = [job EXCEPT !.intact = @ /\ took = size]
  BY DEF Write
<1> DEFINE over == Overlay(file, dump.pos, SubSeq(dump.cells, dump.src + 1, dump.src + took))
<1>6. took \in Nat /\ dump.src + took <= Len(dump.cells)
  BY <1>4, <1>2
<1> HIDE DEF size
<1>8. /\ over \in Seq(Nat)
      /\ Len(over) >= dump.pos + took
      /\ \A i \in 1 .. dump.pos : over[i] = file[i]
      /\ \A i \in 1 .. took : over[dump.pos + i] = dump.cells[dump.src + i]
  <2> HIDE DEF file
  <2>1. over = Overlay(file, dump.pos, SubSeq(dump.cells, dump.src + 1, dump.src + took))
    OBVIOUS
  <2>2. file \in Seq(Nat) /\ dump.pos <= Len(file)
    BY <1>1, <1>3 DEF file
  <2> DEFINE cells == dump.cells  src == dump.src  pos == dump.pos
  <2>3. cells \in Seq(Nat) /\ src \in Nat /\ pos \in Nat /\ src + took <= Len(cells) /\ pos <= Len(file)
    BY <1>2, <1>6, <2>2
  <2>4. over = Overlay(file, pos, SubSeq(cells, src + 1, src + took))
    BY <2>1
  <2> HIDE DEF over, cells, src, pos
  <2>5. over \in Seq(Nat) /\ Written(over, file, pos, cells, src, took)
    BY <2>2, <2>3, <2>4, <1>6, WrittenCells
  <2> QED
    BY <2>5 DEF cells, src, pos, Written
<1> HIDE DEF over
<1>9. /\ files' = [files EXCEPT ![job.stem][dump.kind] = over]
      /\ dump' = [dump EXCEPT !.src = dump.src + size, !.pos = dump.pos + took]
      /\ job' = [job EXCEPT !.intact = job.intact /\ took = size]
  BY <1>5 DEF over
<1> HIDE DEF file
<1>10. /\ dump'.src = dump.src + size /\ dump'.pos = dump.pos + took
       /\ dump' = [dump EXCEPT !.src = dump'.src, !.pos = dump'.pos]
  BY <1>1, <1>9 DEF Dumps
<1>11. /\ job'.intact = (job.intact /\ took = size)
       /\ job' = [job EXCEPT !.intact = job'.intact]
  BY <1>1, <1>9 DEF Jobs
<1>12. /\ files' \in [Stems -> Files]
       /\ files'[job.stem][dump.kind] = over
       /\ \A k \in Kinds : k # dump.kind => files'[job.stem][k] = files[job.stem][k]
       /\ \A s \in Stems : s # job.stem => files'[s] = files[s]
  <2>1. /\ files'[job.stem] = [files[job.stem] EXCEPT ![dump.kind] = over]
        /\ \A s \in Stems : s # job.stem => files'[s] = files[s]
        /\ DOMAIN files' = Stems
    BY <1>1, <1>2, <1>9
  <2>2. files'[job.stem] \in Files
    BY <2>1, <1>2, <1>3, <1>8 DEF Files
  <2> QED
    BY <2>1, <2>2, <1>1, <1>2, <1>3, <1>9 DEF Kinds, Files
<1>13. faults' \in 0 .. MaxFaults
  BY <1>5, <1>1, ServerAssumption DEF Fault
<1>14. ASSUME job'.intact, dump.pos = dump.src, NEW i \in 1 .. dump'.src
       PROVE  over[i] = IF i <= dump.src THEN file[i] ELSE dump.cells[i]
  <2>1. took = size
    BY <1>14, <1>11
  <2>2. CASE i <= dump.src
    BY <2>2, <1>8, <1>14, <1>2
  <2>3. CASE i > dump.src
    <3> DEFINE k == i - dump.src
    <3>1. k \in 1 .. took /\ i = dump.pos + k /\ i = dump.src + k
      BY <2>1, <2>3, <1>2, <1>4, <1>6, <1>10, <1>14
    <3> HIDE DEF k
    <3>2. over[dump.pos + k] = dump.cells[dump.src + k]
      BY <3>1, <1>8
    <3>3. ~(i <= dump.src)
      BY <2>3, <1>2, <3>1
    <3> QED
      BY <3>1, <3>2, <3>3
  <2> QED
    BY <2>2, <2>3, <1>2, <1>4, <1>10
<1>15. dump'.src \in Nat /\ dump'.src <= Len(dump.cells) /\ dump'.pos \in Nat /\ dump'.pos <= Len(over)
  BY <1>2, <1>4, <1>6, <1>8, <1>10
<1>16. ASSUME job'.intact, dump.pos = dump.src
       PROVE  job.intact /\ dump'.pos = dump'.src
  BY <1>16, <1>10, <1>11
<1>17. job'.intact \in BOOLEAN
  BY <1>2, <1>11
<1> QED
  BY <1>10, <1>11, <1>12, <1>13, <1>14, <1>15, <1>16, <1>17 DEF file

\* What becomes of the connections when the process ends, or an answer is sent.
LEMMA DownTypes ==
    ASSUME TypeOK, Down
    PROVE  /\ conn' \in [Clients -> Connections]
           /\ queue' = << >> /\ queue' \in Seq(Clients) /\ Len(queue') <= Backlog
           /\ client' = None /\ pc' = "down" /\ reply' = None
<1>1. \A c \in Clients : [conn[c] EXCEPT !.phase = IF @ = "open" THEN "reset" ELSE @] \in Connections
  BY DEF TypeOK, Connections
<1>2. << >> \in Seq(Clients) /\ Len(<< >>) <= Backlog
  BY ServerAssumption
<1> QED
  BY <1>1, <1>2 DEF Down

\* An answer that is sent is one, and the connection stays one.
LEMMA SentTypes ==
    ASSUME TypeOK, NetOK, Serving, NEW answer \in Answers, NEW next, Sent(answer, next)
    PROVE  /\ conn' \in [Clients -> Connections]
           /\ \/ pc' = next /\ UNCHANGED <<queue, client, jobVars>>
                 /\ conn' = [conn EXCEPT ![client].answers = Append(@, answer)]
              \/ Down
<1>1. conn \in [Clients -> Connections] /\ client \in Clients
  BY DEF TypeOK, NetOK
<1>2. CASE conn' = [conn EXCEPT ![client].answers = Append(@, answer)] /\ pc' = next
           /\ UNCHANGED <<queue, client, jobVars>>
  <2>1. Append(conn[client].answers, answer) \in Seq(Answers)
    BY <1>1 DEF Connections
  <2>2. conn' \in [Clients -> Connections]
    BY <1>1, <1>2, <2>1 DEF Connections
  <2> QED
    BY <1>2, <2>2
<1>3. CASE Down
  BY <1>3, DownTypes
<1> QED
  BY <1>2, <1>3 DEF Sent

\* The types of the variables are kept by every step.
PCs == {"down", "accept", "read", "close", "answer", "column", "open", "dump", "encode",
        "saveTable", "table", "llvm", "cpp", "clang", "dlopen", "readSource", "remove", "removeLibrary"}

\* The connections, the queue and the place of the server keep their types.
LEMMA ConnTypes ==
    ASSUME TypeOK, NetOK, ReplyOK, [Next]_vars
    PROVE  /\ conn' \in [Clients -> Connections]
           /\ queue' \in Seq(Clients) /\ Len(queue') <= Backlog
           /\ client' \in Clients \cup {None}
           /\ pc' \in PCs
           /\ pc' = "down" => queue' = << >>
<1>1. /\ conn \in [Clients -> Connections] /\ queue \in Seq(Clients) /\ Len(queue) <= Backlog
      /\ client \in Clients \cup {None} /\ pc \in PCs /\ (pc = "down" => queue = << >>)
      /\ Backlog \in Nat
  BY ServerAssumption DEF TypeOK, PCs
<1>2. Serving => client \in Clients /\ Request \in Requests /\ conn[client] \in Connections
  BY <1>1 DEF NetOK, Request
<1> DEFINE Kept == /\ conn' \in [Clients -> Connections]
                   /\ queue' \in Seq(Clients) /\ Len(queue') <= Backlog
                   /\ client' \in Clients \cup {None}
                   /\ pc' \in PCs
                   /\ pc' = "down" => queue' = << >>
<1>d. Down => Kept
  BY DownTypes DEF PCs
<1>u. UNCHANGED netVars /\ pc' \in PCs \ {"down"} => Kept
  BY <1>1 DEF netVars
<1>s. ASSUME NEW answer \in Answers, NEW next \in PCs \ {"down"}, Serving, Sent(answer, next) PROVE Kept
  BY <1>1, <1>d, <1>s, SentTypes
<1> SUFFICES Kept
  OBVIOUS
<1> HIDE DEF Kept
<1>3. CASE Accept
  <2>1. Head(queue) \in Clients /\ Tail(queue) \in Seq(Clients) /\ Len(Tail(queue)) <= Backlog
    BY <1>1, <1>3 DEF Accept
  <2> QED
    BY <1>1, <1>3, <2>1 DEF Accept, PCs, Kept
<1>4. CASE Read
  BY <1>1, <1>2, <1>4 DEF Read, PCs, Serving, Connections, Kept
<1>5. CASE Close
  BY <1>1, <1>2, <1>5 DEF Close, PCs, Serving, Connections, Kept
<1>6. CASE Answer
  BY <1>1, <1>6, <1>s DEF Answer, PCs, Serving, ReplyOK
<1>7. CASE ReadColumn \/ OpenDump
  BY <1>7, <1>d, <1>u DEF ReadColumn, OpenDump, Uncaught, PCs, netVars
<1>8. CASE Write \/ CloseDump \/ Compress
  BY <1>8, <1>u DEF Write, CloseDump, Compress, netVars, PCs
<1>9. CASE SaveTable
  BY <1>9, <1>d, <1>u DEF SaveTable, Uncaught, PCs
<1>10. CASE LoadTable \/ CompileLlvm \/ WriteSource \/ RunClang \/ LoadLibrary \/ RemoveSource \/ RemoveLibrary
  <2>1. UNCHANGED netVars /\ pc' \in PCs \ {"down"}
    BY <1>2, <1>10, ServerAssumption DEF LoadTable, CompileLlvm, WriteSource, RunClang, LoadLibrary,
         RemoveSource, RemoveLibrary, netVars, PCs, Serving
  <2> QED
    BY <1>u, <2>1
<1>11. CASE ReadSource
  <2>1. Error \in Answers
    BY DEF Error, Answers
  <2>2. CASE Sent(Error, "remove")
    BY <1>11, <2>1, <2>2, <1>s DEF ReadSource, PCs, Serving
  <2>3. CASE UNCHANGED <<conn, queue, client>> /\ pc' = "remove"
    BY <1>1, <2>3 DEF PCs, Kept
  <2> QED
    BY <1>11, <2>2, <2>3 DEF ReadSource
<1>12. CASE \E c \in Clients : Connect(c)
  <2>1. PICK c \in Clients : Connect(c)
    BY <1>12
  <2>2. Append(queue, c) \in Seq(Clients) /\ Len(Append(queue, c)) <= Backlog
    BY <1>1, <2>1 DEF Connect
  <2>3. PICK r \in Requests : conn' = [conn EXCEPT ![c] = [Closed EXCEPT !.phase = "open", !.request = r]]
    BY <2>1 DEF Connect
  <2>4. [Closed EXCEPT !.phase = "open", !.request = r] \in Connections
    <3>1. << >> \in Seq(Answers)
      OBVIOUS
    <3> QED
      BY <3>1 DEF Closed, Connections
  <2> QED
    BY <1>1, <2>1, <2>2, <2>3, <2>4 DEF Connect, Kept
<1>13. CASE \E c \in Clients : Deliver(c) \/ Leave(c)
  <2>1. PICK c \in Clients : Deliver(c) \/ Leave(c)
    BY <1>13
  <2>2. conn[c] \in Connections
    BY <1>1
  <2>3. [conn[c] EXCEPT !.arrived = @ + 1] \in Connections /\ [conn[c] EXCEPT !.gone = TRUE] \in Connections
    <3>1. conn[c].arrived + 1 \in Nat
      BY <2>2 DEF Connections
    <3> QED
      BY <2>2, <3>1 DEF Connections
  <2>4. conn' \in [Clients -> Connections]
    BY <1>1, <2>1, <2>3 DEF Deliver, Leave
  <2> QED
    BY <1>1, <2>1, <2>4 DEF Deliver, Leave, Kept
<1>14. CASE Kill
  BY <1>14, <1>d DEF Kill
<1>15. CASE Start \/ UNCHANGED vars
  BY <1>1, <1>15 DEF Start, vars, PCs, Kept
<1> QED
  BY <1>3, <1>4, <1>5, <1>6, <1>7, <1>8, <1>9, <1>10, <1>11, <1>12, <1>13, <1>14, <1>15 DEF Next, Handle

\* The sources, libraries and replies of the handlers.
LEMMA ReplyTypes ==
    ASSUME Types, [Next]_vars
    PROVE  /\ source' \in Programs \cup {None, Torn}
           /\ library' \in Programs \cup {None}
           /\ reply' \in Answers \cup {None}
           /\ ReplyOK'
<1> DEFINE Kept == /\ source' \in Programs \cup {None, Torn}
                   /\ library' \in Programs \cup {None}
                   /\ reply' \in Answers \cup {None}
                   /\ ReplyOK'
<1> SUFFICES Kept
  OBVIOUS
<1>t. TypeOK /\ NetOK /\ ReplyOK /\ JobOK
  BY DEF Types
<1>1. /\ source \in Programs \cup {None, Torn} /\ library \in Programs \cup {None}
      /\ reply \in Answers \cup {None}
  BY <1>t DEF TypeOK
<1>2. \A body \in [stem : Stems] \cup Programs \cup {None, Torn} : OK(body) \in Answers
  BY DEF OK, Answers
<1>3. Error \in Answers
  BY DEF Error, Answers
<1>d. UNCHANGED codeVars /\ Down => Kept
  BY <1>1, <1>t, DownTypes DEF codeVars, ReplyOK
<1>n. UNCHANGED codeVars /\ reply' \in Answers \cup {None}
      /\ pc' \notin {"answer", "llvm", "cpp", "clang", "dlopen", "readSource", "remove", "removeLibrary"} => Kept
  BY <1>1 DEF codeVars, ReplyOK
<1> HIDE DEF Kept
<1>4. CASE Accept \/ Close \/ Read
  BY <1>1, <1>4, <1>n DEF Accept, Close, Read
<1>5. CASE Answer
  <2>1. pc' = "close" \/ Down
    BY <1>5 DEF Answer, Sent
  <2> QED
    BY <1>5, <2>1, <1>d, <1>n DEF Answer
<1>6. CASE ReadColumn \/ OpenDump
  BY <1>1, <1>6, <1>d, <1>n DEF ReadColumn, OpenDump, Uncaught
<1>7. CASE Write \/ CloseDump \/ Compress
  BY <1>1, <1>7, <1>n DEF Write, CloseDump, Compress
<1>8. CASE SaveTable
  <2>1. job.stem \in Stems
    BY <1>8, <1>t DEF SaveTable, JobOK, Compressing, Jobs
  <2>2. OK([stem |-> job.stem]) \in Answers
    BY <1>2, <2>1
  <2>3. \/ Uncaught
        \/ reply' = OK([stem |-> job.stem]) /\ pc' = "answer" /\ UNCHANGED codeVars
    BY <1>8 DEF SaveTable
  <2>4. CASE Uncaught
    BY <2>4, <1>d DEF Uncaught
  <2>5. CASE reply' = OK([stem |-> job.stem]) /\ pc' = "answer" /\ UNCHANGED codeVars
    BY <1>1, <2>2, <2>5 DEF codeVars, ReplyOK, Kept
  <2> QED
    BY <2>3, <2>4, <2>5
<1>9. CASE LoadTable
  <2> DEFINE file == files[Stem[Request.column]]["symTable"]
  <2>1. CASE reply' = Error /\ pc' = "answer"
    BY <1>1, <1>3, <1>9, <2>1 DEF LoadTable, codeVars, ReplyOK, Kept
  <2>2. CASE /\ TableIsComplete(file)
             /\ Request.pattern = "legal"
             /\ \/ pc' = "answer"
                \/ pc' = Request.language /\ Request.language # "other"
             /\ reply' = OK(Program(Table))
    <3>1. /\ Request \in Requests /\ Request.column \in Columns
          /\ Request.language \in {"cpp", "llvm", "other"} /\ Stem[Request.column] \in Stems
      BY <1>9, <1>t, ServerAssumption DEF LoadTable, NetOK, Serving, Request
    <3>2. file \in Seq(TableCell)
      BY <3>1, <1>t DEF TypeOK, Files
    <3>3. Table \in SymbolTables
      <4>1. file[1] \in TableCell
        BY <2>2, <3>2 DEF TableIsComplete
      <4> QED
        BY <4>1 DEF Table, TableOf, TableCell
    <3>4. Program(Table) \in Programs
      BY <2>2, <3>3 DEF Program, Programs
    <3>5. OK(Program(Table)) \in Answers /\ OK(Program(Table)).body = Program(Table)
      BY <3>4, <1>2 DEF OK
    <3>6. pc' \in {"answer", "cpp", "llvm"}
      BY <2>2, <3>1
    <3> QED
      BY <1>1, <1>9, <2>2, <3>4, <3>5, <3>6 DEF LoadTable, codeVars, ReplyOK, Kept
  <2> QED
    BY <1>9, <2>1, <2>2 DEF LoadTable
<1>10. CASE CompileLlvm \/ LoadLibrary
  BY <1>1, <1>3, <1>10, <1>t DEF CompileLlvm, LoadLibrary, codeVars, ReplyOK, Kept
<1>11. CASE WriteSource
  BY <1>1, <1>11, <1>t DEF WriteSource, ReplyOK, Kept
<1>12. CASE RunClang
  BY <1>1, <1>12, <1>t DEF RunClang, ReplyOK, Kept
<1>13. CASE ReadSource
  <2>1. CASE source # None /\ reply' = OK(source) /\ pc' = "remove"
    BY <1>1, <1>2, <1>13, <2>1 DEF ReadSource, codeVars, ReplyOK, Kept
  <2>2. CASE Sent(Error, "remove") /\ reply' = IF pc' = "down" THEN None ELSE OK(None)
    <3>1. CASE Down
      BY <1>13, <3>1, <1>d DEF ReadSource
    <3>2. CASE pc' = "remove"
      BY <1>1, <1>2, <1>13, <2>2, <3>2 DEF ReadSource, codeVars, ReplyOK, Kept
    <3> QED
      BY <2>2, <3>1, <3>2 DEF Sent
  <2> QED
    BY <1>13, <2>1, <2>2 DEF ReadSource
<1>14. CASE RemoveSource \/ RemoveLibrary
  BY <1>1, <1>14, <1>t DEF RemoveSource, RemoveLibrary, ReplyOK, Kept
<1>15. CASE Kill
  BY <1>15, <1>d DEF Kill
<1>16. CASE Start
  BY <1>1, <1>16, <1>n DEF Start
<1>17. CASE (\E c \in Clients : Connect(c) \/ Deliver(c) \/ Leave(c)) \/ UNCHANGED vars
  BY <1>1, <1>17, <1>t DEF Connect, Deliver, Leave, vars, codeVars, ReplyOK, Kept
<1> QED
  BY <1>4, <1>5, <1>6, <1>7, <1>8, <1>9, <1>10, <1>11, <1>12, <1>13, <1>14, <1>15, <1>16, <1>17 DEF Next, Handle

\* The counters stay within their bounds.
LEMMA CounterTypes ==
    ASSUME TypeOK, [Next]_vars
    PROVE  requests' \in 0 .. MaxRequests /\ faults' \in 0 .. MaxFaults /\ kills' \in 0 .. MaxKills
<1> DEFINE Kept == requests' \in 0 .. MaxRequests /\ faults' \in 0 .. MaxFaults /\ kills' \in 0 .. MaxKills
<1> SUFFICES Kept
  OBVIOUS
<1>1. /\ requests \in 0 .. MaxRequests /\ faults \in 0 .. MaxFaults /\ kills \in 0 .. MaxKills
      /\ MaxRequests \in Nat /\ MaxFaults \in Nat /\ MaxKills \in Nat
  BY ServerAssumption DEF TypeOK
<1>2. Fault => faults' \in 0 .. MaxFaults
  BY <1>1 DEF Fault
<1>3. UNCHANGED <<requests, kills>> /\ (Fault \/ UNCHANGED faults) => Kept
  BY <1>1, <1>2
<1>4. CASE \E c \in Clients : Connect(c)
  BY <1>1, <1>4 DEF Connect
<1>5. CASE Kill
  BY <1>1, <1>5 DEF Kill
<1> HIDE DEF Kept
<1>6. CASE Accept \/ Close \/ Read \/ Answer \/ ReadColumn \/ OpenDump \/ Write \/ CloseDump \/ Compress \/ SaveTable
  BY <1>3, <1>6 DEF Accept, Close, Read, Answer, ReadColumn, OpenDump, Write, CloseDump, Compress, SaveTable,
     Uncaught, netVars
<1>7. CASE LoadTable \/ CompileLlvm \/ WriteSource \/ RunClang \/ LoadLibrary \/ ReadSource \/ RemoveSource \/ RemoveLibrary
  BY <1>3, <1>7 DEF LoadTable, CompileLlvm, WriteSource, RunClang, LoadLibrary, ReadSource, RemoveSource, RemoveLibrary,
     netVars
<1>8. CASE (\E c \in Clients : Deliver(c) \/ Leave(c)) \/ Start \/ UNCHANGED vars
  BY <1>3, <1>8 DEF Deliver, Leave, Start, vars
<1> QED
  BY <1>4, <1>5, <1>6, <1>7, <1>8 DEF Next, Handle

-----------------------------------------------------------------------------
(* Tables.                                                                 *)

\* What SaveTable leaves in the file of the table: when it was written whole
\* the table, and otherwise less than a table if there was no more before.
LEMMA SavedTable ==
    ASSUME NEW table \in SymbolTables, NEW file \in Seq(TableCell), NEW took \in 0 .. 2,
           took < 2 => took >= Len(file),
           NEW over, over = Overlay(file, 0, SubSeq(TableCells(table), 1, took))
    PROVE  /\ over \in Seq(TableCell)
           /\ took = 2 => BeginsWith(over, TableCells(table))
           /\ Len(file) <= 2 => /\ Len(over) <= 2
                                /\ TableIsComplete(over) => over = TableCells(TableOf(over))
<1> DEFINE cells == TableCells(table)  part == SubSeq(cells, 1, took)
<1>1. /\ cells \in Seq(TableCell) /\ Len(cells) = 2 /\ cells[1].table = table
      /\ cells = <<cells[1], cells[2]>>
  BY DEF TableCells, TableCell
<1> HIDE DEF cells
<1>2. /\ part \in Seq(TableCell) /\ Len(part) = took
      /\ \A i \in 1 .. took : part[i] = cells[i]
  <2>1. \A i \in 1 .. took : cells[i] \in TableCell
    BY <1>1
  <2>2. /\ part \in Seq(TableCell)
        /\ Len(part) = IF 1 <= took THEN took - 1 + 1 ELSE 0
        /\ \A i \in 1 .. took - 1 + 1 : part[i] = cells[1 + i - 1]
    <3>1. took \in Int /\ 1 \in Int
      OBVIOUS
    <3> QED
      BY <2>1, <3>1, SubSeqProperties
  <2> QED
    BY <2>2
<1>3. over = Overlay(file, 0, part)
  BY DEF cells
<1> HIDE DEF part
<1>4. over \in Seq(TableCell) /\ Overlaid(over, file, 0, part)
  <2>1. 0 \in Nat /\ 0 <= Len(file)
    OBVIOUS
  <2> QED
    BY <1>2, <1>3, <2>1, OverlayCells
<1> DEFINE n == Len(file)  m == Len(over)
<1>5. /\ n \in Nat /\ m = (IF n < took THEN took ELSE n)
      /\ \A i \in 1 .. took : over[i] = cells[i]
  <2>1. n \in Nat
    OBVIOUS
  <2>2. m = (IF n < 0 + took THEN 0 + took ELSE n)
    BY <1>2, <1>4 DEF Overlaid
  <2>3. \A i \in 1 .. took : over[0 + i] = part[i]
    BY <1>2, <1>4 DEF Overlaid
  <2> HIDE DEF n, m
  <2> QED
    BY <2>1, <2>2, <2>3, <1>2
<1>6. took < 2 => took >= n
  OBVIOUS
<1> HIDE DEF n, m
<1>7. CASE took = 2
  <2>1. m >= 2 /\ over[1] = cells[1] /\ over[2] = cells[2]
    BY <1>5, <1>7
  <2>2. BeginsWith(over, cells)
    <3>1. Len(cells) <= Len(over)
      BY <1>1, <2>1 DEF m
    <3>2. \A i \in 1 .. Len(cells) : over[i] = cells[i]
      BY <1>1, <1>5, <1>7
    <3> QED
      BY <3>1, <3>2 DEF BeginsWith
  <2>3. n <= 2 => m = 2
    BY <1>5, <1>7
  <2>4. m = 2 => over = cells
    BY <1>1, <1>4, <2>1 DEF m
  <2>5. over = cells => TableCells(TableOf(over)) = cells
    BY <1>1 DEF TableOf, cells
  <2>6. n <= 2 => m <= 2
    BY <2>3
  <2> QED
    BY <1>4, <2>2, <2>3, <2>4, <2>5, <2>6 DEF n, m, cells
<1>8. CASE took < 2
  <2>1. m = took /\ m <= 2 /\ ~(m >= 2)
    BY <1>5, <1>6, <1>8
  <2> QED
    BY <1>4, <1>8, <2>1 DEF m, TableIsComplete
<1> QED
  BY <1>7, <1>8

\* What SaveTable changes.
LEMMA SaveTableStep ==
    ASSUME Types, SaveTable
    PROVE  /\ job.stem \in Stems /\ job.stored \in Storable[job.column] /\ job.column \in DOMAIN Lines
           /\ \/ Uncaught /\ pc' = "down"
              \/ /\ pc' = "answer"
                 /\ files' \in [Stems -> Files]
                 /\ \A s \in Stems : s # job.stem => files'[s] = files[s]
                 /\ \A k \in Kinds : k # "symTable" => files'[job.stem][k] = files[job.stem][k]
                 /\ \/ promised' = [promised EXCEPT ![job.stem] = None]
                    \/ /\ job.intact /\ promised' = [promised EXCEPT ![job.stem] = job.stored]
                       /\ BeginsWith(files'[job.stem]["symTable"], TableCells(job.stored.table))
                 /\ LET over == files'[job.stem]["symTable"]
                    IN  Len(files[job.stem]["symTable"]) <= 2 =>
                            Len(over) <= 2 /\ (TableIsComplete(over) => over = TableCells(TableOf(over)))
<1>1. /\ job \in Jobs /\ job.stored \in Storable[job.column] /\ files \in [Stems -> Files]
      /\ job.stem \in Stems /\ job.column \in DOMAIN Lines
  BY DEF Types, TypeOK, JobOK, SaveTable, Compressing, Jobs
<1>2. job.stored.table \in SymbolTables
  BY <1>1, StorableCells
<1> DEFINE file == files[job.stem]["symTable"]
           cells == TableCells(job.stored.table)
<1>3. file \in Seq(TableCell)
  BY <1>1 DEF Files
<1>4. ASSUME NEW took \in 0 .. 2, took < 2 => took >= Len(file),
             files' = [files EXCEPT ![job.stem]["symTable"] = Overlay(file, 0, SubSeq(cells, 1, took))],
             promised' = [promised EXCEPT ![job.stem] = IF job.intact /\ took = 2 THEN job.stored ELSE None]
      PROVE  /\ files' \in [Stems -> Files]
             /\ \A s \in Stems : s # job.stem => files'[s] = files[s]
             /\ \A k \in Kinds : k # "symTable" => files'[job.stem][k] = files[job.stem][k]
             /\ \/ promised' = [promised EXCEPT ![job.stem] = None]
                \/ /\ job.intact /\ promised' = [promised EXCEPT ![job.stem] = job.stored]
                   /\ BeginsWith(files'[job.stem]["symTable"], TableCells(job.stored.table))
             /\ LET over == files'[job.stem]["symTable"]
                IN  Len(file) <= 2 => Len(over) <= 2 /\ (TableIsComplete(over) => over = TableCells(TableOf(over)))
  <2> DEFINE over == Overlay(file, 0, SubSeq(cells, 1, took))
  <2>1. /\ over \in Seq(TableCell)
        /\ took = 2 => BeginsWith(over, cells)
        /\ Len(file) <= 2 => Len(over) <= 2 /\ (TableIsComplete(over) => over = TableCells(TableOf(over)))
    BY <1>2, <1>3, <1>4, SavedTable
  <2>2. files' = [files EXCEPT ![job.stem]["symTable"] = over]
    BY <1>4
  <2> HIDE DEF over
  <2>3. /\ files'[job.stem] = [files[job.stem] EXCEPT !["symTable"] = over]
        /\ \A s \in Stems : s # job.stem => files'[s] = files[s]
        /\ files' \in [Stems -> Files]
    BY <1>1, <2>1, <2>2 DEF Files
  <2>4. files'[job.stem]["symTable"] = over
        /\ \A k \in Kinds : k # "symTable" => files'[job.stem][k] = files[job.stem][k]
    BY <1>1, <2>3 DEF Files, Kinds
  <2> QED
    BY <1>4, <2>1, <2>3, <2>4
<1>5. CASE Uncaught
  BY <1>1, <1>5 DEF Uncaught, Down
<1>6. CASE ~Uncaught
  <2>1. PICK took \in 0 .. 2 :
            /\ \/ took = 2 /\ UNCHANGED faults
               \/ took < 2 /\ took >= Len(file) /\ Fault
            /\ files' = [files EXCEPT ![job.stem]["symTable"] = Overlay(file, 0, SubSeq(cells, 1, took))]
            /\ promised' = [promised EXCEPT ![job.stem] = IF job.intact /\ took = 2 THEN job.stored ELSE None]
            /\ pc' = "answer"
    BY <1>6 DEF SaveTable
  <2>2. took < 2 => took >= Len(file)
    BY <2>1
  <2> QED
    BY <1>1, <1>4, <2>1, <2>2
<1> QED
  BY <1>5, <1>6

\* Only Write and SaveTable touch the files of the columns, and only
\* ReadColumn and SaveTable the promises.
LEMMA FilesFrame ==
    ASSUME [Next]_vars
    PROVE  /\ ~Write /\ ~SaveTable => UNCHANGED files
           /\ ~ReadColumn /\ ~SaveTable => UNCHANGED promised
<1>1. CASE Accept \/ Close \/ Read \/ Answer
  BY <1>1 DEF Accept, Close, Read, Answer
<1>2. CASE ReadColumn \/ OpenDump \/ Write \/ CloseDump \/ Compress \/ SaveTable
  BY <1>2 DEF ReadColumn, OpenDump, Write, CloseDump, Compress, SaveTable, Uncaught
<1>3. CASE LoadTable \/ CompileLlvm \/ WriteSource \/ RunClang \/ LoadLibrary \/ ReadSource \/ RemoveSource \/ RemoveLibrary
  BY <1>3 DEF LoadTable, CompileLlvm, WriteSource, RunClang, LoadLibrary, ReadSource, RemoveSource, RemoveLibrary
<1>4. CASE (\E c \in Clients : Connect(c) \/ Deliver(c) \/ Leave(c)) \/ Kill \/ Start \/ UNCHANGED vars
  BY <1>4 DEF Connect, Deliver, Leave, Kill, Start, vars
<1> QED
  BY <1>1, <1>2, <1>3, <1>4 DEF Next, Handle

\* Every step keeps the types.
LEMMA TypeStep ==
    ASSUME Types, [Next]_vars
    PROVE  TypeOK' /\ ReplyOK'
<1>1. files' \in [Stems -> Files]
  <2>1. CASE Write
    BY <2>1, WriteTypes
  <2>2. CASE SaveTable
    BY <2>2, SaveTableStep DEF Uncaught, Types, TypeOK
  <2>3. CASE ~Write /\ ~SaveTable
    BY <2>3, FilesFrame DEF Types, TypeOK
  <2> QED
    BY <2>1, <2>2, <2>3
<1> QED
  BY <1>1, ConnTypes, ReplyTypes, CounterTypes DEF Types, TypeOK, PCs

\* Every step leaves each symbol table whole or too short to be accepted.
LEMMA TableStep ==
    ASSUME Types, TableInv, [Next]_vars
    PROVE  TableInv'
<1>1. \A s \in Stems : /\ Len(files[s]["symTable"]) <= 2
                       /\ TableIsComplete(files[s]["symTable"]) =>
                             files[s]["symTable"] = TableCells(TableOf(files[s]["symTable"]))
  BY DEF TableInv, TablesFit, TablesAreWhole
<1>2. CASE Write
  <2>1. dump.kind # "symTable"
    BY <1>2 DEF Types, JobOK, Write, Dumps
  <2>2. \A s \in Stems : files'[s]["symTable"] = files[s]["symTable"]
    BY <1>2, <2>1, WriteTypes DEF Kinds
  <2> QED
    BY <1>1, <2>2 DEF TableInv, TablesFit, TablesAreWhole
<1>3. CASE SaveTable /\ ~Uncaught
  <2>1. /\ \A s \in Stems : s # job.stem => files'[s] = files[s]
        /\ job.stem \in Stems
        /\ LET over == files'[job.stem]["symTable"]
           IN  Len(over) <= 2 /\ (TableIsComplete(over) => over = TableCells(TableOf(over)))
    BY <1>1, <1>3, SaveTableStep
  <2>2. \A s \in Stems : /\ Len(files'[s]["symTable"]) <= 2
                         /\ TableIsComplete(files'[s]["symTable"]) =>
                               files'[s]["symTable"] = TableCells(TableOf(files'[s]["symTable"]))
    BY <1>1, <2>1
  <2> QED
    BY <2>2 DEF TableInv, TablesFit, TablesAreWhole
<1>4. CASE UNCHANGED files
  BY <1>1, <1>4 DEF TableInv, TablesFit, TablesAreWhole
<1> QED
  BY <1>2, <1>3, <1>4, FilesFrame DEF Uncaught

-----------------------------------------------------------------------------
(* A compression.                                                          *)

\* The steps of a compression, and those that leave it alone: the others end
\* it or are taken while there is none.
LEMMA CompressionSteps ==
    ASSUME NetOK, [Next]_vars
    PROVE  \/ ~Compressing' /\ ~SaveTable
           \/ UNCHANGED <<files, promised, pc, job, dump>>
           \/ ReadColumn \/ OpenDump \/ Write \/ CloseDump \/ Compress \/ SaveTable
<1>1. CASE Accept \/ Close \/ Read \/ Answer
  BY <1>1 DEF Accept, Close, Read, Answer, Sent, Down, Compressing, SaveTable
<1>2. CASE LoadTable \/ CompileLlvm \/ WriteSource \/ RunClang \/ LoadLibrary \/ ReadSource \/ RemoveSource \/ RemoveLibrary
  <2>1. LoadTable => Request.language \in {"cpp", "llvm", "other"}
    BY ServerAssumption DEF LoadTable, NetOK, Serving, Request
  <2> QED
    BY <1>2, <2>1 DEF LoadTable, CompileLlvm, WriteSource, RunClang, LoadLibrary, ReadSource, Sent, Down, RemoveSource,
       RemoveLibrary, Compressing, SaveTable
<1>4. CASE (\E c \in Clients : Connect(c) \/ Deliver(c) \/ Leave(c)) \/ UNCHANGED vars
  BY <1>4 DEF Connect, Deliver, Leave, vars, jobVars
<1>5. CASE Kill \/ Start
  BY <1>5 DEF Kill, Down, Start, Compressing, SaveTable
<1> QED
  BY <1>1, <1>2, <1>4, <1>5 DEF Next, Handle

\* Every step keeps what the compress handler holds to its stage.
LEMMA JobStep ==
    ASSUME Types, [Next]_vars
    PROVE  JobOK' /\ PromisesOK'
<1>1. /\ TypeOK /\ NetOK /\ JobOK
      /\ promised \in [Stems -> StoredColumns \cup {None}]
      /\ DOMAIN Lines \subseteq Columns /\ Stem \in [Columns -> Stems]
  BY ServerAssumption DEF Types, PromisesOK
<1>2. CASE ~Compressing' /\ ~SaveTable
  <2>1. JobOK'
    BY <1>2 DEF JobOK, Compressing
  <2>2. ~ReadColumn \/ UNCHANGED promised
    BY <1>2 DEF ReadColumn, Uncaught, Compressing
  <2> QED
    BY <1>1, <1>2, <2>1, <2>2, FilesFrame DEF PromisesOK
<1>3. CASE UNCHANGED <<files, promised, pc, job, dump>>
  BY <1>1, <1>3 DEF JobOK, Compressing, PromisesOK
<1>4. CASE ReadColumn /\ ~Uncaught
  <2> DEFINE column == Request.column
  <2>1. /\ column \in DOMAIN Lines
        /\ job' = [column |-> column, stem |-> Stem[column], stored |-> None, intact |-> TRUE]
        /\ dump' = [kind |-> "uncompressed", cells |-> DumpCells(Rows[column]), src |-> 0, pos |-> 0]
        /\ promised' = [promised EXCEPT ![Stem[column]] = None]
        /\ pc' = "open" /\ files' = files
    BY <1>4 DEF ReadColumn, HasElements, DumpTo
  <2> HIDE DEF column
  <2>2. Stem[column] \in Stems /\ IsDump(DumpCells(Rows[column]))
    BY <1>1, <2>1, ColumnRows, DumpIsDump
  <2>3. job' \in Jobs /\ dump' \in Dumps
    BY <2>1, <2>2 DEF Jobs, Dumps, IsDump
  <2>4. \A s \in Stems : promised'[s] = IF s = Stem[column] THEN None ELSE promised[s]
    BY <1>1, <2>1, <2>2
  <2> QED
    BY <1>1, <2>1, <2>2, <2>3, <2>4 DEF JobOK, PromisesOK, Compressing
<1>5. CASE OpenDump /\ ~Uncaught
  <2>1. pc = "open" /\ pc' = "dump" /\ UNCHANGED <<files, promised, job, dump>>
    BY <1>5 DEF OpenDump, jobVars
  <2>2. job \in Jobs /\ dump \in Dumps /\ IsDump(dump.cells)
    BY <1>1, <2>1 DEF JobOK, Compressing
  <2>3. files[job.stem][dump.kind] \in Seq(Nat)
    BY <1>1, <2>2 DEF Jobs, Dumps, TypeOK, Files
  <2>4. 0 <= Len(dump.cells) /\ 0 <= Len(files[job.stem][dump.kind])
    <3>1. \A cells \in Seq(Nat) : 0 <= Len(cells)
      OBVIOUS
    <3>2. dump.cells \in Seq(Nat)
      BY <2>2 DEF IsDump
    <3> QED
      BY <2>3, <3>1, <3>2, Zenon
  <2> QED
    BY <1>1, <2>1, <2>4 DEF JobOK, PromisesOK, Compressing
<1>6. CASE Write
  <2>1. /\ pc = "dump" /\ pc' = "dump" /\ promised' = promised
        /\ dump'.src \in Nat /\ dump'.src <= Len(dump.cells)
        /\ dump'.pos \in Nat /\ dump'.pos <= Len(files'[job.stem][dump.kind])
        /\ dump' = [dump EXCEPT !.src = dump'.src, !.pos = dump'.pos]
        /\ job' = [job EXCEPT !.intact = job'.intact] /\ job'.intact \in BOOLEAN
    BY <1>6, WriteTypes DEF Write
  <2>2. job \in Jobs /\ dump \in Dumps
    BY <1>1, <2>1 DEF JobOK, Compressing
  <2>3. /\ dump' \in Dumps /\ dump'.cells = dump.cells /\ dump'.kind = dump.kind
        /\ job' \in Jobs /\ job'.stem = job.stem /\ job'.column = job.column /\ job'.stored = job.stored
    BY <2>1, <2>2 DEF Dumps, Jobs
  <2> QED
    BY <1>1, <2>1, <2>3 DEF JobOK, PromisesOK, Compressing
<1>7. CASE CloseDump
  BY <1>1, <1>7 DEF CloseDump, JobOK, PromisesOK, Compressing, Dumps
<1>8. CASE Compress
  <2>1. /\ pc = "encode" /\ pc' = "open" /\ UNCHANGED <<files, promised>>
    BY <1>8 DEF Compress
  <2>2. job \in Jobs /\ job.column \in DOMAIN Lines
    BY <1>1, <2>1 DEF JobOK, Compressing, Jobs
  <2>3. PICK stored \in Storable[job.column] :
            /\ job' = [job EXCEPT !.stored = stored]
            /\ dump' = [kind |-> "compressed", cells |-> DumpCells(stored.out), src |-> 0, pos |-> 0]
    BY <1>8 DEF Compress, DumpTo
  <2>4. stored \in StoredColumns /\ IsDump(DumpCells(stored.out))
    BY <2>2, StorableCells DEF StoredColumns
  <2>5. job' \in Jobs /\ dump' \in Dumps /\ job'.stem = job.stem /\ job'.column = job.column /\ job'.stored = stored
    BY <2>2, <2>3, <2>4 DEF Jobs, Dumps, IsDump
  <2> QED
    BY <1>1, <2>1, <2>3, <2>4, <2>5 DEF JobOK, PromisesOK, Compressing
<1>9. CASE SaveTable /\ ~Uncaught
  <2>1. /\ job.stem \in Stems /\ job.stored \in StoredColumns /\ pc' = "answer"
        /\ \/ promised' = [promised EXCEPT ![job.stem] = None]
           \/ promised' = [promised EXCEPT ![job.stem] = job.stored]
    BY <1>9, SaveTableStep DEF StoredColumns
  <2> QED
    BY <1>1, <2>1 DEF JobOK, PromisesOK, Compressing
<1>10. CASE Uncaught
  <2>1. pc' = "down" /\ promised' = promised
    BY <1>10 DEF Uncaught, Down
  <2> QED
    BY <1>1, <2>1 DEF JobOK, PromisesOK, Compressing
<1> QED
  BY <1>1, <1>2, <1>3, <1>4, <1>5, <1>6, <1>7, <1>8, <1>9, <1>10, CompressionSteps

\* A promise is kept: the files of its stem are not touched, and a new one is
\* made when all three hold what it says.
LEMMA PromiseStep ==
    ASSUME Types, Progress, AnsweredFilesHold, [Next]_vars
    PROVE  AnsweredFilesHold'
<1>1. /\ \A s \in Stems : promised[s] # None => \A k \in Kinds : BeginsWith(files[s][k], CellsOf(promised[s])[k])
      /\ NetOK /\ JobOK /\ promised \in [Stems -> StoredColumns \cup {None}]
  BY DEF AnsweredFilesHold, Types, PromisesOK
<1>2. CASE Write
  <2>1. /\ promised' = promised /\ promised[job.stem] = None
        /\ \A s \in Stems : s # job.stem => files'[s] = files[s]
    BY <1>1, <1>2, WriteTypes DEF Write, JobOK, Compressing
  <2> QED
    BY <1>1, <2>1 DEF AnsweredFilesHold
<1>3. CASE SaveTable /\ ~Uncaught
  <2> DEFINE stored == job.stored
  <2>1. /\ job \in Jobs /\ pc = "saveTable" /\ job.stem \in Stems /\ job.column \in DOMAIN Lines
        /\ stored \in Storable[job.column]
        /\ \A s \in Stems : s # job.stem => files'[s] = files[s]
        /\ \A k \in Kinds : k # "symTable" => files'[job.stem][k] = files[job.stem][k]
        /\ \/ promised' = [promised EXCEPT ![job.stem] = None]
           \/ /\ job.intact /\ promised' = [promised EXCEPT ![job.stem] = stored]
              /\ BeginsWith(files'[job.stem]["symTable"], TableCells(stored.table))
    BY <1>1, <1>3, SaveTableStep DEF SaveTable, JobOK, Compressing
  <2>2. CASE promised' = [promised EXCEPT ![job.stem] = None]
    BY <1>1, <2>1, <2>2 DEF AnsweredFilesHold
  <2>3. CASE /\ job.intact /\ promised' = [promised EXCEPT ![job.stem] = stored]
             /\ BeginsWith(files'[job.stem]["symTable"], TableCells(stored.table))
    <3>1. /\ BeginsWith(files[job.stem]["uncompressed"], DumpCells(Rows[job.column]))
          /\ BeginsWith(files[job.stem]["compressed"], DumpCells(stored.out))
      BY <2>1, <2>3 DEF Progress, Compressing
    <3>2. CellsOf(stored) = [uncompressed |-> DumpCells(Rows[job.column]), compressed |-> DumpCells(stored.out),
                             symTable |-> TableCells(stored.table)]
      BY <2>1, StorableCells
    <3> HIDE DEF stored
    <3>3. \A k \in Kinds : BeginsWith(files'[job.stem][k], CellsOf(stored)[k])
      BY <2>1, <2>3, <3>1, <3>2 DEF Kinds
    <3>4. promised'[job.stem] = stored /\ \A s \in Stems : s # job.stem => promised'[s] = promised[s]
      BY <1>1, <2>1, <2>3
    <3> QED
      BY <1>1, <2>1, <3>3, <3>4 DEF AnsweredFilesHold
  <2> QED
    BY <2>1, <2>2, <2>3
<1>4. CASE ReadColumn /\ ~Uncaught
  <2>1. files' = files /\ promised' = [promised EXCEPT ![Stem[Request.column]] = None]
    BY <1>4 DEF ReadColumn
  <2> QED
    BY <1>1, <2>1 DEF AnsweredFilesHold
<1>5. CASE UNCHANGED <<files, promised>>
  BY <1>1, <1>5 DEF AnsweredFilesHold
<1> QED
  BY <1>2, <1>3, <1>4, <1>5, FilesFrame DEF Uncaught

\* Every step keeps what the dumps of a compression have written so far.
LEMMA ProgressStep ==
    ASSUME Types, Progress, [Next]_vars
    PROVE  Progress'
<1>1. TypeOK /\ NetOK /\ JobOK
  BY DEF Types
<1>2. CASE ~Compressing'
  BY <1>2 DEF Progress
<1>3. CASE UNCHANGED <<files, promised, pc, job, dump>>
  BY <1>3 DEF Progress, Compressing
<1>4. CASE ReadColumn /\ ~Uncaught
  <2>1. pc' = "open" /\ dump'.kind = "uncompressed"
    BY <1>4 DEF ReadColumn, DumpTo
  <2> QED
    BY <2>1 DEF Progress
<1>5. CASE OpenDump /\ ~Uncaught
  <2>1. pc = "open" /\ pc' = "dump" /\ UNCHANGED <<files, job, dump>> /\ dump.src = 0 /\ dump.pos = 0
    BY <1>1, <1>5 DEF OpenDump, jobVars, JobOK
  <2> QED
    BY <2>1 DEF Progress, Compressing
<1>6. CASE Write
  <2>1. /\ pc = "dump" /\ pc' = "dump" /\ job \in Jobs /\ dump \in Dumps
        /\ \A k \in Kinds : k # dump.kind => files'[job.stem][k] = files[job.stem][k]
        /\ dump' = [dump EXCEPT !.src = dump'.src, !.pos = dump'.pos]
        /\ job' = [job EXCEPT !.intact = job'.intact] /\ job'.intact \in BOOLEAN
        /\ job'.intact /\ dump.pos = dump.src =>
             /\ job.intact
             /\ dump'.pos = dump'.src
             /\ \A i \in 1 .. dump'.src :
                   files'[job.stem][dump.kind][i] = IF i <= dump.src THEN files[job.stem][dump.kind][i]
                                                                       ELSE dump.cells[i]
    BY <1>1, <1>6, WriteTypes DEF Write, JobOK, Compressing
  <2>2. job'.stem = job.stem /\ job'.column = job.column /\ job'.stored = job.stored
        /\ dump'.kind = dump.kind /\ dump'.cells = dump.cells
    BY <2>1 DEF Jobs, Dumps
  <2>3. job'.intact => job.intact
    BY <1>6, <2>1 DEF Write, Jobs
  <2>4. ASSUME job'.intact
        PROVE  /\ dump'.pos = dump'.src
               /\ \A i \in 1 .. dump'.src : files'[job.stem][dump.kind][i] = dump.cells[i]
    <3>1. /\ dump.pos = dump.src
          /\ \A i \in 1 .. dump.src : files[job.stem][dump.kind][i] = dump.cells[i]
      BY <2>1, <2>3, <2>4 DEF Progress, Compressing
    <3>2. dump.src \in Nat
      BY <2>1 DEF Dumps
    <3> QED
      BY <2>1, <2>4, <3>1, <3>2
  <2>5. ASSUME job'.intact, dump.kind = "compressed"
        PROVE  BeginsWith(files'[job.stem]["uncompressed"], DumpCells(Rows[job.column]))
    BY <2>1, <2>3, <2>5 DEF Progress, Compressing, Kinds
  <2> QED
    BY <2>1, <2>2, <2>4, <2>5 DEF Progress
<1>7. CASE CloseDump
  <2>1. /\ pc = "dump" /\ pc' \in {"encode", "saveTable"} /\ UNCHANGED <<files, job>>
        /\ dump.kind = "uncompressed" <=> pc' = "encode"
        /\ dump.src = Len(dump.cells)
    BY <1>7 DEF CloseDump
  <2>2. /\ dump \in Dumps /\ IsDump(dump.cells) /\ dump.pos <= Len(files[job.stem][dump.kind])
        /\ dump.kind = "uncompressed" => dump.cells = DumpCells(Rows[job.column])
        /\ dump.kind = "compressed" => dump.cells = DumpCells(job.stored.out)
    BY <1>1, <2>1 DEF JobOK
  <2>3. ASSUME job.intact
        PROVE  BeginsWith(files[job.stem][dump.kind], dump.cells)
    BY <2>1, <2>2, <2>3 DEF Progress, Compressing, BeginsWith
  <2>4. dump.kind \in {"uncompressed", "compressed"}
    BY <2>2 DEF Dumps
  <2>5. ASSUME job.intact, dump.kind = "compressed"
        PROVE  BeginsWith(files[job.stem]["uncompressed"], DumpCells(Rows[job.column]))
    BY <2>1, <2>5 DEF Progress, Compressing
  <2> QED
    BY <2>1, <2>2, <2>3, <2>4, <2>5 DEF Progress
<1>8. CASE Compress
  <2>1. pc = "encode" /\ pc' = "open" /\ files' = files /\ job \in Jobs
    BY <1>1, <1>8 DEF Compress, JobOK, Compressing
  <2>2. job'.intact = job.intact /\ job'.stem = job.stem /\ job'.column = job.column
    BY <1>8, <2>1 DEF Compress, Jobs
  <2> QED
    BY <2>1, <2>2 DEF Progress, Compressing
<1>9. CASE SaveTable \/ Uncaught
  BY <1>9, SaveTableStep DEF Uncaught, Down, Progress, Compressing
<1> QED
  BY <1>1, <1>2, <1>3, <1>4, <1>5, <1>6, <1>7, <1>8, <1>9, CompressionSteps

-----------------------------------------------------------------------------
(* Connections and answers.                                                *)

\* Every open connection waits in the queue once, or is being served.
LEMMA NetStep ==
    ASSUME Types, [Next]_vars
    PROVE  NetOK'
<1>1. /\ conn \in [Clients -> Connections] /\ queue \in Seq(Clients) /\ (pc = "down" => queue = << >>)
      /\ \A i \in 1 .. Len(queue) : conn[queue[i]].phase = "open"
      /\ \A i, j \in 1 .. Len(queue) : queue[i] = queue[j] => i = j
      /\ Serving => /\ client \in Clients
                    /\ conn[client].phase = "open"
                    /\ conn[client].request \in Requests
                    /\ \A i \in 1 .. Len(queue) : queue[i] # client
      /\ \A c \in Clients : conn[c].phase = "open" => conn[c].request \in Requests
  BY DEF Types, TypeOK, NetOK
<1>2. ASSUME queue' = queue, Serving => client' = client, Serving' => Serving,
             conn' \in [Clients -> Connections],
             \A c \in Clients : conn'[c].phase = conn[c].phase /\ conn'[c].request = conn[c].request
      PROVE  NetOK'
  <2>1. \A i \in 1 .. Len(queue) : queue[i] \in Clients
    BY <1>1
  <2> QED
    BY <1>1, <1>2, <2>1 DEF NetOK
<1>3. ASSUME Down PROVE NetOK'
  <2>1. /\ queue' = << >> /\ pc' = "down"
        /\ \A c \in Clients : conn'[c].phase # "open"
    BY <1>1, <1>3 DEF Down, Connections
  <2>2. Len(queue') = 0
    BY <2>1
  <2> QED
    BY <2>1, <2>2 DEF NetOK, Serving
<1>4. ASSUME NEW answer, NEW next, Serving, Sent(answer, next) PROVE NetOK'
  <2>1. CASE /\ conn' = [conn EXCEPT ![client].answers = Append(@, answer)]
             /\ UNCHANGED <<queue, client, jobVars>>
    <3>1. \A c \in Clients : conn'[c].phase = conn[c].phase /\ conn'[c].request = conn[c].request
      BY <1>1, <1>4, <2>1 DEF Connections
    <3> QED
      BY <1>1, <1>4, <2>1, <3>1 DEF NetOK
  <2> QED
    BY <1>3, <1>4, <2>1 DEF Sent
<1>5. UNCHANGED netVars /\ Serving => NetOK'
  BY <1>1, <1>2 DEF netVars
<1>6. CASE Accept
  <2> DEFINE n == Len(queue)
  <2>1. /\ client' = queue[1] /\ n \in Nat /\ n >= 1 /\ Len(queue') = n - 1 /\ conn' = conn
        /\ \A i \in 1 .. n - 1 : queue'[i] = queue[i + 1]
        /\ \A i \in 1 .. n : queue[i] \in Clients
    BY <1>1, <1>6 DEF Accept
  <2>2. \A i \in 1 .. n - 1 : i \in 1 .. n /\ i + 1 \in 1 .. n /\ i + 1 # 1
    BY <2>1
  <2>3. 1 \in 1 .. n /\ queue[1] \in Clients
    BY <2>1
  <2> HIDE DEF n
  <2>4. \A i \in 1 .. n - 1 : conn[queue'[i]].phase = "open" /\ queue'[i] # queue[1]
    BY <1>1, <2>1, <2>2, <2>3 DEF n
  <2>5. \A i, j \in 1 .. n - 1 : queue'[i] = queue'[j] => i = j
    <3>1. \A i, j \in 1 .. n - 1 : queue[i + 1] = queue[j + 1] => i + 1 = j + 1
      BY <1>1, <2>2 DEF n
    <3> QED
      BY <2>1, <3>1
  <2> QED
    BY <1>1, <2>1, <2>3, <2>4, <2>5 DEF NetOK, n
<1>7. CASE Read
  <2>1. /\ queue' = queue /\ client' = client /\ Serving
        /\ conn' = [conn EXCEPT ![client].got = conn[client].arrived]
    BY <1>7 DEF Read, Serving
  <2>2. \A c \in Clients : conn'[c].phase = conn[c].phase /\ conn'[c].request = conn[c].request
    BY <1>1, <2>1 DEF Connections
  <2> QED
    BY <1>1, <1>2, <2>1, <2>2, ConnTypes DEF Types
<1>8. CASE Close
  <2>1. /\ queue' = queue /\ pc' = "accept" /\ Serving
        /\ conn' = [conn EXCEPT ![client].phase = "closed"]
    BY <1>8 DEF Close, Serving
  <2>2. \A c \in Clients : IF c = client THEN conn'[c].phase = "closed" ELSE conn'[c] = conn[c]
    BY <1>1, <2>1 DEF Connections
  <2>3. \A i \in 1 .. Len(queue) : queue[i] \in Clients
    BY <1>1
  <2> QED
    BY <1>1, <2>1, <2>2, <2>3 DEF NetOK, Serving
<1>9. CASE Answer
  BY <1>9, <1>4 DEF Answer, Serving
<1>10. CASE ReadColumn \/ OpenDump \/ Write \/ CloseDump \/ Compress \/ SaveTable
  BY <1>3, <1>5, <1>10 DEF ReadColumn, OpenDump, Write, CloseDump, Compress, SaveTable, Uncaught, Serving
<1>11. CASE LoadTable \/ CompileLlvm \/ WriteSource \/ RunClang \/ LoadLibrary \/ RemoveSource \/ RemoveLibrary
  BY <1>5, <1>11 DEF LoadTable, CompileLlvm, WriteSource, RunClang, LoadLibrary, RemoveSource, RemoveLibrary, Serving
<1>12. CASE ReadSource
  <2>1. CASE UNCHANGED <<conn, queue, client>>
    BY <1>1, <1>2, <1>12, <2>1 DEF ReadSource, Serving
  <2> QED
    BY <1>4, <1>12, <2>1 DEF ReadSource, Serving
<1>13. CASE \E c \in Clients : Connect(c)
  <2>1. PICK c \in Clients : Connect(c)
    BY <1>13
  <2>2. PICK r \in Requests : conn' = [conn EXCEPT ![c] = [Closed EXCEPT !.phase = "open", !.request = r]]
    BY <2>1 DEF Connect
  <2>3. /\ conn'[c].phase = "open" /\ conn'[c].request = r
        /\ \A d \in Clients : d # c => conn'[d] = conn[d]
        /\ conn[c].phase # "open" /\ queue' = Append(queue, c) /\ pc' = pc /\ client' = client
    BY <1>1, <2>1, <2>2 DEF Connect, Closed
  <2> DEFINE n == Len(queue)
  <2>4. /\ n \in Nat /\ Len(queue') = n + 1 /\ queue'[n + 1] = c
        /\ \A i \in 1 .. n : queue'[i] = queue[i] /\ queue[i] \in Clients /\ queue[i] # c
    BY <1>1, <2>3
  <2>5. \A i \in 1 .. n : conn[queue[i]].phase = "open"
    BY <1>1
  <2>6. \A i, j \in 1 .. n : queue[i] = queue[j] => i = j
    BY <1>1
  <2> HIDE DEF n
  <2>7. \A i \in 1 .. n + 1 : i \in 1 .. n \/ i = n + 1
    BY <2>4
  <2>8. \A i \in 1 .. n + 1 : conn'[queue'[i]].phase = "open"
    BY <2>3, <2>4, <2>5, <2>7
  <2>9. \A i, j \in 1 .. n + 1 : queue'[i] = queue'[j] => i = j
    BY <2>4, <2>6, <2>7
  <2>10. Serving => /\ client # c
                    /\ \A i \in 1 .. n + 1 : queue'[i] # client
    BY <1>1, <2>3, <2>4, <2>7 DEF n
  <2> QED
    BY <1>1, <2>3, <2>4, <2>8, <2>9, <2>10 DEF NetOK, Serving
<1>14. CASE \E c \in Clients : Deliver(c) \/ Leave(c)
  <2>1. PICK c \in Clients : Deliver(c) \/ Leave(c)
    BY <1>14
  <2>2. queue' = queue /\ client' = client /\ pc' = pc
    BY <2>1 DEF Deliver, Leave
  <2>3. \A d \in Clients : conn'[d].phase = conn[d].phase /\ conn'[d].request = conn[d].request
    <3>1. conn[c] \in Connections
      BY <1>1
    <3>2. /\ [conn[c] EXCEPT !.arrived = @ + 1].phase = conn[c].phase
          /\ [conn[c] EXCEPT !.arrived = @ + 1].request = conn[c].request
          /\ [conn[c] EXCEPT !.gone = TRUE].phase = conn[c].phase
          /\ [conn[c] EXCEPT !.gone = TRUE].request = conn[c].request
      BY <3>1 DEF Connections
    <3> QED
      BY <1>1, <2>1, <3>2 DEF Deliver, Leave
  <2> QED
    BY <1>1, <1>2, <2>2, <2>3, ConnTypes DEF Types, Serving
<1>15. CASE Kill
  BY <1>3, <1>15 DEF Kill
<1>16. CASE Start \/ UNCHANGED vars
  BY <1>1, <1>2, <1>16 DEF Start, vars, Serving
<1> QED
  BY <1>6, <1>7, <1>8, <1>9, <1>10, <1>11, <1>12, <1>13, <1>14, <1>15, <1>16 DEF Next, Handle

\* A server that was not killed before is not killed by any other step.
LEMMA NotKilled ==
    ASSUME Types, [Next]_vars, kills' = 0
    PROVE  kills = 0 /\ ~Kill
<1>1. \/ Kill
      \/ kills' = kills
  <2>1. CASE Accept \/ Close \/ Read \/ Answer
    BY <2>1 DEF Accept, Close, Read, Answer
  <2>2. CASE ReadColumn \/ OpenDump \/ Write \/ CloseDump \/ Compress \/ SaveTable
    BY <2>2 DEF ReadColumn, OpenDump, Write, CloseDump, Compress, SaveTable, Uncaught
  <2>3. CASE LoadTable \/ CompileLlvm \/ WriteSource \/ RunClang \/ LoadLibrary \/ ReadSource \/ RemoveSource \/ RemoveLibrary
    BY <2>3 DEF LoadTable, CompileLlvm, WriteSource, RunClang, LoadLibrary, ReadSource, RemoveSource, RemoveLibrary
  <2>4. CASE (\E c \in Clients : Connect(c) \/ Deliver(c) \/ Leave(c)) \/ Start \/ UNCHANGED vars
    BY <2>4 DEF Connect, Deliver, Leave, Start, vars
  <2> QED
    BY <2>1, <2>2, <2>3, <2>4 DEF Next, Handle
<1>2. Kill => kills' = kills + 1
  BY DEF Kill
<1>3. kills \in Nat
  BY ServerAssumption DEF Types, TypeOK
<1> QED
  BY <1>1, <1>2, <1>3

\* As long as nobody kills the server, it finds what it has made itself, and
\* sends one answer.
LEMMA CodegenStep ==
    ASSUME Types, CodegenOK, [Next]_vars
    PROVE  CodegenOK'
<1> SUFFICES ASSUME kills' = 0 PROVE CodegenOK'
  BY DEF CodegenOK
<1>1. /\ conn \in [Clients -> Connections] /\ kills \in Nat
      /\ Serving => client \in Clients /\ conn[client].phase = "open"
  BY ServerAssumption DEF Types, TypeOK, NetOK
<1>2. kills = 0 /\ ~Kill
  BY NotKilled
<1>3. /\ ~Generating => source = None /\ library = None
      /\ pc = "clang" => library = None
      /\ pc \in {"dlopen", "readSource"} => (library # None => source # None)
      /\ pc = "readSource" => library # None
      /\ pc = "removeLibrary" => source = None
      /\ \A c \in Clients :
            /\ Len(conn[c].answers) <= 1
            /\ (conn[c].phase = "open" /\ ~(pc = "close" /\ client = c)) => conn[c].answers = << >>
  BY <1>2 DEF CodegenOK
\* What the steps do to the connections.
<1>4. ASSUME \A c \in Clients : conn'[c].phase = conn[c].phase /\ conn'[c].answers = conn[c].answers,
             pc # "close" \/ (pc' = pc /\ client' = client)
      PROVE  \A c \in Clients :
                /\ Len(conn'[c].answers) <= 1
                /\ (conn'[c].phase = "open" /\ ~(pc' = "close" /\ client' = c)) => conn'[c].answers = << >>
  BY <1>3, <1>4
<1>5. ASSUME Down, UNCHANGED codeVars, ~Generating PROVE CodegenOK'
  <2>1. \A c \in Clients : conn'[c].phase # "open" /\ conn'[c].answers = conn[c].answers
    BY <1>1, <1>5 DEF Down, Connections
  <2> QED
    BY <1>3, <1>5, <2>1 DEF Down, CodegenOK, Generating, codeVars
<1>6. ASSUME UNCHANGED netVars, UNCHANGED codeVars, ~Generating, pc # "close", pc' # "close",
             pc' \notin {"dlopen", "readSource", "remove", "removeLibrary"}
      PROVE  CodegenOK'
  BY <1>3, <1>4, <1>6 DEF netVars, codeVars, CodegenOK, Generating
<1>7. CASE Accept \/ Start \/ UNCHANGED vars
  BY <1>2, <1>3, <1>4, <1>7 DEF Accept, Start, vars, codeVars, CodegenOK, Generating
<1>8. CASE Read
  <2>1. \A c \in Clients : conn'[c].phase = conn[c].phase /\ conn'[c].answers = conn[c].answers
    BY <1>1, <1>8 DEF Read, Serving, Connections
  <2>2. pc = "read" /\ UNCHANGED codeVars
    BY <1>8 DEF Read
  <2>3. pc' \in {"close", "table", "column"}
    BY <1>8 DEF Read
  <2> QED
    BY <1>3, <1>4, <2>1, <2>2, <2>3 DEF codeVars, CodegenOK, Generating
<1>9. CASE Close
  <2>1. \A c \in Clients : /\ conn'[c].answers = conn[c].answers
                           /\ conn'[c].phase = IF c = client THEN "closed" ELSE conn[c].phase
    BY <1>1, <1>9 DEF Close, Serving, Connections
  <2> QED
    BY <1>3, <1>9, <2>1 DEF Close, codeVars, CodegenOK, Generating
<1>10. CASE Answer
  <2>1. CASE Down
    BY <1>5, <1>10, <2>1 DEF Answer, Generating
  <2>2. CASE /\ conn' = [conn EXCEPT ![client].answers = Append(@, reply)]
             /\ pc' = "close" /\ client' = client
    <3>1. conn[client].answers = << >> /\ client \in Clients
      BY <1>1, <1>3, <1>10 DEF Answer, Serving
    <3>2. Len(Append(conn[client].answers, reply)) = 1
      BY <3>1
    <3>3. \A c \in Clients : IF c = client THEN conn'[c].answers = Append(conn[client].answers, reply)
                             ELSE conn'[c] = conn[c]
      BY <1>1, <2>2, <3>1 DEF Connections
    <3>4. \A c \in Clients : Len(conn'[c].answers) <= 1
      <4>1. TAKE c \in Clients
      <4>2. CASE c = client
        <5>1. Len(conn'[c].answers) = 1
          BY <4>2, <3>2, <3>3
        <5> QED
          BY <5>1
      <4>3. CASE c # client
        BY <4>3, <1>3, <3>3
      <4> QED
        BY <4>2, <4>3
    <3> QED
      BY <1>3, <1>10, <2>2, <3>3, <3>4 DEF Answer, codeVars, CodegenOK, Generating
  <2> QED
    BY <1>10, <2>1, <2>2 DEF Answer, Sent
<1>11. CASE ReadColumn \/ OpenDump \/ SaveTable
  BY <1>5, <1>6, <1>11 DEF ReadColumn, OpenDump, SaveTable, Uncaught, Generating
<1>12. CASE Write \/ CloseDump \/ Compress
  BY <1>6, <1>12 DEF Write, CloseDump, Compress, Generating
<1>13. CASE LoadTable \/ CompileLlvm
  <2>1. LoadTable => Request.language \in {"cpp", "llvm", "other"}
    BY ServerAssumption DEF LoadTable, Types, NetOK, Serving, Request
  <2> QED
    BY <1>6, <1>13, <2>1 DEF LoadTable, CompileLlvm, Generating
<1>14. ASSUME UNCHANGED netVars, pc # "close"
       PROVE  \A c \in Clients :
                 /\ Len(conn'[c].answers) <= 1
                 /\ (conn'[c].phase = "open" /\ ~(pc' = "close" /\ client' = c)) => conn'[c].answers = << >>
  BY <1>3, <1>4, <1>14 DEF netVars
<1>15. CASE WriteSource
  BY <1>3, <1>14, <1>15 DEF WriteSource, CodegenOK, Generating
<1>16. CASE RunClang
  BY <1>3, <1>14, <1>16 DEF RunClang, CodegenOK, Generating
<1>17. CASE LoadLibrary
  BY <1>3, <1>14, <1>17 DEF LoadLibrary, codeVars, CodegenOK, Generating
<1>18. CASE ReadSource
  BY <1>3, <1>4, <1>18 DEF ReadSource, codeVars, CodegenOK, Generating
<1>19. CASE RemoveSource \/ RemoveLibrary
  BY <1>3, <1>14, <1>19 DEF RemoveSource, RemoveLibrary, CodegenOK, Generating
<1>20. CASE \E c \in Clients : Connect(c)
  <2>1. PICK c \in Clients : Connect(c)
    BY <1>20
  <2>2. PICK r \in Requests : conn' = [conn EXCEPT ![c] = [Closed EXCEPT !.phase = "open", !.request = r]]
    BY <2>1 DEF Connect
  <2>3. conn'[c].answers = << >> /\ \A d \in Clients : d # c => conn'[d] = conn[d]
    BY <1>1, <2>2 DEF Closed
  <2>4. Len(conn'[c].answers) <= 1
    BY <2>3
  <2> QED
    BY <1>3, <2>1, <2>3, <2>4 DEF Connect, codeVars, CodegenOK, Generating
<1>21. CASE \E c \in Clients : Deliver(c) \/ Leave(c)
  <2>1. PICK c \in Clients : Deliver(c) \/ Leave(c)
    BY <1>21
  <2>2. /\ [conn[c] EXCEPT !.arrived = @ + 1].phase = conn[c].phase
        /\ [conn[c] EXCEPT !.arrived = @ + 1].answers = conn[c].answers
        /\ [conn[c] EXCEPT !.gone = TRUE].phase = conn[c].phase
        /\ [conn[c] EXCEPT !.gone = TRUE].answers = conn[c].answers
    <3>1. conn[c] \in Connections
      BY <1>1
    <3> QED
      BY <3>1 DEF Connections
  <2>3. \A d \in Clients : conn'[d].phase = conn[d].phase /\ conn'[d].answers = conn[d].answers
    BY <1>1, <2>1, <2>2 DEF Deliver, Leave
  <2> QED
    BY <1>3, <1>4, <2>1, <2>3 DEF Deliver, Leave, codeVars, CodegenOK, Generating
<1> QED
  BY <1>2, <1>7, <1>8, <1>9, <1>10, <1>11, <1>12, <1>13, <1>15, <1>16, <1>17, <1>18, <1>19, <1>20, <1>21 DEF Next, Handle

-----------------------------------------------------------------------------
(* Answers are about their requests.                                       *)

\* The parts of a stored table are all of it.
LEMMA CellsAreOfStem ==
    ASSUME NEW c \in DOMAIN Lines, NEW stored \in Storable[c]
    PROVE  /\ TableCells(stored.table) \in Seq(CellsOfStem(Stem[c]))
           /\ Len(TableCells(stored.table)) = 2
           /\ stored.table.sym = Trained[c]
<1>1. PICK n \in 0 .. Len(Rows[c]) : stored = Stored(c, Encoded(c, n))
  BY DEF Storable
<1>2. stored.table.sym = Trained[c]
  BY <1>1 DEF Stored, TableFor
<1>3. stored.table \in SymbolTables
  BY StorableCells
<1>4. OfStem(Stem[c], stored.table)
  BY <1>2 DEF OfStem
<1>5. \A part \in {1, 2} : [table |-> stored.table, part |-> part] \in CellsOfStem(Stem[c])
  BY <1>3, <1>4 DEF CellsOfStem, TableCell
<1> QED
  BY <1>2, <1>5 DEF TableCells

\* The directory is of tables of their stems to begin with.
LEMMA InitOwn == Init => OwnInv
<1> SUFFICES ASSUME Init PROVE OwnInv
  OBVIOUS
<1>1. \A s \in Stems : files[s]["symTable"] \in Seq(CellsOfStem(s))
  <2> DEFINE empty == [uncompressed |-> << >>, compressed |-> << >>, symTable |-> << >>]
  <2>1. \A S : empty.symTable \in Seq(S)
    OBVIOUS
  <2>2. CASE files = NoFiles
    BY <2>1, <2>2 DEF NoFiles
  <2>3. ASSUME NEW c \in Earlier, NEW stored \in Storable[c],
               files = [NoFiles EXCEPT ![Stem[c]] = CellsOf(stored)]
        PROVE  \A s \in Stems : files[s]["symTable"] \in Seq(CellsOfStem(s))
    <3>1. c \in DOMAIN Lines /\ Stem[c] \in Stems
      BY ServerAssumption DEF Columns
    <3>2. CellsOf(stored).symTable = TableCells(stored.table)
      BY DEF CellsOf
    <3>3. CellsOf(stored).symTable \in Seq(CellsOfStem(Stem[c]))
      BY <3>1, <3>2, CellsAreOfStem
    <3>4. \A s \in Stems : files[s] = IF s = Stem[c] THEN CellsOf(stored) ELSE empty
      BY <2>3 DEF NoFiles
    <3> HIDE DEF empty
    <3> QED
      BY <2>1, <3>3, <3>4
  <2> QED
    BY <2>2, <2>3 DEF Init
<1>2. pc = "accept" /\ \A c \in Clients : conn[c].answers = << >>
  BY DEF Init, Closed
<1>3. \A c \in Clients : DOMAIN conn[c].answers = {}
  BY <1>2
<1> QED
  BY <1>1, <1>2, <1>3 DEF OwnInv, TablesOfStems, Compressing, Handlers, Replying, MadeForRequest, AnswersOwnProgram

\* No step mixes the tables of two stems.
LEMMA TablesOfStemsStep ==
    ASSUME Types, TablesOfStems, [Next]_vars
    PROVE  TablesOfStems'
<1>1. /\ \A s \in Stems : files[s]["symTable"] \in Seq(CellsOfStem(s))
      /\ Compressing => job.stem = Stem[job.column]
      /\ NetOK /\ JobOK
  BY DEF TablesOfStems, Types
<1>2. \A s \in Stems : files'[s]["symTable"] \in Seq(CellsOfStem(s))
  <2>1. CASE Write
    <3>1. dump.kind # "symTable"
      BY <1>1, <2>1 DEF JobOK, Write, Dumps
    <3>2. \A s \in Stems : files'[s]["symTable"] = files[s]["symTable"]
      BY <2>1, <3>1, WriteTypes DEF Kinds
    <3> QED
      BY <1>1, <3>2
  <2>2. CASE SaveTable /\ ~Uncaught
    <3>1. job \in Jobs /\ job.stored \in Storable[job.column] /\ files \in [Stems -> Files]
      BY <2>2 DEF Types, TypeOK, JobOK, SaveTable, Compressing
    <3>2. job.stem \in Stems /\ job.column \in DOMAIN Lines /\ job.stem = Stem[job.column]
      BY <1>1, <2>2, <3>1 DEF SaveTable, Compressing, Jobs
    <3> DEFINE cells == TableCells(job.stored.table)
               file == files[job.stem]["symTable"]
               S == CellsOfStem(job.stem)
    <3>3. PICK took \in 0 .. 2 :
             files' = [files EXCEPT ![job.stem]["symTable"] = Overlay(file, 0, SubSeq(cells, 1, took))]
      BY <2>2 DEF SaveTable
    <3>4. cells \in Seq(S) /\ Len(cells) = 2 /\ file \in Seq(S)
      BY <1>1, <3>1, <3>2, CellsAreOfStem
    <3> DEFINE over == Overlay(file, 0, SubSeq(cells, 1, took))
    <3> HIDE DEF cells, file, S
    <3>5. SubSeq(cells, 1, took) \in Seq(S)
      BY <3>4
    <3>6. over \in Seq(S)
      <4>1. 0 \in Nat /\ 0 <= Len(file)
        BY <3>4
      <4> QED
        BY <3>4, <3>5, <4>1, OverlayCells
    <3>7. files' = [files EXCEPT ![job.stem]["symTable"] = over]
      BY <3>3
    <3> HIDE DEF over
    <3>8. /\ files'[job.stem]["symTable"] = over
          /\ \A s \in Stems : s # job.stem => files'[s] = files[s]
      BY <3>1, <3>2, <3>7 DEF Files
    <3> QED
      BY <1>1, <3>6, <3>8 DEF S
  <2>3. CASE UNCHANGED files
    BY <1>1, <2>3
  <2> QED
    BY <2>1, <2>2, <2>3, FilesFrame DEF Uncaught
<1>3. Compressing' => job'.stem = Stem[job'.column]
  <2>1. CASE ReadColumn
    BY <2>1 DEF ReadColumn, Uncaught, Down, Compressing
  <2>2. CASE Write
    <3>1. job \in Jobs /\ Compressing
      BY <1>1, <2>2 DEF JobOK, Write, Compressing
    <3>2. job'.stem = job.stem /\ job'.column = job.column
      BY <2>2, <3>1 DEF Write, Jobs
    <3> QED
      BY <1>1, <3>1, <3>2
  <2>3. CASE Compress
    <3>1. job \in Jobs /\ Compressing
      BY <1>1, <2>3 DEF JobOK, Compress, Compressing
    <3>2. job'.stem = job.stem /\ job'.column = job.column
      BY <2>3, <3>1 DEF Compress, Jobs
    <3> QED
      BY <1>1, <3>1, <3>2
  <2>4. CASE OpenDump \/ CloseDump
    BY <1>1, <2>4 DEF OpenDump, CloseDump, Uncaught, Down, Compressing, jobVars
  <2>5. CASE SaveTable
    BY <2>5 DEF SaveTable, Uncaught, Down, Compressing
  <2>6. CASE UNCHANGED <<files, promised, pc, job, dump>>
    BY <1>1, <2>6 DEF Compressing
  <2> QED
    BY <1>1, <2>1, <2>2, <2>3, <2>4, <2>5, <2>6, CompressionSteps
<1> QED
  BY <1>2, <1>3 DEF TablesOfStems

\* From one step of a handler to the next the request stays the same, and so
\* does how much of it has been read.
LEMMA SameRequest ==
    ASSUME Types, [Next]_vars, Serving, Serving'
    PROVE  /\ client' = client /\ client \in Clients
           /\ Request' = Request /\ Request \in Requests
           /\ pc # "read" => conn'[client].got = conn[client].got
<1>1. /\ conn \in [Clients -> Connections] /\ client \in Clients
      /\ conn[client].phase = "open" /\ conn[client].request \in Requests
  BY DEF Types, TypeOK, NetOK
<1> DEFINE Same == /\ client' = client
                   /\ conn'[client].request = conn[client].request
                   /\ pc # "read" => conn'[client].got = conn[client].got
<1> SUFFICES Same
  BY <1>1 DEF Request
<1>d. ~Down
  BY DEF Down, Serving
<1>2. CASE Accept \/ Close \/ Start \/ Kill
  BY <1>2 DEF Accept, Close, Start, Kill, Down, Serving
<1>3. CASE Read
  BY <1>1, <1>3 DEF Read, Connections
<1>4. CASE Answer \/ ReadSource
  <2>1. \/ UNCHANGED <<conn, client>>
        \/ \E answer : /\ conn' = [conn EXCEPT ![client].answers = Append(@, answer)]
                       /\ client' = client
    BY <1>d, <1>4 DEF Answer, ReadSource, Sent
  <2> QED
    BY <1>1, <2>1 DEF Connections
<1>5. CASE ReadColumn \/ OpenDump \/ Write \/ CloseDump \/ Compress \/ SaveTable
  <2>1. UNCHANGED <<conn, client>>
    BY <1>d, <1>5 DEF ReadColumn, OpenDump, Write, CloseDump, Compress, SaveTable, Uncaught, netVars
  <2> QED
    BY <2>1
<1>6. CASE LoadTable \/ CompileLlvm \/ WriteSource \/ RunClang \/ LoadLibrary \/ RemoveSource \/ RemoveLibrary
  <2>1. UNCHANGED <<conn, client>>
    BY <1>6 DEF LoadTable, CompileLlvm, WriteSource, RunClang, LoadLibrary, RemoveSource, RemoveLibrary, netVars
  <2> QED
    BY <2>1
<1>7. CASE \E c \in Clients : Connect(c) \/ Deliver(c) \/ Leave(c)
  <2>1. PICK c \in Clients : Connect(c) \/ Deliver(c) \/ Leave(c)
    BY <1>7
  <2>2. client' = client
    BY <2>1 DEF Connect, Deliver, Leave
  <2>3. CASE Connect(c)
    BY <1>1, <2>2, <2>3 DEF Connect
  <2>4. CASE Deliver(c) \/ Leave(c)
    <3>1. /\ [conn[c] EXCEPT !.arrived = @ + 1].request = conn[c].request
          /\ [conn[c] EXCEPT !.arrived = @ + 1].got = conn[c].got
          /\ [conn[c] EXCEPT !.gone = TRUE].request = conn[c].request
          /\ [conn[c] EXCEPT !.gone = TRUE].got = conn[c].got
      <4>1. conn[c] \in Connections
        BY <1>1
      <4> QED
        BY <4>1 DEF Connections
    <3> QED
      BY <1>1, <2>2, <2>4, <3>1 DEF Deliver, Leave
  <2> QED
    BY <2>1, <2>3, <2>4
<1>8. CASE UNCHANGED vars
  BY <1>8 DEF vars
<1> QED
  BY <1>2, <1>3, <1>4, <1>5, <1>6, <1>7, <1>8 DEF Next, Handle

\* Each handler stays with its request.
LEMMA HandlersStep ==
    ASSUME Types, Handlers, [Next]_vars
    PROVE  Handlers'
<1> SUFFICES ASSUME Serving' PROVE Handlers'
  BY DEF Handlers, Serving, Compressing, Replying
<1>1. CASE Accept \/ Start \/ Close
  BY <1>1 DEF Accept, Start, Close, Handlers, Serving, Compressing, Replying
<1>2. CASE ~Serving /\ ~Accept /\ ~Start
  <2>1. pc' = pc \/ Down
    BY <1>2 DEF Next, Handle, Serving, Connect, Deliver, Leave, vars, Kill, Close, Read, Answer, ReadColumn, OpenDump,
       Write, CloseDump, Compress, SaveTable, LoadTable, CompileLlvm, WriteSource, RunClang, LoadLibrary, ReadSource,
       RemoveSource, RemoveLibrary
  <2> QED
    BY <1>2, <2>1 DEF Serving, Down
<1>3. ASSUME Serving
      PROVE  /\ Request' = Request /\ Request \in Requests /\ client' = client /\ client \in Clients
             /\ pc # "read" => conn'[client].got = conn[client].got
  BY <1>3, SameRequest
<1>4. CASE Read
  <2>1. Serving /\ conn \in [Clients -> Connections]
    BY <1>4 DEF Read, Serving, Types, TypeOK
  <2>2. conn'[client].got = conn[client].arrived
    BY <1>3, <1>4, <2>1 DEF Read, Connections
  <2> QED
    BY <1>3, <1>4, <2>1, <2>2 DEF Read, Handlers, Compressing, Replying
<1>5. CASE Answer \/ ReadColumn \/ OpenDump \/ Write \/ CloseDump \/ Compress \/ SaveTable
  <2>1. Serving /\ ~Down
    BY <1>5 DEF Answer, ReadColumn, OpenDump, Write, CloseDump, Compress, SaveTable, Serving, Down
  <2>2. pc' \in {"close", "answer"} \/ (Compressing' /\ (Compressing \/ pc = "column"))
    BY <1>5, <2>1 DEF Answer, Sent, ReadColumn, OpenDump, Write, CloseDump, Compress, SaveTable, Uncaught, Compressing
  <2>3. pc' \notin {"column", "table"} /\ ~Replying'
    BY <2>2 DEF Compressing, Replying
  <2> QED
    BY <1>3, <2>1, <2>2, <2>3 DEF Handlers, Compressing
<1>6. CASE LoadTable \/ CompileLlvm \/ WriteSource \/ RunClang \/ LoadLibrary \/ ReadSource \/ RemoveSource \/ RemoveLibrary
  <2>1. Serving /\ ~Down
    BY <1>6 DEF LoadTable, CompileLlvm, WriteSource, RunClang, LoadLibrary, ReadSource, RemoveSource, RemoveLibrary,
       Serving, Down
  <2>2. Request.endpoint \in {"generate", "codegen"}
    BY <1>6 DEF Handlers, Replying, LoadTable, CompileLlvm, WriteSource, RunClang, LoadLibrary, ReadSource,
       RemoveSource, RemoveLibrary
  <2>3. Request.language \in {"cpp", "llvm", "other"}
    BY <1>3, <2>1, ServerAssumption
  <2>4. Replying' \/ pc' = "answer"
    BY <1>6, <2>1, <2>3 DEF LoadTable, CompileLlvm, WriteSource, RunClang, LoadLibrary, ReadSource, Sent, RemoveSource,
       RemoveLibrary, Replying
  <2> QED
    BY <1>3, <2>1, <2>2, <2>4 DEF Handlers, Compressing, Replying
<1>7. CASE (\E c \in Clients : Connect(c) \/ Deliver(c) \/ Leave(c)) \/ UNCHANGED vars
  <2>1. pc' = pc
    BY <1>7 DEF Connect, Deliver, Leave, vars
  <2>2. Serving
    BY <2>1 DEF Serving
  <2> QED
    BY <1>3, <2>1, <2>2 DEF Handlers, Compressing, Replying
<1>8. CASE Kill
  BY <1>8 DEF Kill, Down, Serving
<1> QED
  BY <1>1, <1>2, <1>4, <1>5, <1>6, <1>7, <1>8 DEF Next, Handle

\* What is read from a stored table is made for the request that asks for it.
LEMMA ProgramIsMade ==
    ASSUME Types, TablesOfStems, Handlers, pc = "table", Request.pattern = "legal",
           TableIsComplete(files[Stem[Request.column]]["symTable"])
    PROVE  Made(Program(Table), Request)
<1> DEFINE file == files[Stem[Request.column]]["symTable"]
<1>1. Request \in Requests /\ Stem[Request.column] \in Stems
  BY ServerAssumption DEF Types, NetOK, Serving, Request
<1>2. file \in Seq(CellsOfStem(Stem[Request.column])) /\ Len(file) >= 2
  BY <1>1 DEF TablesOfStems, TableIsComplete
<1>3. file[1] \in CellsOfStem(Stem[Request.column])
  BY <1>2
<1>4. OfStem(Stem[Request.column], Table)
  BY <1>3 DEF CellsOfStem, Table, TableOf
<1>5. Program(Table) = [table |-> Table, pattern |-> Request.pattern]
  BY DEF Handlers, Program
<1>6. \A t, p : [table |-> t, pattern |-> p] # None /\ [table |-> t, pattern |-> p] # Torn
  BY DEF None, Torn
<1> QED
  BY <1>4, <1>5, <1>6 DEF Made

\* Every step keeps what the server holds to the request.
LEMMA MadeStep ==
    ASSUME Types, CodegenOK, TablesOfStems, Handlers, MadeForRequest, [Next]_vars
    PROVE  MadeForRequest'
<1> SUFFICES ASSUME kills' = 0, Replying' \/ pc' = "answer" PROVE MadeForRequest'
  BY DEF MadeForRequest, Replying
<1>1. kills = 0 /\ ~Kill /\ Serving'
  BY NotKilled DEF Serving, Replying
<1>2. /\ ((Replying \/ pc = "answer") /\ Asked /\ reply.status = 200) => Made(reply.body, Request)
      /\ pc = "cpp" => Made(reply.body, Request)
      /\ pc = "clang" => source \in {None, Torn} \/ Made(source, Request)
      /\ (pc \in {"dlopen", "readSource"} /\ library # None) => Made(source, Request)
  BY <1>1 DEF MadeForRequest
<1>3. /\ ~Generating => source = None /\ library = None
      /\ pc = "clang" => library = None
      /\ pc \in {"dlopen", "readSource"} => (library # None => source # None)
      /\ pc = "readSource" => library # None
  BY <1>1 DEF CodegenOK
<1>4. Serving => Request' = Request /\ Request \in Requests /\ (Asked' <=> Asked)
  BY <1>1, SameRequest DEF Asked
<1>5. \A body : OK(body).status = 200 /\ OK(body).body = body
  BY DEF OK
<1>6. Error.status # 200
  BY DEF Error
<1>7. CASE Accept \/ Close \/ Start \/ Read \/ Answer
  BY <1>1, <1>7 DEF Accept, Close, Start, Read, Answer, Sent, Down, Serving, Replying
<1>8. CASE ReadColumn \/ OpenDump \/ Write \/ CloseDump \/ Compress
  BY <1>1, <1>8 DEF ReadColumn, OpenDump, Write, CloseDump, Compress, Uncaught, Down, Serving, Replying
<1>9. CASE SaveTable
  <2>1. ~Asked /\ Serving
    BY <1>9 DEF SaveTable, Handlers, Compressing, Asked, Serving
  <2>2. pc' = "answer"
    BY <1>1, <1>9 DEF SaveTable, Uncaught, Down, Serving
  <2> QED
    BY <1>4, <2>1, <2>2 DEF MadeForRequest
<1>10. CASE LoadTable
  <2>1. Serving /\ Request' = Request /\ Request.language \in {"cpp", "llvm", "other"}
    BY <1>4, <1>10, ServerAssumption DEF LoadTable, Serving
  <2>2. CASE reply' = Error /\ pc' = "answer"
    BY <1>6, <2>2 DEF MadeForRequest
  <2>3. CASE reply' = OK(Program(Table)) /\ pc' \in {"answer", "cpp", "llvm"}
    <3>1. Made(Program(Table), Request)
      <4>1. pc = "table"
        BY <1>10 DEF LoadTable
      <4>2. TableIsComplete(files[Stem[Request.column]]["symTable"]) /\ Request.pattern = "legal"
        BY <1>6, <1>5, <1>10, <2>3 DEF LoadTable
      <4> QED
        BY <4>1, <4>2, ProgramIsMade
    <3> QED
      BY <1>5, <2>1, <2>3, <3>1 DEF MadeForRequest
  <2> QED
    BY <1>10, <2>1, <2>2, <2>3 DEF LoadTable
<1>11. CASE CompileLlvm
  <2>1. Serving /\ pc' = "answer" /\ (reply' = reply \/ reply' = Error) /\ Replying
    BY <1>11 DEF CompileLlvm, Serving, Replying
  <2> QED
    BY <1>2, <1>4, <1>6, <2>1 DEF MadeForRequest
<1>12. CASE WriteSource
  <2>1. /\ Serving /\ Replying /\ pc = "cpp" /\ pc' = "clang" /\ reply' = reply
        /\ source' = reply.body \/ source' \in {source, Torn}
    BY <1>12 DEF WriteSource, Serving, Replying
  <2>2. source = None
    BY <1>3, <2>1 DEF Generating
  <2> QED
    BY <1>2, <1>4, <2>1, <2>2 DEF MadeForRequest
<1>13. CASE RunClang
  <2>1. /\ Serving /\ Replying /\ pc = "clang" /\ pc' = "dlopen" /\ reply' = reply /\ source' = source
        /\ library' = library \/ source \notin {None, Torn}
    BY <1>13 DEF RunClang, Serving, Replying
  <2> QED
    BY <1>2, <1>3, <1>4, <2>1 DEF MadeForRequest
<1>14. CASE LoadLibrary
  <2>1. /\ Serving /\ Replying /\ pc = "dlopen" /\ pc' \in {"remove", "readSource"}
        /\ reply' = reply \/ reply' = Error
        /\ source' = source /\ library' = library
    BY <1>14 DEF LoadLibrary, Serving, Replying, codeVars
  <2> QED
    BY <1>2, <1>4, <1>6, <2>1 DEF MadeForRequest
<1>15. CASE ReadSource
  <2>1. /\ Serving /\ pc = "readSource" /\ source # None /\ library # None
    BY <1>3, <1>15 DEF ReadSource, Serving
  <2>2. reply' = OK(source) /\ pc' = "remove"
    BY <1>15, <2>1 DEF ReadSource
  <2> QED
    BY <1>2, <1>4, <1>5, <2>1, <2>2 DEF MadeForRequest
<1>16. CASE RemoveSource \/ RemoveLibrary
  <2>1. Serving /\ Replying /\ pc' \in {"removeLibrary", "answer"} /\ reply' = reply
    BY <1>16 DEF RemoveSource, RemoveLibrary, Serving, Replying
  <2> QED
    BY <1>2, <1>4, <2>1 DEF MadeForRequest
<1>17. CASE (\E c \in Clients : Connect(c) \/ Deliver(c) \/ Leave(c)) \/ UNCHANGED vars
  <2>1. UNCHANGED <<pc, reply, source, library>>
    BY <1>17 DEF Connect, Deliver, Leave, vars, codeVars
  <2>2. Serving
    BY <1>1, <2>1 DEF Serving
  <2> QED
    BY <1>2, <1>4, <2>1, <2>2 DEF MadeForRequest, Replying
<1> QED
  BY <1>1, <1>7, <1>8, <1>9, <1>10, <1>11, <1>12, <1>13, <1>14, <1>15, <1>16, <1>17 DEF Next, Handle

\* Every answer that is sent was made for its request.
LEMMA AnswersStep ==
    ASSUME Types, CodegenOK, MadeForRequest, AnswersOwnProgram, [Next]_vars
    PROVE  AnswersOwnProgram'
<1> SUFFICES ASSUME kills' = 0 PROVE AnswersOwnProgram'
  BY DEF AnswersOwnProgram
<1>1. kills = 0 /\ ~Kill /\ conn \in [Clients -> Connections]
  BY NotKilled DEF Types, TypeOK
<1> DEFINE Own(c, answers, request) ==
             \A k \in DOMAIN answers :
                (request.endpoint \in {"generate", "codegen"} /\ answers[k].status = 200)
                => Made(answers[k].body, request)
<1>2. \A c \in Clients : Own(c, conn[c].answers, conn[c].request)
  BY <1>1 DEF AnswersOwnProgram, Made, OfStem
<1>3. ASSUME \A c \in Clients : Own(c, conn'[c].answers, conn'[c].request)
      PROVE  AnswersOwnProgram'
  BY <1>3 DEF AnswersOwnProgram, Made, OfStem
<1>4. ASSUME \A c \in Clients : conn'[c].answers = conn[c].answers /\ conn'[c].request = conn[c].request
      PROVE  AnswersOwnProgram'
  BY <1>2, <1>3, <1>4
<1> HIDE DEF Own
<1>5. ASSUME Down PROVE AnswersOwnProgram'
  <2>1. \A c \in Clients : conn'[c].answers = conn[c].answers /\ conn'[c].request = conn[c].request
    BY <1>1, <1>5 DEF Down, Connections
  <2> QED
    BY <1>4, <2>1
<1>6. ASSUME UNCHANGED conn PROVE AnswersOwnProgram'
  BY <1>4, <1>6
<1>7. CASE Accept \/ Start \/ UNCHANGED vars
  BY <1>6, <1>7 DEF Accept, Start, vars
<1>8. CASE Read \/ Close
  <2>1. \A c \in Clients : conn'[c].answers = conn[c].answers /\ conn'[c].request = conn[c].request
    <3>1. \/ conn' = [conn EXCEPT ![client].got = conn[client].arrived]
          \/ conn' = [conn EXCEPT ![client].phase = "closed"]
      BY <1>8 DEF Read, Close
    <3>2. client \in Clients
      BY <1>8 DEF Read, Close, Types, NetOK, Serving
    <3>3. conn[client] \in Connections
      BY <1>1, <3>2
    <3> DEFINE got == [conn[client] EXCEPT !.got = conn[client].arrived]
               closed == [conn[client] EXCEPT !.phase = "closed"]
    <3>4. /\ got.request = conn[client].request /\ got.answers = conn[client].answers
          /\ closed.request = conn[client].request /\ closed.answers = conn[client].answers
      BY <3>3 DEF Connections
    <3>5. conn' = [conn EXCEPT ![client] = got] \/ conn' = [conn EXCEPT ![client] = closed]
      BY <3>1
    <3> HIDE DEF got, closed
    <3>6. ASSUME NEW c \in Clients
          PROVE  conn'[c].answers = conn[c].answers /\ conn'[c].request = conn[c].request
      <4>1. conn'[c] = conn[c] \/ (c = client /\ conn'[c] \in {got, closed})
        BY <1>1, <3>5
      <4> QED
        BY <3>4, <4>1
    <3> QED
      BY <3>6
  <2> QED
    BY <1>4, <2>1
<1>9. CASE Answer /\ ~Down
  <2>1. /\ client \in Clients /\ reply \in Answers /\ pc = "answer"
        /\ conn' = [conn EXCEPT ![client].answers = Append(@, reply)]
    BY <1>9 DEF Answer, Sent, Types, NetOK, ReplyOK, Serving
  <2>2. (Asked /\ reply.status = 200) => Made(reply.body, Request)
    BY <1>1, <2>1 DEF MadeForRequest
  <2>3. /\ \A c \in Clients : conn'[c].request = conn[c].request
        /\ \A c \in Clients : c # client => conn'[c] = conn[c]
        /\ conn'[client].answers = Append(conn[client].answers, reply)
    BY <1>1, <2>1 DEF Connections
  <2> DEFINE sent == conn[client].answers  sends == conn'[client].answers
  <2>4. sent \in Seq(Answers)
    BY <1>1, <2>1 DEF Connections
  <2>5. \A k \in DOMAIN sends : \/ k \in DOMAIN sent /\ sends[k] = sent[k]
                                \/ sends[k] = reply
    BY <2>1, <2>3, <2>4
  <2>6. Own(client, sends, Request)
    BY <1>2, <2>1, <2>2, <2>5 DEF Own, Asked, Request
  <2>7. ASSUME NEW c \in Clients PROVE Own(c, conn'[c].answers, conn'[c].request)
    <3>1. CASE c = client
      BY <2>3, <2>6, <3>1 DEF Request
    <3>2. CASE c # client
      BY <1>2, <2>3, <3>2
    <3> QED
      BY <3>1, <3>2
  <2> QED
    BY <1>3, <2>7
<1>10. CASE ReadColumn \/ OpenDump \/ Write \/ CloseDump \/ Compress \/ SaveTable
  <2>1. Down \/ UNCHANGED conn
    BY <1>10 DEF ReadColumn, OpenDump, Write, CloseDump, Compress, SaveTable, Uncaught, netVars
  <2> QED
    BY <1>5, <1>6, <2>1
<1>11. CASE LoadTable \/ CompileLlvm \/ WriteSource \/ RunClang \/ LoadLibrary \/ RemoveSource \/ RemoveLibrary
  BY <1>6, <1>11 DEF LoadTable, CompileLlvm, WriteSource, RunClang, LoadLibrary, RemoveSource, RemoveLibrary, netVars
<1>12. CASE ReadSource
  <2>1. source # None
    BY <1>1, <1>12 DEF ReadSource, CodegenOK
  <2> QED
    BY <1>6, <1>12, <2>1 DEF ReadSource
<1>13. CASE \E c \in Clients : Connect(c)
  <2>1. PICK c \in Clients : Connect(c)
    BY <1>13
  <2>2. PICK r \in Requests : conn' = [conn EXCEPT ![c] = [Closed EXCEPT !.phase = "open", !.request = r]]
    BY <2>1 DEF Connect
  <2>3. conn'[c].answers = << >> /\ \A d \in Clients : d # c => conn'[d] = conn[d]
    BY <1>1, <2>2 DEF Closed
  <2>4. Own(c, conn'[c].answers, conn'[c].request)
    BY <2>3 DEF Own
  <2> QED
    BY <1>2, <1>3, <2>3, <2>4
<1>14. CASE \E c \in Clients : Deliver(c) \/ Leave(c)
  <2>1. PICK c \in Clients : Deliver(c) \/ Leave(c)
    BY <1>14
  <2>2. /\ [conn[c] EXCEPT !.arrived = @ + 1].request = conn[c].request
        /\ [conn[c] EXCEPT !.arrived = @ + 1].answers = conn[c].answers
        /\ [conn[c] EXCEPT !.gone = TRUE].request = conn[c].request
        /\ [conn[c] EXCEPT !.gone = TRUE].answers = conn[c].answers
    <3>1. conn[c] \in Connections
      BY <1>1
    <3> QED
      BY <3>1 DEF Connections
  <2>3. \A d \in Clients : conn'[d].answers = conn[d].answers /\ conn'[d].request = conn[d].request
    BY <1>1, <2>1, <2>2 DEF Deliver, Leave
  <2> QED
    BY <1>4, <2>3
<1> QED
  BY <1>1, <1>5, <1>7, <1>8, <1>9, <1>10, <1>11, <1>12, <1>13, <1>14 DEF Next, Handle

-----------------------------------------------------------------------------
(* The theorems.                                                           *)

\* The invariant is inductive.
LEMMA InvStep == Inv /\ [Next]_vars => Inv'
<1> SUFFICES ASSUME Inv, [Next]_vars PROVE Inv'
  OBVIOUS
<1>1. Types /\ CodegenOK /\ Progress /\ AnsweredFilesHold /\ TableInv
  BY DEF Inv, FilesInv, Types
<1> QED
  BY <1>1, TypeStep, NetStep, CodegenStep, JobStep, ProgressStep, PromiseStep, TableStep DEF Inv, FilesInv

\* The invariant holds in every state the server can reach.
THEOREM Invariance == Spec => []Inv
BY InitInv, InvStep, PTL DEF Spec

\* The server's variables keep their types, whatever becomes of its clients,
\* its disk and itself.
THEOREM TypeCorrect == Spec => []TypeOK
<1>1. Inv => TypeOK
  BY DEF Inv
<1> QED
  BY <1>1, Invariance, PTL

\* Once a compression is answered, its files begin with all it had to write,
\* whatever an earlier column, a killed server or a full disk left in them.
THEOREM AnsweredCompressionIsStored == Spec => []AnsweredFilesHold
<1>1. Inv => AnsweredFilesHold
  BY DEF Inv, FilesInv
<1> QED
  BY <1>1, Invariance, PTL

\* A symbol table that the server or a matcher accepts is of one compression.
THEOREM AcceptedTableIsWhole == Spec => []TablesAreWhole
<1>1. Inv => TablesAreWhole
  BY DEF Inv, TableInv
<1> QED
  BY <1>1, Invariance, PTL

\* Unless the server was killed, no request is answered twice.
THEOREM NoSecondAnswer == Spec => []AnswersOnce
<1>1. Inv => AnswersOnce
  BY DEF Inv, CodegenOK, AnswersOnce
<1> QED
  BY <1>1, Invariance, PTL

\* Unless the server was killed, what generate and codegen answer was made from
\* the pattern of the request, all of it, and a symbol table of its column's stem.
THEOREM AnswersAreOwn == Spec => []AnswersOwnProgram
<1>1. Inv /\ OwnInv /\ [Next]_vars => OwnInv'
  BY TablesOfStemsStep, HandlersStep, MadeStep, AnswersStep DEF Inv, FilesInv, Types, OwnInv
<1>2. OwnInv => AnswersOwnProgram
  BY DEF OwnInv
<1> QED
  BY <1>1, <1>2, InitOwn, Invariance, PTL DEF Spec

\* What a matcher reads from the files of a compression that was answered.
LEMMA StoredFilesRead ==
    ASSUME NEW s \in Stems, promised[s] # None, PromisesOK, AnsweredFilesHold
    PROVE  LET plain == files[s]["uncompressed"]
               packed == files[s]["compressed"]
               table == TableOf(files[s]["symTable"])
           IN  /\ Elements(plain) = NonEmpty(Lines[promised[s].column])
               /\ NumElements(packed) = NumElements(plain)
               /\ \A i \in 1 .. NumElements(packed) :
                     LET out == Get(packed, i)
                     IN  out # << >> =>
                           /\ DecodeFirst(table, out, Len(out)) = Get(plain, i)
                           /\ IsEncodingValid(table, out)
               /\ LastCellRead(plain, NumElements(plain)) <= Len(plain) + 1
               /\ LastCellRead(packed, NumElements(packed)) <= Len(packed) + 1
<1> DEFINE plain == files[s]["uncompressed"]
           packed == files[s]["compressed"]
           tables == files[s]["symTable"]
           stored == promised[s]
<1>1. PICK c \in DOMAIN Lines : stored \in Storable[c]
  BY DEF PromisesOK, StoredColumns
<1> DEFINE rows == Rows[c]  out == stored.out  t == [sym |-> Trained[c], esc |-> {}]
<1>2. PICK n \in 0 .. Len(rows) : stored = Stored(c, Encoded(c, n))
  BY <1>1 DEF Storable
<1>3. stored.column = c /\ out = Encoded(c, n) /\ stored.table = TableFor(c, out)
  BY <1>2 DEF Stored
<1>4. rows = NonEmpty(Lines[c]) /\ rows \in Seq(Seq(Nat)) /\ Symbols(t) /\ n \in Nat
  BY ColumnRows
<1>5. /\ out \in Seq(Seq(Nat)) /\ Len(out) = Len(rows)
      /\ \A i \in 1 .. Len(rows) : out[i] = << >> \/ out[i] = Encode(t, rows[i])
  BY <1>3, <1>4, EncodedRows
<1>6. /\ BeginsWith(plain, DumpCells(rows)) /\ BeginsWith(packed, DumpCells(out))
      /\ BeginsWith(tables, TableCells(stored.table))
  <2>1. \A k \in Kinds : BeginsWith(files[s][k], CellsOf(stored)[k])
    BY DEF AnsweredFilesHold
  <2>2. CellsOf(stored) = [uncompressed |-> DumpCells(rows), compressed |-> DumpCells(out),
                           symTable |-> TableCells(stored.table)]
    BY <1>1, StorableCells
  <2>3. "uncompressed" \in Kinds /\ "compressed" \in Kinds /\ "symTable" \in Kinds
    BY DEF Kinds
  <2> HIDE DEF stored, rows, out
  <2> QED
    BY <2>1, <2>2, <2>3
<1> HIDE DEF plain, packed, tables, stored, rows, out, t
<1>7. /\ NumElements(plain) = Len(rows) /\ NumElements(packed) = Len(rows)
      /\ \A i \in 1 .. Len(rows) : Get(plain, i) = rows[i] /\ Get(packed, i) = out[i]
      /\ LastCellRead(plain, Len(rows)) = Len(DumpCells(rows)) + 1
      /\ LastCellRead(packed, Len(rows)) = Len(DumpCells(out)) + 1
      /\ IsDump(DumpCells(rows)) /\ IsDump(DumpCells(out))
  <2>1. /\ NumElements(plain) = Len(rows)
        /\ \A i \in 1 .. Len(rows) : Get(plain, i) = rows[i]
        /\ LastCellRead(plain, Len(rows)) = Len(DumpCells(rows)) + 1
        /\ IsDump(DumpCells(rows))
    BY <1>4, <1>6, DumpReadsBack
  <2>2. /\ NumElements(packed) = Len(out)
        /\ \A i \in 1 .. Len(out) : Get(packed, i) = out[i]
        /\ LastCellRead(packed, Len(out)) = Len(DumpCells(out)) + 1
        /\ IsDump(DumpCells(out))
    BY <1>5, <1>6, DumpReadsBack
  <2> QED
    BY <1>5, <2>1, <2>2
<1>8. Elements(plain) = rows
  <2>1. Elements(plain) = [i \in 1 .. Len(rows) |-> rows[i]]
    BY <1>7 DEF Elements
  <2>2. rows = [i \in 1 .. Len(rows) |-> rows[i]]
    BY <1>4, LenProperties
  <2> QED
    BY <2>1, <2>2
<1>9. TableOf(tables) = stored.table
  <2>1. Len(TableCells(stored.table)) = 2 /\ TableCells(stored.table)[1].table = stored.table
    BY DEF TableCells
  <2>2. 1 \in 1 .. 2
    OBVIOUS
  <2> QED
    BY <1>6, <2>1, <2>2 DEF BeginsWith, TableOf
<1>10. ASSUME NEW i \in 1 .. Len(rows), out[i] # << >>
       PROVE  /\ DecodeFirst(stored.table, out[i], Len(out[i])) = rows[i]
              /\ IsEncodingValid(stored.table, out[i])
  <2>1. out[i] = Encode(t, rows[i]) /\ rows[i] \in Seq(Nat) /\ i \in DOMAIN out
    BY <1>4, <1>5, <1>10
  <2>2. stored.table.sym = t.sym /\ Escaped(out[i]) \subseteq stored.table.esc
    <3>1. stored.table = [sym |-> Trained[c], esc |-> UNION {Escaped(out[j]) : j \in DOMAIN out}]
      BY <1>3 DEF TableFor
    <3>2. t.sym = Trained[c]
      BY DEF t
    <3> QED
      BY <2>1, <3>1, <3>2
  <2> DEFINE e == out[i]  row == rows[i]  u == stored.table
  <2>3. e = Encode(t, row) /\ row \in Seq(Nat) /\ u.sym = t.sym /\ Escaped(e) \subseteq u.esc
    BY <2>1, <2>2
  <2>4. DecodeFirst(u, e, Len(e)) = row /\ IsEncodingValid(u, e)
    <3> HIDE DEF e, row, u
    <3> QED
      BY <1>4, <2>3, DecodesEncoded
  <2> QED
    BY <2>4
<1>11. Len(DumpCells(rows)) <= Len(plain) /\ Len(DumpCells(out)) <= Len(packed)
  BY <1>6 DEF BeginsWith
<1>12. /\ LastCellRead(plain, NumElements(plain)) <= Len(plain) + 1
       /\ LastCellRead(packed, NumElements(packed)) <= Len(packed) + 1
  BY <1>7, <1>11
<1> QED
  BY <1>3, <1>4, <1>7, <1>8, <1>9, <1>10, <1>12 DEF plain, packed, tables, stored

\* Whatever was stored over whatever else, a compression that was answered can
\* be read back: the elements are the lines of the column, the stored table
\* decodes each compressed one to its line, every literal is marked, and one
\* cell behind a dump is read at the most.
THEOREM AnsweredColumnReadsBack == Spec => []StoredColumnReadsBack
<1>1. Inv => StoredColumnReadsBack
  BY StoredFilesRead DEF Inv, FilesInv, StoredColumnReadsBack, NonEmpty
<1> QED
  BY <1>1, Invariance, PTL
=============================================================================
