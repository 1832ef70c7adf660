---------------------------- MODULE DrawingServer ----------------------------
(***************************************************************************)
(* The server of the drawing tool, fa-drawing/server.cpp: a process that   *)
(* takes one connection after the other, reads one request from it and     *)
(* answers it, and that keeps what it makes in files.  compress stores a   *)
(* text column three times (as it is, compressed, and its symbol table);   *)
(* generate and codegen read the symbol table back.                        *)
(*                                                                         *)
(* One action is one system call, or the computation between two of them.  *)
(* The clients send their requests in segments, and may leave.  What       *)
(* happens to the server is: a write that stores less than it was asked to *)
(* or a file that cannot be created (the disk is full), clang++ failing,   *)
(* and being killed and started again.  A write can only fall short of     *)
(* what it was asked for where it would make the file longer.              *)
(*                                                                         *)
(* promised is a history variable: what the last answered compression of   *)
(* each stem has stored, if every write was complete.                      *)
(***************************************************************************)
EXTENDS ColumnFile, Fsst

CONSTANTS
    Clients,
    Requests,     \* the requests that clients send, records as below
    Stems,        \* the paths of columns without their extension
    Stem,         \* the stem of each column
    Lines,        \* the lines of the columns that exist
    Trained,      \* the symbols fsst_create chooses for each of them
    Earlier,      \* the columns that an earlier server may have stored
    Backlog,      \* the connections that may wait to be accepted
    MaxRequests,  \* bounds: the requests that are sent,
    MaxFaults,    \* the faults of the disk and of clang++,
    MaxKills      \* and how often the server is killed

Columns == DOMAIN Stem
None == [none |-> TRUE]
Kinds == {"uncompressed", "compressed", "symTable"}

ASSUME ServerAssumption ==
    /\ Stem \in [Columns -> Stems]
    /\ DOMAIN Lines \subseteq Columns
    /\ Earlier \subseteq DOMAIN Lines
    /\ Requests \subseteq [endpoint : {"generate", "compress", "codegen", "other"},
                           column : Columns, pattern : {"legal", "illegal"},
                           language : {"cpp", "llvm", "other"}, segments : Nat \ {0}]
    /\ Backlog \in Nat \ {0} /\ MaxRequests \in Nat /\ MaxFaults \in Nat /\ MaxKills \in Nat

VARIABLES
    files,      \* the files of each stem
    source,     \* cppSource.cpp,
    library,    \* and libgenerated.so in the directory of the server
    conn,       \* the connection of each client
    queue,      \* the clients whose connection waits to be accepted
    pc, client, \* where the server is, and whom it serves
    job,        \* what the compress handler holds
    dump,       \* the file that dumpBinary is writing, and how far it is
    reply,      \* the response that is about to be sent
    requests, faults, kills, promised

jobVars == <<job, dump>>
codeVars == <<source, library>>
netVars == <<conn, queue, client, requests>>
vars == <<files, source, library, conn, queue, pc, client, job, dump, reply,
          requests, faults, kills, promised>>

Request == conn[client].request

\* What generate and codegen make of a symbol table and the pattern of the
\* request, as far as the server has read it; a source that was written to a
\* full disk; and the responses.
Program(table) ==
    [table |-> table, pattern |-> IF conn[client].got < Request.segments THEN "cut" ELSE Request.pattern]
Torn == [torn |-> TRUE]
OK(body) == [status |-> 200, body |-> body]
Error == [status |-> 500, body |-> None]

Closed == [phase |-> "closed", request |-> None, arrived |-> 0, got |-> 0, gone |-> FALSE,
           answers |-> << >>]

\* The elements of a column as compressFile has read them.
Rows == [column \in DOMAIN Lines |-> StrIn(ReadASCII(Lines[column]))]

\* fsst_compress stops at the first element for which it is not certain that
\* the buffer has room; how many it has compressed is not looked at, and the
\* others are left with the length 0.
Encoded(column, n) ==
    [i \in 1 .. Len(Rows[column]) |->
        IF i <= n THEN Encode([sym |-> Trained[column], esc |-> {}], Rows[column][i]) ELSE << >>]

\* The bytes that stand behind an escape in an encoding.
Escaped(out) ==
    LET bytes[i \in 1 .. Len(out) + 2] ==
          CASE i > Len(out) -> {}
            [] i <= Len(out) /\ out[i] = FSST_ESC -> {out[i + 1]} \cup bytes[i + 2]
            [] OTHER -> bytes[i + 1]
    IN  bytes[1]

\* A column that has been compressed, and what its three files are to hold.
TableFor(column, out) ==
    [sym |-> Trained[column], esc |-> UNION {Escaped(out[i]) : i \in DOMAIN out}]
Stored(column, out) == [column |-> column, out |-> out, table |-> TableFor(column, out)]
Storable == [column \in DOMAIN Lines |->
                {Stored(column, Encoded(column, n)) : n \in 0 .. Len(Rows[column])}]
CellsOf(stored) ==
    [uncompressed |-> DumpCells(Rows[stored.column]), compressed |-> DumpCells(stored.out),
     symTable |-> TableCells(stored.table)]

NoFiles == [s \in Stems |-> [uncompressed |-> << >>, compressed |-> << >>, symTable |-> << >>]]
NoPromise == [s \in Stems |-> None]

\* A dump has its header, and the elements and indexes that this announces;
\* tables are symbols and bytes.
SymbolTables == [sym : Seq(Seq(Nat)), esc : SUBSET Nat]
IsDump(cells) == cells \in Seq(Nat) /\ Len(cells) >= 2 /\ 2 + cells[1] <= Len(cells)

\* The elements of a column are texts of bytes.  libfsst trains 255 symbols at
\* the most, as the last code is the escape, and none is empty.
ASSUME ColumnsAssumption ==
    \A c \in DOMAIN Lines :
        /\ NonEmpty(Lines[c]) \in Seq(Seq(Nat))
        /\ Trained[c] \in Seq(Seq(Nat) \ {<< >>})
        /\ Len(Trained[c]) <= FSST_ESC

\* The directory is as an earlier server has left it: empty, or with a column.
Init ==
    /\ \/ files = NoFiles /\ promised = NoPromise
       \/ \E c \in Earlier :
             \E stored \in Storable[c] :
                /\ \A i \in DOMAIN stored.out : stored.out[i] # << >>
                /\ files = [NoFiles EXCEPT ![Stem[c]] = CellsOf(stored)]
                /\ promised = [NoPromise EXCEPT ![Stem[c]] = stored]
    /\ source = None /\ library = None
    /\ conn = [c \in Clients |-> Closed]
    /\ queue = << >>
    /\ pc = "accept" /\ client = None
    /\ job = None /\ dump = None /\ reply = None
    /\ requests = 0 /\ faults = 0 /\ kills = 0

Fault == faults < MaxFaults /\ faults' = faults + 1

-----------------------------------------------------------------------------
(* Deliberate mistakes, each of which one of the properties must reveal.   *)

\* What has arrived is taken for the request, without a look for its end.
ReadUnterminated ==
    /\ pc = "read"
    /\ conn[client].arrived > 0 \/ conn[client].gone
    /\ pc' = CASE Request.endpoint \in {"generate", "codegen"} -> "table"
               [] Request.endpoint = "compress" -> "column"
               [] OTHER -> "close"
    /\ conn' = [conn EXCEPT ![client].got = conn[client].arrived]
    /\ UNCHANGED <<files, codeVars, queue, client, requests, jobVars, reply, faults, kills, promised>>

\* The server reads until it has the whole request.
ReadWhole ==
    /\ pc = "read"
    /\ conn[client].arrived = Request.segments
    /\ pc' = CASE Request.endpoint \in {"generate", "codegen"} -> "table"
               [] Request.endpoint = "compress" -> "column"
               [] OTHER -> "close"
    /\ conn' = [conn EXCEPT ![client].got = conn[client].arrived]
    /\ UNCHANGED <<files, codeVars, queue, client, requests, jobVars, reply, faults, kills, promised>>

\* The destructor of the compiler forgets the library.
KeepLibrary ==
    /\ pc = "removeLibrary"
    /\ pc' = "answer"
    /\ UNCHANGED <<files, codeVars, netVars, jobVars, reply, faults, kills, promised>>

-----------------------------------------------------------------------------
(* The clients and the kernel.                                             *)

\* A client opens a connection and sends the first segment of its request.
Connect(c) ==
    /\ pc # "down"
    /\ conn[c].phase # "open"
    /\ Len(queue) < Backlog
    /\ requests < MaxRequests
    /\ requests' = requests + 1
    /\ queue' = Append(queue, c)
    /\ \E r \in Requests : conn' = [conn EXCEPT ![c] = [Closed EXCEPT !.phase = "open", !.request = r]]
    /\ UNCHANGED <<files, codeVars, pc, client, jobVars, reply, faults, kills, promised>>

\* The next segment of the request arrives.
Deliver(c) ==
    /\ conn[c].phase = "open"
    /\ ~conn[c].gone
    /\ conn[c].arrived < conn[c].request.segments
    /\ conn' = [conn EXCEPT ![c].arrived = @ + 1]
    /\ UNCHANGED <<files, codeVars, queue, pc, client, jobVars, reply, requests, faults, kills, promised>>

\* The client does not wait for the answer.
Leave(c) ==
    /\ conn[c].phase = "open"
    /\ conn' = [conn EXCEPT ![c].gone = TRUE]
    /\ UNCHANGED <<files, codeVars, queue, pc, client, jobVars, reply, requests, faults, kills, promised>>

\* The end of the server's process: the kernel resets its connections.
Down ==
    /\ pc' = "down"
    /\ client' = None /\ job' = None /\ dump' = None /\ reply' = None
    /\ queue' = << >>
    /\ conn' = [c \in Clients |-> [conn[c] EXCEPT !.phase = IF @ = "open" THEN "reset" ELSE @]]

Kill ==
    /\ pc # "down"
    /\ kills < MaxKills
    /\ kills' = kills + 1
    /\ Down
    /\ UNCHANGED <<files, codeVars, requests, faults, promised>>

Start ==
    /\ pc = "down"
    /\ pc' = "accept"
    /\ UNCHANGED <<files, codeVars, conn, queue, client, jobVars, reply, requests, faults, kills, promised>>

-----------------------------------------------------------------------------
(* The loop of main.                                                       *)

Accept ==
    /\ pc = "accept"
    /\ queue # << >>
    /\ client' = Head(queue)
    /\ queue' = Tail(queue)
    /\ pc' = "read"
    /\ UNCHANGED <<files, codeVars, conn, jobVars, reply, requests, faults, kills, promised>>

\* One read takes what has arrived; it waits for the first segment only.  A
\* request without its second space, or of an unknown endpoint, is closed.
Read ==
    /\ pc = "read"
    /\ conn[client].arrived > 0 \/ conn[client].gone
    /\ pc' = IF conn[client].arrived < Request.segments THEN "close"
             ELSE CASE Request.endpoint \in {"generate", "codegen"} -> "table"
                    [] Request.endpoint = "compress" -> "column"
                    [] OTHER -> "close"
    /\ conn' = [conn EXCEPT ![client].got = conn[client].arrived]
    /\ UNCHANGED <<files, codeVars, queue, client, requests, jobVars, reply, faults, kills, promised>>

Close ==
    /\ pc = "close"
    /\ conn' = [conn EXCEPT ![client].phase = "closed"]
    /\ pc' = "accept"
    /\ client' = None
    /\ UNCHANGED <<files, codeVars, queue, jobVars, reply, requests, faults, kills, promised>>

\* send: an answer to a client that has left may raise SIGPIPE.
Sent(answer, next) ==
    \/ /\ conn' = [conn EXCEPT ![client].answers = Append(@, answer)]
       /\ pc' = next
       /\ UNCHANGED <<queue, client, jobVars>>
    \/ /\ conn[client].gone
       /\ Down

\* The response of a handler, or what its catch block sends.
Answer ==
    /\ pc = "answer"
    /\ Sent(reply, "close")
    /\ reply' = None
    /\ UNCHANGED <<files, codeVars, requests, faults, kills, promised>>

-----------------------------------------------------------------------------
(* handleCompressEndpoint and compressFile.                                *)

\* An exception in the handler: nothing catches it and the process ends.
Uncaught ==
    /\ Down
    /\ UNCHANGED <<files, codeVars, requests, kills, promised>>

\* The column is read.  One that is missing is an exception; for one without
\* elements the loop of getLenIn runs to the end of the address space.
DumpTo(kind, rows) == [kind |-> kind, cells |-> DumpCells(rows), src |-> 0, pos |-> 0]
HasElements(column) == column \in DOMAIN Lines /\ ReadASCII(Lines[column]).n > 0
ReadColumn ==
    /\ pc = "column"
    /\ \/ ~HasElements(Request.column) /\ Uncaught
       \/ /\ HasElements(Request.column)
          /\ job' = [column |-> Request.column, stem |-> Stem[Request.column],
                     stored |-> None, intact |-> TRUE]
          /\ dump' = DumpTo("uncompressed", Rows[Request.column])
          /\ promised' = [promised EXCEPT ![Stem[Request.column]] = None]
          /\ pc' = "open"
          /\ UNCHANGED <<files, codeVars, netVars, reply, kills>>
    /\ UNCHANGED faults

\* dumpBinary opens its file, or throws.
OpenDump ==
    /\ pc = "open"
    /\ \/ /\ pc' = "dump"
          /\ UNCHANGED <<files, codeVars, netVars, jobVars, reply, faults, kills, promised>>
       \/ /\ files[job.stem][dump.kind] = << >>
          /\ Fault
          /\ Uncaught

\* One write of dumpBinary or writeChunks, whose result is ignored: the next
\* one goes on where it has stopped.
Write ==
    /\ pc = "dump"
    /\ dump.src < Len(dump.cells)
    /\ LET file == files[job.stem][dump.kind]
           size == WriteSize(dump.cells, dump.src)
       IN  \E took \in 0 .. size :
             /\ \/ took = size /\ UNCHANGED faults
                \/ took < size /\ dump.pos + took >= Len(file) /\ Fault
             /\ files' = [files EXCEPT ![job.stem][dump.kind] =
                            Overlay(file, dump.pos, SubSeq(dump.cells, dump.src + 1, dump.src + took))]
             /\ dump' = [dump EXCEPT !.src = @ + size, !.pos = @ + took]
             /\ job' = [job EXCEPT !.intact = @ /\ took = size]
    /\ UNCHANGED <<codeVars, netVars, pc, reply, kills, promised>>

CloseDump ==
    /\ pc = "dump"
    /\ dump.src = Len(dump.cells)
    /\ pc' = IF dump.kind = "uncompressed" THEN "encode" ELSE "saveTable"
    /\ dump' = None
    /\ UNCHANGED <<files, codeVars, netVars, job, reply, faults, kills, promised>>

\* The elements are compressed, and the bytes behind an escape noted.
Compress ==
    /\ pc = "encode"
    /\ \E stored \in Storable[job.column] :
          /\ job' = [job EXCEPT !.stored = stored]
          /\ dump' = DumpTo("compressed", stored.out)
    /\ pc' = "open"
    /\ UNCHANGED <<files, codeVars, netVars, reply, faults, kills, promised>>

\* The symbol table is written over the old one, with its escaped bytes.
SaveTable ==
    /\ pc = "saveTable"
    /\ LET cells == TableCells(job.stored.table)
           file == files[job.stem]["symTable"]
       IN  \/ \E took \in 0 .. 2 :
                /\ \/ took = 2 /\ UNCHANGED faults
                   \/ took < 2 /\ took >= Len(file) /\ Fault
                /\ files' = [files EXCEPT ![job.stem]["symTable"] = Overlay(file, 0, SubSeq(cells, 1, took))]
                /\ promised' = [promised EXCEPT ![job.stem] =
                                  IF job.intact /\ took = 2 THEN job.stored ELSE None]
                /\ job' = None
                /\ reply' = OK([stem |-> job.stem])
                /\ pc' = "answer"
                /\ UNCHANGED <<codeVars, netVars, dump, kills>>
           \/ /\ file = << >>
              /\ Fault
              /\ Uncaught

-----------------------------------------------------------------------------
(* handleGenerateEndpoint and handleCodegenEndpoint.                       *)

\* The symbol table is read and the pattern parsed; generate then has its
\* drawing.  The exceptions of both are caught.
Table == TableOf(files[Stem[Request.column]]["symTable"])
LoadTable ==
    /\ pc = "table"
    /\ \/ /\ \/ ~TableIsComplete(files[Stem[Request.column]]["symTable"])
             \/ Request.pattern = "illegal"
             \/ Request.endpoint = "codegen" /\ Request.language = "other"
          /\ reply' = Error
          /\ pc' = "answer"
       \/ /\ TableIsComplete(files[Stem[Request.column]]["symTable"])
          /\ Request.pattern = "legal"
          /\ \/ /\ Request.endpoint = "generate"
                /\ reply' = OK(Program(Table))
                /\ pc' = "answer"
             \/ /\ Request.endpoint = "codegen"
                /\ Request.language # "other"
                /\ reply' = OK(Program(Table))
                /\ pc' = Request.language
    /\ UNCHANGED <<files, codeVars, netVars, jobVars, faults, kills, promised>>

\* LLVMCompiler::compile writes optimized_llvm.ll anew, or throws; it is then
\* read back.
CompileLlvm ==
    /\ pc = "llvm"
    /\ pc' = "answer"
    /\ \/ UNCHANGED <<reply, faults>>
       \/ Fault /\ reply' = Error
    /\ UNCHANGED <<files, codeVars, netVars, jobVars, kills, promised>>

\* CppCompiler::compile: the source is written, if it can be opened and as far
\* as the disk allows,
WriteSource ==
    /\ pc = "cpp"
    /\ \/ source' = reply.body /\ UNCHANGED faults
       \/ Fault /\ source' \in {source, Torn}
    /\ pc' = "clang"
    /\ UNCHANGED <<files, library, netVars, jobVars, reply, kills, promised>>

\* clang++ compiles it, if it can; nobody looks at its exit status,
RunClang ==
    /\ pc = "clang"
    /\ \/ source \notin {None, Torn} /\ library' = source /\ UNCHANGED faults
       \/ source \in {None, Torn} /\ UNCHANGED <<library, faults>>
       \/ source \notin {None, Torn} /\ Fault /\ UNCHANGED library
    /\ pc' = "dlopen"
    /\ UNCHANGED <<files, source, netVars, jobVars, reply, kills, promised>>

\* and the library is loaded, whichever one it is.
LoadLibrary ==
    /\ pc = "dlopen"
    /\ reply' = IF library = None THEN Error ELSE reply
    /\ pc' = IF library = None THEN "remove" ELSE "readSource"
    /\ UNCHANGED <<files, codeVars, netVars, jobVars, faults, kills, promised>>

\* fileToResponse: when the source is not there an error is sent, and the
\* handler goes on with an empty response.
ReadSource ==
    /\ pc = "readSource"
    /\ \/ /\ source # None
          /\ reply' = OK(source)
          /\ pc' = "remove"
          /\ UNCHANGED <<conn, queue, client, jobVars>>
       \/ /\ source = None
          /\ Sent(Error, "remove")
          /\ reply' = IF pc' = "down" THEN None ELSE OK(None)
    /\ UNCHANGED <<files, codeVars, requests, faults, kills, promised>>

\* ~CppCompiler, before the answer is sent, with and without an exception.
RemoveSource ==
    /\ pc = "remove"
    /\ source' = None
    /\ pc' = "removeLibrary"
    /\ UNCHANGED <<files, library, netVars, jobVars, reply, faults, kills, promised>>
RemoveLibrary ==
    /\ pc = "removeLibrary"
    /\ library' = None
    /\ pc' = "answer"
    /\ UNCHANGED <<files, source, netVars, jobVars, reply, faults, kills, promised>>

-----------------------------------------------------------------------------
Handle ==
    \/ Accept \/ Read \/ Close \/ Answer
    \/ ReadColumn \/ OpenDump \/ Write \/ CloseDump \/ Compress \/ SaveTable
    \/ LoadTable \/ CompileLlvm \/ WriteSource \/ RunClang \/ LoadLibrary \/ ReadSource
    \/ RemoveSource \/ RemoveLibrary

Next ==
    \/ Handle
    \/ \E c \in Clients : Connect(c) \/ Deliver(c) \/ Leave(c)
    \/ Kill
    \/ Start

\* The server runs as long as it is not killed, and what a client sends
\* arrives.
Fairness == WF_vars(Handle) /\ \A c \in Clients : WF_vars(Deliver(c))

Spec == Init /\ [][Next]_vars /\ Fairness

-----------------------------------------------------------------------------
(* Properties.                                                             *)

Programs == [table : SymbolTables, pattern : {"legal", "cut"}]
Answers == [status : {200, 500}, body : [stem : Stems] \cup Programs \cup {None, Torn}]

TableCell == [table : SymbolTables, part : {1, 2}]
Files == [uncompressed : Seq(Nat), compressed : Seq(Nat), symTable : Seq(TableCell)]
Connections ==
    [phase : {"closed", "open", "reset"}, request : Requests \cup {None}, arrived : Nat, got : Nat,
     gone : BOOLEAN, answers : Seq(Answers)]

\* The types of the variables.  A library is never one of a torn source, no
\* more connections wait than listen was told, and none waits at a server
\* that is down.
TypeOK ==
    /\ files \in [Stems -> Files]
    /\ source \in Programs \cup {None, Torn}
    /\ library \in Programs \cup {None}
    /\ conn \in [Clients -> Connections]
    /\ queue \in Seq(Clients) /\ Len(queue) <= Backlog
    /\ client \in Clients \cup {None}
    /\ pc \in {"down", "accept", "read", "close", "answer", "column", "open", "dump", "encode",
              "saveTable", "table", "llvm", "cpp", "clang", "dlopen", "readSource", "remove", "removeLibrary"}
    /\ pc = "down" => queue = << >>
    /\ reply \in Answers \cup {None}
    /\ requests \in 0 .. MaxRequests /\ faults \in 0 .. MaxFaults /\ kills \in 0 .. MaxKills

\* The first cells of a file are these.
BeginsWith(file, cells) ==
    /\ Len(cells) <= Len(file)
    /\ \A i \in 1 .. Len(cells) : file[i] = cells[i]

\* dumpBinary and compressFile write over files that are not truncated, and
\* that an earlier column, a killed server or a full disk has left in any
\* state.  Once a compression is answered, and until the next one of the stem
\* begins, each of its three files begins with all that was to be written.
AnsweredFilesHold ==
    \A s \in Stems :
        promised[s] # None =>
            \A k \in Kinds : BeginsWith(files[s][k], CellsOf(promised[s])[k])

\* What the matchers get from these files: BinaryFileData finds the elements
\* of the column whatever stands behind the dump, reads one word behind it at
\* the most, and the stored symbol table decodes the compressed element, with
\* every literal marked as escapable, to the uncompressed one.
StoredColumnReadsBack ==
    \A s \in Stems :
        promised[s] # None =>
            LET plain == files[s]["uncompressed"]
                packed == files[s]["compressed"]
                table == TableOf(files[s]["symTable"])
            IN  /\ Elements(plain) = SelectSeq(Lines[promised[s].column], LAMBDA line : line # << >>)
                /\ NumElements(packed) = NumElements(plain)
                /\ \A i \in 1 .. NumElements(packed) :
                      LET out == Get(packed, i)
                      IN  out # << >> =>
                            /\ DecodeFirst(table, out, Len(out)) = Get(plain, i)
                            /\ IsEncodingValid(table, out)
                /\ LastCellRead(plain, NumElements(plain)) <= Len(plain) + 1
                /\ LastCellRead(packed, NumElements(packed)) <= Len(packed) + 1

\* A symbol table is replaced by one write into the old file: a file that
\* readFromFile accepts is the table of one compression, never of two.
TablesAreWhole ==
    \A s \in Stems :
        LET file == files[s]["symTable"]
        IN  TableIsComplete(file) => file = TableCells(TableOf(file))

\* An answer of generate or codegen is about the pattern of the request, all
\* of it, and a table of its stem: not of a library or source that another
\* request left in the directory.  (A killed server may leave one.)
AnswersOwnProgram ==
    kills = 0 =>
        \A c \in Clients : \A k \in DOMAIN conn[c].answers :
            (/\ conn[c].request.endpoint \in {"generate", "codegen"}
             /\ conn[c].answers[k].status = 200)
            => LET body == conn[c].answers[k].body
               IN  /\ body \notin {None, Torn}
                   /\ body.pattern = conn[c].request.pattern
                   /\ \E col \in DOMAIN Lines : /\ Stem[col] = Stem[conn[c].request.column]
                                                /\ body.table.sym = Trained[col]

\* No request is answered twice, though fileToResponse goes on after it has
\* sent an error: the source can only be missing there when a server
\* was killed between the two removals of the destructor, which runs before
\* every answer.
AnswersOnce ==
    kills = 0 => \A c \in Clients : Len(conn[c].answers) <= 1

Ended(c) ==
    /\ conn[c].phase = "closed"
    /\ conn[c].request # None
    /\ \/ conn[c].answers # << >>
       \/ conn[c].gone
       \/ conn[c].request.segments > 1
       \/ conn[c].request.endpoint = "other"

\* Every connection ends, in whatever way its request, its client and the
\* server fail, and one whose request arrived in one piece with an answer,
\* unless its client leaves or the server ends.
RequestsAreAnswered ==
    \A c \in Clients : (conn[c].phase = "open") ~> (conn[c].phase = "reset" \/ Ended(c))
=============================================================================
