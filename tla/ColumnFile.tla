----------------------------- MODULE ColumnFile -----------------------------
(***************************************************************************)
(* The files a column is kept in: src/utils.cpp, include/utils.hpp and     *)
(* SymbolTable::readFromFile.                                              *)
(*                                                                         *)
(* A file is a sequence of cells, a cell being one machine word of the     *)
(* header or of the indexes, or one byte of the data; both are natural     *)
(* numbers.  A file that is missing is one without cells: no reader here   *)
(* tells them apart.  The columns a program reads from a file are a        *)
(* FileData record; position 0 of its buffer is the first cell behind the  *)
(* header, and its indexes are such positions.                             *)
(***************************************************************************)
EXTENDS Integers, Sequences, SequencesExt

CONSTANT Chunk  \* CHUNK_SIZE, the most bytes that one write is asked to take

ASSUME ChunkAssumption == Chunk \in Nat \ {0}

\* The text of a run of rows, and how long it is.
Joined(rows) == FlattenSeq(rows)
LengthOf(rows) == Len(Joined(rows))

\* Where each of the rows begins when they stand one behind the other.
RunningIndexes(rows) ==
    [i \in 1 .. Len(rows) |-> LengthOf(SubSeq(rows, 1, i - 1))]

\* readASCIIFileData: lines that are empty are not elements of the column.
NonEmpty(lines) == SelectSeq(lines, LAMBDA line : line # << >>)
ReadASCII(lines) ==
    LET rows == NonEmpty(lines)
    IN  [n |-> Len(rows), totalLen |-> LengthOf(rows),
         indexes |-> RunningIndexes(rows), buffer |-> Joined(rows)]

\* getLenIn and getStrIn: the elements as the server hands them to the
\* compressor and to dumpBinary.  The first needs one element at least.
LenIn(data) ==
    [i \in 1 .. data.n |->
        IF i < data.n THEN data.indexes[i + 1] - data.indexes[i]
                      ELSE data.totalLen - data.indexes[data.n]]
StrIn(data) ==
    [i \in 1 .. data.n |->
        SubSeq(data.buffer, data.indexes[i] + 1, data.indexes[i] + LenIn(data)[i])]

-----------------------------------------------------------------------------
(* Deliberate mistakes, each of which one of the properties must reveal.   *)

\* The file is opened for appending.
OverlayAtEnd(file, pos, cells) == file \o cells

\* The indexes are taken to be the last words of the file.
IndexCellFromEnd(file, i) == Len(file) - file[2] + i

\* A symbol table is accepted as soon as anything of it could be read.
TableIsNotEmpty(file) == Len(file) >= 1

-----------------------------------------------------------------------------
(* Writing a file.                                                         *)

\* What dumpBinary writes for a column of these rows, all of it.
DumpCells(rows) ==
    <<LengthOf(rows), Len(rows)>> \o Joined(rows) \o RunningIndexes(rows)

\* The number of cells that the write at position src of the dump asks for:
\* a word of the header, a chunk of the data, or an index.
WriteSize(cells, src) ==
    IF src < 2 \/ src >= 2 + cells[1] THEN 1
    ELSE IF Chunk < 2 + cells[1] - src THEN Chunk ELSE 2 + cells[1] - src

\* A file that is not truncated when it is opened, after the cells have been
\* written to it from position pos on.
Overlay(file, pos, cells) ==
    [i \in 1 .. (IF Len(file) < pos + Len(cells) THEN pos + Len(cells) ELSE Len(file)) |->
        IF i \in pos + 1 .. pos + Len(cells) THEN cells[i - pos] ELSE file[i]]

-----------------------------------------------------------------------------
(* Reading a file.                                                         *)

\* BinaryFileData: the header, and where the buffer and the indexes are.
TotalLength(file) == file[1]
NumElements(file) == file[2]
Buffer(i) == 2 + i
IndexCell(file, i) == 2 + TotalLength(file) + i

\* get(i - 1) on a mapped file: the element, the end of the last one being
\* the total length.
Get(file, i) ==
    LET start == file[IndexCell(file, i)]
        end == IF i = NumElements(file) THEN TotalLength(file) ELSE file[IndexCell(file, i + 1)]
    IN  SubSeq(file, Buffer(start) + 1, Buffer(end))

\* The last cell that get reads: it loads the index behind that of the element
\* before it knows whether there is one.
LastCellRead(file, i) == IndexCell(file, i + 1)

Elements(file) == [i \in 1 .. NumElements(file) |-> Get(file, i)]

-----------------------------------------------------------------------------
(* The file of the symbol table: two cells stand for its bytes.            *)

TableCells(table) == <<[table |-> table, part |-> 1], [table |-> table, part |-> 2]>>

\* SymbolTable::readFromFile throws unless it reads the whole of a table.
TableIsComplete(file) == Len(file) >= 2
TableOf(file) == file[1].table
=============================================================================
