------------------------------ MODULE Records -------------------------------
(***************************************************************************)
(* The record files of cw02/zad1: generate, copy and sort files of         *)
(* fixed-size records with system calls (SYS) or the C library (LIB)       *)
(* (operations.c, file_desc.c, main.c).                                    *)
(*                                                                         *)
(* A file is a sequence of records, a record its first byte, the only one  *)
(* that is compared, and where it came from.  A step is one turn of a      *)
(* loop; the program may be killed between any two.  The two libraries     *)
(* only differ in what opening for writing does to a file that exists:     *)
(* buffering, and errors other than that of opening, are left out.  A      *)
(* record_count that is more than the file has is followed in a copy,      *)
(* which repeats its buffer, and not in a sort, where seeks fail.          *)
(***************************************************************************)
EXTENDS Integers, Sequences, FiniteSets

CONSTANTS
  Files,      \* the contents (first bytes) of the files that are sorted
  SomeFiles,  \* and of those that are copied or written over
  Bytes,      \* first bytes of generated records
  MaxCount    \* bound on record_count

VARIABLES
  op, mode, record_count,  \* the arguments
  original, old,           \* the two files as they were (history)
  pc,
  file, file2,             \* contents of the files: sequences of records
  cursor,                  \* the row at which file is read or written
  i,                       \* loop index of copy and generate
  sorted_end, next_pos,    \* the local variables of op_sort
  inserted                 \* and its record, or the buffer of op_copy

vars == <<op, mode, record_count, original, old, pc, file, file2, cursor, i,
          sorted_end, next_pos, inserted>>
arguments == <<op, mode, record_count, original, old>>

Record(b, from, n) == [byte |-> b, from |-> from, n |-> n]
Garbage == Record(0, "stack", 0)
ContentOf(bytes, from) == [n \in DOMAIN bytes |-> Record(bytes[n], from, n)]

Init ==
  /\ op = "none" /\ mode = "none" /\ record_count = 0
  /\ original = <<>> /\ old = <<>> /\ file = <<>> /\ file2 = <<>>
  /\ pc = "args" /\ cursor = 0 /\ i = 0
  /\ sorted_end = 0 /\ next_pos = 0 /\ inserted = Garbage
-----------------------------------------------------------------------------
(***************************************************************************)
(* file_desc.c; rows count from 0.                                         *)
(***************************************************************************)

(* fd_read at the end of the file leaves the buffer and the cursor alone.  *)
ReadRow(f, row, buffer) == IF row < Len(f) THEN f[row + 1] ELSE buffer
AfterRead(f, row) == IF row < Len(f) THEN row + 1 ELSE row
WriteRow(f, row, r) ==
  IF row = Len(f) THEN Append(f, r) ELSE [f EXCEPT ![row + 1] = r]

(* fd_openw: fopen(..., "w") empties the file, open without O_TRUNC does   *)
(* not.                                                                    *)
fd_openw(m, content) == IF m = "LIB" THEN <<>> ELSE content
-----------------------------------------------------------------------------
(***************************************************************************)
(* main and the operations.                                                *)
(***************************************************************************)
ReadArguments ==
  /\ pc = "args"
  /\ op' \in {"generate", "copy", "sort"}
  /\ mode' \in IF op' = "generate" THEN {"SYS"} ELSE {"SYS", "LIB"}
  /\ \E b1 \in IF op' = "sort" THEN Files ELSE SomeFiles,
        b2 \in IF op' = "copy" THEN SomeFiles ELSE {<<>>} :
       /\ original' = ContentOf(b1, "file")
       /\ old' = ContentOf(b2, "file2")
       /\ record_count' \in 0 .. (IF op' = "sort" THEN Len(b1) ELSE MaxCount)
  /\ pc' = "open"
  /\ UNCHANGED <<file, file2, cursor, i, sorted_end, next_pos, inserted>>

OpenFiles ==
  /\ pc = "open"
  /\ \/ /\ pc' = op
        /\ file' = original
        /\ file2' = IF op = "copy" THEN fd_openw(mode, old) ELSE old
     \/ pc' = "failed" /\ file' = original /\ file2' = old
  /\ UNCHANGED <<arguments, cursor, i, sorted_end, next_pos, inserted>>

(* op_generate writes random records over the file.                        *)
Generate ==
  /\ pc = "generate"
  /\ IF i < record_count
     THEN /\ \E b \in Bytes : file' = WriteRow(file, i, Record(b, "random", i + 1))
          /\ i' = i + 1 /\ UNCHANGED pc
     ELSE pc' = "done" /\ UNCHANGED <<file, i>>
  /\ UNCHANGED <<arguments, file2, cursor, sorted_end, next_pos, inserted>>

Copy ==
  /\ pc = "copy"
  /\ IF i < record_count
     THEN /\ inserted' = ReadRow(file, cursor, inserted)
          /\ cursor' = AfterRead(file, cursor)
          /\ file2' = WriteRow(file2, i, inserted')
          /\ i' = i + 1 /\ UNCHANGED pc
     ELSE pc' = "done" /\ UNCHANGED <<file2, cursor, i, inserted>>
  /\ UNCHANGED <<arguments, file, sorted_end, next_pos>>

MoreToInsert == sorted_end + 1 < record_count

(* The record to insert is read, and the cursor set back on it.            *)
TakeRecord ==
  /\ pc = "sort"
  /\ IF MoreToInsert
     THEN /\ inserted' = ReadRow(file, sorted_end + 1, inserted)
          /\ cursor' = AfterRead(file, sorted_end + 1) - 1
          /\ next_pos' = sorted_end + 1
          /\ pc' = "shift"
     ELSE pc' = "done" /\ UNCHANGED <<inserted, cursor, next_pos>>
  /\ UNCHANGED <<arguments, file, file2, i, sorted_end>>

Shifts(next) == next.byte > inserted.byte

(* Mutant: the cursor is set back by one row.                              *)
BackOne(row) == row - 1

BackTwo(row) == row - 2

(* One turn of the inner loop: the record before the cursor is read and,   *)
(* if it is greater, written one row on.                                   *)
ShiftRecord ==
  LET next  == ReadRow(file, cursor - 1, Garbage)
      after == AfterRead(file, cursor - 1)
  IN /\ pc = "shift"
     /\ IF Shifts(next)
        THEN /\ file' = WriteRow(file, after, next)
             /\ cursor' = BackTwo(after + 1)
             /\ next_pos' = next_pos - 1
             /\ pc' = IF next_pos - 1 > 0 THEN "shift" ELSE "insert"
        ELSE /\ cursor' = after
             /\ pc' = "insert"
             /\ UNCHANGED <<file, next_pos>>
     /\ UNCHANGED <<arguments, file2, i, sorted_end, inserted>>

InsertRecord ==
  /\ pc = "insert"
  /\ file' = WriteRow(file, cursor, inserted)
  /\ cursor' = cursor + 1
  /\ sorted_end' = sorted_end + 1
  /\ pc' = "sort"
  /\ UNCHANGED <<arguments, file2, i, next_pos, inserted>>

Next == \/ ReadArguments \/ OpenFiles \/ Generate \/ Copy
        \/ TakeRecord \/ ShiftRecord \/ InsertRecord

Spec == Init /\ [][Next]_vars
-----------------------------------------------------------------------------
(***************************************************************************)
(* Properties.                                                             *)
(***************************************************************************)
Elements(f) == {f[n] : n \in DOMAIN f}

(* Sorting loses no record, however far it is: put into row next_pos, the  *)
(* record in hand makes the file a permutation of what it was.  (If the    *)
(* program is killed in between, that record is gone from the file.)       *)
NothingLost ==
  op = "sort" /\ pc \in {"sort", "shift", "insert", "done"} =>
    Elements(IF pc \in {"sort", "done"} THEN file
             ELSE [file EXCEPT ![next_pos + 1] = inserted]) = Elements(original)

(* The result is sorted by the first byte and stable, and the records      *)
(* after record_count stay as they were.                                   *)
SortedAndStable ==
  op = "sort" /\ pc = "done" =>
    \A m, n \in DOMAIN file : m < n =>
      \/ n > record_count /\ file[n] = original[n]
      \/ file[m].byte < file[n].byte
      \/ file[m].byte = file[n].byte /\ file[m].n < file[n].n

(* A copy of records that the file has begins with them; after them there  *)
(* is nothing with the library, and with system calls the rest of the file *)
(* that was there before.                                                  *)
CopyIsPrefix ==
  op = "copy" /\ record_count <= Len(original) /\ pc = "done" =>
    /\ Len(file2) = IF mode = "SYS" /\ Len(old) > record_count THEN Len(old)
                    ELSE record_count
    /\ \A n \in DOMAIN file2 :
         file2[n] = IF n <= record_count THEN original[n] ELSE old[n]

(* No operation loses or misplaces a record (operations.c:10-93).          *)
RecordsKept == NothingLost /\ SortedAndStable /\ CopyIsPrefix
-----------------------------------------------------------------------------
(***************************************************************************)
(* The inductive invariant behind RecordsKept.                             *)
(***************************************************************************)
RecordType == [byte : Nat, from : {"file", "file2", "random", "stack"}, n : Nat]

(* Type correctness.                                                       *)
TypeOK ==
  /\ op \in {"none", "generate", "copy", "sort"}
  /\ mode \in {"none", "SYS", "LIB"}
  /\ pc \in {"args", "open", "generate", "copy", "sort", "shift", "insert",
             "done", "failed"}
  /\ {record_count, cursor, i, sorted_end, next_pos} \subseteq Nat
  /\ {original, old, file, file2} \subseteq Seq(RecordType)
  /\ inserted \in RecordType

(* Before the operation starts; a file knows its rows, and sort is given   *)
(* no more rows than there are.                                            *)
AtTheStart ==
  /\ pc # "args" => op # "none" /\ mode # "none"
  /\ pc \in {"args", "open"} =>
       cursor = 0 /\ i = 0 /\ sorted_end = 0 /\ next_pos = 0
  /\ pc \in {"generate", "copy", "sort"} => pc = op
  /\ pc \in {"shift", "insert"} => op = "sort"
  /\ \A n \in DOMAIN original : original[n].n = n
  /\ op = "sort" => record_count <= Len(original)

(* op_copy, if the file has the records: i of them are copied.             *)
CopyInv ==
  op = "copy" /\ pc \in {"copy", "done"} /\ record_count <= Len(original) =>
    /\ file = original /\ cursor = i /\ i <= record_count
    /\ pc = "done" => i = record_count
    /\ Len(file2) = IF mode = "SYS" /\ Len(old) > i THEN Len(old) ELSE i
    /\ \A n \in DOMAIN file2 : file2[n] = IF n <= i THEN original[n] ELSE old[n]

InHand == pc \in {"shift", "insert"}
Sorting == op = "sort" /\ pc \in {"sort", "shift", "insert", "done"}

(* Rows 1 to Top are in order, but for the one that waits for the record   *)
(* in hand; the others are as they were.                                   *)
Top == sorted_end + (IF InHand THEN 2 ELSE 1)
InOrder == {n \in DOMAIN file : n <= Top /\ ~(InHand /\ n = next_pos + 1)}

RowsInv ==
  Sorting =>
    /\ Len(file) = Len(original)
    /\ sorted_end = 0 \/ sorted_end < record_count
    /\ pc = "done" => sorted_end + 1 >= record_count
    /\ \A n \in DOMAIN file : n > Top => file[n] = original[n]
    /\ \A n \in InOrder : file[n].n <= sorted_end + 1
    /\ \A m, n \in InOrder : m < n =>
         \/ file[m].byte < file[n].byte
         \/ file[m].byte = file[n].byte /\ file[m].n < file[n].n

(* The record in hand comes before the rows that were moved on and, when   *)
(* it is to be inserted, not before the one before its row.                *)
HandInv ==
  InHand =>
    /\ sorted_end + 1 < record_count
    /\ next_pos \in 0 .. sorted_end + 1 /\ cursor = next_pos
    /\ inserted = original[sorted_end + 2]
    /\ \A n \in InOrder : n > next_pos + 1 => inserted.byte < file[n].byte
    /\ pc = "shift" => next_pos > 0
    /\ pc = "insert" /\ next_pos > 0 => file[next_pos].byte <= inserted.byte

IInv == TypeOK /\ AtTheStart /\ CopyInv /\ RowsInv /\ HandInv /\ NothingLost
=============================================================================
