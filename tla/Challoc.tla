------------------------------ MODULE Challoc -------------------------------
(***************************************************************************)
(* The block tables of cw01: the library challoc.c and the program that    *)
(* runs a list of operations on a table (zad2/main.c), in its two modes,   *)
(* with an allocated table (DYNAMIC) and with the static one (STATIC).     *)
(*                                                                         *)
(* An operation is one step; times and the timing are left out where they  *)
(* only repeat it.  A block is abstracted to the sum of its characters     *)
(* (chblk_sum), NULL to -1 as there; blocks fresh from calloc have sum 0,  *)
(* and random ones of the static table any, also a negative one.           *)
(* The heap counts what was allocated and not freed.                       *)
(***************************************************************************)
EXTENDS Integers, FiniteSets

CONSTANTS
  MaxBlocks,    \* bound on blk_count; also CHALLOC_STATIC_BLK_COUNT
  Sums,         \* sums that random blocks may have
  MaxOps        \* bound on the operations of a command line

VARIABLES
  alloc,      \* "DYNAMIC" or "STATIC"
  st,         \* "start", "run", or "undefined" after undefined behaviour
  blk_count,
  table,      \* whether the table's blks is not NULL
  sums,       \* sums[b]: the blocks of the table in use, -1 for NULL if DYNAMIC
  heap,       \* allocated and not freed: tables and blocks
  dropped,    \* tables of no blocks that were replaced (history)
  found,      \* the last search: blk_no, the index found, the difference
  ops         \* operations so far

vars == <<alloc, st, blk_count, table, sums, heap, dropped, found, ops>>

NoResult == [blk_no |-> 0, index |-> 0, difference |-> 0, valid |-> FALSE]
Init ==
  /\ alloc = "none" /\ st = "start" /\ blk_count = 0 /\ table = FALSE
  /\ sums = <<>> /\ heap = [tables |-> 0, blocks |-> 0] /\ dropped = 0
  /\ found = NoResult /\ ops = 0

Blocks == 0 .. blk_count - 1
Live == {b \in Blocks : alloc = "STATIC" \/ sums[b] # -1}
Abs(n) == IF n < 0 THEN -n ELSE n

(* main reads the mode; the static table exists and is all zero.           *)
ReadMode ==
  /\ st = "start"
  /\ st' = "run"
  /\ \/ alloc' = "DYNAMIC" /\ UNCHANGED <<blk_count, sums>>
     \/ /\ alloc' = "STATIC"
        /\ blk_count' = MaxBlocks
        /\ sums' = [b \in 0 .. MaxBlocks - 1 |-> 0]
  /\ UNCHANGED <<table, heap, dropped, found, ops>>

Operation == st = "run" /\ ops < MaxOps /\ ops' = ops + 1
-----------------------------------------------------------------------------
(***************************************************************************)
(* op_create_table: chfree of the old table and challoc of a new one.      *)
(***************************************************************************)

(* chfree does nothing for a table of no blocks.                           *)
AfterFree ==
  IF ~table \/ blk_count = 0 THEN heap
  ELSE [tables |-> heap.tables - 1, blocks |-> heap.blocks - Cardinality(Live)]

(* challoc: all blocks are NULL; calloc may fail, and leaves no table.     *)
NewTable(n) ==
  /\ \/ /\ table' = TRUE
        /\ blk_count' = n
        /\ heap' = [AfterFree EXCEPT !.tables = @ + 1]
     \/ /\ table' = FALSE
        /\ blk_count' = 0
        /\ heap' = AfterFree
  /\ sums' = [b \in 0 .. blk_count' - 1 |-> -1]

CreateTable(n) ==
  /\ Operation
  /\ alloc = "DYNAMIC"
  /\ dropped' = dropped + (IF table /\ blk_count = 0 THEN 1 ELSE 0)
  /\ NewTable(n)
  /\ found' = NoResult
  /\ UNCHANGED <<alloc, st>>
-----------------------------------------------------------------------------
(***************************************************************************)
(* op_add, op_remove and op_remove_and_add: the first times blocks.        *)
(***************************************************************************)

check_times(times) == times <= blk_count

(* Blocks past the table are undefined behaviour.                          *)
InTable(first) == first \subseteq Blocks

(* Mutant: challoc_blk does not free the block that was there.             *)
FreeNothing(first) == 0

(* challoc_blk frees the block that was there.                             *)
FreedByAdd(first) == Cardinality(first \cap Live)

(* calloc fails for the blocks in none; main ignores it.                   *)
Add(times) ==
  LET first == 0 .. times - 1
  IN /\ Operation
     /\ check_times(times)
     /\ IF ~InTable(first) THEN st' = "undefined" /\ UNCHANGED <<sums, heap>>
        ELSE /\ UNCHANGED st
             /\ IF alloc = "DYNAMIC"
                THEN \E none \in SUBSET first :
                  /\ sums' = [b \in Blocks |-> IF b \in none THEN -1
                                ELSE IF b \in first THEN 0 ELSE sums[b]]
                  /\ heap' = [heap EXCEPT !.blocks =
                       @ - FreedByAdd(first) + Cardinality(first \ none)]
                ELSE /\ \E filled \in [first -> Sums] :
                          sums' = [b \in Blocks |-> IF b \in first THEN filled[b]
                                                    ELSE sums[b]]
                     /\ UNCHANGED heap
     /\ found' = NoResult
     /\ UNCHANGED <<alloc, blk_count, table, dropped>>

(* chfree_blk and s_chvoid.                                                *)
Clear(first) ==
  /\ sums' = [b \in Blocks |-> IF b \in first
                THEN IF alloc = "DYNAMIC" THEN -1 ELSE 0 ELSE sums[b]]
  /\ heap' = IF alloc = "STATIC" THEN heap
             ELSE [heap EXCEPT !.blocks = @ - Cardinality(first \cap Live)]

Remove(times) ==
  LET first == 0 .. times - 1
  IN /\ Operation
     /\ check_times(times)
     /\ IF InTable(first) THEN Clear(first) /\ UNCHANGED st
        ELSE st' = "undefined" /\ UNCHANGED <<sums, heap>>
     /\ found' = NoResult
     /\ UNCHANGED <<alloc, blk_count, table, dropped>>

(* What op_remove_and_add adds it frees at once, whether the calloc failed *)
(* or not: what is left is what op_remove leaves.                          *)
RemoveAndAdd(times) == Remove(times)

TooManyTimes(times) ==
  /\ Operation
  /\ ~check_times(times)
  /\ UNCHANGED <<alloc, st, blk_count, table, sums, heap, dropped, found>>
-----------------------------------------------------------------------------
(***************************************************************************)
(* op_search_element: chfind and s_chfind.  blk_no is not checked.         *)
(***************************************************************************)

(* The loop over i: the difference it compares is that of the block at     *)
(* index, not at i.                                                        *)
Difference(blk_no, index) == Abs(sums[blk_no] - sums[index])
Diff2(blk_no, index, i) == Difference(blk_no, index)

Nearest(blk_no) ==
  LET start == (blk_no + 1) % blk_count
      scan[i \in 0 .. blk_count] ==
        IF i = 0 THEN [index |-> start, difference |-> Difference(blk_no, start)]
        ELSE LET s == scan[i - 1]
                 diff2 == Diff2(blk_no, s.index, i - 1)
             IN IF i - 1 # blk_no /\ diff2 < s.difference
                THEN [index |-> i - 1, difference |-> diff2] ELSE s
  IN scan[blk_count]

(* With no block at blk_no, or none where the search ended, the answer is  *)
(* blk_no itself.                                                          *)
Find(blk_no) ==
  IF alloc = "DYNAMIC" /\ -1 \in {sums[blk_no], sums[Nearest(blk_no).index]}
  THEN [index |-> blk_no, difference |-> 0]
  ELSE Nearest(blk_no)

Search(blk_no) ==
  /\ Operation
  /\ IF blk_no \in Blocks
     THEN /\ found' = [blk_no |-> blk_no, index |-> Find(blk_no).index,
                       difference |-> Find(blk_no).difference, valid |-> TRUE]
          /\ UNCHANGED st
     ELSE /\ st' = "undefined"
          /\ found' = [NoResult EXCEPT !.blk_no = blk_no]
  /\ UNCHANGED <<alloc, blk_count, table, sums, heap, dropped>>

Next == \/ ReadMode
        \/ \E n \in 0 .. MaxBlocks :
             \/ CreateTable(n) \/ Add(n) \/ Remove(n) \/ RemoveAndAdd(n)
             \/ TooManyTimes(n) \/ Search(n)

Spec == Init /\ [][Next]_vars
-----------------------------------------------------------------------------
(***************************************************************************)
(* Properties.                                                             *)
(***************************************************************************)

(* The table is all there is on the heap: nothing is lost or freed twice,  *)
(* also if allocations fail in between, except for tables of no blocks,    *)
(* which chfree does not free.                                             *)
HeapIsTheTable ==
  alloc = "DYNAMIC" =>
    /\ heap.blocks = Cardinality(Live)
    /\ heap.tables = IF table THEN dropped + 1 ELSE dropped

(* Only a search can leave the table: adding and removing are checked      *)
(* against its present size, also after a failed or smaller create_table.  *)
OnlySearchUnchecked ==
  st = "undefined" => found.blk_no \notin Blocks

(* A search answers with a block that exists and with its difference, or,  *)
(* if it has none to compare, with the block itself and 0.                 *)
AnswerExists ==
  found.valid =>
    /\ found.index # found.blk_no => {found.index, found.blk_no} \subseteq Live
    /\ found.difference = Abs(sums[found.blk_no] - sums[found.index])

(* After any sequence of operations the table, the heap and the last       *)
(* answer fit together (challoc.c:8-114, main.c:88-177).                   *)
TableConsistent == HeapIsTheTable /\ OnlySearchUnchecked /\ AnswerExists

(* The block with the nearest sum is found (challoc.h:41-42, 71-72): of the *)
(* blocks that exist besides blk_no, one at the least difference, and      *)
(* blk_no itself only if there is no other (challoc.h:46).                 *)
NearestIsFound ==
  found.valid /\ found.blk_no \in Live =>
    LET others == Live \ {found.blk_no}
    IN  /\ found.index \in IF others = {} THEN {found.blk_no} ELSE others
        /\ \A b \in others :
             found.difference <= Abs(sums[found.blk_no] - sums[b])
-----------------------------------------------------------------------------
(***************************************************************************)
(* The inductive invariant behind TableConsistent.                         *)
(***************************************************************************)

(* Type correctness.                                                       *)
TypeOK ==
  /\ alloc \in {"none", "DYNAMIC", "STATIC"}
  /\ st \in {"start", "run", "undefined"}
  /\ blk_count \in Nat
  /\ \A b \in Blocks : sums[b] \in Int
  /\ heap \in [tables : Int, blocks : Int]
  /\ dropped \in Nat

(* What main starts with; and a table that could not be allocated has no   *)
(* blocks.                                                                 *)
Started ==
  /\ st = "start" => /\ blk_count = 0 /\ dropped = 0 /\ ~table
                     /\ heap.tables = 0 /\ heap.blocks = 0 /\ ~found.valid
  /\ st = "start" <=> alloc = "none"
  /\ alloc = "DYNAMIC" /\ ~table => blk_count = 0

IInv == TypeOK /\ Started /\ TableConsistent
=============================================================================
