---------------------------- MODULE EntriesCheck ----------------------------
(***************************************************************************)
(* The operators of Entries against reference definitions, over every      *)
(* table of at most MaxTable rows: the closed form of the sort against the *)
(* comparator and the insertion sort, and where the cursor gets to.        *)
(***************************************************************************)
EXTENDS Entries

CONSTANT MaxTable  (* bound: the rows of a table *)

ASSUME EntriesCheckAssumption == MaxTable \in 0 .. SmallSort

VARIABLES rows, cursor

tableVars == <<rows, cursor>>

-----------------------------------------------------------------------------
(* The comparator of resize returns Ordering::Less. *)
ComesBefore(a, b) ==
  \/ a \in Info /\ b \notin Info
  \/ {a, b} = {Struck, Blank}

(* One round of the insertion sort: a row moves up past every row that it  *)
(* comes before, and stops at the first one that it does not.              *)
InsertTail(sorted, row) ==
  LET stops == {p \in 0 .. Len(sorted) :
                  \A q \in p + 1 .. Len(sorted) : ComesBefore(row, sorted[q])}
  IN  InsertAt(sorted, Min(stops) + 1, row)

InsertionSort(table) ==
  LET sorted[n \in 0 .. Len(table)] ==
        IF n = 0 THEN <<>> ELSE InsertTail(sorted[n - 1], table[n])
  IN  sorted[Len(table)]

-----------------------------------------------------------------------------
AnyTable == rows \in SeqOf(Row, MaxTable) /\ cursor \in 0 .. Len(rows)

Down   == ~ NextPanics(rows, cursor) /\ cursor' = NextEntryIdx(rows, cursor) /\ UNCHANGED rows
Up     == ~ SlicePanics(rows, cursor) /\ cursor' = PrevEntryIdx(rows, cursor) /\ UNCHANGED rows
Shrink == rows # <<>> /\ rows' = Resize(rows, Len(rows) - 1) /\ cursor' = NoRow

UseTable == Down \/ Up \/ Shrink

-----------------------------------------------------------------------------
(* The closed form is what the comparator's insertion sort computes        *)
(* (tui.rs 344-355), although that comparator is not an order.             *)
SortIsInsertionSort == SortRows(rows) = InsertionSort(rows)

(* The entries of a table from the top, without the vacant rows. *)
Topmost(table) ==
  LET kept[n \in 0 .. Len(table)] ==
        IF n = 0 THEN <<>>
        ELSE IF table[n] \in Info THEN Append(kept[n - 1], table[n]) ELSE kept[n - 1]
  IN  kept[Len(table)]

(* Shrinking the table (resize) keeps as many entries as fit, the topmost  *)
(* ones, in the order they had: an entry is dropped only from a full table.*)
ShrinkKeepsEntries ==
  [][Len(rows') < Len(rows) =>
       LET old == Topmost(rows)
           new == Topmost(rows')
       IN  IsPrefix(new, old) /\ (new = old \/ Len(old) = Len(rows))]_tableVars

(* Pressing "j" as often as there are entries selects every one of them,   *)
(* from whatever row, vacant or not, the cursor is on.                     *)
DownVisitsEveryEntry ==
  LET visit[n \in 0 .. EntriesLen(rows)] ==
        IF n = 0 THEN cursor ELSE NextEntryIdx(rows, visit[n - 1])
  IN  {visit[n] : n \in 1 .. EntriesLen(rows)} = LiveRows(rows)
=============================================================================
