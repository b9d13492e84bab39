------------------------------ MODULE Entries ------------------------------
(***************************************************************************)
(* The table of crates (struct Entries, src/src/tui.rs 145-359) as pure    *)
(* operators on a sequence of rows.                                        *)
(*                                                                         *)
(* A row is a Result<Info, Option<Info>>.  Ok(info) is modelled by the     *)
(* Info itself, Err(Some(_)) (an entry the user deleted, drawn struck      *)
(* through) by Struck and Err(None) (a row never filled) by Blank: which   *)
(* deleted Info a struck row still shows matters only to the renderer.     *)
(*                                                                         *)
(* Rows are numbered from 1, and NoRow stands for Option::None, so row r   *)
(* is index r - 1 of the Vec.                                              *)
(***************************************************************************)
EXTENDS SequencesExt, Integers

CONSTANTS
  Info,      (* what the crates.io client delivers for one crate           *)
  Struck,    (* Err(Some(_)): a row whose entry was deleted                *)
  Blank      (* Err(None): a row that never held an entry                  *)

ASSUME RowAssumption == Struck \notin Info /\ Blank \notin Info /\ Struck # Blank

Row   == Info \cup {Struck, Blank}
NoRow == 0

(* Entries::new *)
NewRows(count) == [r \in 1 .. count |-> Blank]

-----------------------------------------------------------------------------
(* Rows that hold an entry, and their number (entries_len). *)
LiveRows(rows)   == {r \in DOMAIN rows : rows[r] \in Info}
VacantRows(rows) == DOMAIN rows \ LiveRows(rows)
EntriesLen(rows) == Cardinality(LiveRows(rows))

(* insert_info: the first row that is an Err takes the item.  With no such *)
(* row the item is handed back to the caller, who keeps it as overflow.    *)
InsertInfo(rows, item) == [rows EXCEPT ![Min(VacantRows(rows))] = item]

-----------------------------------------------------------------------------
(* A mutant of NextEntryIdx: the search restarts below the first row. *)
NextEntryIdxSkipsFirst(rows, cur) ==
  LET below == {r \in LiveRows(rows) : r > cur}
      wrap  == {r \in LiveRows(rows) : r > 1}
  IN  IF below # {} THEN Min(below) ELSE IF wrap # {} THEN Min(wrap) ELSE NoRow

(* next_entry_idx: the next entry below the cursor, or else the first one. *)
(* From the last row, and past it, the search restarts at the top.         *)
NextEntryIdx(rows, cur) ==
  LET live  == LiveRows(rows)
      below == {r \in live : r > cur}
  IN  IF below # {} THEN Min(below) ELSE IF live # {} THEN Min(live) ELSE NoRow

(* prev_entry_idx: the entry above the cursor, or else the last one. *)
PrevEntryIdx(rows, cur) ==
  LET live  == LiveRows(rows)
      above == {r \in live : r < cur}
  IN  IF above # {} THEN Max(above) ELSE IF live # {} THEN Max(live) ELSE NoRow

IsFirstEntry(rows, row) == \A r \in LiveRows(rows) : r >= row

(* The two ways these functions panic: "self.len() - 1" on an empty table, *)
(* and slicing "..cur" with a cursor beyond the end of the table.          *)
NextPanics(rows, cur)  == cur # NoRow /\ Len(rows) = 0
SlicePanics(rows, cur) == cur > Len(rows) + 1

-----------------------------------------------------------------------------
(* A mutant of MarkRow: the entry is struck even if there is overflow. *)
MarkRowStrikes(rows, row, overflow) ==
  IF row \notin LiveRows(rows) THEN rows ELSE [rows EXCEPT ![row] = Struck]

(* mark_for_replacement: an entry is replaced by the last overflow item or *)
(* struck; a row that is out of range or already an Err stays as it is.    *)
MarkRow(rows, row, overflow) ==
  IF row \notin LiveRows(rows) THEN rows
  ELSE [rows EXCEPT ![row] = IF overflow = <<>> THEN Struck ELSE Last(overflow)]

MarkOverflow(rows, row, overflow) ==
  IF row \notin LiveRows(rows) \/ overflow = <<>> THEN overflow ELSE Front(overflow)

(* clear_all: walks the rows in order; each takes an overflow item while   *)
(* there is one (whatever it held), and after that an entry is struck.     *)
ClearRows(rows, overflow) ==
  [r \in DOMAIN rows |-> IF r <= Len(overflow) THEN overflow[Len(overflow) + 1 - r]
                         ELSE IF rows[r] \in Info THEN Struck ELSE rows[r]]

(* A mutant of ClearOverflow: the items are copied, not popped. *)
ClearOverflowCopies(rows, overflow) == overflow

ClearOverflow(rows, overflow) ==
  SubSeq(overflow, 1, Len(overflow) - Len(rows))

-----------------------------------------------------------------------------
(* The k-th smallest element of a set of row numbers. *)
Kth(S, k) == CHOOSE r \in S : Cardinality({q \in S : q <= r}) = k

(* The largest table that sort_by sorts by insertion; above it the order   *)
(* is that of another algorithm, and the models have no such tables.       *)
SmallSort == 20

(* A mutant of SortRows: the vacant rows keep the order they had. *)
SortRowsKeepsVacant(rows) ==
  LET live  == LiveRows(rows)
      vac   == DOMAIN rows \ live
  IN  [k \in DOMAIN rows |-> IF k <= Cardinality(live) THEN rows[Kth(live, k)]
                             ELSE rows[Kth(vac, k - Cardinality(live))]]

(* resize, sort_by: entries come first, in the order they had.  The        *)
(* comparator answers Less both for (struck, blank) and for (blank,        *)
(* struck), so the insertion sort the standard library runs on tables of   *)
(* up to SmallSort rows moves each vacant row above all vacant rows of the *)
(* other kind: the kind of the first vacant row ends up last.  EntriesCheck*)
(* compares this closed form with the comparator and the insertion sort.   *)
SortRows(rows) ==
  LET live  == LiveRows(rows)
      last  == rows[Min(VacantRows(rows))]
      other == IF last = Struck THEN Blank ELSE Struck
      ahead == {r \in DOMAIN rows : rows[r] \in Info \cup {other}}
  IN  [k \in DOMAIN rows |-> IF k <= Cardinality(live) THEN rows[Kth(live, k)]
                             ELSE IF k <= Cardinality(ahead) THEN other ELSE last]

(* A mutant of Resize: the rows are cut without being sorted. *)
ResizeUnsorted(rows, count) ==
  [r \in 1 .. count |-> IF r <= Len(rows) THEN rows[r] ELSE Blank]

(* resize: blank rows are added at the end, or the sorted rows are cut. *)
Resize(rows, count) ==
  IF count > Len(rows)
  THEN [r \in 1 .. count |-> IF r <= Len(rows) THEN rows[r] ELSE Blank]
  ELSE SubSeq(SortRows(rows), 1, count)
=============================================================================
