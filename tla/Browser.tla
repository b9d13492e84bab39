------------------------------- MODULE Browser -------------------------------
(***************************************************************************)
(* The terminal interface (src/src/tui.rs): the draw/update loop of App,   *)
(* the request accounting of SendRecvState, the table of Entries with its  *)
(* overflow and cursor, and every key of every menu.  The crates.io client *)
(* is whatever CrateSource allows.                                         *)
(*                                                                         *)
(* Abstractions.  A filter is the set of Infos it rejects; the text fields *)
(* of the filter menu and which of them is selected only decide what Enter *)
(* commits, so committing picks any member of Rejections.  A notification  *)
(* is counted, not stored.  Layout is left out.                            *)
(***************************************************************************)
EXTENDS Entries

CONSTANTS
  Failure,      (* Err(CrateError), whichever                              *)
  Rejections,   (* the filters a user may set, each the Infos it rejects   *)
  InitialRows,  (* max_recv in main.rs                                     *)
  MaxRows,      (* bound: "n" is not pressed beyond this many rows; what  *)
                (* sort_by does with larger tables is not modelled         *)
  MaxAsked,     (* bound: requests open at a time                          *)
  MaxWaiting,   (* bound: no error comes when so many messages wait        *)
  MaxOverflow   (* bound: Infos kept in the overflow                       *)

ASSUME BrowserAssumption ==
  /\ Failure \notin Info
  /\ Rejections \subseteq SUBSET Info
  /\ InitialRows \in Nat
  /\ MaxRows \in Nat
  /\ InitialRows <= MaxRows
  /\ MaxRows <= SmallSort
  /\ MaxAsked \in Nat
  /\ MaxWaiting \in Nat
  /\ MaxOverflow \in Nat

VARIABLES
  pc,             (* where the user interface thread is in its loop        *)
  hasUpdate,      (* has_update, or update_count > 0 while draining        *)
  maxEntries,     (* App::max_screen_entries                               *)
  rows,           (* App::entries                                          *)
  overflow,       (* App::overflow                                         *)
  selected,       (* App::table_state, the selected row                    *)
  receivedCount,  (* SendRecvState::received_count                         *)
  inflightCount,  (* SendRecvState::inflight_count                         *)
  notes,          (* number of notifications on the screen                 *)
  menu,           (* App::menu_state                                       *)
  rejects,        (* App::filters                                          *)
  asked,          (* requests the client has not answered                  *)
  inbox           (* messages the interface has not received               *)

table   == <<maxEntries, rows, overflow, selected, menu>>
counts  == <<receivedCount, inflightCount>>
channel == <<asked, inbox>>
vars    == <<pc, hasUpdate, table, counts, notes, rejects, channel>>

Source == INSTANCE CrateSource

-----------------------------------------------------------------------------
(* "draw": terminal.draw; "send": update_iter; "drain": the loop over the  *)
(* messages; "event": the polls and event::read.  In the others the        *)
(* interface has ended: quit, or a panic of the thread.                    *)
Running == {"draw", "send", "drain", "event"}
Ended   == {"quit", "indexPanic", "underflowPanic"}

(* "table": no menu; "info": FullscreenInfo; "filters" and "editing": the  *)
(* filter menu in InputMode::Normal and InputMode::Editing.                *)
Menus == {"table", "info", "filters", "editing"}

TypeOK ==
  /\ pc \in Running \cup Ended
  /\ hasUpdate \in BOOLEAN
  /\ maxEntries \in 0 .. MaxRows
  /\ rows \in [1 .. maxEntries -> Row]
  /\ overflow \in Seq(Info)
  /\ selected \in Nat
  /\ receivedCount \in Nat
  /\ inflightCount \in Nat
  /\ notes \in 0 .. maxEntries
  /\ menu \in Menus
  /\ rejects \subseteq Info
  /\ Source!TypeOK

(* App::new: the filters are those saved by an earlier session, if any. *)
Init ==
  /\ pc = "draw"
  /\ hasUpdate = FALSE
  /\ maxEntries = InitialRows
  /\ rows = NewRows(InitialRows)
  /\ overflow = <<>>
  /\ selected = NoRow
  /\ receivedCount = 0
  /\ inflightCount = 0
  /\ notes = 0
  /\ menu = "table"
  /\ rejects \in Rejections
  /\ Source!Init

-----------------------------------------------------------------------------
(* The table widget moves a selection beyond the last row back to it. *)
RenderedSelection(row) == IF row > Len(rows) THEN Len(rows) ELSE row

(* App::draw, which also forgets the notifications that have become stale. *)
Draw ==
  /\ pc = "draw"
  /\ pc' = "send"
  /\ selected' = RenderedSelection(selected)
  /\ notes' \in 0 .. notes
  /\ UNCHANGED <<hasUpdate, maxEntries, rows, overflow, menu, counts, rejects, channel>>

(* checked_sub followed by unwrap_or_default *)
Monus(m, n) == IF m > n THEN m - n ELSE 0

(* A mutant of ToSend: the entries that have arrived are asked for again. *)
ToSendForgetsReceived == Monus(maxEntries, inflightCount)

(* A mutant of ToSend: one row too few is asked for. *)
ToSendOneShort == Monus(maxEntries, receivedCount + inflightCount + 1)

ToSend == Monus(maxEntries, receivedCount + inflightCount)

(* update_iter with a full table: the messages stay in the channel. *)
SkipUpdate ==
  /\ pc = "send"
  /\ receivedCount >= maxEntries
  /\ inflightCount' = 0
  /\ pc' = "event"
  /\ UNCHANGED <<hasUpdate, table, receivedCount, notes, rejects, channel>>

(* update_iter with rows to fill: the requests thought missing are sent. *)
SendRequests ==
  /\ pc = "send"
  /\ receivedCount < maxEntries
  /\ Source!Ask(ToSend)
  /\ pc' = "drain"
  /\ UNCHANGED <<hasUpdate, table, counts, notes, rejects>>

(* A mutant of Notify: the notifications are not truncated. *)
NotifyUnbounded == notes' = notes + 1

(* Notifications::append: push, then truncate to max_count. *)
Notify == notes' = IF notes < maxEntries THEN notes + 1 ELSE maxEntries

(* SendRecvState::update and UpdateIter::next, one message: an error, an   *)
(* Info that the filters reject, or an Info for the table.                 *)
ReceiveFailure ==
  /\ pc = "drain"
  /\ Source!Take
  /\ Head(inbox) = Failure
  /\ Notify
  /\ hasUpdate' = TRUE
  /\ UNCHANGED <<pc, table, counts, rejects>>

ReceiveRejected ==
  /\ pc = "drain"
  /\ Source!Take
  /\ Head(inbox) \in rejects
  /\ Notify
  /\ hasUpdate' = TRUE
  /\ UNCHANGED <<pc, table, counts, rejects>>

(* A mutant of ReceiveInfo: the filters are not asked. *)
ReceiveInfoUnfiltered ==
  /\ pc = "drain"
  /\ Source!Take
  /\ Head(inbox) \in Info
  /\ IF VacantRows(rows) # {}
     THEN /\ rows' = InsertInfo(rows, Head(inbox))
          /\ UNCHANGED overflow
     ELSE /\ Len(overflow) < MaxOverflow
          /\ overflow' = Append(overflow, Head(inbox))
          /\ UNCHANGED rows
  /\ hasUpdate' = TRUE
  /\ UNCHANGED <<pc, maxEntries, selected, menu, counts, notes, rejects>>

ReceiveInfo ==
  /\ pc = "drain"
  /\ Source!Take
  /\ Head(inbox) \in Info \ rejects
  /\ IF VacantRows(rows) # {}
     THEN /\ rows' = InsertInfo(rows, Head(inbox))
          /\ UNCHANGED overflow
     ELSE /\ Len(overflow) < MaxOverflow
          /\ overflow' = Append(overflow, Head(inbox))
          /\ UNCHANGED rows
  /\ hasUpdate' = TRUE
  /\ UNCHANGED <<pc, maxEntries, selected, menu, counts, notes, rejects>>

(* The channel is empty.  The new inflight_count is computed from the      *)
(* received_count of before the messages.                                  *)
EndDrain ==
  /\ pc = "drain"
  /\ inbox = <<>>
  /\ IF hasUpdate
     THEN /\ inflightCount' = Monus(maxEntries, receivedCount)
          /\ receivedCount' = EntriesLen(rows)
     ELSE UNCHANGED counts
  /\ pc' = "event"
  /\ UNCHANGED <<hasUpdate, table, notes, rejects, channel>>

(* A mutant of Blocked: only notifications keep the loop polling. *)
BlockedWithoutCount == pc = "event" /\ ~ hasUpdate /\ notes = 0

(* event::read blocks: the loop will not run again before the next event. *)
Blocked ==
  /\ pc = "event"
  /\ ~ hasUpdate
  /\ receivedCount = Len(rows)
  /\ notes = 0

(* No event is pending, or none comes within 100 ms: the loop goes on, and *)
(* redraws if there is something new or a notification to be removed.      *)
PollTimesOut ==
  /\ pc = "event"
  /\ ~ Blocked
  /\ pc' = IF hasUpdate \/ notes > 0 THEN "draw" ELSE "send"
  /\ hasUpdate' = FALSE
  /\ UNCHANGED <<table, counts, notes, rejects, channel>>

-----------------------------------------------------------------------------
(* A mutant of Handled: update_loop goes on instead of returning. *)
HandledUndrawn == pc' = "send" /\ hasUpdate' = FALSE

(* An event is handled and update_loop returns to be redrawn ... *)
Handled == pc' = "draw" /\ hasUpdate' = FALSE

(* ... or the handler panics and nothing else happens. *)
Panic(kind) == pc' = kind /\ UNCHANGED <<hasUpdate, table, counts, notes, rejects, channel>>

(* "q" *)
PressQuit ==
  /\ pc = "event"
  /\ menu = "table"
  /\ pc' = "quit"
  /\ UNCHANGED <<hasUpdate, table, counts, notes, rejects, channel>>

(* "j"; in the info menu it also closes the menu, unless with shift. *)
PressDown(shift) ==
  /\ pc = "event"
  /\ menu \in {"table", "info"}
  /\ IF NextPanics(rows, selected) THEN Panic("indexPanic")
     ELSE /\ selected' = NextEntryIdx(rows, selected)
          /\ menu' = IF shift THEN menu ELSE "table"
          /\ Handled
          /\ UNCHANGED <<maxEntries, rows, overflow, counts, notes, rejects, channel>>

(* "k" *)
PressUp(shift) ==
  /\ pc = "event"
  /\ menu \in {"table", "info"}
  /\ IF SlicePanics(rows, selected) THEN Panic("indexPanic")
     ELSE /\ selected' = PrevEntryIdx(rows, selected)
          /\ menu' = IF shift THEN menu ELSE "table"
          /\ Handled
          /\ UNCHANGED <<maxEntries, rows, overflow, counts, notes, rejects, channel>>

(* A mutant of SetReceivedCount: the count is left as it was. *)
KeepReceivedCount(newRows) == UNCHANGED receivedCount

(* set_received_count at the end of mark_for_replacement and of clear_all. *)
SetReceivedCount(newRows) == receivedCount' = EntriesLen(newRows)

(* A mutant of AfterDelete: the cursor stays on the row. *)
AfterDeleteStays(newRows, row) == row

(* Where "d" moves the cursor to, in the table it leaves. *)
AfterDelete(newRows, row) ==
  IF IsFirstEntry(newRows, row) THEN NextEntryIdx(newRows, row)
                                ELSE PrevEntryIdx(newRows, row)

(* "d" with a selected row; in the info menu it also closes the menu. *)
PressDelete ==
  /\ pc = "event"
  /\ menu \in {"table", "info"}
  /\ selected # NoRow
  /\ IF SlicePanics(rows, selected) \/ NextPanics(rows, selected) THEN Panic("indexPanic")
     ELSE /\ rows' = MarkRow(rows, selected, overflow)
          /\ overflow' = MarkOverflow(rows, selected, overflow)
          /\ IF selected \in LiveRows(rows) THEN SetReceivedCount(rows')
                                            ELSE UNCHANGED receivedCount
          /\ selected' = AfterDelete(rows', selected)
          /\ menu' = "table"
          /\ Handled
          /\ UNCHANGED <<maxEntries, inflightCount, notes, rejects, channel>>

(* "r"; in the info menu it also closes the menu. *)
PressClear ==
  /\ pc = "event"
  /\ menu \in {"table", "info"}
  /\ rows' = ClearRows(rows, overflow)
  /\ overflow' = ClearOverflow(rows, overflow)
  /\ SetReceivedCount(rows')
  /\ selected' = NoRow
  /\ menu' = "table"
  /\ Handled
  /\ UNCHANGED <<maxEntries, inflightCount, notes, rejects, channel>>

(* The table and the notifications get a new size. *)
SetMaxEntries(count) ==
  /\ maxEntries' = count
  /\ notes' = IF notes > count THEN count ELSE notes
  /\ rows' = Resize(rows, count)
  /\ SetReceivedCount(rows')

(* "n" *)
PressMore ==
  /\ pc = "event"
  /\ menu = "table"
  /\ maxEntries < MaxRows
  /\ SetMaxEntries(maxEntries + 1)
  /\ Handled
  /\ UNCHANGED <<overflow, selected, menu, inflightCount, rejects, channel>>

(* "m"; with no rows left the usize underflows: a panic at the subtraction *)
(* or, where overflow checks are off, at the allocation of usize::MAX rows.*)
PressFewer ==
  /\ pc = "event"
  /\ menu = "table"
  /\ IF maxEntries = 0 THEN Panic("underflowPanic")
     ELSE /\ SetMaxEntries(maxEntries - 1)
          /\ Handled
          /\ UNCHANGED <<overflow, selected, menu, inflightCount, rejects, channel>>

(* "f", "v", "i" and Esc outside of editing only change the menu. *)
ChangesMenu(from, to) == menu = from /\ menu' = to

PressMenuKey ==
  /\ pc = "event"
  /\ \/ ChangesMenu("table", "filters")
     \/ ChangesMenu("table", "info") /\ selected # NoRow
     \/ ChangesMenu("filters", "editing")
     \/ ChangesMenu("filters", "table")
     \/ ChangesMenu("info", "table")
  /\ Handled
  /\ UNCHANGED <<maxEntries, rows, overflow, selected, counts, notes, rejects, channel>>

(* Enter or Esc while editing: the field's text becomes the filter, unless *)
(* it is a duration that does not parse.                                   *)
PressCommit ==
  /\ pc = "event"
  /\ ChangesMenu("editing", "filters")
  /\ rejects' \in Rejections \cup {rejects}
  /\ Handled
  /\ UNCHANGED <<maxEntries, rows, overflow, selected, counts, notes, channel>>

(* Any other event: a resize, a key that is not bound or not being pressed,*)
(* "g", "o" and "h", and the keys that only edit or choose a text field.   *)
OtherEvent ==
  /\ pc = "event"
  /\ Handled
  /\ UNCHANGED <<table, counts, notes, rejects, channel>>

-----------------------------------------------------------------------------
(* The client works while the process does. *)
ClientStep ==
  /\ pc \in Running
  /\ \/ \E info \in Info : Source!Deliver(info)
     \/ Source!Complain
     \/ Source!Lose
  /\ UNCHANGED <<pc, hasUpdate, table, counts, notes, rejects>>

LoopStep ==
  \/ Draw
  \/ SkipUpdate
  \/ SendRequests
  \/ ReceiveFailure
  \/ ReceiveRejected
  \/ ReceiveInfo
  \/ EndDrain
  \/ PollTimesOut

UserStep ==
  \/ PressQuit
  \/ \E shift \in BOOLEAN : PressDown(shift) \/ PressUp(shift)
  \/ PressDelete
  \/ PressClear
  \/ PressMore
  \/ PressFewer
  \/ PressMenuKey
  \/ PressCommit
  \/ OtherEvent

Next == LoopStep \/ UserStep \/ ClientStep

Spec == Init /\ [][Next]_vars
-----------------------------------------------------------------------------
(* Between updates the cached received_count is the number of entries in   *)
(* the table, whatever keys changed the table (tui.rs 289, 324, 770, 850,  *)
(* 857); while messages are drained it lags behind but never exceeds it.   *)
CountsExact ==
  IF pc = "drain" THEN receivedCount <= EntriesLen(rows)
                  ELSE receivedCount = EntriesLen(rows)

(* No key makes next_entry_idx, prev_entry_idx or is_first_entry index     *)
(* beyond the table (tui.rs 226, 233, 246, 328), although shrinking the    *)
(* table does not move the selection: the table is drawn before each read  *)
(* of an event, and drawing moves the selection back.                      *)
NoIndexPanic == pc # "indexPanic"

(* event::read is called without a timeout (tui.rs 778-788) only when no   *)
(* row is vacant: an answer to a vacant row is shown without a key press.  *)
BlocksOnlyWhenFull == Blocked => VacantRows(rows) = {}

(* One pass of the loop asks for no more crates than there are vacant rows *)
(* (update_iter, tui.rs 105-111).                                          *)
BurstFitsVacancies == [][asked' - asked <= Cardinality(VacantRows(rows))]_vars

(* A table that does not shrink loses an entry only when no overflow item  *)
(* is left to take its place (mark_for_replacement and clear_all).         *)
DeleteDrawsOnOverflow ==
  [][/\ EntriesLen(rows') < EntriesLen(rows)
     /\ Len(rows') >= Len(rows)
     => overflow' = <<>>]_vars

(* An overflow item is never dropped: it leaves the overflow for the table *)
(* (tui.rs 280, 296), even when more items are popped than rows were live. *)
OverflowLeavesToRows ==
  [][\A k \in DOMAIN overflow : k > Len(overflow') => overflow[k] \in Range(rows')]_vars

(* Whatever d, r, n, m and the drain do to the rows, the table and its     *)
(* overflow together never hold more copies of an Info than before if the  *)
(* present filters reject it.  (It may be there from before the filters    *)
(* were changed, and go from the overflow to the rows: tui.rs 80, 280, 296)*)
Occurrences(items, info) == Cardinality({k \in DOMAIN items : items[k] = info})
Copies(info) == Occurrences(rows, info) + Occurrences(overflow, info)

RejectedNeverEnters == [][\A info \in rejects : Copies(info)' <= Copies(info)]_vars

(* While the table does not shrink, a cursor on an entry stays on an entry *)
(* or, once there is none, is removed: "d" in particular leaves the struck *)
(* row (tui.rs 814-822, 878-886).                                          *)
SelectionStaysLive ==
  [][/\ selected \in LiveRows(rows)
     /\ Len(rows') >= Len(rows)
     => selected' \in LiveRows(rows') \cup {NoRow}]_vars

(* The footer offers "m: dec" whatever the number of rows (tui.rs 1119):   *)
(* pressing it does not end the program.                                   *)
NoUnderflowPanic == pc # "underflowPanic"

(* has_entries of App::draw *)
OffersDelete == menu = "info" \/ (menu = "table" /\ selected # NoRow)

(* Where the footer offers "d: delete entry" (tui.rs 1073-1080), the       *)
(* selected row holds an entry for d to delete.                            *)
DeleteOfferedOnEntry == pc = "event" /\ OffersDelete => selected \in LiveRows(rows)

-----------------------------------------------------------------------------
(* The inductive invariant behind CountsExact, NoIndexPanic and            *)
(* BlocksOnlyWhenFull.  A drain that has received nothing must not leave a *)
(* stale count behind, since it ends without counting (tui.rs 765); and    *)
(* from a drawing to the next event the selection lies within the table.   *)
Counted ==
  IF pc = "drain" /\ hasUpdate THEN receivedCount <= EntriesLen(rows)
                               ELSE receivedCount = EntriesLen(rows)

SelectionDrawn == pc \in {"send", "drain", "event"} => selected <= Len(rows)

IInv == TypeOK /\ Counted /\ SelectionDrawn /\ NoIndexPanic

-----------------------------------------------------------------------------
(* The table is loaded while the user only looks around, and the client    *)
(* answers every request with a crate that passes the filters.             *)
LookAround ==
  \/ \E shift \in BOOLEAN : PressDown(shift) \/ PressUp(shift)
  \/ PressMenuKey
  \/ OtherEvent

ClientAnswers ==
  /\ \E info \in Info \ rejects : Source!Deliver(info)
  /\ UNCHANGED <<pc, hasUpdate, table, counts, notes, rejects>>

ClientComplains ==
  /\ Source!Complain
  /\ UNCHANGED <<pc, hasUpdate, table, counts, notes, rejects>>

(* The thread of the interface never stops by itself, and the client tries *)
(* again until a request is answered.                                      *)
LoadFairness == WF_vars(LoopStep) /\ WF_vars(ClientAnswers)

LoadSpec ==
  Init /\ [][LoopStep \/ LookAround \/ ClientAnswers \/ ClientComplains]_vars /\ LoadFairness

(* The same when the user also asks for more rows ("n"), and when some of  *)
(* the crates are ones that the filters reject: every request is answered, *)
(* and time and again by a crate that passes.                              *)
ClientDelivers ==
  /\ \E info \in Info : Source!Deliver(info)
  /\ UNCHANGED <<pc, hasUpdate, table, counts, notes, rejects>>

GrowSpec ==
  /\ Init
  /\ [][LoopStep \/ LookAround \/ PressMore \/ ClientDelivers \/ ClientComplains]_vars
  /\ WF_vars(LoopStep) /\ WF_vars(ClientDelivers) /\ SF_vars(ClientAnswers)

(* Every row of the table is filled in the end, and stays so. *)
FillsUp == <>[](VacantRows(rows) = {})

(* The footer's "current entries" (tui.rs 1119, max_screen_entries) is the *)
(* number of entries, in the end: after rows have been added with "n", and *)
(* after crates have been skipped because of the filters.                  *)
FooterCountsEntries == <>[](EntriesLen(rows) = maxEntries)
=============================================================================
