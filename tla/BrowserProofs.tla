--------------------------- MODULE BrowserProofs ---------------------------
(***************************************************************************)
(* The browser's safety properties hold for tables of up to SmallSort rows, *)
(* every set of Infos and filters, and every client that is a CrateSource. *)
(***************************************************************************)
EXTENDS Browser, EntriesProofs

(* The table is a sequence of maxEntries rows. *)
LEMMA TableType ==
  ASSUME TypeOK
  PROVE  /\ maxEntries \in Nat
         /\ rows \in Seq(Row)
         /\ Len(rows) = maxEntries
         /\ EntriesLen(rows) \in 0 .. maxEntries
<1>1. maxEntries \in Nat
  BY BrowserAssumption DEF TypeOK
<1>2. rows \in Seq(Row) /\ Len(rows) = maxEntries
  BY <1>1 DEF TypeOK
<1> QED
  BY <1>1, <1>2, CountingRows

(* A table that is a sequence of maxEntries rows has the right type. *)
LEMMA TableOfLength ==
  ASSUME NEW new \in Seq(Row)
  PROVE  new \in [1 .. Len(new) -> Row]
OBVIOUS

LEMMA NoEntriesAtFirst ==
  ASSUME NEW count \in Nat
  PROVE  NewRows(count) \in [1 .. count -> Row] /\ EntriesLen(NewRows(count)) = 0
<1>1. NewRows(count) \in [1 .. count -> Row]
  BY DEF NewRows, Row
<1>2. LiveRows(NewRows(count)) = {}
  BY RowAssumption DEF LiveRows, NewRows
<1> QED
  BY <1>1, <1>2, FS_EmptySet DEF EntriesLen

LEMMA InitIInv == Init => IInv
<1> SUFFICES ASSUME Init PROVE IInv
  OBVIOUS
<1> USE DEF Init
<1>1. InitialRows \in Nat /\ InitialRows \in 0 .. MaxRows
  BY BrowserAssumption
<1>2. rows \in [1 .. maxEntries -> Row] /\ EntriesLen(rows) = 0
  BY <1>1, NoEntriesAtFirst
<1>3. rejects \subseteq Info
  BY BrowserAssumption
<1>4. Source!TypeOK
  BY DEF Source!Init, Source!TypeOK
<1>5. overflow \in Seq(Info)
  OBVIOUS
<1>6. notes \in 0 .. maxEntries
  BY <1>1
<1>7. TypeOK
  BY <1>1, <1>2, <1>3, <1>4, <1>5, <1>6 DEF TypeOK, Running, Menus, NoRow
<1> QED
  BY <1>2, <1>7 DEF IInv, Counted, SelectionDrawn, NoIndexPanic
-----------------------------------------------------------------------------
(* The steps of the loop. *)
LEMMA DrawIInv == IInv /\ Draw => IInv'
<1> SUFFICES ASSUME IInv, Draw PROVE IInv'
  OBVIOUS
<1> USE DEF IInv, Draw
<1>1. Len(rows) \in Nat
  BY TableType
<1>2. selected' \in Nat /\ selected' <= Len(rows')
  BY <1>1 DEF RenderedSelection, TypeOK
<1>3. TypeOK'
  BY <1>2, TableType DEF TypeOK, Running, counts, channel, Source!TypeOK
<1> QED
  BY <1>2, <1>3 DEF Counted, SelectionDrawn, NoIndexPanic, counts

LEMMA SkipUpdateIInv == IInv /\ SkipUpdate => IInv'
<1> SUFFICES ASSUME IInv, SkipUpdate PROVE IInv'
  OBVIOUS
<1> USE DEF IInv, SkipUpdate
<1>1. TypeOK'
  BY DEF TypeOK, Running, table, channel, Source!TypeOK
<1> QED
  BY <1>1 DEF Counted, SelectionDrawn, NoIndexPanic, table

LEMMA ToSendType == TypeOK => ToSend \in Nat
BY TableType DEF TypeOK, ToSend, Monus

LEMMA SendRequestsIInv == IInv /\ SendRequests => IInv'
<1> SUFFICES ASSUME IInv, SendRequests PROVE IInv'
  OBVIOUS
<1> USE DEF IInv, SendRequests
<1>1. TypeOK'
  BY ToSendType DEF TypeOK, Running, table, counts, Source!Ask, Source!TypeOK
<1>2. receivedCount = EntriesLen(rows) /\ EntriesLen(rows) \in Nat
  BY TableType DEF Counted
<1> QED
  BY <1>1, <1>2 DEF Counted, SelectionDrawn, NoIndexPanic, table, counts

(* A message leaves the channel. *)
LEMMA TakeType ==
  ASSUME TypeOK, Source!Take
  PROVE  Source!TypeOK'
BY DEF TypeOK, Source!TypeOK, Source!Take

LEMMA NotifyType ==
  ASSUME TypeOK, Notify
  PROVE  notes' \in 0 .. maxEntries
BY TableType DEF TypeOK, Notify

LEMMA ReceiveNoticeIInv == IInv /\ (ReceiveFailure \/ ReceiveRejected) => IInv'
<1> SUFFICES ASSUME IInv, ReceiveFailure \/ ReceiveRejected PROVE IInv'
  OBVIOUS
<1> USE DEF IInv
<1>1. /\ pc = "drain" /\ hasUpdate' = TRUE
      /\ Source!Take /\ Notify
      /\ UNCHANGED <<pc, table, counts, rejects>>
  BY DEF ReceiveFailure, ReceiveRejected
<1>2. TypeOK'
  BY <1>1, TakeType, NotifyType DEF TypeOK, table, counts
<1>3. receivedCount <= EntriesLen(rows)
  BY TableType DEF Counted
<1> QED
  BY <1>1, <1>2, <1>3 DEF Counted, SelectionDrawn, NoIndexPanic, table, counts

LEMMA ReceiveInfoIInv == IInv /\ ReceiveInfo => IInv'
<1> SUFFICES ASSUME IInv, ReceiveInfo PROVE IInv'
  OBVIOUS
<1> USE DEF IInv, ReceiveInfo
<1> DEFINE info == Head(inbox)
<1>1. info \in Info
  OBVIOUS
<1>2. rows \in Seq(Row) /\ Len(rows) = maxEntries
  BY TableType
<1>3. /\ rows' \in Seq(Row)
      /\ Len(rows') = Len(rows)
      /\ LiveRows(rows) \subseteq LiveRows(rows')
  <2>1. CASE VacantRows(rows) # {}
    BY <1>1, <1>2, <2>1, InsertInfoType
  <2>2. CASE VacantRows(rows) = {}
    BY <1>2, <2>2
  <2> QED
    BY <2>1, <2>2
<1>4. overflow' \in Seq(Info)
  BY <1>1 DEF TypeOK
<1>5. TypeOK'
  BY <1>2, <1>3, <1>4, TakeType, TableOfLength DEF TypeOK, counts
<1>6. receivedCount <= EntriesLen(rows')
  <2>1. receivedCount <= EntriesLen(rows) /\ EntriesLen(rows) \in Nat
    BY TableType DEF Counted
  <2>2. EntriesLen(rows) <= EntriesLen(rows') /\ EntriesLen(rows') \in Nat
    BY <1>2, <1>3, EntriesLenGrows, CountingRows
  <2> QED
    BY <2>1, <2>2 DEF TypeOK
<1> QED
  BY <1>3, <1>5, <1>6 DEF Counted, SelectionDrawn, NoIndexPanic, counts

LEMMA EndDrainIInv == IInv /\ EndDrain => IInv'
<1> SUFFICES ASSUME IInv, EndDrain PROVE IInv'
  OBVIOUS
<1> USE DEF IInv, EndDrain
<1>1. maxEntries \in Nat /\ EntriesLen(rows) \in Nat
  BY TableType
<1>2. receivedCount' \in Nat /\ inflightCount' \in Nat
  BY <1>1 DEF TypeOK, Monus, counts
<1>3. TypeOK'
  BY <1>2 DEF TypeOK, Running, table, channel, Source!TypeOK
<1>4. receivedCount' = EntriesLen(rows)
  BY DEF Counted, counts
<1> QED
  BY <1>3, <1>4 DEF Counted, SelectionDrawn, NoIndexPanic, table

LEMMA PollTimesOutIInv == IInv /\ PollTimesOut => IInv'
<1> SUFFICES ASSUME IInv, PollTimesOut PROVE IInv'
  OBVIOUS
<1> USE DEF IInv, PollTimesOut
<1>1. TypeOK'
  BY DEF TypeOK, Running, table, counts, channel, Source!TypeOK
<1> QED
  BY <1>1 DEF Counted, SelectionDrawn, NoIndexPanic, table, counts
-----------------------------------------------------------------------------
(* The keys.  With the selection in the table no key panics for its index. *)
LEMMA NoPanicAtEvent ==
  ASSUME IInv, pc = "event"
  PROVE  ~ NextPanics(rows, selected) /\ ~ SlicePanics(rows, selected)
<1>1. selected \in Nat /\ Len(rows) \in Nat /\ selected <= Len(rows)
  BY TableType DEF IInv, SelectionDrawn, TypeOK
<1> QED
  BY <1>1 DEF NextPanics, SlicePanics, NoRow

LEMMA CursorType ==
  ASSUME NEW new \in Seq(Row), NEW cur \in Nat
  PROVE  NextEntryIdx(new, cur) \in Nat /\ PrevEntryIdx(new, cur) \in Nat
<1>1. LiveRows(new) \cup {NoRow} \subseteq Nat
  BY DEF LiveRows, NoRow
<1> QED
  BY <1>1, NextEntryIdxType, PrevEntryIdxType

LEMMA AfterDeleteType ==
  ASSUME NEW new \in Seq(Row), NEW cur \in Nat
  PROVE  AfterDelete(new, cur) \in Nat
BY CursorType DEF AfterDelete

LEMMA PressQuitIInv == IInv /\ PressQuit => IInv'
<1> SUFFICES ASSUME IInv, PressQuit PROVE IInv'
  OBVIOUS
<1> USE DEF IInv, PressQuit
<1>1. TypeOK'
  BY DEF TypeOK, Ended, table, counts, channel, Source!TypeOK
<1> QED
  BY <1>1 DEF Counted, SelectionDrawn, NoIndexPanic, table, counts

LEMMA MoveIInv ==
  ASSUME NEW shift \in BOOLEAN
  PROVE  IInv /\ (PressDown(shift) \/ PressUp(shift)) => IInv'
<1> SUFFICES ASSUME IInv, PressDown(shift) \/ PressUp(shift) PROVE IInv'
  OBVIOUS
<1> USE DEF IInv
<1>1. pc = "event"
  BY DEF PressDown, PressUp
<1>2. /\ selected' \in {NextEntryIdx(rows, selected), PrevEntryIdx(rows, selected)}
      /\ menu' = IF shift THEN menu ELSE "table"
      /\ Handled
      /\ UNCHANGED <<maxEntries, rows, overflow, counts, notes, rejects, channel>>
  BY <1>1, NoPanicAtEvent DEF PressDown, PressUp
<1>3. selected' \in Nat
  BY <1>2, TableType, CursorType DEF TypeOK
<1>4. TypeOK'
  BY <1>2, <1>3 DEF TypeOK, Handled, Running, Menus, counts, channel, Source!TypeOK
<1> QED
  BY <1>1, <1>2, <1>4 DEF Counted, Handled, SelectionDrawn, NoIndexPanic, counts

LEMMA PressDeleteIInv == IInv /\ PressDelete => IInv'
<1> SUFFICES ASSUME IInv, PressDelete PROVE IInv'
  OBVIOUS
<1> USE DEF IInv
<1>1. pc = "event" /\ ~ NextPanics(rows, selected) /\ ~ SlicePanics(rows, selected)
  BY NoPanicAtEvent DEF PressDelete
<1>2. /\ rows' = MarkRow(rows, selected, overflow)
      /\ overflow' = MarkOverflow(rows, selected, overflow)
      /\ IF selected \in LiveRows(rows) THEN SetReceivedCount(rows')
                                        ELSE UNCHANGED receivedCount
      /\ selected' = AfterDelete(rows', selected)
      /\ menu' = "table"
      /\ Handled
      /\ UNCHANGED <<maxEntries, inflightCount, notes, rejects, channel>>
  BY <1>1 DEF PressDelete
<1>3. /\ rows \in Seq(Row) /\ Len(rows) = maxEntries
      /\ overflow \in Seq(Info) /\ selected \in Nat
  BY TableType DEF TypeOK
<1>4. /\ rows' \in Seq(Row) /\ Len(rows') = maxEntries
      /\ overflow' \in Seq(Info)
  BY <1>2, <1>3, MarkType
<1>5. selected' \in Nat
  BY <1>2, <1>3, <1>4, AfterDeleteType
<1>6. receivedCount' = EntriesLen(rows')
  <2>1. CASE selected \in LiveRows(rows)
    BY <1>2, <2>1 DEF SetReceivedCount
  <2>2. CASE selected \notin LiveRows(rows)
    BY <1>1, <1>2, <2>2 DEF MarkRow, Counted
  <2> QED
    BY <2>1, <2>2
<1>7. receivedCount' \in Nat
  BY <1>4, <1>6, CountingRows
<1>8. TypeOK'
  BY <1>2, <1>4, <1>5, <1>7, TableOfLength
     DEF TypeOK, Handled, Running, Menus, channel, Source!TypeOK
<1> QED
  BY <1>2, <1>6, <1>8 DEF Counted, Handled, SelectionDrawn, NoIndexPanic

LEMMA PressClearIInv == IInv /\ PressClear => IInv'
<1> SUFFICES ASSUME IInv, PressClear PROVE IInv'
  OBVIOUS
<1> USE DEF IInv, PressClear
<1>1. /\ rows \in Seq(Row) /\ Len(rows) = maxEntries
      /\ overflow \in Seq(Info)
  BY TableType DEF TypeOK
<1>2. /\ rows' \in Seq(Row) /\ Len(rows') = maxEntries
      /\ overflow' \in Seq(Info)
  BY <1>1, ClearType
<1>3. receivedCount' = EntriesLen(rows')
  BY DEF SetReceivedCount
<1>4. receivedCount' \in Nat
  BY <1>2, <1>3, CountingRows
<1>5. TypeOK'
  BY <1>2, <1>4, TableOfLength
     DEF TypeOK, Handled, Running, Menus, NoRow, channel, Source!TypeOK
<1> QED
  BY <1>3, <1>5 DEF Counted, Handled, SelectionDrawn, NoIndexPanic

(* Both keys that change the number of rows. *)
LEMMA SetMaxEntriesIInv ==
  ASSUME IInv, NEW count \in 0 .. MaxRows, SetMaxEntries(count), Handled,
         UNCHANGED <<overflow, selected, menu, inflightCount, rejects, channel>>
  PROVE  IInv'
<1> USE DEF IInv, SetMaxEntries
<1>1. count \in Nat
  BY BrowserAssumption
<1>2. rows' \in [1 .. count -> Row]
  BY <1>1, TableType, ResizeType
<1>3. rows' \in Seq(Row)
  BY <1>1, <1>2
<1>4. receivedCount' = EntriesLen(rows') /\ receivedCount' \in Nat
  BY <1>3, CountingRows DEF SetReceivedCount
<1>5. notes' \in 0 .. maxEntries'
  BY <1>1, TableType DEF TypeOK
<1>6. TypeOK'
  BY <1>2, <1>4, <1>5 DEF TypeOK, Handled, Running, channel, Source!TypeOK
<1> QED
  BY <1>4, <1>6 DEF Counted, Handled, SelectionDrawn, NoIndexPanic

LEMMA PressMoreIInv == IInv /\ PressMore => IInv'
<1> SUFFICES ASSUME IInv, PressMore PROVE IInv'
  OBVIOUS
<1>1. maxEntries + 1 \in 0 .. MaxRows
  BY BrowserAssumption, TableType DEF IInv, TypeOK, PressMore
<1> QED
  BY <1>1, SetMaxEntriesIInv DEF PressMore

LEMMA PressFewerIInv == IInv /\ PressFewer => IInv'
<1> SUFFICES ASSUME IInv, PressFewer PROVE IInv'
  OBVIOUS
<1>1. CASE maxEntries = 0
  <2>1. /\ pc' = "underflowPanic"
        /\ UNCHANGED <<hasUpdate, table, counts, notes, rejects, channel>>
    BY <1>1 DEF PressFewer, Panic
  <2>2. TypeOK'
    BY <2>1 DEF IInv, TypeOK, Ended, table, counts, channel, Source!TypeOK
  <2>3. pc = "event"
    BY DEF PressFewer
  <2> QED
    BY <2>1, <2>2, <2>3 DEF IInv, Counted, SelectionDrawn, NoIndexPanic, table, counts
<1>2. CASE maxEntries # 0
  <2>1. maxEntries - 1 \in 0 .. MaxRows
    BY <1>2, BrowserAssumption, TableType DEF IInv, TypeOK
  <2> QED
    BY <1>2, <2>1, SetMaxEntriesIInv DEF PressFewer
<1> QED
  BY <1>1, <1>2

LEMMA MenuIInv == IInv /\ (PressMenuKey \/ PressCommit \/ OtherEvent) => IInv'
<1> SUFFICES ASSUME IInv, PressMenuKey \/ PressCommit \/ OtherEvent PROVE IInv'
  OBVIOUS
<1> USE DEF IInv
<1>1. /\ pc = "event" /\ Handled
      /\ UNCHANGED <<maxEntries, rows, overflow, selected, counts, notes, channel>>
  BY DEF PressMenuKey, PressCommit, OtherEvent, table
<1>2. menu' \in Menus
  BY DEF PressMenuKey, PressCommit, OtherEvent, ChangesMenu, table, Menus, TypeOK
<1>3. rejects' \subseteq Info
  <2>1. rejects' \in Rejections \cup {rejects}
    BY DEF PressMenuKey, PressCommit, OtherEvent
  <2> QED
    BY <2>1, BrowserAssumption DEF TypeOK
<1>4. TypeOK'
  BY <1>1, <1>2, <1>3 DEF TypeOK, Handled, Running, counts, channel, Source!TypeOK
<1> QED
  BY <1>1, <1>4 DEF Counted, Handled, SelectionDrawn, NoIndexPanic, counts
-----------------------------------------------------------------------------
(* The client. *)
LEMMA ClientStepIInv == IInv /\ ClientStep => IInv'
<1> SUFFICES ASSUME IInv, ClientStep PROVE IInv'
  OBVIOUS
<1> USE DEF IInv, ClientStep
<1>1. Source!TypeOK
  BY DEF TypeOK
<1>2. ASSUME NEW info \in Info, Source!Deliver(info) PROVE Source!TypeOK'
  BY <1>1, <1>2 DEF Source!TypeOK, Source!Deliver
<1>3. ASSUME Source!Complain PROVE Source!TypeOK'
  BY <1>1, <1>3 DEF Source!TypeOK, Source!Complain
<1>4. ASSUME Source!Lose PROVE Source!TypeOK'
  BY <1>1, <1>4 DEF Source!TypeOK, Source!Lose
<1>5. TypeOK'
  BY <1>2, <1>3, <1>4 DEF TypeOK, table, counts
<1> QED
  BY <1>5 DEF Counted, SelectionDrawn, NoIndexPanic, table, counts

LEMMA StepIInv == IInv /\ [Next]_vars => IInv'
<1> SUFFICES ASSUME IInv, [Next]_vars PROVE IInv'
  OBVIOUS
<1>1. CASE LoopStep
  BY <1>1, DrawIInv, SkipUpdateIInv, SendRequestsIInv, ReceiveNoticeIInv, ReceiveInfoIInv,
     EndDrainIInv, PollTimesOutIInv DEF LoopStep
<1>2. CASE UserStep
  BY <1>2, PressQuitIInv, MoveIInv, PressDeleteIInv, PressClearIInv, PressMoreIInv,
     PressFewerIInv, MenuIInv DEF UserStep
<1>3. CASE ClientStep
  BY <1>3, ClientStepIInv
<1>4. CASE UNCHANGED vars
  BY <1>4 DEF vars, table, counts, channel, IInv, TypeOK, Counted, SelectionDrawn,
     NoIndexPanic, Source!TypeOK
<1> QED
  BY <1>1, <1>2, <1>3, <1>4 DEF Next

(* The inductive invariant holds in every reachable state. *)
THEOREM Invariance == Spec => []IInv
BY InitIInv, StepIInv, PTL DEF Spec
-----------------------------------------------------------------------------
(* The state of the browser is well typed: in particular the table always  *)
(* has max_screen_entries rows, and never more notifications than rows.    *)
THEOREM TypeCorrect == Spec => []TypeOK
<1>1. IInv => TypeOK
  BY DEF IInv
<1> QED
  BY <1>1, Invariance, PTL

(* received_count is exact between updates, for tables of any size.        *)
THEOREM CountsAreExact == Spec => []CountsExact
<1>1. IInv => CountsExact
  BY TableType DEF IInv, Counted, CountsExact
<1> QED
  BY <1>1, Invariance, PTL

(* No key press panics for a cursor beyond the table.                      *)
THEOREM NeverIndexPanics == Spec => []NoIndexPanic
<1>1. IInv => NoIndexPanic
  BY DEF IInv
<1> QED
  BY <1>1, Invariance, PTL

(* The interface waits for a key only when the table is full.              *)
THEOREM NeverBlocksOnVacantRows == Spec => []BlocksOnlyWhenFull
<1>1. IInv => BlocksOnlyWhenFull
  <2> SUFFICES ASSUME IInv, Blocked PROVE VacantRows(rows) = {}
    BY DEF BlocksOnlyWhenFull
  <2>1. EntriesLen(rows) = Len(rows)
    BY DEF IInv, Counted, Blocked
  <2> QED
    BY <2>1, TableType, CountingRows DEF IInv
<1> QED
  BY <1>1, Invariance, PTL

(* No pass of the loop asks for more crates than there are vacant rows.    *)
THEOREM BurstsFit == Spec => BurstFitsVacancies
<1>1. IInv /\ [Next]_vars => [asked' - asked <= Cardinality(VacantRows(rows))]_vars
  <2> SUFFICES ASSUME IInv, Next
               PROVE  asked' - asked <= Cardinality(VacantRows(rows))
    OBVIOUS
  <2>1. asked \in Nat /\ receivedCount \in Nat /\ inflightCount \in Nat
    BY DEF IInv, TypeOK, Source!TypeOK
  <2>2. /\ Cardinality(VacantRows(rows)) = maxEntries - EntriesLen(rows)
        /\ Cardinality(VacantRows(rows)) \in Nat
        /\ maxEntries \in Nat
    <3>1. rows \in Seq(Row) /\ Len(rows) = maxEntries /\ maxEntries \in Nat
      BY TableType DEF IInv
    <3> QED
      BY <3>1, CountingRows
  <2>3. CASE SendRequests
    <3>1. receivedCount = EntriesLen(rows)
      BY <2>3 DEF IInv, Counted, SendRequests
    <3>2. ToSend \in Nat /\ ToSend <= maxEntries - EntriesLen(rows)
      BY <2>1, <2>2, <2>3, <3>1 DEF ToSend, Monus, SendRequests
    <3>3. asked' = asked + ToSend
      BY <2>3 DEF SendRequests, Source!Ask
    <3> QED
      BY <2>1, <2>2, <3>2, <3>3
  <2>4. CASE ~ SendRequests
    <3>1. asked' \in {asked, asked - 1}
      BY <2>4 DEF Next, LoopStep, UserStep, ClientStep, Draw, SkipUpdate, ReceiveFailure,
         ReceiveRejected, ReceiveInfo, EndDrain, PollTimesOut, PressQuit, PressDown, PressUp,
         PressDelete, PressClear, PressMore, PressFewer, PressMenuKey, PressCommit,
         OtherEvent, Panic, Source!Take, Source!Deliver, Source!Complain, Source!Lose, channel
    <3> QED
      BY <2>1, <2>2, <3>1
  <2> QED
    BY <2>3, <2>4
<1> QED
  BY <1>1, Invariance, PTL DEF Spec, BurstFitsVacancies
-----------------------------------------------------------------------------
(* What the steps do to the table and the overflow: most leave both alone, *)
(* some only add entries, and two keys move overflow items into the table. *)
Keeps == UNCHANGED <<rows, overflow>>

Adds ==
  /\ LiveRows(rows) \subseteq LiveRows(rows')
  /\ rows' \in Seq(Row)
  /\ overflow' = overflow \/ \E item \in Info : overflow' = Append(overflow, item)

Deletes ==
  /\ rows' = MarkRow(rows, selected, overflow)
  /\ overflow' = MarkOverflow(rows, selected, overflow)

Clears ==
  /\ rows' = ClearRows(rows, overflow)
  /\ overflow' = ClearOverflow(rows, overflow)

Shrinks == Len(rows') < Len(rows) /\ UNCHANGED overflow

LEMMA ReceiveInfoAdds == IInv /\ ReceiveInfo => Adds
<1> SUFFICES ASSUME IInv, ReceiveInfo PROVE Adds
  OBVIOUS
<1>1. rows \in Seq(Row) /\ Head(inbox) \in Info
  BY TableType DEF IInv, ReceiveInfo
<1>2. CASE VacantRows(rows) # {}
  BY <1>1, <1>2, InsertInfoType DEF ReceiveInfo, Adds
<1>3. CASE VacantRows(rows) = {}
  BY <1>1, <1>3 DEF ReceiveInfo, Adds
<1> QED
  BY <1>2, <1>3

LEMMA PressMoreAdds == IInv /\ PressMore => Adds
<1> SUFFICES ASSUME IInv, PressMore PROVE Adds
  OBVIOUS
<1>1. /\ rows \in Seq(Row) /\ Len(rows) = maxEntries /\ maxEntries \in Nat
  BY TableType DEF IInv
<1>2. rows' = Resize(rows, maxEntries + 1) /\ overflow' = overflow
  BY DEF PressMore, SetMaxEntries
<1>3. rows' = [r \in 1 .. maxEntries + 1 |-> IF r <= Len(rows) THEN rows[r] ELSE Blank]
  BY <1>1, <1>2 DEF Resize
<1>4. \A r \in 1 .. maxEntries + 1 : rows'[r] \in Row
  BY <1>1, <1>3 DEF Row
<1>5. rows' \in Seq(Row)
  BY <1>1, <1>3, <1>4
<1>6. LiveRows(rows) \subseteq LiveRows(rows')
  BY <1>1, <1>3 DEF LiveRows
<1> QED
  BY <1>2, <1>5, <1>6 DEF Adds

LEMMA PressFewerShrinks == IInv /\ PressFewer => Keeps \/ Shrinks
<1> SUFFICES ASSUME IInv, PressFewer PROVE Keeps \/ Shrinks
  OBVIOUS
<1>1. maxEntries \in Nat /\ rows \in Seq(Row) /\ Len(rows) = maxEntries
  BY TableType DEF IInv
<1>2. CASE maxEntries = 0
  BY <1>2 DEF PressFewer, Panic, table, Keeps
<1>3. CASE maxEntries # 0
  <2>1. rows' = Resize(rows, maxEntries - 1) /\ overflow' = overflow
    BY <1>3 DEF PressFewer, SetMaxEntries
  <2>2. rows' \in [1 .. maxEntries - 1 -> Row]
    BY <1>1, <1>3, <2>1, ResizeType
  <2> QED
    BY <1>1, <1>3, <2>1, <2>2 DEF Shrinks
<1> QED
  BY <1>2, <1>3

(* The only actions that change the table or its overflow. *)
LEMMA TableActions ==
  [Next]_vars => Keeps \/ ReceiveInfo \/ Deletes \/ Clears \/ PressMore \/ PressFewer
<1> SUFFICES ASSUME [Next]_vars
             PROVE  Keeps \/ ReceiveInfo \/ Deletes \/ Clears \/ PressMore \/ PressFewer
  OBVIOUS
<1>1. CASE LoopStep
  BY <1>1 DEF LoopStep, Draw, SkipUpdate, SendRequests, ReceiveFailure, ReceiveRejected,
              EndDrain, PollTimesOut, table, Keeps
<1>2. CASE UserStep
  <2>1. CASE PressDelete
    BY <2>1 DEF PressDelete, Panic, table, Keeps, Deletes
  <2>2. CASE PressClear
    BY <2>2 DEF PressClear, Clears
  <2>3. CASE PressMenuKey \/ PressCommit \/ OtherEvent \/ PressQuit
    BY <2>3 DEF PressMenuKey, PressCommit, OtherEvent, PressQuit, table, Keeps
  <2>4. ASSUME NEW shift \in BOOLEAN, PressDown(shift) \/ PressUp(shift) PROVE Keeps
    BY <2>4 DEF PressDown, PressUp, Panic, table, Keeps
  <2> QED
    BY <1>2, <2>1, <2>2, <2>3, <2>4 DEF UserStep
<1>3. CASE ClientStep \/ UNCHANGED vars
  BY <1>3 DEF ClientStep, vars, table, Keeps
<1> QED
  BY <1>1, <1>2, <1>3 DEF Next

LEMMA TableStep ==
  IInv /\ [Next]_vars => Keeps \/ Adds \/ Deletes \/ Clears \/ Shrinks
BY TableActions, ReceiveInfoAdds, PressMoreAdds, PressFewerShrinks

(* Whatever is popped off the overflow is in the table afterwards: d takes *)
(* the last item, r as many as there are rows (tui.rs 272-305).            *)
THEOREM OverflowIsNotDropped == Spec => OverflowLeavesToRows
<1> DEFINE Leaves == \A k \in DOMAIN overflow : k > Len(overflow') => overflow[k] \in Range(rows')
<1>1. ASSUME IInv, [Next]_vars PROVE Leaves
  <2> SUFFICES ASSUME NEW k \in DOMAIN overflow, k > Len(overflow')
               PROVE  \E r \in DOMAIN rows' : rows'[r] = overflow[k]
    BY DEF Range
  <2>1. overflow \in Seq(Info) /\ rows \in Seq(Row)
    BY <1>1, TableType DEF IInv, TypeOK
  <2>2. CASE Keeps \/ Adds \/ Shrinks
    BY <2>1, <2>2 DEF Keeps, Adds, Shrinks
  <2>3. CASE Deletes
    <3>1. selected \in LiveRows(rows) /\ overflow # <<>>
      BY <2>1, <2>3 DEF Deletes, MarkOverflow
    <3>2. Len(overflow') = Len(overflow) - 1
      <4>1. overflow' = SubSeq(overflow, 1, Len(overflow) - 1)
        BY <2>3, <3>1 DEF Deletes, MarkOverflow, Front
      <4>2. Len(overflow) - 1 \in 0 .. Len(overflow)
        BY <2>1, <3>1
      <4>3. \A n \in 0 .. Len(overflow) : Len(SubSeq(overflow, 1, n)) = n
        BY <2>1
      <4> QED
        BY <4>1, <4>2, <4>3
    <3>3. k = Len(overflow)
      BY <2>1, <3>2
    <3>4. rows' = [rows EXCEPT ![selected] = overflow[k]]
      BY <2>3, <3>1, <3>3 DEF Deletes, MarkRow, Last
    <3>5. selected \in DOMAIN rows
      BY <3>1 DEF LiveRows
    <3> QED
      BY <3>4, <3>5
  <2>4. CASE Clears
    <3> DEFINE r == Len(overflow) + 1 - k
    <3>1. Len(overflow) \in Nat /\ Len(rows) \in Nat /\ k \in 1 .. Len(overflow)
      BY <2>1
    <3>2. k > Len(overflow) - Len(rows)
      BY <2>1, <2>4, <3>1 DEF Clears, ClearOverflow
    <3>3. r \in 1 .. Len(rows) /\ r <= Len(overflow) /\ Len(overflow) + 1 - r = k
      BY <3>1, <3>2
    <3>4. DOMAIN rows = 1 .. Len(rows)
      BY <2>1
    <3>5. DOMAIN rows' = DOMAIN rows /\ rows'[r] = overflow[Len(overflow) + 1 - r]
      BY <2>4, <3>3, <3>4 DEF Clears, ClearRows
    <3> QED
      BY <3>3, <3>4, <3>5
  <2> QED
    BY <1>1, <2>2, <2>3, <2>4, TableStep
<1>2. IInv /\ [Next]_vars => [Leaves]_vars
  BY <1>1
<1> HIDE DEF Leaves
<1>3. Spec => [][Leaves]_vars
  BY <1>2, Invariance, PTL DEF Spec
<1> QED
  BY <1>3 DEF OverflowLeavesToRows, Leaves

(* Unless the table shrinks, an entry is lost only when the overflow has   *)
(* nothing left to take its place (tui.rs 272-305).                        *)
THEOREM DeletesDrawOnOverflow == Spec => DeleteDrawsOnOverflow
<1> DEFINE Draws == /\ EntriesLen(rows') < EntriesLen(rows)
                    /\ Len(rows') >= Len(rows)
                    => overflow' = <<>>
<1>1. ASSUME IInv, [Next]_vars PROVE Draws
  <2>1. overflow \in Seq(Info) /\ rows \in Seq(Row) /\ EntriesLen(rows) \in Nat
    BY <1>1, TableType DEF IInv, TypeOK
  <2>2. ASSUME LiveRows(rows) \subseteq LiveRows(rows'), rows' \in Seq(Row) PROVE Draws
    <3>1. EntriesLen(rows) <= EntriesLen(rows') /\ EntriesLen(rows') \in Nat
      BY <2>1, <2>2, EntriesLenGrows, CountingRows
    <3> QED
      BY <2>1, <3>1
  <2>3. CASE Keeps \/ Shrinks
    BY <2>1, <2>3 DEF Keeps, Shrinks
  <2>4. CASE Adds
    BY <2>2, <2>4 DEF Adds
  <2>5. CASE Deletes
    <3>1. CASE overflow = <<>>
      BY <2>5, <3>1 DEF Deletes, MarkOverflow
    <3>2. CASE overflow # <<>>
      <4>1. rows' \in Seq(Row)
        BY <1>1, <2>1, <2>5, MarkType DEF Deletes, IInv, TypeOK
      <4>2. Last(overflow) \in Info
        BY <2>1, <3>2 DEF Last
      <4>3. LiveRows(rows) \subseteq LiveRows(rows')
        BY <2>1, <2>5, <3>2, <4>2 DEF Deletes, MarkRow, LiveRows
      <4> QED
        BY <2>2, <4>1, <4>3
    <3> QED
      BY <3>1, <3>2
  <2>6. CASE Clears
    <3>1. rows' \in Seq(Row) /\ Len(rows) \in Nat /\ Len(overflow) \in Nat
      BY <2>1, <2>6, ClearType DEF Clears
    <3>2. CASE Len(overflow) <= Len(rows)
      BY <2>1, <2>6, <3>1, <3>2 DEF Clears, ClearOverflow
    <3>3. CASE Len(overflow) > Len(rows)
      <4>1. DOMAIN rows = 1 .. Len(rows)
        BY <2>1
      <4>2. ASSUME NEW r \in DOMAIN rows
            PROVE  r \in DOMAIN rows' /\ rows'[r] \in Info
        <5>1. r <= Len(overflow) /\ Len(overflow) + 1 - r \in 1 .. Len(overflow)
          BY <3>1, <3>3, <4>1
        <5> QED
          BY <2>1, <2>6, <5>1 DEF Clears, ClearRows
      <4>3. LiveRows(rows) \subseteq LiveRows(rows')
        BY <4>2 DEF LiveRows
      <4> QED
        BY <2>2, <3>1, <4>3
    <3> QED
      BY <3>1, <3>2, <3>3
  <2> QED
    BY <1>1, <2>3, <2>4, <2>5, <2>6, TableStep
<1>2. IInv /\ [Next]_vars => [Draws]_vars
  BY <1>1
<1> HIDE DEF Draws
<1>3. Spec => [][Draws]_vars
  BY <1>2, Invariance, PTL DEF Spec
<1> QED
  BY <1>3 DEF DeleteDrawsOnOverflow, Draws

(* d, j and k leave the cursor on an entry or, if there is none, nowhere;  *)
(* messages, r and n never turn its row vacant under it (tui.rs 809-849).  *)
THEOREM CursorStaysOnEntry == Spec => SelectionStaysLive
<1> DEFINE Stays == /\ selected \in LiveRows(rows)
                    /\ Len(rows') >= Len(rows)
                    => selected' \in LiveRows(rows') \cup {NoRow}
<1>1. ASSUME IInv, [Next]_vars PROVE Stays
  <2> SUFFICES ASSUME selected \in LiveRows(rows), Len(rows') >= Len(rows)
               PROVE  selected' \in LiveRows(rows') \cup {NoRow}
    OBVIOUS
  <2>1. rows \in Seq(Row) /\ overflow \in Seq(Info) /\ selected \in Nat
    BY <1>1, TableType DEF IInv, TypeOK
  <2>2. ASSUME selected' = selected, LiveRows(rows) \subseteq LiveRows(rows')
        PROVE  selected' \in LiveRows(rows') \cup {NoRow}
    BY <2>2
  <2>3. CASE LoopStep
    <3>1. CASE ReceiveInfo
      BY <1>1, <2>2, <3>1, ReceiveInfoAdds DEF Adds, ReceiveInfo
    <3>2. CASE Draw
      <4>1. selected \in 1 .. Len(rows)
        BY <2>1 DEF LiveRows
      <4>2. selected' = selected /\ rows' = rows
        BY <2>1, <3>2, <4>1 DEF Draw, RenderedSelection
      <4> QED
        BY <4>2
    <3>3. CASE ~ ReceiveInfo /\ ~ Draw
      BY <2>3, <3>3 DEF LoopStep, SkipUpdate, SendRequests, ReceiveFailure, ReceiveRejected,
                        EndDrain, PollTimesOut, table
    <3> QED
      BY <3>1, <3>2, <3>3
  <2>4. CASE UserStep
    <3>1. CASE PressDelete
      <4>1. CASE UNCHANGED table
        BY <4>1 DEF table
      <4>2. CASE ~ UNCHANGED table
        <5>1. rows' = MarkRow(rows, selected, overflow) /\ selected' = AfterDelete(rows', selected)
          BY <3>1, <4>2 DEF PressDelete, Panic
        <5>2. rows' \in Seq(Row)
          BY <2>1, <5>1, MarkType
        <5> QED
          BY <2>1, <5>1, <5>2, NextEntryIdxType, PrevEntryIdxType DEF AfterDelete
      <4> QED
        BY <4>1, <4>2
    <3>2. CASE PressClear
      BY <3>2 DEF PressClear
    <3>3. CASE PressMore
      BY <1>1, <2>2, <3>3, PressMoreAdds DEF Adds, PressMore
    <3>4. CASE PressFewer
      <4>1. CASE maxEntries = 0
        BY <3>4, <4>1 DEF PressFewer, Panic, table
      <4>2. CASE maxEntries # 0
        BY <2>2, <3>4, <4>2, <1>1, PressFewerShrinks, <2>1 DEF PressFewer, Keeps, Shrinks
      <4> QED
        BY <4>1, <4>2
    <3>5. CASE PressMenuKey \/ PressCommit \/ OtherEvent \/ PressQuit
      BY <3>5 DEF PressMenuKey, PressCommit, OtherEvent, PressQuit, table
    <3>6. ASSUME NEW shift \in BOOLEAN, PressDown(shift) \/ PressUp(shift)
          PROVE  selected' \in LiveRows(rows') \cup {NoRow}
      <4>1. \/ UNCHANGED table
            \/ rows' = rows /\ selected' \in {NextEntryIdx(rows, selected), PrevEntryIdx(rows, selected)}
        BY <3>6 DEF PressDown, PressUp, Panic
      <4> QED
        BY <2>1, <4>1, NextEntryIdxType, PrevEntryIdxType DEF table
    <3> QED
      BY <2>4, <3>1, <3>2, <3>3, <3>4, <3>5, <3>6 DEF UserStep
  <2>5. CASE ClientStep \/ UNCHANGED vars
    BY <2>5 DEF ClientStep, vars, table
  <2> QED
    BY <1>1, <2>3, <2>4, <2>5 DEF Next
<1>2. IInv /\ [Next]_vars => [Stays]_vars
  BY <1>1
<1> HIDE DEF Stays
<1>3. Spec => [][Stays]_vars
  BY <1>2, Invariance, PTL DEF Spec
<1> QED
  BY <1>3 DEF SelectionStaysLive, Stays
-----------------------------------------------------------------------------
(* Counting the copies of an Info: the places of a sequence that hold it.  *)
Holding(items, info) == {k \in DOMAIN items : items[k] = info}

LEMMA OccurrencesType ==
  ASSUME NEW T, NEW items \in Seq(T), NEW info
  PROVE  /\ Holding(items, info) \in SUBSET Nat
         /\ IsFiniteSet(Holding(items, info))
         /\ Occurrences(items, info) = Cardinality(Holding(items, info))
         /\ Occurrences(items, info) \in Nat
<1>1. IsFiniteSet(1 .. Len(items)) /\ DOMAIN items = 1 .. Len(items)
  BY FS_Interval
<1>2. Holding(items, info) \in SUBSET (1 .. Len(items))
  BY <1>1 DEF Holding
<1>3. IsFiniteSet(Holding(items, info))
  BY <1>1, <1>2, FS_Subset
<1> QED
  BY <1>2, <1>3, FS_CardinalityType DEF Holding, Occurrences

(* Fewer places, fewer copies. *)
LEMMA FewerPlaces ==
  ASSUME NEW T, NEW items \in Seq(T), NEW new \in Seq(T), NEW info,
         Holding(new, info) \subseteq Holding(items, info)
  PROVE  Occurrences(new, info) <= Occurrences(items, info)
BY OccurrencesType, FS_Subset

(* Cutting the sorted table keeps some of its entries, each once. *)
LEMMA CutCopies ==
  ASSUME NEW items \in Seq(Row), NEW count \in 0 .. Len(items), NEW info \in Info
  PROVE  Occurrences(SubSeq(SortRows(items), 1, count), info) <= Occurrences(items, info)
<1> DEFINE live  == LiveRows(items)
           cut   == SubSeq(SortRows(items), 1, count)
           f     == [k \in Holding(cut, info) |-> Kth(live, k)]
<1>1. DOMAIN items = 1 .. Len(items) /\ Len(items) \in Nat
  BY RowsAreFinite
<1>2. live \in SUBSET Nat /\ IsFiniteSet(live) /\ Cardinality(live) \in Nat
  BY <1>1, CountingRows DEF EntriesLen, LiveRows
<1>3. SortRows(items) \in Seq(Row) /\ Len(SortRows(items)) = Len(items)
  BY SortRowsType
<1>4. /\ cut \in Seq(Row) /\ Len(cut) = count
      /\ \A k \in 1 .. count : cut[k] = SortRows(items)[k]
  BY <1>1, <1>3
<1>5. ASSUME NEW k \in Holding(cut, info)
      PROVE  k \in 1 .. Cardinality(live) /\ Kth(live, k) \in Holding(items, info)
  <2>1. k \in 1 .. count /\ k \in DOMAIN items /\ SortRows(items)[k] = info
    BY <1>1, <1>4 DEF Holding
  <2>2. CASE k <= Cardinality(live)
    <3>1. k \in 1 .. Cardinality(live)
      BY <1>2, <2>1, <2>2
    <3>2. Kth(live, k) \in live
      BY <1>2, <3>1, KthType
    <3>3. items[Kth(live, k)] = info
      BY <2>1, <2>2 DEF SortRows
    <3> QED
      BY <3>1, <3>2, <3>3 DEF Holding, LiveRows
  <2>3. CASE ~ (k <= Cardinality(live))
    <3>1. VacantRows(items) # {}
      <4>1. VacantRows(items) = {} => live = DOMAIN items
        BY DEF VacantRows, LiveRows
      <4>2. Cardinality(DOMAIN items) = Len(items)
        BY RowsAreFinite
      <4> QED
        BY <1>1, <1>2, <2>1, <2>3, <4>1, <4>2
    <3>2. Min(VacantRows(items)) \in VacantRows(items)
      <4>1. VacantRows(items) \in SUBSET Nat
        BY <1>1 DEF VacantRows
      <4> QED
        BY <3>1, <4>1, MinOfRows
    <3>3. items[Min(VacantRows(items))] \notin Info
      BY <3>2 DEF VacantRows, LiveRows
    <3>4. SortRows(items)[k] \in {Struck, Blank, items[Min(VacantRows(items))]}
      BY <2>1, <2>3 DEF SortRows
    <3> QED
      BY <2>1, <3>3, <3>4, RowAssumption
  <2> QED
    BY <2>2, <2>3
<1>6. f \in Injection(Holding(cut, info), Holding(items, info))
  <2>1. f \in [Holding(cut, info) -> Holding(items, info)]
    BY <1>5
  <2>2. \A j, k \in Holding(cut, info) : f[j] = f[k] => j = k
    BY <1>2, <1>5, KthIsInjective
  <2> QED
    BY <2>1, <2>2 DEF Injection, IsInjective
<1>7. IsFiniteSet(Holding(items, info))
  BY OccurrencesType
<1>8. Cardinality(Holding(cut, info)) <= Cardinality(Holding(items, info))
  BY <1>6, <1>7, FS_Injection
<1> QED
  BY <1>4, <1>8, OccurrencesType

(* d takes the last overflow item to the row it clears. *)
LEMMA MarkCopies ==
  ASSUME NEW items \in Seq(Row), NEW spare \in Seq(Info), NEW row \in Nat, NEW info \in Info
  PROVE  Occurrences(MarkRow(items, row, spare), info)
           + Occurrences(MarkOverflow(items, row, spare), info)
         <= Occurrences(items, info) + Occurrences(spare, info)
<1> DEFINE new  == MarkRow(items, row, spare)
           left == MarkOverflow(items, row, spare)
           n    == Len(spare)
<1>1. new \in Seq(Row) /\ left \in Seq(Info)
  BY MarkType
<1>2. /\ Occurrences(items, info) \in Nat /\ Occurrences(spare, info) \in Nat
      /\ Occurrences(new, info) \in Nat /\ Occurrences(left, info) \in Nat
  <2> HIDE DEF new, left
  <2> QED
    BY <1>1, OccurrencesType
<1>3. ASSUME Holding(new, info) \subseteq Holding(items, info),
             Holding(left, info) \subseteq Holding(spare, info)
      PROVE  Occurrences(new, info) + Occurrences(left, info)
               <= Occurrences(items, info) + Occurrences(spare, info)
  <2> HIDE DEF new, left
  <2>1. Occurrences(new, info) <= Occurrences(items, info)
    BY <1>1, <1>3, FewerPlaces
  <2>2. Occurrences(left, info) <= Occurrences(spare, info)
    BY <1>1, <1>3, FewerPlaces
  <2> QED
    BY <1>2, <2>1, <2>2
<1>4. CASE row \notin LiveRows(items)
  BY <1>3, <1>4 DEF MarkRow, MarkOverflow
<1>5. CASE row \in LiveRows(items) /\ spare = <<>>
  <2>1. new = [items EXCEPT ![row] = Struck] /\ left = spare
    BY <1>5 DEF MarkRow, MarkOverflow
  <2>2. Holding(new, info) \subseteq Holding(items, info)
    BY <1>5, <2>1, RowAssumption DEF Holding, LiveRows
  <2> QED
    BY <1>3, <2>1, <2>2
<1>6. CASE row \in LiveRows(items) /\ spare # <<>>
  <2>1. new = [items EXCEPT ![row] = spare[n]] /\ left = SubSeq(spare, 1, n - 1)
    BY <1>6 DEF MarkRow, MarkOverflow, Last, Front
  <2>2. n \in Nat /\ n >= 1 /\ n \in DOMAIN spare /\ DOMAIN spare = 1 .. n
    BY <1>6
  <2>3. DOMAIN left = 1 .. n - 1 /\ \A k \in 1 .. n - 1 : left[k] = spare[k]
    <3>1. n - 1 \in 0 .. Len(spare)
      BY <2>2
    <3>2. \A m \in 0 .. Len(spare) : /\ DOMAIN SubSeq(spare, 1, m) = 1 .. m
                                     /\ \A k \in 1 .. m : SubSeq(spare, 1, m)[k] = spare[k]
      OBVIOUS
    <3> QED
      BY <2>1, <3>1, <3>2
  <2>4. CASE spare[n] # info
    <3>1. Holding(new, info) \subseteq Holding(items, info)
      BY <1>6, <2>1, <2>4 DEF Holding, LiveRows
    <3>2. Holding(left, info) \subseteq Holding(spare, info)
      BY <2>2, <2>3 DEF Holding
    <3> QED
      BY <1>3, <3>1, <3>2
  <2>5. CASE spare[n] = info
    <3>1. Holding(new, info) \in SUBSET (Holding(items, info) \cup {row})
      BY <2>1 DEF Holding
    <3>2. Holding(left, info) = Holding(spare, info) \ {n} /\ n \in Holding(spare, info)
      BY <2>2, <2>3, <2>5 DEF Holding
    <3>3. Occurrences(new, info) <= Occurrences(items, info) + 1
      <4> HIDE DEF new
      <4>1. /\ IsFiniteSet(Holding(items, info) \cup {row})
            /\ Cardinality(Holding(items, info) \cup {row}) <= Cardinality(Holding(items, info)) + 1
            /\ Cardinality(Holding(items, info) \cup {row}) \in Nat
        <5>1. IsFiniteSet(Holding(items, info)) /\ Cardinality(Holding(items, info)) \in Nat
          BY OccurrencesType, FS_CardinalityType
        <5>2. /\ IsFiniteSet(Holding(items, info) \cup {row})
              /\ Cardinality(Holding(items, info) \cup {row}) =
                   IF row \in Holding(items, info) THEN Cardinality(Holding(items, info))
                                                  ELSE Cardinality(Holding(items, info)) + 1
          BY <5>1, FS_AddElement, Zenon
        <5> QED
          BY <5>1, <5>2
      <4>2. Cardinality(Holding(new, info)) <= Cardinality(Holding(items, info) \cup {row})
        BY <3>1, <4>1, FS_Subset
      <4>3. /\ Occurrences(items, info) = Cardinality(Holding(items, info))
            /\ Occurrences(new, info) = Cardinality(Holding(new, info))
        BY <1>1, OccurrencesType
      <4> QED
        BY <1>2, <4>1, <4>2, <4>3
    <3>4. Occurrences(left, info) = Occurrences(spare, info) - 1
      <4> HIDE DEF left
      <4>1. IsFiniteSet(Holding(spare, info))
        BY OccurrencesType
      <4>2. Cardinality(Holding(left, info)) = Cardinality(Holding(spare, info)) - 1
        BY <3>2, <4>1, FS_RemoveElement
      <4> QED
        BY <1>1, <4>2, OccurrencesType
    <3> QED
      BY <1>2, <3>3, <3>4
  <2> QED
    BY <2>4, <2>5
<1> QED
  BY <1>4, <1>5, <1>6

(* r takes as many items off the overflow as it puts into rows. *)
LEMMA ClearCopies ==
  ASSUME NEW items \in Seq(Row), NEW spare \in Seq(Info), NEW info \in Info
  PROVE  Occurrences(ClearRows(items, spare), info)
           + Occurrences(ClearOverflow(items, spare), info)
         <= Occurrences(items, info) + Occurrences(spare, info)
<1> DEFINE new    == ClearRows(items, spare)
           left   == ClearOverflow(items, spare)
           n      == Len(spare)
           kept   == Holding(left, info)
           popped == Holding(spare, info) \ kept
           f      == [r \in Holding(new, info) |-> n + 1 - r]
<1>1. new \in Seq(Row) /\ left \in Seq(Info)
  BY ClearType
<1>2. n \in Nat /\ Len(items) \in Nat /\ DOMAIN spare = 1 .. n /\ DOMAIN items = 1 .. Len(items)
  OBVIOUS
<1>3. \A k \in DOMAIN left : k \in 1 .. n /\ k <= n - Len(items) /\ left[k] = spare[k]
  BY <1>2 DEF ClearOverflow
<1>4. kept \in SUBSET Holding(spare, info)
  BY <1>2, <1>3 DEF Holding
<1>5. ASSUME NEW r \in Holding(new, info)
      PROVE  r \in 1 .. Len(items) /\ n + 1 - r \in popped
  <2>1. r \in 1 .. Len(items) /\ new[r] = info
    BY <1>2 DEF Holding, ClearRows
  <2>2. r <= n
    BY <1>2, <2>1, RowAssumption DEF ClearRows
  <2>3. spare[n + 1 - r] = info /\ n + 1 - r \in 1 .. n
    BY <1>2, <2>1, <2>2 DEF ClearRows
  <2>4. ~ (n + 1 - r <= n - Len(items))
    BY <1>2, <2>1
  <2> QED
    BY <1>2, <1>3, <2>1, <2>3, <2>4 DEF Holding
<1>6. f \in Injection(Holding(new, info), popped)
  <2>1. f \in [Holding(new, info) -> popped]
    BY <1>5
  <2>2. \A j, k \in Holding(new, info) : f[j] = f[k] => j = k
    BY <1>2, <1>5
  <2> QED
    BY <2>1, <2>2 DEF Injection, IsInjective
<1> HIDE DEF f
<1>7. IsFiniteSet(Holding(spare, info)) /\ Cardinality(Holding(spare, info)) \in Nat
  BY OccurrencesType, FS_CardinalityType
<1>8. /\ IsFiniteSet(popped)
      /\ Cardinality(popped) = Cardinality(Holding(spare, info)) - Cardinality(kept)
  <2>1. Holding(spare, info) \cap kept = kept
    BY <1>4
  <2> HIDE DEF kept
  <2> QED
    BY <1>7, <2>1, FS_Difference
<1>9. Cardinality(Holding(new, info)) <= Cardinality(popped)
  BY <1>6, <1>8, FS_Injection
<1>10. Occurrences(new, info) = Cardinality(Holding(new, info)) /\ Occurrences(new, info) \in Nat
  <2> HIDE DEF new
  <2> QED
    BY <1>1, OccurrencesType
<1>11. Occurrences(left, info) = Cardinality(kept) /\ Occurrences(left, info) \in Nat
  <2> HIDE DEF left
  <2> QED
    BY <1>1, OccurrencesType
<1>12. /\ Occurrences(spare, info) = Cardinality(Holding(spare, info))
       /\ Occurrences(items, info) \in Nat
  BY OccurrencesType
<1>13. Occurrences(new, info) + Occurrences(left, info) <= Occurrences(spare, info)
  <2> HIDE DEF new, left, kept, popped
  <2> QED
    BY <1>7, <1>8, <1>9, <1>10, <1>11, <1>12
<1> QED
  BY <1>7, <1>10, <1>11, <1>12, <1>13

(* Only receiving an Info adds a copy of it to the table and its overflow. *)
LEMMA CopiesStep ==
  ASSUME IInv, [Next]_vars, NEW info \in Info,
         ReceiveInfo => Head(inbox) # info
  PROVE  Copies(info)' <= Copies(info)
<1>1. /\ rows \in Seq(Row) /\ Len(rows) = maxEntries /\ maxEntries \in Nat
      /\ overflow \in Seq(Info) /\ selected \in Nat /\ info \in Info
  BY TableType DEF IInv, TypeOK
<1>2. /\ Occurrences(rows, info) \in Nat /\ Occurrences(overflow, info) \in Nat
  BY <1>1, OccurrencesType
<1>3. ASSUME rows' \in Seq(Row), overflow' \in Seq(Info),
             Holding(rows', info) \subseteq Holding(rows, info),
             Holding(overflow', info) \subseteq Holding(overflow, info)
      PROVE  Copies(info)' <= Copies(info)
  <2>1. Occurrences(rows', info) <= Occurrences(rows, info)
    BY <1>1, <1>3, FewerPlaces
  <2>2. Occurrences(overflow', info) <= Occurrences(overflow, info)
    BY <1>1, <1>3, FewerPlaces
  <2>3. Occurrences(rows', info) \in Nat /\ Occurrences(overflow', info) \in Nat
    BY <1>3, OccurrencesType
  <2> QED
    BY <1>2, <2>1, <2>2, <2>3 DEF Copies
<1>4. CASE Keeps
  BY <1>1, <1>3, <1>4 DEF Keeps
<1>5. CASE ReceiveInfo
  <2>1. Head(inbox) # info /\ Head(inbox) \in Info
    BY <1>5 DEF ReceiveInfo
  <2>2. CASE VacantRows(rows) # {}
    <3>1. rows' = InsertInfo(rows, Head(inbox)) /\ overflow' = overflow
      BY <1>5, <2>2 DEF ReceiveInfo
    <3>2. rows' \in Seq(Row)
      BY <1>1, <2>1, <2>2, <3>1, InsertInfoType
    <3>3. Holding(rows', info) \subseteq Holding(rows, info)
      BY <2>1, <3>1 DEF InsertInfo, Holding
    <3> QED
      BY <1>1, <1>3, <3>1, <3>2, <3>3
  <2>3. CASE VacantRows(rows) = {}
    <3>1. rows' = rows /\ overflow' = Append(overflow, Head(inbox))
      BY <1>5, <2>3 DEF ReceiveInfo
    <3>2. Holding(overflow', info) \subseteq Holding(overflow, info)
      BY <1>1, <2>1, <3>1 DEF Holding
    <3> QED
      BY <1>1, <1>3, <2>1, <3>1, <3>2
  <2> QED
    BY <2>2, <2>3
<1>6. CASE PressMore
  <2>1. Adds
    BY <1>6, PressMoreAdds
  <2>2. overflow' = overflow
    BY <1>6 DEF PressMore
  <2>3. rows' = [r \in 1 .. maxEntries + 1 |-> IF r <= Len(rows) THEN rows[r] ELSE Blank]
    BY <1>1, <1>6 DEF PressMore, SetMaxEntries, Resize
  <2>4. Holding(rows', info) \subseteq Holding(rows, info)
    BY <1>1, <2>3, RowAssumption DEF Holding
  <2> QED
    BY <1>1, <1>3, <2>1, <2>2, <2>4 DEF Adds
<1>7. CASE PressFewer
  <2>1. CASE maxEntries = 0
    BY <1>4, <1>7, <2>1 DEF PressFewer, Panic, table, Keeps
  <2>2. CASE maxEntries # 0
    <3>1. rows' = SubSeq(SortRows(rows), 1, maxEntries - 1) /\ overflow' = overflow
      BY <1>1, <1>7, <2>2 DEF PressFewer, SetMaxEntries, Resize
    <3>2. maxEntries - 1 \in 0 .. Len(rows)
      BY <1>1, <2>2
    <3>3. Occurrences(rows', info) <= Occurrences(rows, info)
      BY <1>1, <3>1, <3>2, CutCopies
    <3>4. rows' \in Seq(Row)
      <4>1. SortRows(rows) \in Seq(Row) /\ Len(SortRows(rows)) = Len(rows)
        BY <1>1, SortRowsType
      <4>2. SubSeq(SortRows(rows), 1, maxEntries - 1) \in Seq(Row)
        BY <3>2, <4>1
      <4> QED
        BY <3>1, <4>2
    <3>5. Occurrences(rows', info) \in Nat
      BY <3>4, OccurrencesType
    <3> QED
      BY <1>2, <3>1, <3>3, <3>5 DEF Copies
  <2> QED
    BY <2>1, <2>2
<1>8. CASE Deletes
  <2>1. Occurrences(rows', info) + Occurrences(overflow', info)
          <= Occurrences(rows, info) + Occurrences(overflow, info)
    BY <1>1, <1>8, MarkCopies DEF Deletes
  <2> QED
    BY <2>1 DEF Copies
<1>9. CASE Clears
  <2>1. Occurrences(rows', info) + Occurrences(overflow', info)
          <= Occurrences(rows, info) + Occurrences(overflow, info)
    BY <1>1, <1>9, ClearCopies DEF Clears
  <2> QED
    BY <2>1 DEF Copies
<1> QED
  BY <1>4, <1>5, <1>6, <1>7, <1>8, <1>9, TableActions

(* No step puts a further copy of a rejected Info into the table or the    *)
(* overflow: update filters every item before insert_info, and no key or   *)
(* change of size invents or repeats an entry (tui.rs 80, 272-305, 341-358)*)
THEOREM RejectedStayOut == Spec => RejectedNeverEnters
<1> DEFINE StaysOut == \A info \in rejects : Copies(info)' <= Copies(info)
<1>1. ASSUME IInv, [Next]_vars PROVE StaysOut
  <2> SUFFICES ASSUME NEW info \in rejects PROVE Copies(info)' <= Copies(info)
    OBVIOUS
  <2>1. info \in Info
    BY <1>1 DEF IInv, TypeOK
  <2>2. ReceiveInfo => Head(inbox) # info
    BY DEF ReceiveInfo
  <2> QED
    BY <1>1, <2>1, <2>2, CopiesStep
<1>2. IInv /\ [Next]_vars => [StaysOut]_vars
  BY <1>1
<1> HIDE DEF StaysOut
<1>3. Spec => [][StaysOut]_vars
  BY <1>2, Invariance, PTL DEF Spec
<1> QED
  BY <1>3 DEF RejectedNeverEnters, StaysOut
=============================================================================
