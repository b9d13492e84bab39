-------------------------- MODULE DocsfinderProofs --------------------------
(***************************************************************************)
(* The program, for any number of tasks, crates, connections and rows:     *)
(* the interface behaves with the client's tasks as it does with an        *)
(* abstract CrateSource, so what BrowserProofs proves holds for it.        *)
(***************************************************************************)
EXTENDS Docsfinder, ClientProofs

BP == INSTANCE BrowserProofs WITH Info <- Crate, asked <- Outstanding

(* What a step of the program does to the client: a step of the client, or *)
(* some requests that come at once.                                        *)
Requests(n) ==
  /\ requests' = requests + n
  /\ UNCHANGED <<seen, name, inbox, discovery, fetch>>

LEMMA ClientSide ==
  ASSUME [Step]_system
  PROVE  [Next]_vars \/ \E n \in Nat : Requests(n)
<1>1. CASE SendRequests
  BY <1>1, ClientAssumption DEF SendRequests, Requests
<1>2. CASE Receive \/ LoopAlone \/ Key \/ Serve \/ ServePanics \/ UNCHANGED system
  BY <1>2 DEF Receive, LoopAlone, Key, Serve, ServePanics, Next, system
<1> QED
  BY <1>1, <1>2 DEF Step, Loop

LEMMA RequestsCInv == ASSUME NEW n \in Nat, CInv, Requests(n) PROVE CInv'
<1> USE DEF CInv, Requests, discovery, fetch
<1>1. Control'
  BY DEF Control
<1>2. UNCHANGED <<name, dpc, dHeld, dValid, dCreating, fpc, fHeld, fValid, fCreating>>
  OBVIOUS
<1>3. \A t \in Task : DiscoveryOwns(t)' /\ FetchOwns(t)' /\ OneRequest(t)'
  BY <1>2 DEF DiscoveryOwns, FetchOwns, OneRequest, Looking, D!Using, F!Using
<1> QED
  BY <1>1, <1>3

(* Requests that come at once are so many open requests more: what         *)
(* update_iter sends is what Browser takes for asked.                      *)
LEMMA RequestsOpen ==
  ASSUME NEW n \in Nat, Control, Requests(n)
  PROVE  Outstanding' = Outstanding + n
<1>1. Looking' = Looking /\ Fetching' = Fetching
  BY DEF Requests, discovery, fetch, Looking, Fetching
<1>2. Cardinality(Looking)' = Cardinality(Looking) /\ Cardinality(Fetching)' = Cardinality(Fetching)
  BY <1>1
<1> QED
  BY <1>2, Counting DEF Control, Requests, Outstanding

LEMMA SystemPoolSteps == [Step]_system => [DP!Next]_dpool /\ [FP!Next]_fpool
<1> SUFFICES ASSUME [Step]_system PROVE [DP!Next]_dpool /\ [FP!Next]_fpool
  OBVIOUS
<1>1. CASE \E n \in Nat : Requests(n)
  BY <1>1 DEF Requests, discovery, fetch, dpool, fpool
<1> QED
  BY <1>1, ClientSide, PoolSteps

LEMMA SystemCInv == CInv /\ PoolTypes /\ [Step]_system => CInv'
BY ClientSide, RequestsCInv, StepCInv

LEMMA SystemInvariance == System => [](CInv /\ PoolTypes)
<1>1. Start => CInv /\ DP!Init /\ FP!Init
  BY InitCInv, PoolsStart DEF Start, Init
<1>2. System => DP!Spec /\ FP!Spec
  BY <1>1, SystemPoolSteps, PTL
     DEF System, DP!Spec, FP!Spec, dpool, fpool, DP!pool, FP!pool
<1> QED
  BY <1>1, <1>2, SystemCInv, PoolsTyped, PoolAssumptions, DP!PoolInvariance,
     FP!PoolInvariance, PTL DEF System
-----------------------------------------------------------------------------
(* A step of the client that CrateSource allows and that is not the        *)
(* interface's own is the ClientStep of Browser.                           *)
LEMMA WorksServe ==
  ASSUME CInv, PoolTypes, NEW t \in Task, Works(t)
  PROVE  \/ UNCHANGED <<Outstanding, inbox>>
         \/ \E info \in Crate : Source!Deliver(info)
         \/ Source!Complain
<1>1. CASE Spin(t) \/ Insert(t) \/ Names(t) \/ Check(t) \/ Return(t) \/ Fetched(t)
  BY <1>1, SpinStutters, InsertStutters, PlaceStutters
<1>2. CASE Deliver(t)
  BY <1>2, DeliverAnswers
<1>3. CASE DiscoveryConnects(t) \/ DiscoveryFails(t) \/ FetchConnects(t) \/ FetchFails(t)
  BY <1>3, TroubleComplains
<1> QED
  BY <1>1, <1>2, <1>3 DEF Works

(* Those steps in terms of Browser's own view of the two channels. *)
LEMMA ServeIsClientStep ==
  ASSUME CInv, PoolTypes, Serve \/ ServePanics
  PROVE  UI!ClientStep \/ UNCHANGED UI!vars
<1>1. pc \in UI!Running /\ UNCHANGED interface
  BY DEF Serve, ServePanics
<1>2. \/ UNCHANGED <<Outstanding, inbox>>
      \/ \E info \in Crate : Source!Deliver(info)
      \/ Source!Complain
      \/ Source!Lose
  BY WorksServe, PanicsLose DEF Serve, ServePanics
<1>3. CASE UNCHANGED <<Outstanding, inbox>>
  BY <1>1, <1>3 DEF interface, UI!vars, UI!table, UI!counts, UI!channel
<1>4. CASE (\E info \in Crate : Source!Deliver(info)) \/ Source!Complain \/ Source!Lose
  BY <1>1, <1>4 DEF interface, UI!ClientStep, UI!table, UI!counts,
                    UI!Source!Deliver, UI!Source!Complain, UI!Source!Lose,
                    Source!Deliver, Source!Complain, Source!Lose
<1> QED
  BY <1>2, <1>3, <1>4

LEMMA SystemStep == CInv /\ PoolTypes /\ [Step]_system => [UI!Next]_(UI!vars)
<1> SUFFICES ASSUME CInv, PoolTypes, [Step]_system PROVE [UI!Next]_(UI!vars)
  OBVIOUS
<1>1. CASE Loop
  BY <1>1 DEF Loop, SendRequests, Receive, LoopAlone, UI!Next, UI!LoopStep
<1>2. CASE Key
  BY <1>2 DEF Key, UI!Next
<1>3. CASE Serve \/ ServePanics
  BY <1>3, ServeIsClientStep DEF UI!Next
<1>4. CASE UNCHANGED system
  <2>1. UNCHANGED <<Looking, Fetching, requests, inbox>>
    BY <1>4 DEF system, vars, shared, discovery, fetch, Looking, Fetching
  <2> QED
    BY <1>4, <2>1, Unmoved DEF system, interface, UI!vars, UI!table, UI!counts, UI!channel
<1> QED
  BY <1>1, <1>2, <1>3, <1>4 DEF Step

(* The program is the interface of Browser, whatever the tasks, the pools  *)
(* and the race for a crate do between its steps: a message it receives is *)
(* the answer to a request or the report of an open one (main.rs 36-47).   *)
THEOREM ProgramIsBrowser == System => ImplementsBrowser
<1>1. Start => UI!Init
  BY DEF Start
<1> QED
  BY <1>1, SystemInvariance, SystemStep, PTL DEF System, ImplementsBrowser, UI!Spec
-----------------------------------------------------------------------------
(* What BrowserProofs proves of Browser is proved of this interface: its   *)
(* copy of Browser (BP) has the same definitions as the one of Docsfinder. *)
LEMMA BrowserAssumptions == BP!RowAssumption /\ BP!BrowserAssumption
BY DocsfinderAssumption
   DEF UI!RowAssumption, BP!RowAssumption, UI!BrowserAssumption, BP!BrowserAssumption,
       UI!SmallSort, BP!SmallSort

LEMMA SameSize == \A S : UI!Cardinality(S) = BP!Cardinality(S)
BY DEF UI!Cardinality, BP!Cardinality

LEMMA SameTables ==
  ASSUME NEW items
  PROVE  /\ UI!LiveRows(items) = BP!LiveRows(items)
         /\ UI!VacantRows(items) = BP!VacantRows(items)
         /\ UI!EntriesLen(items) = BP!EntriesLen(items)
<1>1. UI!LiveRows(items) = BP!LiveRows(items)
  BY DEF UI!LiveRows, BP!LiveRows
<1>2. UI!VacantRows(items) = BP!VacantRows(items)
  BY <1>1 DEF UI!VacantRows, BP!VacantRows
<1> QED
  BY <1>1, <1>2, SameSize DEF UI!EntriesLen, BP!EntriesLen

LEMMA SameOperations ==
  ASSUME NEW items, NEW spare, NEW row, NEW item, NEW count
  PROVE  /\ UI!NewRows(count) = BP!NewRows(count)
         /\ UI!InsertInfo(items, item) = BP!InsertInfo(items, item)
         /\ UI!NextEntryIdx(items, row) = BP!NextEntryIdx(items, row)
         /\ UI!PrevEntryIdx(items, row) = BP!PrevEntryIdx(items, row)
         /\ UI!AfterDelete(items, row) = BP!AfterDelete(items, row)
         /\ UI!MarkRow(items, row, spare) = BP!MarkRow(items, row, spare)
         /\ UI!MarkOverflow(items, row, spare) = BP!MarkOverflow(items, row, spare)
         /\ UI!ClearRows(items, spare) = BP!ClearRows(items, spare)
         /\ UI!ClearOverflow(items, spare) = BP!ClearOverflow(items, spare)
         /\ UI!Resize(items, count) = BP!Resize(items, count)
<1>1. \A S : UI!Min(S) = BP!Min(S) /\ UI!Max(S) = BP!Max(S)
  BY DEF UI!Min, BP!Min, UI!Max, BP!Max
<1>2. UI!NewRows(count) = BP!NewRows(count) /\ UI!InsertInfo(items, item) = BP!InsertInfo(items, item)
  BY <1>1, SameTables DEF UI!NewRows, BP!NewRows, UI!InsertInfo, BP!InsertInfo
<1>3. /\ UI!NextEntryIdx(items, row) = BP!NextEntryIdx(items, row)
      /\ UI!PrevEntryIdx(items, row) = BP!PrevEntryIdx(items, row)
  <2> DEFINE below == {r \in UI!LiveRows(items) : r > row}
             above == {r \in UI!LiveRows(items) : r < row}
  <2>1. /\ below = {r \in BP!LiveRows(items) : r > row}
        /\ above = {r \in BP!LiveRows(items) : r < row}
    BY SameTables
  <2>2. /\ UI!Min(below) = BP!Min(below) /\ UI!Max(above) = BP!Max(above)
        /\ UI!Min(UI!LiveRows(items)) = BP!Min(BP!LiveRows(items))
        /\ UI!Max(UI!LiveRows(items)) = BP!Max(BP!LiveRows(items))
    BY <1>1, SameTables
  <2>3. UI!NextEntryIdx(items, row) = BP!NextEntryIdx(items, row)
    <3>1. UI!NextEntryIdx(items, row) = IF below # {} THEN UI!Min(below) ELSE
            IF UI!LiveRows(items) # {} THEN UI!Min(UI!LiveRows(items)) ELSE 0
      BY DEF UI!NextEntryIdx, UI!NoRow
    <3>2. BP!NextEntryIdx(items, row) = IF below # {} THEN BP!Min(below) ELSE
            IF BP!LiveRows(items) # {} THEN BP!Min(BP!LiveRows(items)) ELSE 0
      BY <2>1 DEF BP!NextEntryIdx, BP!NoRow
    <3> QED
      BY <2>2, <3>1, <3>2, SameTables
  <2>4. UI!PrevEntryIdx(items, row) = BP!PrevEntryIdx(items, row)
    <3>1. UI!PrevEntryIdx(items, row) = IF above # {} THEN UI!Max(above) ELSE
            IF UI!LiveRows(items) # {} THEN UI!Max(UI!LiveRows(items)) ELSE 0
      BY DEF UI!PrevEntryIdx, UI!NoRow
    <3>2. BP!PrevEntryIdx(items, row) = IF above # {} THEN BP!Max(above) ELSE
            IF BP!LiveRows(items) # {} THEN BP!Max(BP!LiveRows(items)) ELSE 0
      BY <2>1 DEF BP!PrevEntryIdx, BP!NoRow
    <3> QED
      BY <2>2, <3>1, <3>2, SameTables
  <2> QED
    BY <2>3, <2>4
<1>4. UI!AfterDelete(items, row) = BP!AfterDelete(items, row)
  BY <1>3, SameTables DEF UI!AfterDelete, BP!AfterDelete, UI!IsFirstEntry, BP!IsFirstEntry
<1>5. /\ UI!MarkRow(items, row, spare) = BP!MarkRow(items, row, spare)
      /\ UI!MarkOverflow(items, row, spare) = BP!MarkOverflow(items, row, spare)
  BY SameTables DEF UI!MarkRow, BP!MarkRow, UI!MarkOverflow, BP!MarkOverflow,
     UI!Last, BP!Last, UI!Front, BP!Front
<1>6. /\ UI!ClearRows(items, spare) = BP!ClearRows(items, spare)
      /\ UI!ClearOverflow(items, spare) = BP!ClearOverflow(items, spare)
  BY DEF UI!ClearRows, BP!ClearRows, UI!ClearOverflow, BP!ClearOverflow
<1>7. UI!Resize(items, count) = BP!Resize(items, count)
  <2>1. \A S, k : UI!Kth(S, k) = BP!Kth(S, k)
    BY SameSize DEF UI!Kth, BP!Kth
  <2>2. UI!SortRows(items) = BP!SortRows(items)
    BY <1>1, <2>1, SameTables, SameSize DEF UI!SortRows, BP!SortRows
  <2> QED
    BY <2>2 DEF UI!Resize, BP!Resize
<1> QED
  BY <1>2, <1>3, <1>4, <1>5, <1>6, <1>7

LEMMA SameInit == UI!Init => BP!Init
BY SameOperations DEF UI!Init, BP!Init, UI!Source!Init, BP!Source!Init, UI!NoRow, BP!NoRow

LEMMA SameStep == [UI!Next]_(UI!vars) => [BP!Next]_(BP!vars)
<1>0. SUFFICES ASSUME UI!Next PROVE BP!Next
  BY DEF UI!vars, BP!vars, UI!table, BP!table, UI!counts, BP!counts, UI!channel, BP!channel
<1> USE DEF UI!table, BP!table, UI!counts, BP!counts, UI!channel, BP!channel, UI!NoRow, BP!NoRow,
            UI!Handled, BP!Handled, UI!Panic, BP!Panic, UI!Notify, BP!Notify, UI!Monus, BP!Monus,
            UI!ChangesMenu, BP!ChangesMenu
<1>1. CASE UI!LoopStep
  <2>1. UI!Draw => BP!Draw
    BY DEF UI!Draw, BP!Draw, UI!RenderedSelection, BP!RenderedSelection
  <2>2. UI!SkipUpdate => BP!SkipUpdate
    BY DEF UI!SkipUpdate, BP!SkipUpdate
  <2>3. UI!SendRequests => BP!SendRequests
    BY DEF UI!SendRequests, BP!SendRequests, UI!Source!Ask, BP!Source!Ask, UI!ToSend, BP!ToSend
  <2>4. UI!ReceiveFailure \/ UI!ReceiveRejected => BP!ReceiveFailure \/ BP!ReceiveRejected
    BY DEF UI!ReceiveFailure, BP!ReceiveFailure, UI!ReceiveRejected, BP!ReceiveRejected,
       UI!Source!Take, BP!Source!Take
  <2>5. UI!ReceiveInfo => BP!ReceiveInfo
    BY SameTables, SameOperations DEF UI!ReceiveInfo, BP!ReceiveInfo, UI!Source!Take, BP!Source!Take
  <2>6. UI!EndDrain => BP!EndDrain
    BY SameTables DEF UI!EndDrain, BP!EndDrain
  <2>7. UI!PollTimesOut => BP!PollTimesOut
    BY DEF UI!PollTimesOut, BP!PollTimesOut, UI!Blocked, BP!Blocked
  <2> QED
    BY <1>1, <2>1, <2>2, <2>3, <2>4, <2>5, <2>6, <2>7 DEF UI!LoopStep, BP!LoopStep, BP!Next
<1>2. CASE UI!UserStep
  <2> USE DEF UI!NextPanics, BP!NextPanics, UI!SlicePanics, BP!SlicePanics,
              UI!SetReceivedCount, BP!SetReceivedCount
  <2>1. UI!PressQuit \/ UI!PressMenuKey \/ UI!PressCommit \/ UI!OtherEvent
          => BP!PressQuit \/ BP!PressMenuKey \/ BP!PressCommit \/ BP!OtherEvent
    BY DEF UI!PressQuit, BP!PressQuit, UI!PressMenuKey, BP!PressMenuKey, UI!PressCommit,
       BP!PressCommit, UI!OtherEvent, BP!OtherEvent
  <2>2. ASSUME NEW shift \in BOOLEAN, UI!PressDown(shift) \/ UI!PressUp(shift)
        PROVE  BP!PressDown(shift) \/ BP!PressUp(shift)
    BY <2>2, SameOperations DEF UI!PressDown, BP!PressDown, UI!PressUp, BP!PressUp
  <2>3. UI!PressDelete => BP!PressDelete
    BY SameTables, SameOperations DEF UI!PressDelete, BP!PressDelete
  <2>4. UI!PressClear => BP!PressClear
    BY SameTables, SameOperations DEF UI!PressClear, BP!PressClear
  <2>5. UI!PressMore \/ UI!PressFewer => BP!PressMore \/ BP!PressFewer
    BY SameTables, SameOperations DEF UI!PressMore, BP!PressMore, UI!PressFewer, BP!PressFewer,
       UI!SetMaxEntries, BP!SetMaxEntries
  <2> QED
    BY <1>2, <2>1, <2>2, <2>3, <2>4, <2>5 DEF UI!UserStep, BP!UserStep, BP!Next
<1>3. CASE UI!ClientStep
  BY <1>3 DEF UI!ClientStep, BP!ClientStep, UI!Running, BP!Running, UI!Source!Deliver,
     BP!Source!Deliver, UI!Source!Complain, BP!Source!Complain, UI!Source!Lose, BP!Source!Lose,
     BP!Next
<1> QED
  BY <1>0, <1>1, <1>2, <1>3 DEF UI!Next

LEMMA ProgramIsProvedBrowser == System => BP!Spec
<1>1. UI!Spec => BP!Spec
  BY SameInit, SameStep, PTL DEF UI!Spec, BP!Spec
<1> QED
  BY <1>1, ProgramIsBrowser, PTL DEF ImplementsBrowser

LEMMA BrowserInvariance == System => []BP!IInv
BY ProgramIsProvedBrowser, BrowserAssumptions, BP!Invariance, PTL

(* The interface of the program counts right, does not index beyond the    *)
(* table and waits for a key only when no row is vacant, whatever the      *)
(* tasks, the pools and the network do meanwhile (tui.rs 747-788).         *)
THEOREM ProgramLoopIsRight ==
  System => [](UI!CountsExact /\ UI!NoIndexPanic /\ UI!BlocksOnlyWhenFull)
<1>1. BP!CountsExact => UI!CountsExact
  BY SameTables DEF UI!CountsExact, BP!CountsExact
<1>2. BP!NoIndexPanic => UI!NoIndexPanic
  BY DEF UI!NoIndexPanic, BP!NoIndexPanic
<1>3. BP!BlocksOnlyWhenFull => UI!BlocksOnlyWhenFull
  BY SameTables DEF UI!BlocksOnlyWhenFull, BP!BlocksOnlyWhenFull, UI!Blocked, BP!Blocked
<1> QED
  BY <1>1, <1>2, <1>3, ProgramIsProvedBrowser, BrowserAssumptions, BP!CountsAreExact,
     BP!NeverIndexPanics, BP!NeverBlocksOnVacantRows, PTL

(* Its table keeps what it should through every step of the program: a     *)
(* burst of requests fits the vacant rows, the overflow goes to the table  *)
(* and before entries vanish, the cursor stays on an entry, and nothing    *)
(* that the filters reject gets in (tui.rs 80-111, 280-298, 814-822).      *)
THEOREM ProgramTableIsRight ==
  System => /\ UI!BurstFitsVacancies
            /\ UI!OverflowLeavesToRows
            /\ UI!DeleteDrawsOnOverflow
            /\ UI!SelectionStaysLive
            /\ UI!RejectedNeverEnters
<1>1. \A items : /\ UI!LiveRows(items) = BP!LiveRows(items)
                /\ UI!VacantRows(items) = BP!VacantRows(items)
                /\ UI!EntriesLen(items) = BP!EntriesLen(items)
                /\ UI!Range(items) = BP!Range(items)
  BY SameTables DEF UI!Range, BP!Range
<1>2. UI!vars' = UI!vars <=> BP!vars' = BP!vars
  BY DEF UI!vars, BP!vars, UI!table, BP!table, UI!counts, BP!counts, UI!channel, BP!channel
<1>3. BP!BurstFitsVacancies => UI!BurstFitsVacancies
  <2>1. [Outstanding' - Outstanding <= BP!Cardinality(BP!VacantRows(rows))]_(BP!vars)
          => [Outstanding' - Outstanding <= UI!Cardinality(UI!VacantRows(rows))]_(UI!vars)
    BY <1>1, <1>2, SameSize
  <2> QED
    BY <2>1, PTL DEF UI!BurstFitsVacancies, BP!BurstFitsVacancies
<1>4. BP!OverflowLeavesToRows => UI!OverflowLeavesToRows
  <2>1. [\A k \in DOMAIN overflow : k > Len(overflow') => overflow[k] \in BP!Range(rows')]_(BP!vars)
          => [\A k \in DOMAIN overflow : k > Len(overflow') => overflow[k] \in UI!Range(rows')]_(UI!vars)
    BY <1>1, <1>2
  <2> QED
    BY <2>1, PTL DEF UI!OverflowLeavesToRows, BP!OverflowLeavesToRows
<1>5. BP!DeleteDrawsOnOverflow => UI!DeleteDrawsOnOverflow
  <2>1. [/\ BP!EntriesLen(rows') < BP!EntriesLen(rows)
         /\ Len(rows') >= Len(rows)
         => overflow' = <<>>]_(BP!vars)
          => [/\ UI!EntriesLen(rows') < UI!EntriesLen(rows)
              /\ Len(rows') >= Len(rows)
              => overflow' = <<>>]_(UI!vars)
    BY <1>1, <1>2
  <2> QED
    BY <2>1, PTL DEF UI!DeleteDrawsOnOverflow, BP!DeleteDrawsOnOverflow
<1>6. BP!SelectionStaysLive => UI!SelectionStaysLive
  <2>1. [/\ selected \in BP!LiveRows(rows)
         /\ Len(rows') >= Len(rows)
         => selected' \in BP!LiveRows(rows') \cup {BP!NoRow}]_(BP!vars)
          => [/\ selected \in UI!LiveRows(rows)
              /\ Len(rows') >= Len(rows)
              => selected' \in UI!LiveRows(rows') \cup {UI!NoRow}]_(UI!vars)
    BY <1>1, <1>2 DEF UI!NoRow, BP!NoRow
  <2> QED
    BY <2>1, PTL DEF UI!SelectionStaysLive, BP!SelectionStaysLive
<1>7. BP!RejectedNeverEnters => UI!RejectedNeverEnters
  <2>1. \A items, info : UI!Occurrences(items, info) = BP!Occurrences(items, info)
    BY SameSize DEF UI!Occurrences, BP!Occurrences
  <2>2. \A info : UI!Copies(info) = BP!Copies(info) /\ UI!Copies(info)' = BP!Copies(info)'
    BY <2>1 DEF UI!Copies, BP!Copies
  <2>3. [\A info \in rejects : BP!Copies(info)' <= BP!Copies(info)]_(BP!vars)
          => [\A info \in rejects : UI!Copies(info)' <= UI!Copies(info)]_(UI!vars)
    BY <1>2, <2>2
  <2> QED
    BY <2>3, PTL DEF UI!RejectedNeverEnters, BP!RejectedNeverEnters
<1> QED
  BY <1>3, <1>4, <1>5, <1>6, <1>7, ProgramIsProvedBrowser, BrowserAssumptions, BP!BurstsFit,
     BP!OverflowIsNotDropped, BP!DeletesDrawOnOverflow, BP!CursorStaysOnEntry,
     BP!RejectedStayOut, PTL

(* The tasks behind it: no step of the program makes one ask over a        *)
(* connection that it should not use or keep one that it needs no more,    *)
(* or fetch a crate whose race is over (client.rs 86-144).                 *)
THEOREM ProgramTasksAreRight ==
  System => /\ [](AsksOverGoodConnections /\ ReturnsConnections)
            /\ SettledIsNotFetchedAgain
<1>1. Start => CInv /\ DP!Init /\ FP!Init
  BY InitCInv, PoolsStart DEF Start, Init
<1>2. System => [](DP!PInv /\ FP!PInv)
  BY <1>1, SystemPoolSteps, PoolAssumptions, DP!PoolInvariance, FP!PoolInvariance, PTL
     DEF System, DP!Spec, FP!Spec, dpool, fpool, DP!pool, FP!pool
<1>3. CInv /\ DP!PInv /\ FP!PInv => AsksOverGoodConnections
  BY TasksAskWell
<1>4. CInv => ReturnsConnections
  BY TasksReturnAll
<1>5. CInv /\ PoolTypes /\ [Step]_system => [\A crate \in Crate : Settled(crate) =>
             /\ Settled(crate)'
             /\ \A t \in Task : StartsFetching(t) => name'[t] # crate]_vars
  <2> SUFFICES ASSUME CInv, PoolTypes, [Step]_system, ~ UNCHANGED vars,
                      NEW crate \in Crate, Settled(crate)
               PROVE  /\ Settled(crate)'
                      /\ \A t \in Task : StartsFetching(t) => name'[t] # crate
    OBVIOUS
  <2>1. CASE \E n \in Nat : Requests(n)
    BY <2>1 DEF Requests, discovery, fetch, Settled, StartsFetching
  <2>2. CASE [Next]_vars
    BY <2>2, StepRaces DEF RaceStep, Settled
  <2> QED
    BY <2>1, <2>2, ClientSide
<1>6. System => SettledIsNotFetchedAgain
  BY <1>5, SystemInvariance, PTL DEF System, SettledIsNotFetchedAgain
<1> QED
  BY <1>2, <1>3, <1>4, <1>6, SystemInvariance, PTL
-----------------------------------------------------------------------------
(* A task that fetches keeps to its crate.                                 *)
LEMMA FetchersKeepNames ==
  ASSUME CInv, PoolTypes, [Next]_vars, NEW t \in Task, fpc[t] # "none"
  PROVE  name'[t] = name[t]
<1> USE DEF CInv, Control, shared, discovery, fetch
<1>1. dpc[t] \notin {"ask", "check"}
  BY DEF OneRequest, Looking
<1>2. CASE Request \/ Take \/ UNCHANGED vars
  BY <1>2 DEF Request, Take, vars
<1>3. ASSUME NEW s \in Task, Names(s) \/ Check(s) PROVE name'[t] = name[t]
  BY <1>1, <1>3 DEF Names, Check
<1>4. ASSUME NEW s \in Task, Works(s) \/ Panics(s), ~ Names(s), ~ Check(s)
      PROVE  name' = name
  BY <1>4 DEF Works, Panics, Spin, DiscoveryConnects, DiscoveryFails, Insert, Return,
     FetchConnects, FetchFails, Fetched, Deliver, DiscoveryPanics, FetchPanics
<1> QED
  BY <1>2, <1>3, <1>4 DEF Next

(* What a step of the client puts into the channel of messages.            *)
LEMMA Arrivals ==
  ASSUME CInv, PoolTypes, [Next]_vars
  PROVE  \/ inbox' = inbox
         \/ inbox # <<>> /\ inbox' = Tail(inbox)
         \/ inbox' = Append(inbox, Failure)
         \/ \E t \in Fetching : inbox' = Append(inbox, name[t])
<1> USE DEF shared, discovery, fetch
<1>1. CASE Request \/ Take \/ UNCHANGED vars
  BY <1>1 DEF Request, Take, vars
<1>2. ASSUME NEW t \in Task, Deliver(t) PROVE t \in Fetching /\ inbox' = Append(inbox, name[t])
  BY <1>2 DEF Deliver, Fetching
<1>3. ASSUME NEW t \in Task,
             DiscoveryConnects(t) \/ DiscoveryFails(t) \/ FetchConnects(t) \/ FetchFails(t)
      PROVE  inbox' = inbox \/ inbox' = Append(inbox, Failure)
  BY <1>3, TroubleComplains DEF Source!Complain
<1>4. ASSUME NEW t \in Task, Works(t) \/ Panics(t), ~ Deliver(t),
             ~ (DiscoveryConnects(t) \/ DiscoveryFails(t) \/ FetchConnects(t) \/ FetchFails(t))
      PROVE  inbox' = inbox
  BY <1>4 DEF Works, Panics, Spin, Names, Check, Insert, Return, Fetched,
     DiscoveryPanics, FetchPanics
<1> QED
  BY <1>1, <1>2, <1>3, <1>4 DEF Next

LEMMA GoneStep ==
  ASSUME CInv, PoolTypes, [Step]_system, NEW crate \in Crate, Gone(crate)
  PROVE  Gone(crate)'
<1> USE DEF Gone
<1>1. CASE \E n \in Nat : Requests(n)
  BY <1>1 DEF Requests, discovery, fetch, Settled, Fetching
<1>2. CASE [Next]_vars
  <2>1. RaceStep
    BY <1>2, StepRaces
  <2>2. Settled(crate)'
    BY <2>1 DEF RaceStep, Settled
  <2>3. ASSUME NEW t \in Task, fpc'[t] # "none" PROVE name'[t] # crate
    <3>1. CASE fpc[t] = "none"
      BY <2>1, <2>3, <3>1 DEF RaceStep, StartsFetching, Settled
    <3>2. CASE fpc[t] # "none"
      BY <1>2, <3>2, FetchersKeepNames DEF Fetching
    <3> QED
      BY <3>1, <3>2
  <2>4. \A k \in DOMAIN inbox' : inbox'[k] # crate
    <3>1. inbox \in Seq(Crate \cup {Failure}) /\ Failure # crate
      BY ClientAssumption DEF CInv, Control
    <3>2. \A t \in Fetching : name[t] # crate /\ name[t] \in Crate
      BY DEF CInv, OneRequest, Fetching
    <3> QED
      BY <1>2, <3>1, <3>2, Arrivals
  <2> QED
    BY <2>2, <2>3, <2>4 DEF Fetching
<1> QED
  BY <1>1, <1>2, ClientSide

(* A crate that was answered for and is on its way no more never comes     *)
(* back, whatever the user deletes, docs.rs names and tasks retry: the race*)
(* for it is over, and no key copies an entry (client.rs 103-109).         *)
THEOREM GoneForGood == System => GoneStaysAway
<1> DEFINE Stays == \A crate \in Crate : Gone(crate) =>
             /\ Gone(crate)'
             /\ UI!Copies(crate)' <= UI!Copies(crate)
<1>1. ASSUME CInv, PoolTypes, BP!IInv, [Step]_system PROVE Stays
  <2> SUFFICES ASSUME NEW crate \in Crate, Gone(crate)
               PROVE  Gone(crate)' /\ UI!Copies(crate)' <= UI!Copies(crate)
    OBVIOUS
  <2>1. Gone(crate)'
    BY <1>1, GoneStep
  <2>2. [BP!Next]_(BP!vars)
    BY <1>1, SystemStep, SameStep
  <2>3. BP!ReceiveInfo => Head(inbox) # crate
    <3>1. inbox \in Seq(Crate \cup {Failure})
      BY <1>1 DEF CInv, Control
    <3>2. inbox # <<>> => Head(inbox) = inbox[1] /\ 1 \in DOMAIN inbox
      BY <3>1
    <3> QED
      BY <3>2 DEF Gone, BP!ReceiveInfo, BP!Source!Take
  <2>4. BP!Copies(crate)' <= BP!Copies(crate)
    BY <1>1, <2>2, <2>3, BrowserAssumptions, BP!CopiesStep
  <2>5. /\ UI!Copies(crate) = BP!Copies(crate)
        /\ UI!Copies(crate)' = BP!Copies(crate)'
    <3>1. \A items : UI!Occurrences(items, crate) = BP!Occurrences(items, crate)
      BY SameSize DEF UI!Occurrences, BP!Occurrences
    <3> QED
      BY <3>1 DEF UI!Copies, BP!Copies
  <2> QED
    BY <2>1, <2>4, <2>5
<1>2. CInv /\ PoolTypes /\ BP!IInv /\ [Step]_system => [Stays]_system
  BY <1>1
<1> HIDE DEF Stays
<1>3. System => [][Stays]_system
  BY <1>2, SystemInvariance, BrowserInvariance, PTL DEF System
<1> QED
  BY <1>3 DEF GoneStaysAway, Stays
=============================================================================
