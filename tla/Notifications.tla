---------------------------- MODULE Notifications ----------------------------
(***************************************************************************)
(* The notifications with their ages (Notifications, src/src/tui.rs 1545), *)
(* and as much of the loop as decides when they are removed: drawing, the  *)
(* messages that are drained, and the two polls of update_loop.            *)
(*                                                                         *)
(* Time is counted in ticks as long as the second poll, 100 ms.  The rest  *)
(* of the loop takes much less, so that at most one tick ends in a pass;   *)
(* the poll does not time out before one has.                              *)
(***************************************************************************)
EXTENDS SequencesExt, Integers

CONSTANTS
  Note,        (* what there is to notify: bounds how many are told apart  *)
  Show,        (* show_duration in ticks                                   *)
  InitialRows, (* max_count at first                                       *)
  MaxRows      (* bound: "n" is not pressed beyond this many rows          *)

ASSUME NotificationsAssumption ==
  /\ Show \in Nat
  /\ InitialRows \in 0 .. MaxRows
  /\ MaxRows \in Nat
  /\ IsFiniteSet(Note) /\ Cardinality(Note) > MaxRows

VARIABLES
  pc,        (* "draw", "drain" or "event"                                 *)
  hasUpdate, (* a message has been drained                                 *)
  waited,    (* a tick has ended in this pass of the loop                  *)
  full,      (* received_count = max_screen_entries                        *)
  maxCount,  (* Notifications::max_count                                   *)
  inner      (* Notifications::inner, the newest first                     *)

notesVars == <<pc, hasUpdate, waited, full, maxCount, inner>>

NoNotes ==
  /\ pc = "draw"
  /\ hasUpdate = FALSE
  /\ waited = FALSE
  /\ full = (InitialRows = 0)
  /\ maxCount = InitialRows
  /\ inner = <<>>

OnScreen(note) == \E k \in DOMAIN inner : inner[k].note = note

-----------------------------------------------------------------------------
(* VecDeque::truncate *)
Truncated(notes, count) == SubSeq(notes, 1, IF Len(notes) < count THEN Len(notes) ELSE count)

(* A mutant of Append: push_back, from which truncate takes the newest. *)
AppendBack(note) == inner' = Truncated(Append(inner, [note |-> note, age |-> 0]), maxCount)

(* Notifications::append *)
AppendNote(note) == inner' = Truncated(<<[note |-> note, age |-> 0]>> \o inner, maxCount)

(* clear_stale_notifications: VecDeque::retain walks the notifications and *)
(* keeps the ones that are not too old, in the order they had.             *)
Fresh(notes) ==
  LET kept[n \in 0 .. Len(notes)] ==
        IF n = 0 THEN <<>>
        ELSE IF notes[n].age <= Show THEN Append(kept[n - 1], notes[n]) ELSE kept[n - 1]
  IN  kept[Len(notes)]

(* App::draw, with clear_stale_notifications *)
Draw ==
  /\ pc = "draw"
  /\ pc' = "drain"
  /\ inner' = Fresh(inner)
  /\ UNCHANGED <<hasUpdate, waited, full, maxCount>>

(* SendRecvState::update with an error or a rejected Info *)
Receive ==
  /\ pc = "drain"
  /\ ~ full
  /\ \E note \in Note : ~ OnScreen(note) /\ AppendNote(note)
  /\ hasUpdate' = TRUE
  /\ UNCHANGED <<pc, waited, full, maxCount>>

(* The end of the drain; the Infos it put in the table may have filled it. *)
EndDrain ==
  /\ pc = "drain"
  /\ pc' = "event"
  /\ IF full THEN UNCHANGED <<full, hasUpdate>>
     ELSE /\ full' \in BOOLEAN
          /\ hasUpdate' \in {hasUpdate, TRUE}
          /\ full' => hasUpdate'
  /\ waited' = FALSE
  /\ UNCHANGED <<maxCount, inner>>

(* A mutant of Polls: only vacant rows keep the loop polling. *)
PollsWhileNotFull == ~ full

(* event::poll comes before event::read. *)
Polls == ~ full \/ inner # <<>>

(* Bound: ages beyond Show + 2 are not told apart. *)
Older(n) == IF n.age < Show + 2 THEN [n EXCEPT !.age = @ + 1] ELSE n

(* A tick ends, most likely in event::poll.  Nothing ages in event::read.  *)
Wait ==
  /\ pc = "event"
  /\ hasUpdate \/ Polls
  /\ ~ waited
  /\ waited' = TRUE
  /\ inner' = [k \in DOMAIN inner |-> Older(inner[k])]
  /\ UNCHANGED <<pc, hasUpdate, full, maxCount>>

(* A mutant of PollTimesOut: the loop continues without drawing. *)
PollTimesOutUndrawn ==
  /\ pc = "event"
  /\ hasUpdate \/ (Polls /\ waited)
  /\ pc' = IF hasUpdate THEN "draw" ELSE "drain"
  /\ hasUpdate' = FALSE
  /\ UNCHANGED <<waited, full, maxCount, inner>>

(* There is no event: at once after an update, or after the 100 ms. *)
PollTimesOut ==
  /\ pc = "event"
  /\ hasUpdate \/ (Polls /\ waited)
  /\ pc' = IF hasUpdate \/ inner # <<>> THEN "draw" ELSE "drain"
  /\ hasUpdate' = FALSE
  /\ UNCHANGED <<waited, full, maxCount, inner>>

(* A table without rows is always full. *)
MayBeFull(count) == IF count = 0 THEN {TRUE} ELSE BOOLEAN

(* Any key, or another event, after which the table may be full or not. *)
PressKey ==
  /\ pc = "event"
  /\ pc' = "draw"
  /\ hasUpdate' = FALSE
  /\ full' \in MayBeFull(maxCount)
  /\ UNCHANGED <<waited, maxCount, inner>>

(* "n" and "m": set_max_count *)
ChangeRows ==
  /\ pc = "event"
  /\ pc' = "draw"
  /\ hasUpdate' = FALSE
  /\ maxCount' \in {maxCount + 1, maxCount - 1} \cap (0 .. MaxRows)
  /\ full' \in MayBeFull(maxCount')
  /\ inner' = Truncated(inner, maxCount')
  /\ UNCHANGED waited

LoopStep == Draw \/ Receive \/ EndDrain \/ PollTimesOut

NotesStep == LoopStep \/ Wait \/ PressKey \/ ChangeRows

(* The loop goes on, and events do not come so fast that no time passes. *)
Notifying == NoNotes /\ [][NotesStep]_notesVars /\ WF_notesVars(LoopStep) /\ SF_notesVars(Wait)

-----------------------------------------------------------------------------
(* There are never more than max_count, and the newest is on top: what     *)
(* truncate cuts off (tui.rs 1567, 1572), for a new one or for fewer rows, *)
(* is the oldest, not what has just happened.                              *)
NewestFirst ==
  /\ Len(inner) <= maxCount
  /\ \A j, k \in DOMAIN inner : j <= k => inner[j].age <= inner[k].age

(* Nothing stays on the screen for longer than show_duration and one poll, *)
(* although only drawing removes it (tui.rs 782, 1575).                    *)
NeverLingers == \A k \in DOMAIN inner : inner[k].age <= Show + 1

(* Every notification goes, without a key being pressed for it and also    *)
(* with a full table, where event::read would block (tui.rs 778-788).      *)
EveryNoteFades == \A note \in Note : OnScreen(note) ~> ~ OnScreen(note)
=============================================================================
