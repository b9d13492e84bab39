------------------------------- MODULE Units -------------------------------
(***************************************************************************)
(* The units of the program that can be checked without the rest of it:    *)
(* the functions of the table, of the filters and of the formatting over   *)
(* bounded inputs, the stream adapter, and the notifications.  A behaviour *)
(* is one of a single unit; the others stay as they are.                   *)
(***************************************************************************)
EXTENDS EntriesCheck, FiltersCheck, Formats, IoAdapter, Notifications

VARIABLE unit  (* which unit runs *)

unitVars == <<unit, tableVars, textVars, numVars, ioVars, notesVars>>

Starting == {"table", "filters", "formats", "adapter", "notifications"}

Init ==
  /\ unit \in Starting
  /\ AnyTable     /\ (unit # "table" => rows = <<>>)
  /\ NoTexts      /\ (unit # "filters" => place = "name")
  /\ FirstNumber  /\ (unit # "formats" => \A n \in Starts : first <= n)
  /\ EmptyBuffer
  /\ NoNotes

Table ==
  /\ unit = "table" /\ UseTable
  /\ UNCHANGED <<unit, textVars, numVars, ioVars, notesVars>>

Texts ==
  /\ unit = "filters" /\ Lengthen
  /\ UNCHANGED <<unit, tableVars, numVars, ioVars, notesVars>>

Numbers ==
  /\ unit = "formats" /\ Count
  /\ UNCHANGED <<unit, tableVars, textVars, ioVars, notesVars>>

Adapter ==
  /\ unit = "adapter" /\ Transfer
  /\ UNCHANGED <<unit, tableVars, textVars, numVars, notesVars>>

OthersStay ==
  /\ unit = "notifications"
  /\ UNCHANGED <<unit, tableVars, textVars, numVars, ioVars>>

NotesLoop == OthersStay /\ LoopStep
NotesWait == OthersStay /\ Wait
NotesKeys == OthersStay /\ (PressKey \/ ChangeRows)

Next == Table \/ Texts \/ Numbers \/ Adapter \/ NotesLoop \/ NotesWait \/ NotesKeys

(* The fairness is that of Notifications; no other property needs any. *)
Spec == Init /\ [][Next]_unitVars /\ WF_unitVars(NotesLoop) /\ SF_unitVars(NotesWait)
=============================================================================
