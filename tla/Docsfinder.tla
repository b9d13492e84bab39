----------------------------- MODULE Docsfinder -----------------------------
(***************************************************************************)
(* The program (src/src/main.rs 35-48): the terminal interface of Browser  *)
(* and the crates.io client of Client, joined by the channel of requests   *)
(* and the channel of messages.  Here the interface meets the tasks that   *)
(* really answer it, with their retries, their pools and their race for a  *)
(* crate, and not only what CrateSource promises of them.                  *)
(***************************************************************************)
EXTENDS Client

CONSTANTS
  Struck, Blank,  (* rows without an entry                                 *)
  Rejections,     (* the filters a user may set, each the crates it rejects*)
  InitialRows,    (* max_recv in main.rs                                   *)
  MaxRows,        (* bound: "n" is not pressed beyond this many rows       *)
  MaxOverflow     (* bound: Infos kept in the overflow                     *)

VARIABLES
  pc, hasUpdate, maxEntries, rows, overflow, selected, receivedCount,
  inflightCount, notes, menu, rejects

interface == <<pc, hasUpdate, maxEntries, rows, overflow, selected, receivedCount,
               inflightCount, notes, menu, rejects>>
system    == <<interface, vars>>

UI == INSTANCE Browser WITH Info <- Crate, asked <- Outstanding

ASSUME DocsfinderAssumption == UI!RowAssumption /\ UI!BrowserAssumption

(* main: the client, and App::new over the channels to it. *)
Start == Init /\ UI!Init

(* update_iter sends the requests of a pass ("send_tx.send(())"). *)
SendRequests ==
  \E n \in 0 .. MaxAsked :
    /\ n = UI!ToSend
    /\ requests' = requests + n
    /\ UNCHANGED <<seen, name, inbox, discovery, fetch>>
    /\ UI!SendRequests

(* A message is drained. *)
Receive ==
  /\ Take
  /\ UI!ReceiveFailure \/ UI!ReceiveRejected \/ UI!ReceiveInfo

(* The steps of the loop that leave both channels alone. *)
LoopAlone ==
  /\ UNCHANGED vars
  /\ UI!Draw \/ UI!SkipUpdate \/ UI!EndDrain \/ UI!PollTimesOut

Loop == SendRequests \/ Receive \/ LoopAlone

Key == UNCHANGED vars /\ UI!UserStep

(* The runtime works while the process does. *)
Serve ==
  /\ pc \in UI!Running
  /\ \E t \in Task : Works(t)
  /\ UNCHANGED interface

ServePanics ==
  /\ pc \in UI!Running
  /\ \E t \in Task : Panics(t)
  /\ UNCHANGED interface

Step == Loop \/ Key \/ Serve \/ ServePanics

System == Start /\ [][Step]_system

-----------------------------------------------------------------------------
(* The interface behaves with this client as it does with any CrateSource: *)
(* what is shown of Browser holds for the program.                         *)
ImplementsBrowser == UI!Spec

(* A crate whose race is over and that is not on its way any more.         *)
Gone(crate) ==
  /\ Settled(crate)
  /\ \A t \in Fetching : name[t] # crate
  /\ \A k \in DOMAIN inbox : inbox[k] # crate

(* What the user struck out or cleared does not come back: the table and   *)
(* its overflow get no further copy of a crate that is gone, however often *)
(* docs.rs points to it again (client.rs 103-109, tui.rs 757-761).         *)
GoneStaysAway ==
  [][\A crate \in Crate : Gone(crate) =>
       /\ Gone(crate)'
       /\ UI!Copies(crate)' <= UI!Copies(crate)]_system

-----------------------------------------------------------------------------
(* The table is loaded: the user looks around, no task panics, and the     *)
(* runtime and the network do what Client's Fairness says of them.  A loop *)
(* that hears nothing asks again on every pass; bound: a pass begins only  *)
(* while the requests of two more fit, or when a message waits.            *)
Room == inbox # <<>> \/ Outstanding + 2 * UI!ToSend <= MaxAsked

LoopWithin == (pc = "event" => Room) /\ Loop
LookAround == Room /\ UNCHANGED vars /\ UI!LookAround

LoadFairness ==
  /\ WF_system(LoopWithin)
  /\ \A t \in Task : WF_system(Internal(t) /\ UNCHANGED interface)
  /\ SF_system(\E t \in Task : DiscoveryConnected(t) /\ UNCHANGED interface)
  /\ SF_system(\E t \in Task : FetchConnected(t) /\ UNCHANGED interface)
  /\ SF_system(\E t \in Task : NamesUnseen(t) /\ UNCHANGED interface)
  /\ SF_system(\E t \in Task : Fetched(t) /\ UNCHANGED interface)

Load == Start /\ [][LoopWithin \/ LookAround \/ Serve]_system /\ LoadFairness

(* From an empty table to a full one, through both channels, the tasks,    *)
(* the pools, errors that cost a notification each, and the poll.          *)
TableFills == UI!FillsUp
=============================================================================
