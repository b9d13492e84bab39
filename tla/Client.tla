------------------------------- MODULE Client -------------------------------
(***************************************************************************)
(* The crates.io client (src/src/client.rs): spin, which starts a task for *)
(* every request, the discovery tasks that look for the name of a crate    *)
(* not seen before, and the fetch tasks that deliver its Info.  The tasks  *)
(* run concurrently and share two connection pools and seen_crates.        *)
(*                                                                         *)
(* An Info is identified with the name of its crate.  A discovery task     *)
(* hands its slot over to the fetch task it starts.                        *)
(***************************************************************************)
EXTENDS Naturals, Sequences, FiniteSets

CONSTANTS
  Task,       (* bound: slots for requests that are worked on              *)
  Crate,      (* the crates that docs.rs may point to                      *)
  NoCrate,    (* no name found yet                                         *)
  DConn,      (* bound: connections to docs.rs                             *)
  FConn,      (* bound: connections to crates.io                           *)
  NoConn,
  Failure,    (* Err(CrateError), whichever                                *)
  MaxAsked,   (* bound: requests open at a time                            *)
  MaxWaiting  (* bound: no error is reported when so many messages wait    *)

ASSUME ClientAssumption ==
  /\ IsFiniteSet(Task)
  /\ NoCrate \notin Crate
  /\ Failure \notin Crate
  /\ NoConn \notin DConn \cup FConn
  /\ MaxAsked \in Nat
  /\ MaxWaiting \in Nat

VARIABLES
  requests,   (* requests waiting in the unbounded channel                 *)
  inbox,      (* messages the interface has not received                   *)
  seen,       (* Client::seen_crates                                       *)
  name,       (* the crate name each task has found                        *)
  dpc, dowed, dIdle, dHeld, dValid, dCreating, dSpent,
  fpc, fowed, fIdle, fHeld, fValid, fCreating, fSpent

discovery == <<dpc, dowed, dIdle, dHeld, dValid, dCreating, dSpent>>
fetch     == <<fpc, fowed, fIdle, fHeld, fValid, fCreating, fSpent>>
dpool     == <<dIdle, dHeld, dValid, dCreating, dSpent>>
fpool     == <<fIdle, fHeld, fValid, fCreating, fSpent>>
shared    == <<requests, seen, name>>
vars      == <<shared, inbox, discovery, fetch>>

D == INSTANCE Exchange WITH
       Conn <- DConn, Holder <- Task, pc <- dpc, owed <- dowed, idle <- dIdle,
       held <- dHeld, valid <- dValid, creating <- dCreating, spent <- dSpent

F == INSTANCE Exchange WITH
       Conn <- FConn, Holder <- Task, pc <- fpc, owed <- fowed, idle <- fIdle,
       held <- fHeld, valid <- fValid, creating <- fCreating, spent <- fSpent

(* Requests that no Info has answered yet. *)
Looking     == {t \in Task : dpc[t] \in {"connect", "ask", "check", "insert"}}
Fetching    == {t \in Task : fpc[t] # "none"}
Outstanding == requests + Cardinality(Looking) + Cardinality(Fetching)

TypeOK ==
  /\ requests \in Nat
  /\ inbox \in Seq(Crate \cup {Failure})
  /\ seen \subseteq Crate
  /\ name \in [Task -> Crate \cup {NoCrate}]
  /\ dpc \in [Task -> {"none", "connect", "ask", "check", "insert", "return"}]
  /\ fpc \in [Task -> {"none", "connect", "ask", "deliver"}]
  /\ dowed \subseteq Task
  /\ fowed \subseteq Task
  /\ D!TypeOK
  /\ F!TypeOK

(* Client::new, and a number of requests that are already waiting. *)
StartWith(count) ==
  /\ requests = count
  /\ inbox = <<>>
  /\ seen = {}
  /\ name = [t \in Task |-> NoCrate]
  /\ dpc = [t \in Task |-> "none"]
  /\ fpc = [t \in Task |-> "none"]
  /\ dowed = {}
  /\ fowed = {}
  /\ D!Init
  /\ F!Init

Init == StartWith(0)

-----------------------------------------------------------------------------
(* The interface sends a request, or receives a message. *)
Request ==
  /\ Outstanding < MaxAsked
  /\ requests' = requests + 1
  /\ UNCHANGED <<seen, name, inbox, discovery, fetch>>

Take ==
  /\ inbox # <<>>
  /\ inbox' = Tail(inbox)
  /\ UNCHANGED <<shared, discovery, fetch>>

(* A mutant of Spin: a task is started without a request. *)
SpinEagerly(t) ==
  /\ dpc[t] = "none"
  /\ fpc[t] = "none"
  /\ requests' = requests - 1
  /\ D!Goto(t, "connect")
  /\ UNCHANGED <<seen, name, inbox, dowed, dpool, fetch>>

(* spin: a request starts a discovery task. *)
Spin(t) ==
  /\ requests > 0
  /\ dpc[t] = "none"
  /\ fpc[t] = "none"
  /\ requests' = requests - 1
  /\ D!Goto(t, "connect")
  /\ UNCHANGED <<seen, name, inbox, dowed, dpool, fetch>>

-----------------------------------------------------------------------------
(* A discovery task connects, or docs.rs does not answer properly.         *)
DiscoveryConnects(t) == D!Connect(t) /\ UNCHANGED <<shared, fetch>>
DiscoveryFails(t)    == D!AskFails(t) /\ UNCHANGED <<shared, fetch>>

(* docs.rs redirects to a crate.  (Without a location header the task just *)
(* asks again, which changes nothing.)                                     *)
Names(t) ==
  /\ dpc[t] = "ask"
  /\ \E crate \in Crate : name' = [name EXCEPT ![t] = crate]
  /\ D!Goto(t, "check")
  /\ UNCHANGED <<requests, seen, inbox, dowed, dpool, fetch>>

(* A location header without a path segment, or not in ASCII, is unwrapped.*)
DiscoveryPanics(t) ==
  /\ dpc[t] = "ask"
  /\ D!HangUp(t, "none")
  /\ UNCHANGED <<shared, inbox, fetch>>

(* A mutant of Check: a seen crate ends the search. *)
CheckStopsSearch(t) ==
  /\ dpc[t] = "check"
  /\ D!Goto(t, IF name[t] \in seen THEN "return" ELSE "insert")
  /\ name' = [name EXCEPT ![t] = IF name[t] \in seen THEN NoCrate ELSE @]
  /\ UNCHANGED <<requests, seen, inbox, dowed, dpool, fetch>>

(* A mutant of Check: a seen crate is looked up again. *)
CheckAgain(t) ==
  /\ dpc[t] = "check"
  /\ D!Goto(t, IF name[t] \in seen THEN "check" ELSE "insert")
  /\ UNCHANGED <<shared, inbox, dowed, dpool, fetch>>

(* A mutant of Check: the set of seen crates is not asked. *)
CheckNothing(t) ==
  /\ dpc[t] = "check"
  /\ D!Goto(t, "insert")
  /\ UNCHANGED <<shared, inbox, dowed, dpool, fetch>>

(* seen_crates.contains: a crate that was seen is not the one. *)
Check(t) ==
  /\ dpc[t] = "check"
  /\ D!Goto(t, IF name[t] \in seen THEN "ask" ELSE "insert")
  /\ name' = [name EXCEPT ![t] = IF name[t] \in seen THEN NoCrate ELSE @]
  /\ UNCHANGED <<requests, seen, inbox, dowed, dpool, fetch>>

(* A mutant of Insert: the break is missing, and the search goes on. *)
InsertWithoutBreak(t) ==
  /\ dpc[t] = "insert"
  /\ seen' = seen \cup {name[t]}
  /\ D!Goto(t, "ask")
  /\ F!Goto(t, "connect")
  /\ UNCHANGED <<requests, name, inbox, dowed, dpool, fowed, fpool>>

(* seen_crates.insert, whose result is ignored: another task may have done *)
(* the same since the check.  The fetch task is started.                   *)
Insert(t) ==
  /\ dpc[t] = "insert"
  /\ seen' = seen \cup {name[t]}
  /\ D!Goto(t, "return")
  /\ F!Goto(t, "connect")
  /\ UNCHANGED <<requests, name, inbox, dowed, dpool, fowed, fpool>>

(* The discovery task ends, while its fetch task may have begun. *)
Return(t) ==
  /\ dpc[t] = "return"
  /\ D!HangUp(t, "none")
  /\ UNCHANGED <<shared, inbox, fetch>>

-----------------------------------------------------------------------------
(* A fetch task connects, or crates.io does not answer properly. *)
FetchConnects(t) == F!Connect(t) /\ UNCHANGED <<shared, discovery>>
FetchFails(t)    == F!AskFails(t) /\ UNCHANGED <<shared, discovery>>

(* A mutant of Fetched: the connection is kept. *)
FetchedKeeps(t) ==
  /\ fpc[t] = "ask"
  /\ F!Goto(t, "deliver")
  /\ UNCHANGED <<shared, inbox, fowed, fpool, discovery>>

(* get_body returns the Info, and drops its connection. *)
Fetched(t) ==
  /\ fpc[t] = "ask"
  /\ F!HangUp(t, "deliver")
  /\ UNCHANGED <<shared, inbox, discovery>>

(* The name does not make a path, and is unwrapped. *)
FetchPanics(t) ==
  /\ fpc[t] = "ask"
  /\ F!HangUp(t, "none")
  /\ UNCHANGED <<shared, inbox, discovery>>

(* The Info is sent, and the task ends. *)
Deliver(t) ==
  /\ fpc[t] = "deliver"
  /\ F!Goto(t, "none")
  /\ inbox' = Append(inbox, name[t])
  /\ UNCHANGED <<shared, fowed, fpool, discovery>>

Panics(t) == DiscoveryPanics(t) \/ FetchPanics(t)

Works(t) ==
  \/ Spin(t)
  \/ DiscoveryConnects(t)
  \/ DiscoveryFails(t)
  \/ Names(t)
  \/ Check(t)
  \/ Insert(t)
  \/ Return(t)
  \/ FetchConnects(t)
  \/ FetchFails(t)
  \/ Fetched(t)
  \/ Deliver(t)

Next == Request \/ Take \/ \E t \in Task : Works(t) \/ Panics(t)

Spec == Init /\ [][Next]_vars

-----------------------------------------------------------------------------
(* The client is a CrateSource: what the interface relies on.  A request   *)
(* is answered by one Info at most, though a task may retry, reconnect and *)
(* hand over to another one, and errors come only while a request is open. *)
Source == INSTANCE CrateSource WITH Info <- Crate, asked <- Outstanding

ImplementsSource == Source!Spec

(* The connections a task asks over, in both pools. *)
AsksOverGoodConnections == D!AsksOverGoodConnection /\ F!AsksOverGoodConnection

(* A task that is done, or only has to send its Info, keeps no connection  *)
(* (client.rs 120-140, 144): an idle client has all of them in the pools.  *)
ReturnsConnections == D!ReturnsConnection /\ F!ReturnsConnection

(* A crate is settled once it was seen and no task is left that looked for *)
(* it before.  Several tasks may pass the check at a time and all of them  *)
(* fetch the crate (client.rs 103-109), but that ends: a settled crate     *)
(* stays settled, and is not fetched again, whoever is named it.           *)
Settled(crate) ==
  /\ crate \in seen
  /\ \A t \in Task : dpc[t] = "insert" => name[t] # crate

StartsFetching(t) == fpc[t] = "none" /\ fpc'[t] # "none"

SettledIsNotFetchedAgain ==
  [][\A crate \in Crate : Settled(crate) =>
       /\ Settled(crate)'
       /\ \A t \in Task : StartsFetching(t) => name'[t] # crate]_vars
-----------------------------------------------------------------------------
(* The steps that a task takes by itself; an attempt to connect ends, one  *)
(* way or the other, within its timeout ...                                *)
Internal(t) ==
  \/ Spin(t)
  \/ Check(t)
  \/ Insert(t)
  \/ Return(t)
  \/ Deliver(t)
  \/ DiscoveryConnects(t)
  \/ FetchConnects(t)

(* ... and those for which docs.rs or crates.io has to do its part.        *)
DiscoveryConnected(t) == (D!ConnectIdle(t) \/ D!ConnectNew(t)) /\ UNCHANGED <<shared, fetch>>
FetchConnected(t)     == (F!ConnectIdle(t) \/ F!ConnectNew(t)) /\ UNCHANGED <<shared, discovery>>
NamesUnseen(t)        == Names(t) /\ name'[t] \notin seen

(* The runtime runs every task, the interface receives its messages, and   *)
(* whoever tries again and again to connect, to be named a crate nobody    *)
(* has seen or to fetch it succeeds once; for some task, which is enough.  *)
Fairness ==
  /\ \A t \in Task : WF_vars(Internal(t))
  /\ WF_vars(Take)
  /\ SF_vars(\E t \in Task : DiscoveryConnected(t))
  /\ SF_vars(\E t \in Task : FetchConnected(t))
  /\ SF_vars(\E t \in Task : NamesUnseen(t))
  /\ SF_vars(\E t \in Task : Fetched(t))

(* As many requests as there may be, all of them waiting, and no panic.    *)
AnswerSpec ==
  StartWith(MaxAsked) /\ [][Take \/ \E t \in Task : Works(t)]_vars /\ Fairness

(* Unless a task panics, no request is dropped on the way from the channel *)
(* through its discovery task to its fetch task: it takes an Info to close *)
(* it (client.rs 88-143).                                                  *)
RequestsEndInInfo == Source!KeepsRequests

(* Every request is answered, as long as there are enough crates: neither  *)
(* a pool full of dead connections, nor losing the race for a crate, nor   *)
(* the errors on the way keep a task from its Info.                        *)
AllAnswered == <>(Outstanding = 0)
=============================================================================
