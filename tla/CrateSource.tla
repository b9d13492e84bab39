----------------------------- MODULE CrateSource -----------------------------
(***************************************************************************)
(* What the crates.io client promises the user interface, seen from the    *)
(* two channels that join them (main.rs 36-47): the unbounded channel of   *)
(* requests and the channel of Result<Info, CrateError> messages.          *)
(*                                                                         *)
(* Every request is answered by at most one Info; errors are reported on   *)
(* the side, any number of them while a request is open, and answer none.  *)
(***************************************************************************)
EXTENDS Naturals, Sequences

CONSTANTS
  Info,       (* what can be delivered for one crate                       *)
  Failure,    (* Err(CrateError), whichever                                *)
  MaxAsked,   (* bound on the requests that are open at a time             *)
  MaxWaiting  (* bound: no error is reported when so many messages wait    *)

VARIABLES
  asked,      (* requests sent and not yet answered                        *)
  inbox       (* messages sent and not yet received by the interface       *)

vars == <<asked, inbox>>

TypeOK == asked \in Nat /\ inbox \in Seq(Info \cup {Failure})

Init == asked = 0 /\ inbox = <<>>

(* The interface sends n requests ("send_tx.send(())" n times). *)
Ask(n) ==
  /\ asked + n <= MaxAsked
  /\ asked' = asked + n
  /\ UNCHANGED inbox

(* The interface receives a message ("try_recv"). *)
Take ==
  /\ inbox # <<>>
  /\ inbox' = Tail(inbox)
  /\ UNCHANGED asked

(* A request is answered. *)
Deliver(info) ==
  /\ asked > 0
  /\ asked' = asked - 1
  /\ inbox' = Append(inbox, info)

(* A request that is being worked on has trouble, and is tried again. *)
Complain ==
  /\ asked > 0
  /\ Len(inbox) < MaxWaiting
  /\ inbox' = Append(inbox, Failure)
  /\ UNCHANGED asked

(* The task that serves a request panics on an answer it cannot read. *)
Lose ==
  /\ asked > 0
  /\ asked' = asked - 1
  /\ UNCHANGED inbox

Next ==
  \/ \E n \in 1 .. MaxAsked : Ask(n)
  \/ Take
  \/ \E info \in Info : Deliver(info)
  \/ Complain
  \/ Lose

Spec == Init /\ [][Next]_vars

(* A request is only taken off the list by the Info that answers it.       *)
KeepsRequests == [][asked' < asked => \E info \in Info : Deliver(info)]_vars
=============================================================================
