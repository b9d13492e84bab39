------------------------------ MODULE Exchange ------------------------------
(***************************************************************************)
(* What a discovery task and a fetch task have in common (client.rs 86-101,*)
(* 120-136, 148-171): connect, with as many attempts as it takes, and make *)
(* one request over the connection until it is answered.  The steps that   *)
(* follow a successful answer belong to the module that instantiates this. *)
(***************************************************************************)
EXTENDS ConnPool

CONSTANTS
  Failure,    (* Err(CrateError), whichever                                *)
  MaxWaiting  (* bound: no error is reported when so many messages wait    *)

VARIABLES
  pc,         (* where each task is; "connect" and "ask" are known here    *)
  owed,       (* tasks that report an error once they are reconnected      *)
  inbox       (* messages sent to the interface                            *)

Goto(t, place) == pc' = [pc EXCEPT ![t] = place]

(* err_tx.send(Err(_)) *)
Report == Len(inbox) < MaxWaiting /\ inbox' = Append(inbox, Failure)

-----------------------------------------------------------------------------
(* get_connection returns.  An error that made the task reconnect is sent  *)
(* only now, after the errors of the attempts to connect.                  *)
Connected(t) ==
  /\ pc[t] = "connect"
  /\ Goto(t, "ask")
  /\ IF t \in owed THEN Report ELSE UNCHANGED inbox
  /\ owed' = owed \ {t}

ConnectIdle(t) == PopIdle(t) /\ Connected(t)
ConnectNew(t)  == Created(t) /\ Connected(t)

BeginConnect(t) ==
  /\ pc[t] = "connect"
  /\ StartCreate(t)
  /\ UNCHANGED <<pc, owed, inbox>>

(* An attempt fails or takes too long; it is reported, and after a second  *)
(* get_connection tries again.                                             *)
ConnectFails(t) ==
  /\ pc[t] = "connect"
  /\ CreateFails(t)
  /\ Report
  /\ UNCHANGED <<pc, owed>>

Connect(t) == ConnectIdle(t) \/ BeginConnect(t) \/ ConnectNew(t) \/ ConnectFails(t)

(* A mutant of AskFails: the task does not reconnect. *)
AskFailsKeepsAsking(t) ==
  /\ pc[t] = "ask"
  /\ \E err \in Errors : UseFails(t, err)
  /\ Report
  /\ UNCHANGED <<pc, owed>>

(* The request fails.  After an I/O error the task reconnects first; after *)
(* any other it reports the error and asks again over the same connection. *)
AskFails(t) ==
  /\ pc[t] = "ask"
  /\ \E err \in Errors :
       /\ UseFails(t, err)
       /\ IF IoSource(err)
          THEN /\ Goto(t, "connect")
               /\ owed' = owed \cup {t}
               /\ UNCHANGED inbox
          ELSE Report /\ UNCHANGED <<pc, owed>>

(* The task's connection is dropped: at the end of its scope, or when the  *)
(* task panics over an answer and unwinds.                                 *)
HangUp(t, place) == Drop(t) /\ Goto(t, place) /\ UNCHANGED owed

(* A task asks only over a connection that it owns, that was not given up, *)
(* and whose oneshot has not completed yet.                                *)
AsksOverGoodConnection ==
  \A t \in Holder : pc[t] = "ask" => Using(t) /\ held[t] \notin spent

(* Outside of an exchange a task keeps no connection from the pool.        *)
ReturnsConnection ==
  \A t \in Holder : pc[t] \in {"none", "deliver"} => held[t] = NoConn
=============================================================================
