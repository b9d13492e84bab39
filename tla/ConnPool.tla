------------------------------ MODULE ConnPool ------------------------------
(***************************************************************************)
(* A pool of HTTP connections (src/src/conn_pool.rs) and the way its users *)
(* treat the connections they lease (src/src/connection.rs 12-42, 80-91).  *)
(*                                                                         *)
(* A connection is "spent" once its notify oneshot has reported the end of *)
(* the connection: polling the oneshot again would panic.  That the peer   *)
(* may close a connection at any time, in use or idle, is the freedom to   *)
(* fail with "http" at its next use.                                       *)
(*                                                                         *)
(* The Weak reference of a Connection always upgrades: whoever holds a     *)
(* Connection also holds an Arc of the pool, and drops it later.           *)
(***************************************************************************)
EXTENDS SequencesExt, Integers

CONSTANTS
  Conn,      (* bound: the connections that can be open at a time          *)
  NoConn,    (* a holder without a connection                              *)
  Holder     (* the tasks that use the pool                                *)

ASSUME PoolAssumption == NoConn \notin Conn /\ IsFiniteSet(Holder)

VARIABLES
  idle,      (* ConnPool::connections, the lock-free queue                 *)
  held,      (* the Connection each holder owns                            *)
  valid,     (* its valid flag                                             *)
  creating,  (* the holders inside create_connection                       *)
  spent      (* connections whose oneshot has completed                    *)

pool == <<idle, held, valid, creating, spent>>

TypeOK ==
  /\ idle \in Seq(Conn)
  /\ held \in [Holder -> Conn \cup {NoConn}]
  /\ valid \in [Holder -> BOOLEAN]
  /\ creating \subseteq Holder
  /\ spent \subseteq Conn

Init ==
  /\ idle = <<>>
  /\ held = [h \in Holder |-> NoConn]
  /\ valid = [h \in Holder |-> FALSE]
  /\ creating = {}
  /\ spent = {}

(* The name of a connection that no longer exists may be given to a new    *)
(* one, that of the connection it replaces included.                       *)
FreeFor(h) == Conn \ (Range(idle) \cup {held[g] : g \in Holder \ {h}})

-----------------------------------------------------------------------------
(* A holder asks for a connection when it has none, or has given up on it. *)
Wants(h) == h \notin creating /\ (held[h] = NoConn \/ ~ valid[h])

(* Connection::new.  An invalid connection the holder still owned is       *)
(* dropped by the assignment, and goes nowhere.                            *)
Give(h, conn) ==
  /\ held' = [held EXCEPT ![h] = conn]
  /\ valid' = [valid EXCEPT ![h] = TRUE]

(* A mutant of PopIdle: the connection is read from the queue, not taken. *)
PeekIdle(h) ==
  /\ Wants(h)
  /\ idle # <<>>
  /\ Give(h, Head(idle))
  /\ UNCHANGED <<idle, creating, spent>>

(* get_connection with an idle connection: no check that it is alive. *)
PopIdle(h) ==
  /\ Wants(h)
  /\ idle # <<>>
  /\ Give(h, Head(idle))
  /\ idle' = Tail(idle)
  /\ UNCHANGED <<creating, spent>>

(* A mutant of StartCreate: idle connections are not used. *)
StartCreateAlways(h) ==
  /\ Wants(h)
  /\ creating' = creating \cup {h}
  /\ UNCHANGED <<idle, held, valid, spent>>

(* get_connection without one: create_connection starts, and the holder    *)
(* does not look at the queue again while it is under way.                 *)
StartCreate(h) ==
  /\ Wants(h)
  /\ idle = <<>>
  /\ creating' = creating \cup {h}
  /\ UNCHANGED <<idle, held, valid, spent>>

Created(h) ==
  /\ h \in creating
  /\ creating' = creating \ {h}
  /\ \E conn \in FreeFor(h) : Give(h, conn) /\ spent' = spent \ {conn}
  /\ UNCHANGED idle

(* ConnectionError::Creation or ConnectionError::Timeout. *)
CreateFails(h) ==
  /\ h \in creating
  /\ creating' = creating \ {h}
  /\ UNCHANGED <<idle, held, valid, spent>>

-----------------------------------------------------------------------------
(* Connection::try_get_crate_name and try_get_crate fail with one of these.*)
(* "http" is the end of the connection, from the oneshot; hyper may notice *)
(* it first, and then the oneshot has not been read.                       *)
Errors == {"http", "hyper", "io", "api", "serde"}

(* A mutant of IoSource: the end of a connection is not one of its errors. *)
IoSourceWithoutHttp(err) == err \in {"hyper", "io"}

(* CrateError::io_source *)
IoSource(err) == err \in {"http", "hyper", "io"}

Using(h) == held[h] # NoConn /\ valid[h]

(* A use fails; after an I/O error the user calls invalidate. *)
UseFails(h, err) ==
  /\ Using(h)
  /\ spent' = IF err = "http" THEN spent \cup {held[h]} ELSE spent
  /\ valid' = [valid EXCEPT ![h] = ~ IoSource(err)]
  /\ UNCHANGED <<idle, held, creating>>

(* Connection::drop, at the end of the holder's scope. *)
Drop(h) ==
  /\ held[h] # NoConn
  /\ h \notin creating
  /\ idle' = IF valid[h] THEN Append(idle, held[h]) ELSE idle
  /\ held' = [held EXCEPT ![h] = NoConn]
  /\ UNCHANGED <<valid, creating, spent>>

Next ==
  \E h \in Holder :
    \/ PopIdle(h)
    \/ StartCreate(h)
    \/ Created(h)
    \/ CreateFails(h)
    \/ \E err \in Errors : UseFails(h, err)
    \/ Drop(h)

Spec == Init /\ [][Next]_pool

-----------------------------------------------------------------------------
(* A connection has one owner, the queue or one holder: SendRequest and    *)
(* the oneshot are moved between them (conn_pool.rs 43-44, 88-89), so two  *)
(* tasks never write requests to one connection.                           *)
ExclusiveUse ==
  /\ IsInjective(idle)
  /\ \A h \in Holder : held[h] \notin Range(idle)
  /\ \A g, h \in Holder : held[g] = held[h] /\ g # h => held[g] = NoConn

(* A connection whose oneshot has completed is neither used again nor put  *)
(* back into the queue (io_source, invalidate and Drop together); polling  *)
(* the oneshot again would panic.                                          *)
SpentNeverReused ==
  /\ Range(idle) \cap spent = {}
  /\ \A h \in Holder : Using(h) => held[h] \notin spent

(* The pool has no size limit, but a connection is only created when none  *)
(* is idle: even though the queue may fill up while connections are being  *)
(* created, there are never more valid ones than tasks.                    *)
PoolBounded ==
  Len(idle) + Cardinality({h \in Holder : Using(h)}) + Cardinality(creating)
    <= Cardinality(Holder)
=============================================================================
