---------------------------- MODULE ClientProofs ----------------------------
(***************************************************************************)
(* The client's safety for any number of tasks, crates and connections:    *)
(* it uses each of its pools as ConnPool says, its tasks ask only over     *)
(* good connections, and it is a CrateSource.                              *)
(***************************************************************************)
EXTENDS Client, FiniteSetTheorems, TLAPS

DP == INSTANCE ConnPoolProofs WITH
        Conn <- DConn, Holder <- Task, idle <- dIdle, held <- dHeld,
        valid <- dValid, creating <- dCreating, spent <- dSpent

FP == INSTANCE ConnPoolProofs WITH
        Conn <- FConn, Holder <- Task, idle <- fIdle, held <- fHeld,
        valid <- fValid, creating <- fCreating, spent <- fSpent

-----------------------------------------------------------------------------
(* What the tasks do to a pool are steps of ConnPool, so that what is      *)
(* proved of ConnPool holds for both pools.                                *)
LEMMA PoolAssumptions == DP!PoolAssumption /\ FP!PoolAssumption
BY ClientAssumption
   DEF DP!PoolAssumption, FP!PoolAssumption, IsFiniteSet, DP!IsFiniteSet, FP!IsFiniteSet

LEMMA DiscoveryPoolStep ==
  ASSUME NEW t \in Task, D!Connect(t) \/ D!AskFails(t) \/ D!HangUp(t, "none")
  PROVE  DP!Next
<1>1. CASE D!Connect(t)
  BY <1>1 DEF D!Connect, D!ConnectIdle, D!BeginConnect, D!ConnectNew, D!ConnectFails,
              D!PopIdle, D!StartCreate, D!Created, D!CreateFails, D!Wants, D!Give, D!FreeFor, D!Range,
              DP!Next, DP!PopIdle, DP!StartCreate, DP!Created, DP!CreateFails, DP!Wants, DP!Give,
              DP!FreeFor, DP!Range
<1>2. CASE D!AskFails(t)
  BY <1>2 DEF D!AskFails, D!UseFails, D!Using, D!IoSource, D!Errors,
              DP!Next, DP!UseFails, DP!Using, DP!IoSource, DP!Errors
<1>3. CASE D!HangUp(t, "none")
  BY <1>3 DEF D!HangUp, D!Drop, DP!Next, DP!Drop
<1> QED
  BY <1>1, <1>2, <1>3

LEMMA FetchPoolStep ==
  ASSUME NEW t \in Task,
         F!Connect(t) \/ F!AskFails(t) \/ F!HangUp(t, "none") \/ F!HangUp(t, "deliver")
  PROVE  FP!Next
<1>1. CASE F!Connect(t)
  BY <1>1 DEF F!Connect, F!ConnectIdle, F!BeginConnect, F!ConnectNew, F!ConnectFails,
              F!PopIdle, F!StartCreate, F!Created, F!CreateFails, F!Wants, F!Give, F!FreeFor, F!Range,
              FP!Next, FP!PopIdle, FP!StartCreate, FP!Created, FP!CreateFails, FP!Wants, FP!Give,
              FP!FreeFor, FP!Range
<1>2. CASE F!AskFails(t)
  BY <1>2 DEF F!AskFails, F!UseFails, F!Using, F!IoSource, F!Errors,
              FP!Next, FP!UseFails, FP!Using, FP!IoSource, FP!Errors
<1>3. CASE F!HangUp(t, "none") \/ F!HangUp(t, "deliver")
  BY <1>3 DEF F!HangUp, F!Drop, FP!Next, FP!Drop
<1> QED
  BY <1>1, <1>2, <1>3

LEMMA PoolSteps == [Next]_vars => [DP!Next]_dpool /\ [FP!Next]_fpool
<1> SUFFICES ASSUME [Next]_vars PROVE [DP!Next]_dpool /\ [FP!Next]_fpool
  OBVIOUS
<1> USE DEF discovery, fetch, dpool, fpool
<1>1. CASE Request \/ Take \/ UNCHANGED vars
  BY <1>1 DEF Request, Take, vars
<1>2. ASSUME NEW t \in Task, Spin(t) \/ Names(t) \/ Check(t) \/ Insert(t) \/ Deliver(t)
      PROVE  [DP!Next]_dpool /\ [FP!Next]_fpool
  BY <1>2 DEF Spin, Names, Check, Insert, Deliver
<1>3. ASSUME NEW t \in Task,
             DiscoveryConnects(t) \/ DiscoveryFails(t) \/ DiscoveryPanics(t) \/ Return(t)
      PROVE  DP!Next /\ UNCHANGED fpool
  BY <1>3, DiscoveryPoolStep DEF DiscoveryConnects, DiscoveryFails, DiscoveryPanics, Return
<1>4. ASSUME NEW t \in Task, FetchConnects(t) \/ FetchFails(t) \/ FetchPanics(t) \/ Fetched(t)
      PROVE  FP!Next /\ UNCHANGED dpool
  BY <1>4, FetchPoolStep DEF FetchConnects, FetchFails, FetchPanics, Fetched
<1> QED
  BY <1>1, <1>2, <1>3, <1>4 DEF Next, Works, Panics

LEMMA PoolsStart == ASSUME NEW count, StartWith(count) PROVE DP!Init /\ FP!Init
BY DEF StartWith, D!Init, F!Init, DP!Init, FP!Init

(* Both pools of the client are ConnPools. *)
THEOREM PoolsAreConnPools == Spec => DP!Spec /\ FP!Spec
<1>1. Init => DP!Init /\ FP!Init
  BY PoolsStart DEF Init
<1> QED
  BY <1>1, PoolSteps, PTL DEF Spec, DP!Spec, FP!Spec, dpool, fpool, DP!pool, FP!pool

LEMMA PoolsKeepInvariant == Spec => [](DP!PInv /\ FP!PInv)
BY PoolsAreConnPools, PoolAssumptions, DP!PoolInvariance, FP!PoolInvariance, PTL
-----------------------------------------------------------------------------
(* Where a task is, and what it owns there.  A discovery task connects     *)
(* before it asks, keeps its connection while it looks at the answer, and  *)
(* drops it in the end ...                                                 *)
DiscoveryOwns(t) ==
  /\ dpc[t] = "none" => dHeld[t] = NoConn
  /\ dpc[t] \in {"ask", "check", "insert"} => D!Using(t)
  /\ t \in dCreating => dpc[t] = "connect"

(* ... a fetch task drops it before it delivers ...                        *)
FetchOwns(t) ==
  /\ fpc[t] \in {"none", "deliver"} => fHeld[t] = NoConn
  /\ fpc[t] = "ask" => F!Using(t)
  /\ t \in fCreating => fpc[t] = "connect"

(* ... and a slot serves one request at a time, for a crate once named.    *)
OneRequest(t) ==
  /\ t \in Looking => fpc[t] = "none"
  /\ dpc[t] \in {"check", "insert"} \/ fpc[t] # "none" => name[t] \in Crate

Control ==
  /\ requests \in Nat
  /\ inbox \in Seq(Crate \cup {Failure})
  /\ seen \subseteq Crate
  /\ name \in [Task -> Crate \cup {NoCrate}]
  /\ dpc \in [Task -> {"none", "connect", "ask", "check", "insert", "return"}]
  /\ fpc \in [Task -> {"none", "connect", "ask", "deliver"}]
  /\ dowed \subseteq Task
  /\ fowed \subseteq Task

CInv ==
  /\ Control
  /\ \A t \in Task : DiscoveryOwns(t) /\ FetchOwns(t) /\ OneRequest(t)

PoolTypes == D!TypeOK /\ F!TypeOK

LEMMA PoolsTyped == DP!PInv /\ FP!PInv => PoolTypes
BY DEF DP!PInv, FP!PInv, DP!TypeOK, FP!TypeOK, PoolTypes, D!TypeOK, F!TypeOK

LEMMA InitCInv == ASSUME NEW count \in Nat, StartWith(count) PROVE CInv
<1>1. Control
  BY DEF StartWith, Control
<1>2. ASSUME NEW t \in Task PROVE DiscoveryOwns(t) /\ FetchOwns(t) /\ OneRequest(t)
  BY DEF StartWith, D!Init, F!Init, DiscoveryOwns, FetchOwns, OneRequest, Looking
<1> QED
  BY <1>1, <1>2 DEF CInv
-----------------------------------------------------------------------------
(* What a task that connects or is not answered changes, in the discovery  *)
(* pool and in the fetch pool: only where it is, what it owns, and that it *)
(* may report an error.                                                    *)
LEMMA DiscoveryExchange ==
  ASSUME Control, PoolTypes, NEW t \in Task, DiscoveryOwns(t), D!Connect(t) \/ D!AskFails(t)
  PROVE  /\ dpc[t] \in {"connect", "ask"}
         /\ \E place \in {"connect", "ask"} : dpc' = [dpc EXCEPT ![t] = place]
         /\ dowed' \subseteq Task
         /\ UNCHANGED inbox \/ D!Report
         /\ DiscoveryOwns(t)'
         /\ \A u \in Task \ {t} : DiscoveryOwns(u) => DiscoveryOwns(u)'
<1> USE DEF Control, PoolTypes, D!TypeOK, DiscoveryOwns, D!Using
<1>1. CASE D!ConnectIdle(t)
  BY <1>1, ClientAssumption
     DEF D!ConnectIdle, D!PopIdle, D!Wants, D!Give, D!Connected, D!Goto
<1>2. CASE D!BeginConnect(t)
  BY <1>2 DEF D!BeginConnect, D!StartCreate, D!Wants
<1>3. CASE D!ConnectNew(t)
  BY <1>3, ClientAssumption
     DEF D!ConnectNew, D!Created, D!Give, D!FreeFor, D!Connected, D!Goto
<1>4. CASE D!ConnectFails(t)
  BY <1>4 DEF D!ConnectFails, D!CreateFails
<1>5. CASE D!AskFails(t)
  <2>1. PICK err \in D!Errors : D!AskFails(t)!2!(err)
    BY <1>5 DEF D!AskFails
  <2> QED
    BY <1>5, <2>1 DEF D!AskFails, D!UseFails, D!IoSource, D!Goto
<1> QED
  BY <1>1, <1>2, <1>3, <1>4, <1>5 DEF D!Connect

LEMMA FetchExchange ==
  ASSUME Control, PoolTypes, NEW t \in Task, FetchOwns(t), F!Connect(t) \/ F!AskFails(t)
  PROVE  /\ fpc[t] \in {"connect", "ask"}
         /\ \E place \in {"connect", "ask"} : fpc' = [fpc EXCEPT ![t] = place]
         /\ fowed' \subseteq Task
         /\ UNCHANGED inbox \/ F!Report
         /\ FetchOwns(t)'
         /\ \A u \in Task \ {t} : FetchOwns(u) => FetchOwns(u)'
<1> USE DEF Control, PoolTypes, F!TypeOK, FetchOwns, F!Using
<1>1. CASE F!ConnectIdle(t)
  BY <1>1, ClientAssumption
     DEF F!ConnectIdle, F!PopIdle, F!Wants, F!Give, F!Connected, F!Goto
<1>2. CASE F!BeginConnect(t)
  BY <1>2 DEF F!BeginConnect, F!StartCreate, F!Wants
<1>3. CASE F!ConnectNew(t)
  BY <1>3, ClientAssumption
     DEF F!ConnectNew, F!Created, F!Give, F!FreeFor, F!Connected, F!Goto
<1>4. CASE F!ConnectFails(t)
  BY <1>4 DEF F!ConnectFails, F!CreateFails
<1>5. CASE F!AskFails(t)
  <2>1. PICK err \in F!Errors : F!AskFails(t)!2!(err)
    BY <1>5 DEF F!AskFails
  <2> QED
    BY <1>5, <2>1 DEF F!AskFails, F!UseFails, F!IoSource, F!Goto
<1> QED
  BY <1>1, <1>2, <1>3, <1>4, <1>5 DEF F!Connect

(* An error that is reported is a message. *)
LEMMA ReportType ==
  ASSUME Control, UNCHANGED inbox \/ D!Report \/ F!Report
  PROVE  inbox' \in Seq(Crate \cup {Failure})
BY DEF Control, D!Report, F!Report

(* The tasks other than t are as they were, and so are their invariants.   *)
Others(t) ==
  \A u \in Task \ {t} :
    DiscoveryOwns(u) /\ FetchOwns(u) /\ OneRequest(u)
      => (DiscoveryOwns(u) /\ FetchOwns(u) /\ OneRequest(u))'

LEMMA OneTaskCInv ==
  ASSUME CInv, NEW t \in Task, Control', Others(t),
         DiscoveryOwns(t)', FetchOwns(t)', OneRequest(t)'
  PROVE  CInv'
BY DEF CInv, Others

LEMMA RequestTakeCInv == CInv /\ (Request \/ Take) => CInv'
<1> SUFFICES ASSUME CInv, Request \/ Take PROVE CInv'
  OBVIOUS
<1> USE DEF CInv, Request, Take, shared, discovery, fetch
<1>1. Control'
  BY DEF Control
<1>2. UNCHANGED <<name, dpc, dHeld, dValid, dCreating, fpc, fHeld, fValid, fCreating>>
  OBVIOUS
<1>3. \A t \in Task : DiscoveryOwns(t)' /\ FetchOwns(t)' /\ OneRequest(t)'
  BY <1>2 DEF DiscoveryOwns, FetchOwns, OneRequest, Looking, D!Using, F!Using
<1> QED
  BY <1>1, <1>3

LEMMA DiscoveryExchangeCInv ==
  ASSUME NEW t \in Task, CInv, PoolTypes, DiscoveryConnects(t) \/ DiscoveryFails(t)
  PROVE  CInv'
<1> USE DEF CInv
<1>1. /\ D!Connect(t) \/ D!AskFails(t)
      /\ UNCHANGED <<requests, seen, name, fpc, fowed, fHeld, fValid, fCreating>>
  BY DEF DiscoveryConnects, DiscoveryFails, shared, fetch
<1>2. PICK place \in {"connect", "ask"} : dpc' = [dpc EXCEPT ![t] = place]
  BY <1>1, DiscoveryExchange
<1>3. /\ dpc[t] \in {"connect", "ask"}
      /\ dowed' \subseteq Task
      /\ UNCHANGED inbox \/ D!Report
      /\ DiscoveryOwns(t)'
      /\ \A u \in Task \ {t} : DiscoveryOwns(u) => DiscoveryOwns(u)'
  BY <1>1, DiscoveryExchange
<1>4. Control'
  <2>1. inbox' \in Seq(Crate \cup {Failure})
    BY <1>3, ReportType
  <2> QED
    BY <1>1, <1>2, <1>3, <2>1 DEF Control
<1>5. \A u \in Task : FetchOwns(u)' /\ OneRequest(u)'
  BY <1>1, <1>2, <1>3 DEF Control, FetchOwns, OneRequest, Looking, F!Using
<1> QED
  BY <1>3, <1>4, <1>5, OneTaskCInv DEF Others

LEMMA FetchExchangeCInv ==
  ASSUME NEW t \in Task, CInv, PoolTypes, FetchConnects(t) \/ FetchFails(t)
  PROVE  CInv'
<1> USE DEF CInv
<1>1. /\ F!Connect(t) \/ F!AskFails(t)
      /\ UNCHANGED <<requests, seen, name, dpc, dowed, dHeld, dValid, dCreating>>
  BY DEF FetchConnects, FetchFails, shared, discovery
<1>2. PICK place \in {"connect", "ask"} : fpc' = [fpc EXCEPT ![t] = place]
  BY <1>1, FetchExchange
<1>3. /\ fpc[t] \in {"connect", "ask"}
      /\ fowed' \subseteq Task
      /\ UNCHANGED inbox \/ F!Report
      /\ FetchOwns(t)'
      /\ \A u \in Task \ {t} : FetchOwns(u) => FetchOwns(u)'
  BY <1>1, FetchExchange
<1>4. Control'
  <2>1. inbox' \in Seq(Crate \cup {Failure})
    BY <1>3, ReportType
  <2> QED
    BY <1>1, <1>2, <1>3, <2>1 DEF Control
<1>5. \A u \in Task : DiscoveryOwns(u)' /\ OneRequest(u)'
  BY <1>1, <1>2, <1>3 DEF Control, DiscoveryOwns, OneRequest, Looking, D!Using
<1> QED
  BY <1>3, <1>4, <1>5, OneTaskCInv DEF Others

LEMMA SpinCInv == ASSUME NEW t \in Task, CInv, PoolTypes, Spin(t) PROVE CInv'
<1> USE DEF CInv, Spin, D!Goto, dpool, fetch
<1>1. Control'
  BY DEF Control
<1>2. DiscoveryOwns(t)' /\ FetchOwns(t)' /\ OneRequest(t)'
  BY DEF Control, PoolTypes, D!TypeOK, F!TypeOK,
         DiscoveryOwns, FetchOwns, OneRequest, Looking, D!Using, F!Using
<1>3. Others(t)
  BY DEF Control, PoolTypes, D!TypeOK, F!TypeOK, Others,
         DiscoveryOwns, FetchOwns, OneRequest, Looking, D!Using, F!Using
<1> QED
  BY <1>1, <1>2, <1>3, OneTaskCInv

LEMMA NamesCInv == ASSUME NEW t \in Task, CInv, PoolTypes, Names(t) PROVE CInv'
<1> USE DEF CInv, Names, D!Goto, dpool, fetch
<1>1. Control'
  BY DEF Control
<1>2. DiscoveryOwns(t)' /\ FetchOwns(t)' /\ OneRequest(t)'
  BY DEF Control, PoolTypes, D!TypeOK, F!TypeOK,
         DiscoveryOwns, FetchOwns, OneRequest, Looking, D!Using, F!Using
<1>3. Others(t)
  BY DEF Control, PoolTypes, D!TypeOK, F!TypeOK, Others,
         DiscoveryOwns, FetchOwns, OneRequest, Looking, D!Using, F!Using
<1> QED
  BY <1>1, <1>2, <1>3, OneTaskCInv

LEMMA CheckCInv == ASSUME NEW t \in Task, CInv, PoolTypes, Check(t) PROVE CInv'
<1> USE DEF CInv, Check, D!Goto, dpool, fetch
<1>1. Control'
  BY DEF Control
<1>2. DiscoveryOwns(t)' /\ FetchOwns(t)' /\ OneRequest(t)'
  BY DEF Control, PoolTypes, D!TypeOK, F!TypeOK,
         DiscoveryOwns, FetchOwns, OneRequest, Looking, D!Using, F!Using
<1>3. Others(t)
  BY DEF Control, PoolTypes, D!TypeOK, F!TypeOK, Others,
         DiscoveryOwns, FetchOwns, OneRequest, Looking, D!Using, F!Using
<1> QED
  BY <1>1, <1>2, <1>3, OneTaskCInv

LEMMA InsertCInv == ASSUME NEW t \in Task, CInv, PoolTypes, Insert(t) PROVE CInv'
<1> USE DEF CInv, Insert, D!Goto, F!Goto, dpool, fpool
<1>1. Control'
  <2>1. name[t] \in Crate
    BY DEF OneRequest
  <2> QED
    BY <2>1 DEF Control
<1>2. DiscoveryOwns(t)' /\ FetchOwns(t)' /\ OneRequest(t)'
  BY DEF Control, PoolTypes, D!TypeOK, F!TypeOK,
         DiscoveryOwns, FetchOwns, OneRequest, Looking, D!Using, F!Using
<1>3. Others(t)
  BY DEF Control, PoolTypes, D!TypeOK, F!TypeOK, Others,
         DiscoveryOwns, FetchOwns, OneRequest, Looking, D!Using, F!Using
<1> QED
  BY <1>1, <1>2, <1>3, OneTaskCInv

LEMMA DiscoveryEndsCInv == ASSUME NEW t \in Task, CInv, PoolTypes, DiscoveryPanics(t) \/ Return(t) PROVE CInv'
<1> USE DEF CInv, DiscoveryPanics, Return, D!HangUp, D!Drop, D!Goto, shared, fetch
<1>1. Control'
  BY DEF Control
<1>2. DiscoveryOwns(t)' /\ FetchOwns(t)' /\ OneRequest(t)'
  BY DEF Control, PoolTypes, D!TypeOK, F!TypeOK,
         DiscoveryOwns, FetchOwns, OneRequest, Looking, D!Using, F!Using
<1>3. Others(t)
  BY DEF Control, PoolTypes, D!TypeOK, F!TypeOK, Others,
         DiscoveryOwns, FetchOwns, OneRequest, Looking, D!Using, F!Using
<1> QED
  BY <1>1, <1>2, <1>3, OneTaskCInv

LEMMA FetchedCInv == ASSUME NEW t \in Task, CInv, PoolTypes, Fetched(t) \/ FetchPanics(t) PROVE CInv'
<1> USE DEF CInv, Fetched, FetchPanics, F!HangUp, F!Drop, F!Goto, shared, discovery
<1>1. Control'
  BY DEF Control
<1>2. DiscoveryOwns(t)' /\ FetchOwns(t)' /\ OneRequest(t)'
  BY DEF Control, PoolTypes, D!TypeOK, F!TypeOK,
         DiscoveryOwns, FetchOwns, OneRequest, Looking, D!Using, F!Using
<1>3. Others(t)
  BY DEF Control, PoolTypes, D!TypeOK, F!TypeOK, Others,
         DiscoveryOwns, FetchOwns, OneRequest, Looking, D!Using, F!Using
<1> QED
  BY <1>1, <1>2, <1>3, OneTaskCInv

LEMMA DeliverCInv == ASSUME NEW t \in Task, CInv, PoolTypes, Deliver(t) PROVE CInv'
<1> USE DEF CInv, Deliver, F!Goto, shared, fpool, discovery
<1>1. Control'
  <2>1. name[t] \in Crate
    BY DEF OneRequest
  <2> QED
    BY <2>1 DEF Control
<1>2. DiscoveryOwns(t)' /\ FetchOwns(t)' /\ OneRequest(t)'
  BY DEF Control, PoolTypes, D!TypeOK, F!TypeOK,
         DiscoveryOwns, FetchOwns, OneRequest, Looking, D!Using, F!Using
<1>3. Others(t)
  BY DEF Control, PoolTypes, D!TypeOK, F!TypeOK, Others,
         DiscoveryOwns, FetchOwns, OneRequest, Looking, D!Using, F!Using
<1> QED
  BY <1>1, <1>2, <1>3, OneTaskCInv

LEMMA StepCInv == CInv /\ PoolTypes /\ [Next]_vars => CInv'
<1> SUFFICES ASSUME CInv, PoolTypes, [Next]_vars PROVE CInv'
  OBVIOUS
<1>1. CASE Request \/ Take
  BY <1>1, RequestTakeCInv
<1>2. ASSUME NEW t \in Task, Works(t) \/ Panics(t) PROVE CInv'
  BY <1>2, SpinCInv, DiscoveryExchangeCInv, NamesCInv, CheckCInv, InsertCInv, DiscoveryEndsCInv,
     FetchExchangeCInv, FetchedCInv, DeliverCInv DEF Works, Panics
<1>3. CASE UNCHANGED vars
  BY <1>3 DEF vars, shared, discovery, fetch, CInv, Control, DiscoveryOwns, FetchOwns, OneRequest,
              Looking, D!Using, F!Using
<1> QED
  BY <1>1, <1>2, <1>3 DEF Next

LEMMA ClientInvariance == Spec => [](CInv /\ PoolTypes)
<1>1. Spec => []PoolTypes
  BY PoolsKeepInvariant, PoolsTyped, PTL
<1>2. Init => CInv
  BY InitCInv DEF Init
<1> QED
  BY <1>1, <1>2, StepCInv, PTL DEF Spec
-----------------------------------------------------------------------------
(* The state of the client is well typed. *)
THEOREM ClientTypeCorrect == Spec => []TypeOK
<1>1. CInv /\ PoolTypes => TypeOK
  BY DEF CInv, Control, PoolTypes, TypeOK
<1> QED
  BY <1>1, ClientInvariance, PTL

(* What the invariants say of the connections that tasks hold. *)
LEMMA TasksAskWell == CInv /\ DP!PInv /\ FP!PInv => AsksOverGoodConnections
<1> SUFFICES ASSUME CInv, DP!PInv, FP!PInv, NEW t \in Task
             PROVE  /\ dpc[t] = "ask" => D!Using(t) /\ dHeld[t] \notin dSpent
                    /\ fpc[t] = "ask" => F!Using(t) /\ fHeld[t] \notin fSpent
  BY DEF AsksOverGoodConnections, D!AsksOverGoodConnection, F!AsksOverGoodConnection
<1>1. DP!SpentNeverReused /\ FP!SpentNeverReused
  BY DEF DP!PInv, FP!PInv
<1> QED
  BY <1>1 DEF CInv, DiscoveryOwns, FetchOwns, DP!SpentNeverReused, FP!SpentNeverReused,
              D!Using, F!Using, DP!Using, FP!Using

LEMMA TasksReturnAll == CInv => ReturnsConnections
BY DEF CInv, DiscoveryOwns, FetchOwns, Control, ReturnsConnections,
       D!ReturnsConnection, F!ReturnsConnection

(* No task asks over a connection that it does not own, that it has given  *)
(* up, or whose oneshot has completed (client.rs 88-101, 122-136): the     *)
(* task's own order of steps and the pool's promise together.              *)
THEOREM AsksWell == Spec => []AsksOverGoodConnections
BY TasksAskWell, ClientInvariance, PoolsKeepInvariant, PTL

(* A task that has ended, or only has an Info to send, holds no connection.*)
THEOREM ReturnsAll == Spec => []ReturnsConnections
BY TasksReturnAll, ClientInvariance, PTL
-----------------------------------------------------------------------------
(* The requests that are open are counted over finite sets. *)
LEMMA Counting ==
  /\ IsFiniteSet(Looking) /\ IsFiniteSet(Fetching)
  /\ Cardinality(Looking) \in Nat /\ Cardinality(Fetching) \in Nat
<1>1. Looking \in SUBSET Task /\ Fetching \in SUBSET Task
  BY DEF Looking, Fetching
<1>2. IsFiniteSet(Looking) /\ IsFiniteSet(Fetching)
  BY <1>1, ClientAssumption, FS_Subset
<1> QED
  BY <1>2, FS_CardinalityType

LEMMA OpenWhileWorking ==
  ASSUME Control, NEW t \in Looking \cup Fetching
  PROVE  Outstanding \in Nat /\ Outstanding > 0
<1>1. Cardinality(Looking) # 0 \/ Cardinality(Fetching) # 0
  BY Counting, FS_EmptySet
<1> QED
  BY <1>1, Counting DEF Control, Outstanding

(* A step between the tasks' own places opens and closes no request.       *)
LEMMA Unmoved ==
  ASSUME Looking' = Looking, Fetching' = Fetching, requests' = requests
  PROVE  Outstanding' = Outstanding
BY DEF Outstanding

LEMMA InterfaceStep == Control /\ (Request \/ Take) => Source!Next
<1> SUFFICES ASSUME Control, Request \/ Take PROVE Source!Next
  OBVIOUS
<1>1. Looking' = Looking /\ Fetching' = Fetching
  BY DEF Request, Take, shared, discovery, fetch, Looking, Fetching
<1>2. Cardinality(Looking') = Cardinality(Looking) /\ Cardinality(Fetching') = Cardinality(Fetching)
  BY <1>1
<1>3. CASE Request
  <2>1. /\ requests' = requests + 1 /\ UNCHANGED inbox
        /\ Outstanding < MaxAsked
    BY <1>3 DEF Request
  <2>2. Outstanding' = Outstanding + 1 /\ Outstanding \in Nat
    BY <1>2, <2>1, Counting DEF Control, Outstanding
  <2>3. 1 \in 1 .. MaxAsked /\ Source!Ask(1)
    BY <2>1, <2>2, ClientAssumption DEF Source!Ask
  <2> QED
    BY <2>3 DEF Source!Next
<1>4. CASE Take
  <2>1. requests' = requests /\ inbox # <<>> /\ inbox' = Tail(inbox)
    BY <1>4 DEF Take, shared
  <2>2. Outstanding' = Outstanding
    BY <1>1, <2>1, Unmoved
  <2> QED
    BY <2>1, <2>2 DEF Source!Next, Source!Take
<1> QED
  BY <1>3, <1>4

(* A request moves from the channel to a discovery task, and from there to *)
(* a fetch task; the number of open requests stays what it was.            *)
LEMMA SpinStutters ==
  ASSUME CInv, NEW t \in Task, Spin(t)
  PROVE  UNCHANGED <<Outstanding, inbox>>
<1> USE DEF CInv, Spin, D!Goto, dpool, fetch
<1>1. t \notin Looking /\ Looking' = Looking \cup {t} /\ Fetching' = Fetching
  BY DEF Control, Looking, Fetching
<1>2. Cardinality(Looking') = Cardinality(Looking) + 1 /\ Cardinality(Fetching') = Cardinality(Fetching)
  BY <1>1, Counting, FS_AddElement
<1> QED
  BY <1>2, Counting DEF Control, Outstanding

LEMMA InsertStutters ==
  ASSUME CInv, NEW t \in Task, Insert(t)
  PROVE  UNCHANGED <<Outstanding, inbox>>
<1> USE DEF CInv, Insert, D!Goto, F!Goto, dpool, fpool
<1>1. t \in Looking /\ Looking' = Looking \ {t}
  BY DEF Control, Looking
<1>2. t \notin Fetching /\ Fetching' = Fetching \cup {t}
  BY <1>1 DEF Control, OneRequest, Fetching
<1>3. /\ Cardinality(Looking') = Cardinality(Looking) - 1
      /\ Cardinality(Fetching') = Cardinality(Fetching) + 1
  BY <1>1, <1>2, Counting, FS_AddElement, FS_RemoveElement
<1> QED
  BY <1>3, Counting DEF Control, Outstanding

LEMMA PlaceStutters ==
  ASSUME CInv, NEW t \in Task, Names(t) \/ Check(t) \/ Return(t) \/ Fetched(t)
  PROVE  UNCHANGED <<Outstanding, inbox>>
<1> USE DEF CInv, Names, Check, Return, Fetched, D!HangUp, F!HangUp, D!Goto, F!Goto,
            shared, discovery, fetch, dpool
<1>1. Looking' = Looking /\ Fetching' = Fetching /\ requests' = requests
  BY DEF Control, Looking, Fetching
<1> QED
  BY <1>1, Unmoved

(* A task in trouble keeps its request, and reports at most an error. *)
LEMMA TroubleComplains ==
  ASSUME CInv, PoolTypes, NEW t \in Task,
         DiscoveryConnects(t) \/ DiscoveryFails(t) \/ FetchConnects(t) \/ FetchFails(t)
  PROVE  Outstanding' = Outstanding /\ (UNCHANGED inbox \/ Source!Complain)
<1> USE DEF CInv
<1>1. /\ t \in Looking \cup Fetching
      /\ UNCHANGED <<Looking, Fetching, requests>>
      /\ UNCHANGED inbox \/ D!Report \/ F!Report
  <2>1. CASE DiscoveryConnects(t) \/ DiscoveryFails(t)
    <3>1. (D!Connect(t) \/ D!AskFails(t)) /\ requests' = requests /\ fpc' = fpc
      BY <2>1 DEF DiscoveryConnects, DiscoveryFails, shared, fetch
    <3>2. dpc[t] \in {"connect", "ask"} /\ (UNCHANGED inbox \/ D!Report)
      BY <3>1, DiscoveryExchange
    <3>3. PICK place \in {"connect", "ask"} : dpc' = [dpc EXCEPT ![t] = place]
      BY <3>1, DiscoveryExchange
    <3> QED
      BY <3>1, <3>2, <3>3 DEF Control, Looking, Fetching
  <2>2. CASE FetchConnects(t) \/ FetchFails(t)
    <3>1. (F!Connect(t) \/ F!AskFails(t)) /\ requests' = requests /\ dpc' = dpc
      BY <2>2 DEF FetchConnects, FetchFails, shared, discovery
    <3>2. fpc[t] \in {"connect", "ask"} /\ (UNCHANGED inbox \/ F!Report)
      BY <3>1, FetchExchange
    <3>3. PICK place \in {"connect", "ask"} : fpc' = [fpc EXCEPT ![t] = place]
      BY <3>1, FetchExchange
    <3> QED
      BY <3>1, <3>2, <3>3 DEF Control, Looking, Fetching
  <2> QED
    BY <2>1, <2>2
<1>2. Outstanding' = Outstanding /\ Outstanding > 0
  BY <1>1, Unmoved, OpenWhileWorking
<1>3. CASE UNCHANGED inbox
  BY <1>2, <1>3
<1>4. CASE D!Report \/ F!Report
  BY <1>2, <1>4 DEF D!Report, F!Report, Source!Complain
<1> QED
  BY <1>1, <1>2, <1>3, <1>4

(* Only an Info or a panic closes a request.                               *)
LEMMA PanicsLose ==
  ASSUME CInv, NEW t \in Task, Panics(t)
  PROVE  Source!Lose
<1> USE DEF CInv, Panics, DiscoveryPanics, FetchPanics, D!HangUp, F!HangUp, D!Goto, F!Goto,
            shared, discovery, fetch
<1>1. \/ t \in Looking /\ Looking' = Looking \ {t} /\ Fetching' = Fetching
      \/ t \in Fetching /\ Fetching' = Fetching \ {t} /\ Looking' = Looking
  BY DEF Control, Looking, Fetching
<1>2. Cardinality(Looking') + Cardinality(Fetching') = Cardinality(Looking) + Cardinality(Fetching) - 1
  <2>1. CASE t \in Looking /\ Looking' = Looking \ {t} /\ Fetching' = Fetching
    <3>1. Cardinality(Looking') = Cardinality(Looking) - 1
      BY <2>1, Counting, FS_RemoveElement
    <3>2. Cardinality(Fetching') = Cardinality(Fetching)
      BY <2>1
    <3> QED
      BY <3>1, <3>2, Counting
  <2>2. CASE t \in Fetching /\ Fetching' = Fetching \ {t} /\ Looking' = Looking
    <3>1. Cardinality(Fetching') = Cardinality(Fetching) - 1
      BY <2>2, Counting, FS_RemoveElement
    <3>2. Cardinality(Looking') = Cardinality(Looking)
      BY <2>2
    <3> QED
      BY <3>1, <3>2, Counting
  <2> QED
    BY <1>1, <2>1, <2>2
<1>3. Outstanding' = Outstanding - 1 /\ Outstanding > 0
  <2>1. requests' = requests /\ requests \in Nat
    BY DEF Control
  <2>2. Cardinality(Looking)' \in Nat /\ Cardinality(Fetching)' \in Nat
    BY <1>1, Counting, FS_RemoveElement, FS_CardinalityType
  <2> QED
    BY <1>1, <1>2, <2>1, <2>2, Counting, OpenWhileWorking DEF Outstanding
<1>4. UNCHANGED inbox
  OBVIOUS
<1> QED
  BY <1>3, <1>4 DEF Source!Lose

LEMMA DeliverAnswers ==
  ASSUME CInv, NEW t \in Task, Deliver(t)
  PROVE  Source!Deliver(name[t]) /\ name[t] \in Crate
<1> USE DEF CInv, Deliver, F!Goto, shared, discovery, fpool
<1>1. t \in Fetching /\ Fetching' = Fetching \ {t} /\ Looking' = Looking /\ requests' = requests
  BY DEF Control, Looking, Fetching
<1>2. Cardinality(Fetching') = Cardinality(Fetching) - 1 /\ Cardinality(Looking') = Cardinality(Looking)
  BY <1>1, Counting, FS_RemoveElement
<1>3. Outstanding' = Outstanding - 1 /\ Outstanding > 0
  BY <1>1, <1>2, Counting, OpenWhileWorking DEF Control, Outstanding
<1>4. name[t] \in Crate
  BY DEF OneRequest
<1> QED
  BY <1>3, <1>4 DEF Source!Deliver

LEMMA SourceStep == CInv /\ PoolTypes /\ [Next]_vars => [Source!Next]_(Source!vars)
<1> SUFFICES ASSUME CInv, PoolTypes, [Next]_vars PROVE [Source!Next]_(Source!vars)
  OBVIOUS
<1>1. CASE Request \/ Take
  BY <1>1, InterfaceStep DEF CInv
<1>2. ASSUME NEW t \in Task, Works(t) PROVE [Source!Next]_(Source!vars)
  <2>1. CASE Spin(t) \/ Insert(t) \/ Names(t) \/ Check(t) \/ Return(t) \/ Fetched(t)
    BY <2>1, SpinStutters, InsertStutters, PlaceStutters DEF Source!vars
  <2>2. CASE DiscoveryConnects(t) \/ DiscoveryFails(t) \/ FetchConnects(t) \/ FetchFails(t)
    BY <2>2, TroubleComplains DEF Source!Next, Source!vars
  <2>3. CASE Deliver(t)
    BY <2>3, DeliverAnswers DEF Source!Next
  <2> QED
    BY <1>2, <2>1, <2>2, <2>3 DEF Works
<1>3. ASSUME NEW t \in Task, Panics(t) PROVE Source!Next
  BY <1>3, PanicsLose DEF Source!Next
<1>4. CASE UNCHANGED vars
  <2>1. Looking' = Looking /\ Fetching' = Fetching /\ requests' = requests /\ inbox' = inbox
    BY <1>4 DEF vars, shared, discovery, fetch, Looking, Fetching
  <2> QED
    BY <2>1, Unmoved DEF Source!vars
<1> QED
  BY <1>1, <1>2, <1>3, <1>4 DEF Next

LEMMA SourceStart == Init => Source!Init
<1> SUFFICES ASSUME Init PROVE Source!Init
  OBVIOUS
<1>1. Looking = {} /\ Fetching = {} /\ requests = 0 /\ inbox = <<>>
  BY DEF Init, StartWith, Looking, Fetching
<1>2. Cardinality(Looking) = 0 /\ Cardinality(Fetching) = 0
  BY <1>1, FS_EmptySet
<1> QED
  BY <1>1, <1>2 DEF Source!Init, Outstanding

(* The client keeps the promise that the interface is built on: whatever   *)
(* its tasks do to each other, to the pools and to seen_crates, an Info    *)
(* answers exactly one request, and errors come only for open requests.    *)
THEOREM ClientIsCrateSource == Spec => ImplementsSource
BY ClientInvariance, SourceStart, SourceStep, PTL DEF Spec, ImplementsSource, Source!Spec
-----------------------------------------------------------------------------
(* A step that is no panic closes a request only by answering it.          *)
LEMMA WorkKeepsRequests ==
  ASSUME CInv, PoolTypes, Take \/ \E t \in Task : Works(t)
  PROVE  [Outstanding' < Outstanding => \E info \in Crate : Source!Deliver(info)]_(Source!vars)
<1>1. Outstanding \in Nat
  BY Counting DEF CInv, Control, Outstanding
<1>2. CASE Take
  <2>1. Looking' = Looking /\ Fetching' = Fetching /\ requests' = requests
    BY <1>2 DEF Take, shared, discovery, fetch, Looking, Fetching
  <2> QED
    BY <1>1, <2>1, Unmoved
<1>3. ASSUME NEW t \in Task, Works(t)
      PROVE  Outstanding' = Outstanding \/ \E info \in Crate : Source!Deliver(info)
  BY <1>3, SpinStutters, InsertStutters, PlaceStutters, TroubleComplains, DeliverAnswers DEF Works
<1> QED
  BY <1>1, <1>2, <1>3

(* Without panics only an Info closes a request: none is dropped between   *)
(* the channel, its discovery task and its fetch task (client.rs 86-144).  *)
THEOREM NoRequestDropped == AnswerSpec => RequestsEndInInfo
<1> DEFINE WNext == Take \/ \E t \in Task : Works(t)
<1>1. StartWith(MaxAsked) => CInv /\ DP!Init /\ FP!Init
  BY InitCInv, PoolsStart, ClientAssumption
<1>2. [WNext]_vars => [Next]_vars
  BY DEF Next
<1>3. CInv /\ PoolTypes /\ [WNext]_vars
        => [Outstanding' < Outstanding => \E info \in Crate : Source!Deliver(info)]_(Source!vars)
  <2>1. CASE WNext
    BY <2>1, WorkKeepsRequests
  <2>2. CASE UNCHANGED vars
    <3>1. Looking' = Looking /\ Fetching' = Fetching /\ requests' = requests /\ inbox' = inbox
      BY <2>2 DEF vars, shared, discovery, fetch, Looking, Fetching
    <3> QED
      BY <3>1, Unmoved DEF Source!vars
  <2> QED
    BY <2>1, <2>2
<1> HIDE DEF WNext
<1>4. StartWith(MaxAsked) /\ [][WNext]_vars => DP!Spec /\ FP!Spec
  BY <1>1, <1>2, PoolSteps, PTL DEF DP!Spec, FP!Spec, dpool, fpool, DP!pool, FP!pool
<1>5. StartWith(MaxAsked) /\ [][WNext]_vars => [](CInv /\ PoolTypes)
  BY <1>1, <1>2, <1>4, StepCInv, PoolsTyped, PoolAssumptions, DP!PoolInvariance,
     FP!PoolInvariance, PTL
<1>6. AnswerSpec => StartWith(MaxAsked) /\ [][WNext]_vars
  BY DEF AnswerSpec, WNext
<1>7. RequestsEndInInfo
        <=> [][Outstanding' < Outstanding => \E info \in Crate : Source!Deliver(info)]_(Source!vars)
  BY DEF RequestsEndInInfo, Source!KeepsRequests
<1> QED
  BY <1>3, <1>5, <1>6, <1>7, PTL
-----------------------------------------------------------------------------
(* What a step does to the race for a crate: seen_crates only grows, a     *)
(* task gets to "insert" only with a name that was not seen, or was there  *)
(* already, and starts to fetch only from there.                           *)
RaceStep ==
  /\ seen \subseteq seen'
  /\ \A t \in Task : dpc'[t] = "insert" =>
       name'[t] = name[t] /\ (dpc[t] = "insert" \/ name[t] \notin seen)
  /\ \A t \in Task : StartsFetching(t) => dpc[t] = "insert" /\ name'[t] = name[t]

LEMMA ExchangeRaces ==
  ASSUME CInv, PoolTypes, NEW t \in Task,
         DiscoveryConnects(t) \/ DiscoveryFails(t) \/ FetchConnects(t) \/ FetchFails(t)
  PROVE  RaceStep
<1> USE DEF CInv
<1>1. CASE DiscoveryConnects(t) \/ DiscoveryFails(t)
  <2>1. (D!Connect(t) \/ D!AskFails(t)) /\ UNCHANGED <<seen, name, fpc>>
    BY <1>1 DEF DiscoveryConnects, DiscoveryFails, shared, fetch
  <2>2. PICK place \in {"connect", "ask"} : dpc' = [dpc EXCEPT ![t] = place]
    BY <2>1, DiscoveryExchange
  <2> QED
    BY <2>1, <2>2 DEF Control, RaceStep, StartsFetching
<1>2. CASE FetchConnects(t) \/ FetchFails(t)
  <2>1. (F!Connect(t) \/ F!AskFails(t)) /\ UNCHANGED <<seen, name, dpc>>
    BY <1>2 DEF FetchConnects, FetchFails, shared, discovery
  <2>2. /\ fpc[t] \in {"connect", "ask"}
        /\ \E place \in {"connect", "ask"} : fpc' = [fpc EXCEPT ![t] = place]
    BY <2>1, FetchExchange
  <2> QED
    BY <2>1, <2>2 DEF Control, RaceStep, StartsFetching
<1> QED
  BY <1>1, <1>2

LEMMA StepRaces == CInv /\ PoolTypes /\ [Next]_vars => RaceStep
<1> SUFFICES ASSUME CInv, PoolTypes, [Next]_vars PROVE RaceStep
  OBVIOUS
<1> USE DEF CInv, Control, RaceStep, StartsFetching, D!Goto, F!Goto,
            shared, discovery, fetch, dpool, fpool
<1>1. CASE Request \/ Take \/ UNCHANGED vars
  BY <1>1 DEF Request, Take, vars
<1>2. ASSUME NEW t \in Task, Spin(t) \/ Names(t) \/ Check(t) PROVE RaceStep
  BY <1>2 DEF Spin, Names, Check
<1>3. ASSUME NEW t \in Task, Insert(t) PROVE RaceStep
  BY <1>3 DEF Insert
<1>4. ASSUME NEW t \in Task, Return(t) \/ DiscoveryPanics(t) PROVE RaceStep
  BY <1>4 DEF Return, DiscoveryPanics, D!HangUp
<1>5. ASSUME NEW t \in Task, Fetched(t) \/ FetchPanics(t) \/ Deliver(t) PROVE RaceStep
  BY <1>5 DEF Fetched, FetchPanics, Deliver, F!HangUp
<1> QED
  BY <1>1, <1>2, <1>3, <1>4, <1>5, ExchangeRaces DEF Next, Works, Panics

(* The race for a crate ends: once it is in seen_crates and every task that*)
(* had missed it there has inserted it too, it is never fetched again      *)
(* (client.rs 103-109), whatever docs.rs points to and whoever retries.    *)
THEOREM RaceEnds == Spec => SettledIsNotFetchedAgain
<1> DEFINE Stays == \A crate \in Crate : Settled(crate) =>
             /\ Settled(crate)'
             /\ \A t \in Task : StartsFetching(t) => name'[t] # crate
<1>1. RaceStep => Stays
  BY DEF RaceStep, Settled
<1>2. CInv /\ PoolTypes /\ [Next]_vars => [Stays]_vars
  BY <1>1, StepRaces
<1> HIDE DEF Stays
<1>3. Spec => [][Stays]_vars
  BY <1>2, ClientInvariance, PTL DEF Spec
<1> QED
  BY <1>3 DEF SettledIsNotFetchedAgain, Stays
=============================================================================
