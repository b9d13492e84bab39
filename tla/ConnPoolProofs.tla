--------------------------- MODULE ConnPoolProofs ---------------------------
(***************************************************************************)
(* The pool's safety for any number of holders and connections.  Its       *)
(* properties ExclusiveUse and SpentNeverReused are inductive together; to *)
(* count connections one also has to know that a holder that is creating a *)
(* connection uses none.                                                   *)
(***************************************************************************)
EXTENDS ConnPool, FiniteSetTheorems, TLAPS

Users == {h \in Holder : Using(h)}

CreatorsUseNone == creating \cap Users = {}

PInv == TypeOK /\ ExclusiveUse /\ SpentNeverReused /\ PoolBounded /\ CreatorsUseNone

-----------------------------------------------------------------------------
(* Taking the head of a queue without repetitions ... *)
LEMMA TailOfQueue ==
  ASSUME NEW S, NEW q \in Seq(S), q # <<>>, IsInjective(q)
  PROVE  /\ Tail(q) \in Seq(S)
         /\ Head(q) \in S
         /\ IsInjective(Tail(q))
         /\ Range(Tail(q)) = Range(q) \ {Head(q)}
         /\ Len(Tail(q)) = Len(q) - 1
<1>1. /\ Tail(q) \in Seq(S)
      /\ Head(q) \in S
      /\ Head(q) = q[1]
      /\ Len(Tail(q)) = Len(q) - 1
      /\ Len(q) \in Nat \ {0}
      /\ \A i \in 1 .. Len(q) - 1 : Tail(q)[i] = q[i + 1]
  OBVIOUS
<1>2. DOMAIN q = 1 .. Len(q) /\ DOMAIN Tail(q) = 1 .. Len(q) - 1
  BY <1>1
<1>3. IsInjective(Tail(q))
  BY <1>1, <1>2 DEF IsInjective
<1>4. ASSUME NEW c \in Range(Tail(q)) PROVE c \in Range(q) \ {Head(q)}
  <2>1. PICK i \in 1 .. Len(q) - 1 : c = Tail(q)[i]
    BY <1>2 DEF Range
  <2>2. i + 1 \in DOMAIN q /\ 1 \in DOMAIN q /\ c = q[i + 1] /\ i + 1 # 1
    BY <1>1, <1>2, <2>1
  <2> QED
    BY <1>1, <2>2 DEF Range, IsInjective
<1>5. ASSUME NEW c \in Range(q) \ {Head(q)} PROVE c \in Range(Tail(q))
  <2>1. PICK i \in 1 .. Len(q) : c = q[i]
    BY <1>2 DEF Range
  <2>2. i - 1 \in 1 .. Len(q) - 1 /\ (i - 1) + 1 = i
    BY <1>1, <2>1
  <2>3. Tail(q)[i - 1] = c
    BY <1>1, <2>1, <2>2
  <2> QED
    BY <1>2, <2>2, <2>3 DEF Range
<1> QED
  BY <1>1, <1>3, <1>4, <1>5

(* ... and adding an element that is not in it. *)
LEMMA AppendToQueue ==
  ASSUME NEW S, NEW q \in Seq(S), IsInjective(q), NEW c \in S, c \notin Range(q)
  PROVE  /\ Append(q, c) \in Seq(S)
         /\ IsInjective(Append(q, c))
         /\ Range(Append(q, c)) = Range(q) \cup {c}
         /\ Len(Append(q, c)) = Len(q) + 1
<1>1. /\ Append(q, c) \in Seq(S)
      /\ Len(q) \in Nat
      /\ DOMAIN q = 1 .. Len(q)
      /\ DOMAIN Append(q, c) = 1 .. Len(q) + 1
      /\ Len(Append(q, c)) = Len(q) + 1
      /\ \A i \in 1 .. Len(q) : Append(q, c)[i] = q[i]
      /\ Append(q, c)[Len(q) + 1] = c
  OBVIOUS
<1>2. \A i \in 1 .. Len(q) : q[i] # c
  BY <1>1 DEF Range
<1>3. ASSUME NEW i \in 1 .. Len(q) + 1, NEW j \in 1 .. Len(q) + 1,
             Append(q, c)[i] = Append(q, c)[j]
      PROVE  i = j
  <2>1. (i \in 1 .. Len(q) \/ i = Len(q) + 1) /\ (j \in 1 .. Len(q) \/ j = Len(q) + 1)
    BY <1>1
  <2> QED
    BY <1>1, <1>2, <1>3, <2>1 DEF IsInjective
<1>4. \A i \in 1 .. Len(q) : i \in 1 .. Len(q) + 1
  BY <1>1
<1>5. Len(q) + 1 \in 1 .. Len(q) + 1
  BY <1>1
<1>6. \A i \in 1 .. Len(q) + 1 : i \in 1 .. Len(q) \/ i = Len(q) + 1
  BY <1>1
<1>7. Range(Append(q, c)) = Range(q) \cup {c}
  BY <1>1, <1>4, <1>5, <1>6 DEF Range
<1> QED
  BY <1>1, <1>3, <1>7 DEF IsInjective
-----------------------------------------------------------------------------
(* The sets that PoolBounded counts are finite. *)
LEMMA FiniteHolders ==
  ASSUME TypeOK
  PROVE  /\ IsFiniteSet(Holder) /\ IsFiniteSet(Users) /\ IsFiniteSet(creating)
         /\ Cardinality(Holder) \in Nat /\ Cardinality(Users) \in Nat
         /\ Cardinality(creating) \in Nat
         /\ Len(idle) \in Nat
<1>1. IsFiniteSet(Holder)
  BY PoolAssumption
<1>2. Users \in SUBSET Holder /\ creating \in SUBSET Holder
  BY DEF Users, TypeOK
<1>3. IsFiniteSet(Users) /\ IsFiniteSet(creating)
  BY <1>1, <1>2, FS_Subset
<1> QED
  BY <1>1, <1>3, FS_CardinalityType DEF TypeOK

(* Which holders use a connection, after one of them has got one. *)
LEMMA UsersAfterGive ==
  ASSUME TypeOK, NEW h \in Holder, NEW conn \in Conn, Give(h, conn)
  PROVE  /\ Users' = Users \cup {h}
         /\ held' \in [Holder -> Conn \cup {NoConn}]
         /\ valid' \in [Holder -> BOOLEAN]
         /\ held'[h] = conn /\ conn # NoConn
         /\ \A g \in Holder \ {h} : held'[g] = held[g] /\ valid'[g] = valid[g]
BY PoolAssumption DEF TypeOK, Give, Users, Using

(* A connection that nobody else has may be given to a holder.             *)
LEMMA GiveExclusively ==
  ASSUME TypeOK, ExclusiveUse, NEW h \in Holder, NEW conn \in Conn, Give(h, conn),
         IsInjective(idle'), Range(idle') \subseteq Range(idle), conn \notin Range(idle'),
         \A g \in Holder \ {h} : held[g] # conn
  PROVE  ExclusiveUse'
BY UsersAfterGive DEF ExclusiveUse

LEMMA GiveUnspent ==
  ASSUME TypeOK, SpentNeverReused, NEW h \in Holder, NEW conn \in Conn, Give(h, conn),
         Range(idle') \subseteq Range(idle), spent' \subseteq spent, conn \notin spent'
  PROVE  SpentNeverReused'
<1>1. ASSUME NEW g \in Holder, Using(g)' PROVE held'[g] \notin spent'
  BY <1>1, UsersAfterGive DEF Using, SpentNeverReused
<1> QED
  BY <1>1 DEF SpentNeverReused
-----------------------------------------------------------------------------
LEMMA InitPInv == Init => PInv
<1> SUFFICES ASSUME Init PROVE PInv
  OBVIOUS
<1>1. TypeOK
  BY DEF Init, TypeOK
<1>2. Users = {} /\ creating = {} /\ Range(idle) = {} /\ Len(idle) = 0
  BY DEF Init, Users, Using, Range
<1>3. Cardinality({}) = 0
  BY FS_EmptySet
<1>4. PoolBounded
  <2>1. Cardinality(Users) = 0 /\ Cardinality(creating) = 0
    BY <1>2, <1>3
  <2> QED
    BY <1>1, <1>2, <2>1, FiniteHolders DEF PoolBounded, Users
<1>5. ExclusiveUse
  BY <1>2 DEF Init, ExclusiveUse, IsInjective
<1>6. SpentNeverReused
  BY <1>2 DEF SpentNeverReused, Users, Init
<1> QED
  BY <1>1, <1>2, <1>4, <1>5, <1>6 DEF PInv, CreatorsUseNone

LEMMA PopIdlePInv == ASSUME NEW h \in Holder PROVE PInv /\ PopIdle(h) => PInv'
<1> SUFFICES ASSUME PInv, PopIdle(h) PROVE PInv'
  OBVIOUS
<1> USE DEF PInv
<1> DEFINE conn == Head(idle)
<1>1. /\ h \notin creating /\ h \notin Users /\ idle # <<>>
      /\ Give(h, conn) /\ idle' = Tail(idle)
      /\ creating' = creating /\ spent' = spent
  BY DEF PopIdle, Wants, Users, Using
<1>2. /\ idle' \in Seq(Conn) /\ conn \in Conn /\ IsInjective(idle')
      /\ Range(idle') = Range(idle) \ {conn} /\ Len(idle') = Len(idle) - 1
  BY <1>1, TailOfQueue DEF TypeOK, ExclusiveUse
<1>3. conn \in Range(idle)
  BY <1>1 DEF TypeOK, Range
<1>4. TypeOK'
  BY <1>1, <1>2, UsersAfterGive DEF TypeOK
<1>5. ExclusiveUse'
  BY <1>1, <1>2, <1>3, GiveExclusively DEF ExclusiveUse
<1>6. SpentNeverReused'
  BY <1>1, <1>2, <1>3, GiveUnspent DEF SpentNeverReused
<1>7. Users' = Users \cup {h}
  BY <1>1, <1>2, UsersAfterGive
<1>8. PoolBounded'
  <2>1. Cardinality(Users') = Cardinality(Users) + 1
    BY <1>1, <1>7, FS_AddElement, FiniteHolders
  <2> QED
    BY <1>1, <1>2, <2>1, FiniteHolders DEF PoolBounded, Users
<1> QED
  BY <1>1, <1>4, <1>5, <1>6, <1>7, <1>8 DEF CreatorsUseNone

LEMMA StartCreatePInv == ASSUME NEW h \in Holder PROVE PInv /\ StartCreate(h) => PInv'
<1> SUFFICES ASSUME PInv, StartCreate(h) PROVE PInv'
  OBVIOUS
<1> USE DEF PInv
<1>1. /\ h \notin creating /\ h \notin Users /\ idle = <<>>
      /\ creating' = creating \cup {h}
      /\ UNCHANGED <<idle, held, valid, spent>>
  BY DEF StartCreate, Wants, Users, Using
<1>2. TypeOK' /\ ExclusiveUse' /\ SpentNeverReused' /\ Users' = Users
  BY <1>1 DEF TypeOK, ExclusiveUse, SpentNeverReused, Users, Using
<1>3. CreatorsUseNone'
  BY <1>1, <1>2 DEF CreatorsUseNone
<1>4. PoolBounded'
  <2>1. /\ IsFiniteSet(Users') /\ IsFiniteSet(creating') /\ Users' \cap creating' = {}
        /\ Users' \cup creating' \in SUBSET Holder
        /\ Cardinality(Users') \in Nat /\ Cardinality(creating') \in Nat
    <3>1. Users' \cup creating' \in SUBSET Holder
      BY <1>2 DEF TypeOK, Users
    <3>2. IsFiniteSet(Users') /\ IsFiniteSet(creating')
      BY <1>1, <1>2, FS_AddElement, FiniteHolders
    <3> QED
      BY <1>3, <3>1, <3>2, FS_CardinalityType DEF CreatorsUseNone
  <2>2. Cardinality(Users') + Cardinality(creating') = Cardinality(Users' \cup creating')
    <3>1. Cardinality(Users' \cap creating') = 0
      BY <2>1, FS_EmptySet
    <3>2. Cardinality(Users' \cup creating')
            = Cardinality(Users') + Cardinality(creating') - Cardinality(Users' \cap creating')
      BY <2>1, FS_Union, Zenon
    <3> QED
      BY <2>1, <3>1, <3>2
  <2>3. Cardinality(Users' \cup creating') <= Cardinality(Holder)
    BY <2>1, FS_Subset, PoolAssumption
  <2>4. Len(idle') = 0
    BY <1>1
  <2> QED
    BY <2>1, <2>2, <2>3, <2>4, FiniteHolders DEF PoolBounded, Users
<1> QED
  BY <1>2, <1>3, <1>4

LEMMA CreatedPInv == ASSUME NEW h \in Holder PROVE PInv /\ Created(h) => PInv'
<1> SUFFICES ASSUME PInv, Created(h) PROVE PInv'
  OBVIOUS
<1> USE DEF PInv
<1>1. h \in creating /\ creating' = creating \ {h} /\ idle' = idle /\ h \notin Users
  BY DEF Created, CreatorsUseNone
<1>2. PICK conn \in FreeFor(h) : Give(h, conn) /\ spent' = spent \ {conn}
  BY DEF Created
<1>3. /\ conn \in Conn /\ conn \notin Range(idle)
      /\ \A g \in Holder \ {h} : held[g] # conn
  BY <1>2 DEF FreeFor
<1>4. TypeOK' /\ Users' = Users \cup {h}
  BY <1>1, <1>2, <1>3, UsersAfterGive DEF TypeOK
<1>5. ExclusiveUse'
  BY <1>1, <1>2, <1>3, GiveExclusively DEF ExclusiveUse
<1>6. SpentNeverReused'
  BY <1>1, <1>2, <1>3, GiveUnspent
<1>7. PoolBounded'
  <2>1. /\ Cardinality(Users') = Cardinality(Users) + 1
        /\ Cardinality(creating') = Cardinality(creating) - 1
    BY <1>1, <1>4, FS_AddElement, FS_RemoveElement, FiniteHolders
  <2> QED
    BY <1>1, <2>1, FiniteHolders DEF PoolBounded, Users
<1> QED
  BY <1>1, <1>4, <1>5, <1>6, <1>7 DEF CreatorsUseNone

LEMMA CreateFailsPInv == ASSUME NEW h \in Holder PROVE PInv /\ CreateFails(h) => PInv'
<1> SUFFICES ASSUME PInv, CreateFails(h) PROVE PInv'
  OBVIOUS
<1> USE DEF PInv
<1>1. h \in creating /\ creating' = creating \ {h} /\ UNCHANGED <<idle, held, valid, spent>>
  BY DEF CreateFails
<1>2. TypeOK' /\ ExclusiveUse' /\ SpentNeverReused' /\ Users' = Users
  BY <1>1 DEF TypeOK, ExclusiveUse, SpentNeverReused, Users, Using
<1>3. PoolBounded'
  <2>1. Cardinality(creating') = Cardinality(creating) - 1
    BY <1>1, FS_RemoveElement, FiniteHolders
  <2>2. Len(idle') = Len(idle) /\ Cardinality(Users') = Cardinality(Users)
    BY <1>1, <1>2
  <2> QED
    BY <2>1, <2>2, FiniteHolders DEF PoolBounded, Users
<1> QED
  BY <1>1, <1>2, <1>3 DEF CreatorsUseNone

LEMMA UseFailsPInv ==
  ASSUME NEW h \in Holder, NEW err \in Errors PROVE PInv /\ UseFails(h, err) => PInv'
<1> SUFFICES ASSUME PInv, UseFails(h, err) PROVE PInv'
  OBVIOUS
<1> USE DEF PInv
<1>1. /\ h \in Users /\ held[h] \in Conn
      /\ spent' = IF err = "http" THEN spent \cup {held[h]} ELSE spent
      /\ valid' = [valid EXCEPT ![h] = ~ IoSource(err)]
      /\ idle' = idle /\ held' = held /\ creating' = creating
  BY DEF UseFails, Users, Using, TypeOK
<1>2. TypeOK'
  BY <1>1 DEF TypeOK, IoSource
<1>3. ExclusiveUse'
  BY <1>1 DEF ExclusiveUse
<1>4. Users' \in SUBSET Users
  BY <1>1 DEF Users, Using, TypeOK
<1>5. SpentNeverReused'
  <2>1. CASE err = "http"
    <3>1. h \notin Users' /\ held[h] # NoConn
      BY <1>1, <2>1 DEF Users, Using, IoSource, TypeOK
    <3>2. \A g \in Users' : g \in Users /\ held[g] \notin spent /\ held[g] # held[h]
      BY <1>4, <3>1 DEF SpentNeverReused, ExclusiveUse, Users
    <3>3. held[h] \notin Range(idle)
      BY DEF ExclusiveUse
    <3> QED
      BY <1>1, <2>1, <3>2, <3>3 DEF SpentNeverReused, Users
  <2>2. CASE err # "http"
    BY <1>1, <1>4, <2>2 DEF SpentNeverReused, Users
  <2> QED
    BY <2>1, <2>2
<1>6. PoolBounded'
  <2>1. Cardinality(Users') <= Cardinality(Users) /\ Cardinality(Users') \in Nat
    BY <1>4, FS_Subset, FS_CardinalityType, FiniteHolders
  <2> QED
    BY <1>1, <2>1, FiniteHolders DEF PoolBounded, Users
<1> QED
  BY <1>1, <1>2, <1>3, <1>4, <1>5, <1>6 DEF CreatorsUseNone

LEMMA DropPInv == ASSUME NEW h \in Holder PROVE PInv /\ Drop(h) => PInv'
<1> SUFFICES ASSUME PInv, Drop(h) PROVE PInv'
  OBVIOUS
<1> USE DEF PInv
<1> DEFINE conn == held[h]
<1>1. /\ conn \in Conn /\ conn # NoConn /\ conn \notin Range(idle)
      /\ idle' = IF valid[h] THEN Append(idle, conn) ELSE idle
      /\ held' = [held EXCEPT ![h] = NoConn]
      /\ valid' = valid /\ creating' = creating /\ spent' = spent
  BY DEF Drop, TypeOK, ExclusiveUse
<1>2. Users' = Users \ {h}
  BY <1>1 DEF Users, Using, TypeOK
<1>3. /\ idle' \in Seq(Conn) /\ IsInjective(idle') /\ Range(idle') \subseteq Range(idle) \cup {conn}
      /\ Len(idle') = IF valid[h] THEN Len(idle) + 1 ELSE Len(idle)
  BY <1>1, AppendToQueue DEF TypeOK, ExclusiveUse
<1>4. TypeOK'
  BY <1>1, <1>3 DEF TypeOK
<1>5. ExclusiveUse'
  <2>1. \A g \in Holder : held'[g] = IF g = h THEN NoConn ELSE held[g]
    BY <1>1 DEF TypeOK
  <2>2. NoConn \notin Range(idle')
    BY <1>3, PoolAssumption DEF Range
  <2>3. \A g \in Holder : held'[g] \notin Range(idle')
    BY <1>1, <1>3, <2>1, <2>2 DEF ExclusiveUse
  <2> QED
    BY <1>3, <2>1, <2>3 DEF ExclusiveUse
<1>6. SpentNeverReused'
  <2>1. valid[h] => conn \notin spent
    BY <1>1 DEF SpentNeverReused, Using
  <2>2. Range(idle') \cap spent = {}
    BY <1>1, <1>3, <2>1 DEF SpentNeverReused
  <2>3. \A g \in Users' : g \in Users /\ held'[g] = held[g]
    BY <1>1, <1>2 DEF Users, TypeOK
  <2> QED
    BY <1>1, <2>2, <2>3 DEF SpentNeverReused, Users
<1>7. PoolBounded'
  <2>1. h \in Users <=> valid[h]
    BY <1>1 DEF Users, Using
  <2>2. Cardinality(Users') = IF valid[h] THEN Cardinality(Users) - 1 ELSE Cardinality(Users)
    BY <1>2, <2>1, FS_RemoveElement, FiniteHolders
  <2> QED
    BY <1>1, <1>3, <2>2, FiniteHolders DEF PoolBounded, Users
<1> QED
  BY <1>1, <1>2, <1>4, <1>5, <1>6, <1>7 DEF CreatorsUseNone

LEMMA StepPInv == PInv /\ [Next]_pool => PInv'
<1> SUFFICES ASSUME PInv, [Next]_pool PROVE PInv'
  OBVIOUS
<1>1. CASE Next
  BY <1>1, PopIdlePInv, StartCreatePInv, CreatedPInv, CreateFailsPInv, UseFailsPInv, DropPInv
     DEF Next
<1>2. CASE UNCHANGED pool
  BY <1>2 DEF pool, PInv, TypeOK, ExclusiveUse, SpentNeverReused, PoolBounded,
              CreatorsUseNone, Users, Using
<1> QED
  BY <1>1, <1>2

(* PInv is inductive: the pool keeps its promises together or not at all.  *)
THEOREM PoolInvariance == Spec => []PInv
BY InitPInv, StepPInv, PTL DEF Spec
-----------------------------------------------------------------------------
(* The pool's state is well typed. *)
THEOREM PoolTypeCorrect == Spec => []TypeOK
<1>1. PInv => TypeOK
  BY DEF PInv
<1> QED
  BY <1>1, PoolInvariance, PTL

(* However many tasks lease, give up and return connections, each          *)
(* connection has one owner: the queue or one Connection (conn_pool.rs).   *)
THEOREM OneOwner == Spec => []ExclusiveUse
<1>1. PInv => ExclusiveUse
  BY DEF PInv
<1> QED
  BY <1>1, PoolInvariance, PTL

(* No connection whose oneshot has completed is used again or pooled:      *)
(* polling it a second time would panic (connection.rs 37).                *)
THEOREM NoReuseOfSpent == Spec => []SpentNeverReused
<1>1. PInv => SpentNeverReused
  BY DEF PInv
<1> QED
  BY <1>1, PoolInvariance, PTL

(* The pool keeps no more connections than there are tasks, although it    *)
(* has no limit of its own (get_connection, conn_pool.rs 86-105).          *)
THEOREM BoundedByTasks == Spec => []PoolBounded
<1>1. PInv => PoolBounded
  BY DEF PInv
<1> QED
  BY <1>1, PoolInvariance, PTL
=============================================================================
