----------------------------- MODULE UnitsProofs -----------------------------
(***************************************************************************)
(* Proofs about the units: the numbers, the stream adapter, the filters,   *)
(* the table and the notifications, in this order, for numbers, buffers,   *)
(* texts, tables and queues of any size.                                   *)
(***************************************************************************)
EXTENDS Units, EntriesProofs, FiltersProofs

(* The decimal is one digit and off by at most one; it never falls.        *)
LEMMA DecimalDigit ==
  ASSUME NEW rem \in Nat, rem < 1000
  PROVE  /\ FormatDecimal(rem) \in Nat /\ FormatDecimal(rem) < 10
         /\ FormatDecimal(rem) * 100 - rem >= -99
         /\ FormatDecimal(rem) * 100 - rem <= 100
BY SMT DEF FormatDecimal

LEMMA DecimalMonotone ==
  ASSUME NEW m \in Nat, NEW n \in Nat, m <= n, n < 1000
  PROVE  FormatDecimal(m) <= FormatDecimal(n)
BY SMT DEF FormatDecimal

(* A number in each of the three units: the whole units, the thousandths   *)
(* that the decimal is made from, and what is ignored.                     *)
AsThousands(n, q, rem) ==
  /\ rem < 1000
  /\ n = 1000 * q + rem
  /\ WithDecimal(n, Thousand) = 1000 * q + 100 * FormatDecimal(rem)

AsMillions(n, q, rem, rest) ==
  /\ rem < 1000 /\ rest < 1000
  /\ n = 1000000 * q + 1000 * rem + rest
  /\ WithDecimal(n, Million) = 1000000 * q + 100000 * FormatDecimal(rem)

AsBillions(n, q, rem, rest) ==
  /\ rem < 1000 /\ rest < 1000000
  /\ n = 1000000000 * q + 1000000 * rem + rest
  /\ WithDecimal(n, Billion) = 1000000000 * q + 100000000 * FormatDecimal(rem)

LEMMA InThousands ==
  ASSUME NEW n \in Nat
  PROVE  \E q \in Nat, rem \in Nat : AsThousands(n, q, rem)
<1>1. PICK q \in Nat, rem \in Nat : rem < 1000 /\ q = n \div 1000 /\ rem = n % 1000 /\ n = 1000 * q + rem
  BY SMT
<1>2. (n % 1000) \div (1000 \div 1000) = rem
  BY <1>1, SMT
<1>3. Whole(n, 1000) = 1000 * q
  BY <1>1, SMT DEF Whole
<1>4. Decimal(FormatDecimal(rem), 1000) = 100 * FormatDecimal(rem)
  BY <1>1, DecimalDigit, SMT DEF Decimal
<1>5. WithDecimal(n, 1000) = 1000 * q + 100 * FormatDecimal(rem)
  BY <1>2, <1>3, <1>4, SMT DEF WithDecimal
<1>6. QED
  BY <1>1, <1>5, SMT DEF Thousand, AsThousands

LEMMA InMillions ==
  ASSUME NEW n \in Nat
  PROVE  \E q \in Nat, rem \in Nat, rest \in Nat : AsMillions(n, q, rem, rest)
<1>1. PICK q \in Nat, below \in Nat : below < 1000000 /\ q = n \div 1000000 /\ below = n % 1000000 /\ n = 1000000 * q + below
  BY SMT
<1>2. PICK rem \in Nat, rest \in Nat : rem < 1000 /\ rest < 1000 /\ rem = below \div 1000 /\ below = 1000 * rem + rest
  BY <1>1, SMT
<1>3. (n % 1000000) \div (1000000 \div 1000) = rem
  BY <1>1, <1>2, SMT
<1>4. Whole(n, 1000000) = 1000000 * q
  BY <1>1, SMT DEF Whole
<1>5. Decimal(FormatDecimal(rem), 1000000) = 100000 * FormatDecimal(rem)
  BY <1>2, DecimalDigit, SMT DEF Decimal
<1>6. WithDecimal(n, 1000000) = 1000000 * q + 100000 * FormatDecimal(rem)
  BY <1>3, <1>4, <1>5, SMT DEF WithDecimal
<1>7. QED
  BY <1>1, <1>2, <1>6, SMT DEF Million, AsMillions

LEMMA InBillions ==
  ASSUME NEW n \in Nat
  PROVE  \E q \in Nat, rem \in Nat, rest \in Nat : AsBillions(n, q, rem, rest)
<1>1. PICK q \in Nat, below \in Nat : below < 1000000000 /\ q = n \div 1000000000 /\ below = n % 1000000000 /\ n = 1000000000 * q + below
  BY SMT
<1>2. PICK rem \in Nat, rest \in Nat : rem < 1000 /\ rest < 1000000 /\ rem = below \div 1000000 /\ below = 1000000 * rem + rest
  BY <1>1, SMT
<1>3. (n % 1000000000) \div (1000000000 \div 1000) = rem
  BY <1>1, <1>2, SMT
<1>4. Whole(n, 1000000000) = 1000000000 * q
  BY <1>1, SMT DEF Whole
<1>5. Decimal(FormatDecimal(rem), 1000000000) = 100000000 * FormatDecimal(rem)
  BY <1>2, DecimalDigit, SMT DEF Decimal
<1>6. WithDecimal(n, 1000000000) = 1000000000 * q + 100000000 * FormatDecimal(rem)
  BY <1>3, <1>4, <1>5, SMT DEF WithDecimal
<1>7. QED
  BY <1>1, <1>2, <1>6, SMT DEF Billion, AsBillions

(* Whole units, and what is ignored.                                       *)
LEMMA WholeThousands ==
  ASSUME NEW n \in Nat
  PROVE  \E q \in Nat, below \in Nat :
           below < 1000 /\ n = 1000 * q + below /\ Whole(n, Thousand) = 1000 * q
BY SMT DEF Whole, Thousand

LEMMA WholeMillions ==
  ASSUME NEW n \in Nat
  PROVE  \E q \in Nat, below \in Nat :
           below < 1000000 /\ n = 1000000 * q + below /\ Whole(n, Million) = 1000000 * q
BY SMT DEF Whole, Million

(* Which of the six cases a number falls into.                             *)
LEMMA ShownCases ==
  ASSUME NEW n \in Nat
  PROVE  /\ n < 1000 => Shown(n) = n /\ Step(n) = 1
         /\ n >= 1000 /\ n < 100000 => Shown(n) = WithDecimal(n, Thousand) /\ Step(n) = 100
         /\ n >= 100000 /\ n < 1000000 => Shown(n) = Whole(n, Thousand) /\ Step(n) = 1000
         /\ n >= 1000000 /\ n < 100000000 => Shown(n) = WithDecimal(n, Million) /\ Step(n) = 100000
         /\ n >= 100000000 /\ n < 1000000000 => Shown(n) = Whole(n, Million) /\ Step(n) = 1000000
         /\ n >= 1000000000 => Shown(n) = WithDecimal(n, Billion) /\ Step(n) = 100000000
<1>1. Thousand = 1000 /\ Million = 1000000 /\ Billion = 1000000000
  BY SMT DEF Thousand, Million, Billion
<1>2. 100 * Thousand = 100000 /\ 100 * Million = 100000000
  BY <1>1, SMT
<1>3. Thousand \div 10 = 100 /\ Million \div 10 = 100000 /\ Billion \div 10 = 100000000
  BY <1>1, SMT
<1>4. QED
  BY <1>1, <1>2, <1>3, SMT DEF Shown, Step

(* The text is off by at most one of its last digit.                       *)
LEMMA ShownOff ==
  ASSUME NEW n \in Nat
  PROVE  Shown(n) \in Nat /\ Shown(n) - n \in - Step(n) .. Step(n)
<1>1. CASE n < 1000
  BY <1>1, ShownCases, SMT
<1>2. CASE n >= 1000 /\ n < 100000
  <2>1. PICK q \in Nat, rem \in Nat : AsThousands(n, q, rem)
    BY InThousands
  <2>2. QED
    BY <1>2, <2>1, ShownCases, DecimalDigit, SMT DEF AsThousands
<1>3. CASE n >= 100000 /\ n < 1000000
  BY <1>3, ShownCases, WholeThousands, SMT
<1>4. CASE n >= 1000000 /\ n < 100000000
  <2>1. PICK q \in Nat, rem \in Nat, rest \in Nat : AsMillions(n, q, rem, rest)
    BY InMillions
  <2>2. QED
    BY <1>4, <2>1, ShownCases, DecimalDigit, SMT DEF AsMillions
<1>5. CASE n >= 100000000 /\ n < 1000000000
  BY <1>5, ShownCases, WholeMillions, SMT
<1>6. CASE n >= 1000000000
  <2>1. PICK q \in Nat, rem \in Nat, rest \in Nat : AsBillions(n, q, rem, rest)
    BY InBillions
  <2>2. QED
    BY <1>6, <2>1, ShownCases, DecimalDigit, SMT DEF AsBillions
<1>7. QED
  BY <1>1, <1>2, <1>3, <1>4, <1>5, <1>6, SMT

(* The six cases meet at these numbers, and no text crosses one of them.   *)
LEMMA ShownBounds ==
  ASSUME NEW n \in Nat
  PROVE  /\ n < 1000 <=> Shown(n) < 1000
         /\ n < 100000 <=> Shown(n) < 100000
         /\ n < 1000000 <=> Shown(n) < 1000000
         /\ n < 100000000 <=> Shown(n) < 100000000
         /\ n < 1000000000 <=> Shown(n) < 1000000000
<1>1. CASE n < 1000
  BY <1>1, ShownCases, SMT
<1>2. CASE n >= 1000 /\ n < 100000
  <2>1. PICK q \in Nat, rem \in Nat : AsThousands(n, q, rem)
    BY InThousands
  <2>2. QED
    BY <1>2, <2>1, ShownCases, DecimalDigit, SMT DEF AsThousands
<1>3. CASE n >= 100000 /\ n < 1000000
  BY <1>3, ShownCases, WholeThousands, SMT
<1>4. CASE n >= 1000000 /\ n < 100000000
  <2>1. PICK q \in Nat, rem \in Nat, rest \in Nat : AsMillions(n, q, rem, rest)
    BY InMillions
  <2>2. QED
    BY <1>4, <2>1, ShownCases, DecimalDigit, SMT DEF AsMillions
<1>5. CASE n >= 100000000 /\ n < 1000000000
  BY <1>5, ShownCases, WholeMillions, SMT
<1>6. CASE n >= 1000000000
  <2>1. PICK q \in Nat, rem \in Nat, rest \in Nat : AsBillions(n, q, rem, rest)
    BY InBillions
  <2>2. QED
    BY <1>6, <2>1, ShownCases, DecimalDigit, SMT DEF AsBillions
<1>7. QED
  BY <1>1, <1>2, <1>3, <1>4, <1>5, <1>6, SMT

(* Within one of the cases the text never falls.                           *)
LEMMA DecimalsRise ==
  ASSUME NEW m \in Nat, NEW n \in Nat, m <= n
  PROVE  /\ WithDecimal(m, Thousand) <= WithDecimal(n, Thousand)
         /\ WithDecimal(m, Million) <= WithDecimal(n, Million)
         /\ WithDecimal(m, Billion) <= WithDecimal(n, Billion)
<1>1. WithDecimal(m, Thousand) <= WithDecimal(n, Thousand)
  <2>1. PICK q \in Nat, rem \in Nat : AsThousands(m, q, rem)
    BY InThousands
  <2>2. PICK p \in Nat, pem \in Nat : AsThousands(n, p, pem)
    BY InThousands
  <2>3. q < p \/ (q = p /\ rem <= pem)
    BY <2>1, <2>2, SMT DEF AsThousands
  <2>4. QED
    BY <2>1, <2>2, <2>3, DecimalDigit, DecimalMonotone, SMT DEF AsThousands
<1>2. WithDecimal(m, Million) <= WithDecimal(n, Million)
  <2>1. PICK q \in Nat, rem \in Nat, rest \in Nat : AsMillions(m, q, rem, rest)
    BY InMillions
  <2>2. PICK p \in Nat, pem \in Nat, pest \in Nat : AsMillions(n, p, pem, pest)
    BY InMillions
  <2>3. q < p \/ (q = p /\ rem <= pem)
    BY <2>1, <2>2, SMT DEF AsMillions
  <2>4. QED
    BY <2>1, <2>2, <2>3, DecimalDigit, DecimalMonotone, SMT DEF AsMillions
<1>3. WithDecimal(m, Billion) <= WithDecimal(n, Billion)
  <2>1. PICK q \in Nat, rem \in Nat, rest \in Nat : AsBillions(m, q, rem, rest)
    BY InBillions
  <2>2. PICK p \in Nat, pem \in Nat, pest \in Nat : AsBillions(n, p, pem, pest)
    BY InBillions
  <2>3. q < p \/ (q = p /\ rem <= pem)
    BY <2>1, <2>2, SMT DEF AsBillions
  <2>4. QED
    BY <2>1, <2>2, <2>3, DecimalDigit, DecimalMonotone, SMT DEF AsBillions
<1>4. QED
  BY <1>1, <1>2, <1>3

LEMMA WholesRise ==
  ASSUME NEW m \in Nat, NEW n \in Nat, m <= n
  PROVE  /\ Whole(m, Thousand) <= Whole(n, Thousand)
         /\ Whole(m, Million) <= Whole(n, Million)
BY SMT DEF Whole, Thousand, Million

LEMMA ShownRises ==
  ASSUME NEW m \in Nat, NEW n \in Nat, m <= n
  PROVE  Shown(m) <= Shown(n)
<1>1. Shown(m) \in Nat /\ Shown(n) \in Nat
  BY ShownOff
<1>2. CASE n < 1000
  BY <1>2, ShownCases, SMT
<1>3. CASE m >= 1000 /\ n < 100000
  BY <1>3, ShownCases, DecimalsRise, SMT
<1>4. CASE m >= 100000 /\ n < 1000000
  BY <1>4, ShownCases, WholesRise, SMT
<1>5. CASE m >= 1000000 /\ n < 100000000
  BY <1>5, ShownCases, DecimalsRise, SMT
<1>6. CASE m >= 100000000 /\ n < 1000000000
  BY <1>6, ShownCases, WholesRise, SMT
<1>7. CASE m >= 1000000000
  BY <1>7, ShownCases, DecimalsRise, SMT
<1>8. CASE \/ m < 1000 /\ n >= 1000
           \/ m < 100000 /\ n >= 100000
           \/ m < 1000000 /\ n >= 1000000
           \/ m < 100000000 /\ n >= 100000000
           \/ m < 1000000000 /\ n >= 1000000000
  BY <1>1, <1>8, ShownBounds, SMT
<1>9. QED
  BY <1>2, <1>3, <1>4, <1>5, <1>6, <1>7, <1>8, SMT
-----------------------------------------------------------------------------
LEMMA NumType == Counting => [](num \in Nat)
<1>1. FirstNumber => num \in Nat
  BY FormatsAssumption DEF FirstNumber
<1>2. num \in Nat /\ [Count]_numVars => (num \in Nat)'
  BY DEF Count, numVars
<1>3. QED
  BY <1>1, <1>2, PTL DEF Counting

LEMMA UnitCounts == Spec => Counting
<1>1. Init => FirstNumber
  BY DEF Init
<1>2. [Next]_unitVars => [Count]_numVars
  BY DEF Next, Table, Texts, Numbers, Adapter, NotesLoop, NotesWait, NotesKeys, OthersStay, unitVars
<1> QED
  BY <1>1, <1>2, PTL DEF Spec, Counting

(* Whatever the number of downloads, its abbreviation is off by at most    *)
(* one of its last digit (tui.rs 1218-1257).                               *)
THEOREM OffByAtMostOneDigit == Spec => []OffByOneDigit
<1>1. num \in Nat => OffByOneDigit
  BY ShownOff DEF OffByOneDigit
<1>2. QED
  BY <1>1, NumType, UnitCounts, PTL

(* No count that goes up seems to go down (tui.rs 1218-1257); ShownRises   *)
(* says so of any two numbers of downloads.                                *)
THEOREM NeverFalls == Spec => Monotone
<1>1. num \in Nat /\ [Count]_numVars => [~ Unfinished(num') => Shown(num') >= Shown(num)]_numVars
  <2>1. SUFFICES ASSUME num \in Nat, Count
                PROVE  Shown(num') >= Shown(num)
    BY DEF numVars
  <2>2. num' \in Nat /\ num <= num'
    BY <2>1 DEF Count
  <2>3. Shown(num) \in Nat /\ Shown(num') \in Nat
    BY <2>1, <2>2, ShownOff
  <2>4. QED
    BY <2>1, <2>2, <2>3, ShownRises
<1>2. QED
  BY <1>1, NumType, UnitCounts, PTL DEF Counting, Monotone
-----------------------------------------------------------------------------
Views == [from : {0}, filled : 0 .. Capacity, init : 0 .. Capacity]

IoInv ==
  /\ IoTypeOK
  /\ DeliversStream
  /\ ClaimsAreTrue
  /\ NeverPanics
  /\ tbuf.filled <= tbuf.init

(* Both adapters together: n more bytes are filled and initialized, and    *)
(* they are written right behind those that were filled.                   *)
LEMMA ReadEffect ==
  ASSUME NEW buf \in Views, NEW n \in 0 .. (Capacity - buf.filled)
  PROVE  /\ ReadForTokio(buf, n) =
              [from |-> 0, filled |-> buf.filled + n, init |-> Larger(buf.init, buf.filled + n)]
         /\ Unfilled(Unfilled(buf)).from = buf.filled
<1> USE IoAssumption DEF Views
<1>1. Unfilled(Unfilled(buf)) = [from |-> buf.filled, filled |-> 0, init |-> 0]
  BY DEF Unfilled, View
<1>2. Put(Unfilled(Unfilled(buf)), n).filled = n
  BY <1>1 DEF Put
<1>3. ReadForHyper(Unfilled(buf), n).filled = n
  BY <1>2 DEF ReadForHyper, Advance, Unfilled, View
<1>4. AssumeInit(buf, n) = [from |-> 0, filled |-> buf.filled, init |-> Larger(buf.init, buf.filled + n)]
  BY DEF AssumeInit
<1>5. QED
  BY <1>1, <1>3, <1>4 DEF ReadForTokio

LEMMA BytesOK == Uninit \in Byte /\ Scratch \in Byte
BY IoAssumption DEF Uninit, Scratch, Byte

LEMMA IoInit == EmptyBuffer => IoInv
<1>1. SUFFICES ASSUME EmptyBuffer PROVE IoInv
  OBVIOUS
<1>2. tbuf = [from |-> 0, filled |-> 0, init |-> 0] /\ taken = 0 /\ sent = 0 /\ panicked = FALSE
  BY <1>1 DEF EmptyBuffer, View
<1>3. memory \in [1 .. Capacity -> Byte]
  BY <1>1, BytesOK DEF EmptyBuffer
<1>4. IoTypeOK
  <2>1. 0 \in 0 .. Capacity /\ 0 \in 0 .. MaxBytes
    BY IoAssumption
  <2>2. tbuf \in Views
    BY <1>2, <2>1 DEF Views
  <2>3. QED
    BY <1>2, <1>3, <2>1, <2>2 DEF IoTypeOK, Views
<1>5. DeliversStream
  BY <1>2 DEF DeliversStream
<1>6. ClaimsAreTrue
  BY <1>2 DEF ClaimsAreTrue
<1>7. QED
  BY <1>2, <1>4, <1>5, <1>6 DEF IoInv, NeverPanics

LEMMA ReadKeepsIoInv == IoInv /\ Read => IoInv'
<1>1. SUFFICES ASSUME IoInv, Read PROVE IoInv'
  OBVIOUS
<1>2. tbuf \in Views /\ tbuf.filled <= tbuf.init /\ sent \in 0 .. MaxBytes /\ taken \in 0 .. MaxBytes
  BY <1>1 DEF IoInv, IoTypeOK, Views
<1>3. PICK n \in 0 .. (Capacity - tbuf.filled) :
        /\ sent + n <= MaxBytes
        /\ memory' = [i \in 1 .. Capacity |->
                        IF i \in tbuf.filled + 1 .. tbuf.filled + n THEN sent + (i - tbuf.filled) ELSE memory[i]]
        /\ sent' = sent + n
        /\ tbuf' = ReadForTokio(tbuf, n)
        /\ panicked' = SetFilledPanics(tbuf')
        /\ UNCHANGED taken
  BY <1>1, <1>2, ReadEffect DEF Read
<1>4. tbuf' = [from |-> 0, filled |-> tbuf.filled + n, init |-> Larger(tbuf.init, tbuf.filled + n)]
  BY <1>2, <1>3, ReadEffect
<1>5. /\ tbuf'.filled = tbuf.filled + n
      /\ tbuf'.init = Larger(tbuf.init, tbuf.filled + n)
      /\ tbuf'.filled <= tbuf'.init
      /\ tbuf' \in Views
  BY <1>2, <1>3, <1>4, IoAssumption DEF Views, Larger
<1>6. memory' \in [1 .. Capacity -> Byte]
  <2>1. ASSUME NEW i \in 1 .. Capacity
        PROVE  (IF i \in tbuf.filled + 1 .. tbuf.filled + n THEN sent + (i - tbuf.filled) ELSE memory[i]) \in Byte
    <3>1. memory[i] \in Byte
      BY <1>1 DEF IoInv, IoTypeOK
    <3>2. i \in tbuf.filled + 1 .. tbuf.filled + n => sent + (i - tbuf.filled) \in Byte
      BY <1>2, <1>3, IoAssumption DEF Byte, Views
    <3>3. QED
      BY <3>1, <3>2
  <2>2. QED
    BY <1>3, <2>1
<1>7. IoTypeOK'
  BY <1>2, <1>3, <1>5, <1>6, IoAssumption DEF IoTypeOK, Views, SetFilledPanics
<1>8. DeliversStream'
  <2>1. sent' = taken' + tbuf'.filled
    BY <1>1, <1>2, <1>3, <1>5, IoAssumption DEF IoInv, DeliversStream, Views
  <2>2. ASSUME NEW i \in 1 .. tbuf'.filled
        PROVE  memory'[i] = taken' + i
    <3>1. i \in 1 .. Capacity
      BY <1>5, IoAssumption DEF Views
    <3>2. CASE i <= tbuf.filled
      BY <1>1, <1>2, <1>3, <3>1, <3>2 DEF IoInv, DeliversStream, Views
    <3>3. CASE i > tbuf.filled
      <4>1. i \in tbuf.filled + 1 .. tbuf.filled + n
        BY <1>2, <1>3, <1>5, <3>3, IoAssumption DEF Views
      <4>2. memory'[i] = sent + (i - tbuf.filled)
        BY <1>3, <3>1, <4>1
      <4>3. sent = taken + tbuf.filled
        BY <1>1 DEF IoInv, DeliversStream
      <4>4. QED
        BY <1>2, <1>3, <3>1, <4>2, <4>3, IoAssumption DEF Views
    <3>4. QED
      BY <1>2, <3>1, <3>2, <3>3, IoAssumption DEF Views
  <2>3. QED
    BY <2>1, <2>2 DEF DeliversStream
<1>9. ClaimsAreTrue'
  <2>1. SUFFICES ASSUME NEW i \in 1 .. tbuf'.init
                PROVE  i <= Capacity /\ memory'[i] # Uninit
    BY DEF ClaimsAreTrue, Uninit
  <2>2. i \in 1 .. Capacity
    BY <1>5, IoAssumption DEF Views
  <2>3. CASE i \in tbuf.filled + 1 .. tbuf.filled + n
    BY <1>2, <1>3, <2>2, <2>3, IoAssumption DEF Views, Uninit
  <2>4. CASE i \notin tbuf.filled + 1 .. tbuf.filled + n
    <3>1. i \in 1 .. tbuf.init
      BY <1>2, <1>3, <1>5, <2>1, <2>2, <2>4, IoAssumption DEF Views, Larger
    <3>2. memory[i] # Uninit
      BY <1>1, <3>1 DEF IoInv, ClaimsAreTrue
    <3>3. QED
      BY <1>3, <2>2, <2>4, <3>2
  <2>5. QED
    BY <2>2, <2>3, <2>4, IoAssumption
<1>10. NeverPanics'
  <2>1. ~ SetFilledPanics(tbuf')
    BY <1>2, <1>3, <1>5, IoAssumption DEF SetFilledPanics, Views
  <2>2. QED
    BY <1>3, <2>1 DEF NeverPanics
<1>11. QED
  BY <1>5, <1>7, <1>8, <1>9, <1>10 DEF IoInv

LEMMA NotReadyKeepsIoInv == IoInv /\ NotReady => IoInv'
<1>1. SUFFICES ASSUME IoInv, NotReady PROVE IoInv'
  OBVIOUS
<1>2. PICK i \in tbuf.filled + 1 .. Capacity : memory' = [memory EXCEPT ![i] = Scratch]
  BY <1>1 DEF NotReady
<1>3. UNCHANGED <<tbuf, taken, sent, panicked>>
  BY <1>1 DEF NotReady
<1>4. tbuf \in Views /\ memory \in [1 .. Capacity -> Byte]
  BY <1>1 DEF IoInv, IoTypeOK, Views
<1>5. \A j \in 1 .. Capacity : memory'[j] = IF j = i THEN Scratch ELSE memory[j]
  BY <1>2, <1>4
<1>6. memory' \in [1 .. Capacity -> Byte]
  BY <1>2, <1>4, BytesOK
<1>7. IoTypeOK'
  BY <1>1, <1>3, <1>6 DEF IoInv, IoTypeOK
<1>8. DeliversStream'
  <2>1. \A j \in 1 .. tbuf.filled : j \in 1 .. Capacity /\ j # i
    BY <1>2, <1>4, IoAssumption DEF Views
  <2>2. QED
    BY <1>1, <1>3, <1>5, <2>1 DEF IoInv, DeliversStream
<1>9. ClaimsAreTrue'
  <2>1. \A j \in 1 .. tbuf.init : j \in 1 .. Capacity
    BY <1>4, IoAssumption DEF Views
  <2>2. Scratch # Uninit
    BY DEF Scratch, Uninit
  <2>3. QED
    BY <1>1, <1>3, <1>5, <2>1, <2>2 DEF IoInv, ClaimsAreTrue, Uninit
<1>10. QED
  BY <1>1, <1>3, <1>7, <1>8, <1>9 DEF IoInv, NeverPanics

LEMMA UseKeepsIoInv == IoInv /\ Use => IoInv'
<1>1. SUFFICES ASSUME IoInv, Use PROVE IoInv'
  OBVIOUS
<1>2. tbuf \in Views /\ taken \in 0 .. MaxBytes /\ sent \in 0 .. MaxBytes
  BY <1>1 DEF IoInv, IoTypeOK, Views
<1>3. tbuf' = [from |-> 0, filled |-> 0, init |-> tbuf.init]
  BY <1>1, <1>2 DEF Use, Views
<1>4. taken' = sent /\ UNCHANGED <<memory, sent, panicked>>
  BY <1>1 DEF Use, IoInv, DeliversStream
<1>5. IoTypeOK'
  BY <1>1, <1>2, <1>3, <1>4, IoAssumption DEF IoInv, IoTypeOK, Views
<1>6. DeliversStream'
  BY <1>2, <1>3, <1>4, IoAssumption DEF DeliversStream
<1>7. ClaimsAreTrue'
  BY <1>1, <1>3, <1>4 DEF IoInv, ClaimsAreTrue, Uninit
<1>8. QED
  BY <1>1, <1>2, <1>3, <1>4, <1>5, <1>6, <1>7 DEF IoInv, NeverPanics, Views

LEMMA IoInvariance == Reading => []IoInv
<1>1. IoInv /\ UNCHANGED ioVars => IoInv'
  BY DEF IoInv, IoTypeOK, DeliversStream, ClaimsAreTrue, NeverPanics, ioVars
<1>2. IoInv /\ [Transfer]_ioVars => IoInv'
  BY <1>1, ReadKeepsIoInv, NotReadyKeepsIoInv, UseKeepsIoInv DEF Transfer
<1>3. QED
  BY <1>2, IoInit, PTL DEF Reading
-----------------------------------------------------------------------------
LEMMA UnitReads == Spec => Reading
<1>1. Init => EmptyBuffer
  BY DEF Init
<1>2. [Next]_unitVars => [Transfer]_ioVars
  BY DEF Next, Table, Texts, Numbers, Adapter, NotesLoop, NotesWait, NotesKeys, OthersStay, unitVars
<1> QED
  BY <1>1, <1>2, PTL DEF Spec, Reading

(* The caller gets the stream, byte by byte, through both adapters         *)
(* (hyper_tls.rs 20-40, 78-107).                                           *)
THEOREM StreamIsDelivered == Spec => []DeliversStream
<1>1. IoInv => DeliversStream
  BY DEF IoInv
<1>2. QED
  BY <1>1, IoInvariance, UnitReads, PTL

(* The unsafe declarations are true: no byte is said to be initialized     *)
(* that was never written (hyper_tls.rs 35, 100-103).                      *)
THEOREM UnsafeClaimsHold == Spec => []ClaimsAreTrue
<1>1. IoInv => ClaimsAreTrue
  BY DEF IoInv
<1>2. QED
  BY <1>1, IoInvariance, UnitReads, PTL

(* set_filled never panics (hyper_tls.rs 102).                             *)
THEOREM SetFilledIsSafe == Spec => []NeverPanics
<1>1. IoInv => NeverPanics
  BY DEF IoInv
<1>2. QED
  BY <1>1, IoInvariance, UnitReads, PTL
-----------------------------------------------------------------------------
(* What is typed and what a crate says are texts. *)
TextInv == typed \in Text /\ content \in Text /\ place \in Places

LEMMA TextType == Spec => []TextInv
<1>1. Init => TextInv
  BY DEF Init, NoTexts, TextInv, Text
<1>2. TextInv /\ [Next]_unitVars => TextInv'
  <2>1. SUFFICES ASSUME TextInv, [Next]_unitVars PROVE TextInv'
    OBVIOUS
  <2>2. CASE Texts
    <3>1. ASSUME NEW text \in Text, NEW c \in Char PROVE Append(text, c) \in Text
      BY DEF Text
    <3> QED
      BY <2>1, <2>2, <3>1, FiltersCheckAssumption DEF TextInv, Texts, Lengthen, TypeChar, OtherCrate
  <2>3. CASE UNCHANGED textVars
    BY <2>1, <2>3 DEF TextInv, textVars
  <2> QED
    BY <2>1, <2>2, <2>3 DEF Next, Table, Numbers, Adapter, NotesLoop, NotesWait, NotesKeys, OthersStay, unitVars
<1> QED
  BY <1>1, <1>2, PTL DEF Spec

(* The crate says the same in lower case whatever the case of its text. *)
LEMMA CrateInLowerCase ==
  ASSUME NEW c \in Text, NEW d \in Text, Lower(c) = Lower(d), NEW where \in Places
  PROVE  LowerAll(Candidates(CrateWith(c, where))) = LowerAll(Candidates(CrateWith(d, where)))
<1> DEFINE one == CrateWith(c, where)
           two == CrateWith(d, where)
<1>1. <<>> \in Text
  BY DEF Text
<1>2. CrateTexts(one) /\ CrateTexts(two)
  BY <1>1 DEF CrateWith, CrateTexts
<1>3. /\ Lower(one.name) = Lower(two.name)
      /\ Lower(one.description) = Lower(two.description)
      /\ LowerAll(one.keywords) = LowerAll(two.keywords)
      /\ LowerAll(one.categories) = LowerAll(two.categories)
  BY DEF CrateWith, LowerAll
<1> HIDE DEF one, two
<1> DEFINE Forms(info) == NameWords(Lower(info.name)) \cup DescriptionWords(Lower(info.description))
                            \cup LowerAll(info.keywords)
                            \cup UNION {CategoryWords(category) : category \in LowerAll(info.categories)}
<1>4. Forms(one) = Forms(two)
  BY <1>3
<1>5. LowerAll(Candidates(one)) = Forms(one) /\ LowerAll(Candidates(two)) = Forms(two)
  BY <1>2, CandidatesInLowerCase, Zenon
<1> HIDE DEF Forms
<1>6. LowerAll(Candidates(one)) = LowerAll(Candidates(two))
  BY <1>4, <1>5
<1> QED
  BY <1>6 DEF one, two

LEMMA RejectedByLowerCase ==
  ASSUME NEW t \in Text, NEW u \in Text, NEW c \in Text, NEW d \in Text, NEW where \in Places,
         Lower(t) = Lower(u), Lower(c) = Lower(d)
  PROVE  Rejected(t, c, where) = Rejected(u, d, where)
<1>1. KeywordsOf(t) = KeywordsOf(u)
  BY KeywordsInLowerCase
<1>2. ASSUME NEW text, NEW crate
      PROVE  Rejected(text, crate, where) <=> HasKeyword(KeywordsOf(text), CrateWith(crate, where))
  BY DEF Rejected, Rejects, Outdated
<1>3. HasKeyword(KeywordsOf(t), CrateWith(c, where)) <=> HasKeyword(KeywordsOf(u), CrateWith(d, where))
  BY <1>1, CrateInLowerCase, HasKeywordInLowerCase
<1>4. Rejected(t, c, where) \in BOOLEAN /\ Rejected(u, d, where) \in BOOLEAN
  BY DEF Rejected, Rejects, Outdated, HasKeyword
<1> QED
  BY <1>2, <1>3, <1>4

LEMMA UppercaseType ==
  ASSUME NEW text \in Text
  PROVE  Uppercase(text) \in Text /\ Lower(Uppercase(text)) = Lower(text)
<1>1. \A c \in Letter : c \in Char /\ Upper(c) \in Letter /\ Lowercase(Upper(c)) = Lowercase(c)
  BY FiltersCheckAssumption DEF Char
<1>2. Uppercase(text) \in Text /\ Len(Uppercase(text)) = Len(text) /\ Len(text) \in Nat
  BY <1>1 DEF Uppercase, Text
<1>3. ASSUME NEW k \in 1 .. Len(text) PROVE Lower(Uppercase(text))[k] = Lower(text)[k]
  BY <1>1, <1>2 DEF Uppercase, Lower, Text
<1>4. Len(Lower(Uppercase(text))) = Len(Lower(text)) /\ Len(Lower(text)) = Len(text)
  BY <1>2, LowerType
<1>5. Lower(Uppercase(text)) \in Seq(Char) /\ Lower(text) \in Seq(Char)
  BY <1>2, LowerType DEF Text
<1> QED
  BY <1>2, <1>3, <1>4, <1>5

(* Neither the case of the typed keywords nor that of what the crate says  *)
(* decides whether it is skipped, whatever both are (tui.rs 422, 628-659). *)
THEOREM CaseNeverMatters == Spec => []CaseDoesNotMatter
<1>1. TextInv => CaseDoesNotMatter
  <2>1. SUFFICES ASSUME TextInv,
                        NEW t \in {typed, Lower(typed), Uppercase(typed)},
                        NEW c \in {content, Lower(content), Uppercase(content)}
                 PROVE  Rejected(t, c, place) = Rejected(typed, content, place)
    BY DEF CaseDoesNotMatter
  <2>2. t \in Text /\ Lower(t) = Lower(typed)
    BY <2>1, LowerType, LowerTwice, UppercaseType DEF TextInv
  <2>3. c \in Text /\ Lower(c) = Lower(content)
    BY <2>1, LowerType, LowerTwice, UppercaseType DEF TextInv
  <2> QED
    BY <2>1, <2>2, <2>3, RejectedByLowerCase DEF TextInv
<1> QED
  BY <1>1, TextType, PTL

(* The text shown after a restart means the keywords it was made from,     *)
(* whatever was typed and in whatever order they come (tui.rs 416, 594).   *)
THEOREM TextsKeepKeywords == Spec => []TextsMeanKeywords
<1>1. TextInv => TextsMeanKeywords
  <2>1. SUFFICES ASSUME TextInv, NEW text \in TextsOf(KeywordsOf(typed))
                 PROVE  KeywordsOf(text) = KeywordsOf(typed)
    BY DEF TextsMeanKeywords
  <2>2. IsFiniteSet(KeywordsOf(typed)) /\ \A word \in KeywordsOf(typed) : PlainWord(word)
    BY <2>1, KeywordsArePlain DEF TextInv
  <2> QED
    BY <2>2, TextsOfMean
<1> QED
  BY <1>1, TextType, PTL

(* A word in lower case, and one that has none of the separators. *)
LowerWord(word) == word \in Text /\ word # <<>> /\ Lower(word) = word

Unbroken(word, separators) == \A k \in 1 .. Len(word) : word[k] \notin separators

(* It stands in a text if it is one of the words of the text. *)
LEMMA StandsAsWord ==
  ASSUME NEW text \in Text, NEW separators \in SUBSET (Char \ Letter),
         NEW word, LowerWord(word), Unbroken(word, separators)
  PROVE  StandsIn(word, text, separators) <=> word \in Words(Lower(text), separators)
<1> DEFINE n == Len(word)
<1>1. /\ Len(text) \in Nat /\ DOMAIN text = 1 .. Len(text)
      /\ Lower(text) \in Text /\ Len(Lower(text)) = Len(text)
  BY LowerType DEF Text
<1>2. word \in Text /\ n \in Nat /\ n >= 1
  BY DEF LowerWord, Text
<1>3. ASSUME NEW i \in 1 .. Len(text), NEW j \in 1 .. Len(text), i <= j
      PROVE  /\ Lower(SubSeq(text, i, j)) = SubSeq(Lower(text), i, j)
             /\ Len(SubSeq(Lower(text), i, j)) = j - i + 1
             /\ \A k \in 1 .. j - i + 1 : SubSeq(Lower(text), i, j)[k] = Lower(text)[i + k - 1]
  BY <1>1, <1>3, LowerPart, PartOfPart
<1>4. ASSUME StandsIn(word, text, separators) PROVE word \in Words(Lower(text), separators)
  <2>1. PICK i \in 1 .. Len(text) :
          /\ i + n - 1 \in 1 .. Len(text)
          /\ Lower(SubSeq(text, i, i + n - 1)) = word
          /\ i = 1 \/ text[i - 1] \in separators
          /\ i + n - 1 = Len(text) \/ text[i + n - 1 + 1] \in separators
    BY <1>1, <1>4 DEF StandsIn
  <2> DEFINE j == i + n - 1
  <2>2. i <= j /\ j \in 1 .. Len(text) /\ j - i + 1 = n
    BY <1>1, <1>2, <2>1
  <2>3. SubSeq(Lower(text), i, j) = word /\ \A k \in 1 .. n : word[k] = Lower(text)[i + k - 1]
    <3>1. SubSeq(Lower(text), i, j) = word
      BY <1>3, <2>1, <2>2
    <3>2. \A k \in 1 .. j - i + 1 : SubSeq(Lower(text), i, j)[k] = Lower(text)[i + k - 1]
      BY <1>3, <2>2
    <3> HIDE DEF j
    <3> QED
      BY <2>2, <3>1, <3>2
  <2>4. ASSUME NEW k \in i .. j PROVE text[k] \notin separators
    <3>1. k - i + 1 \in 1 .. n /\ i + (k - i + 1) - 1 = k /\ k \in 1 .. Len(text)
      BY <1>1, <1>2, <2>2
    <3>2. word[k - i + 1] = Lower(text)[k]
      BY <2>3, <3>1
    <3>3. Lower(text)[k] \notin separators
      BY <3>1, <3>2 DEF Unbroken
    <3> QED
      BY <3>1, <3>3, LowerType
  <2>5. IsPlace(text, separators, i, j)
    BY <2>1, <2>2, <2>4 DEF IsPlace
  <2>6. IsPlace(Lower(text), separators, i, j)
    BY <2>2, <2>5, LowerPlaces
  <2>7. i \in 1 .. Len(Lower(text)) /\ j \in 1 .. Len(Lower(text))
    BY <1>1, <2>2, SMTT(30)
  <2> QED
    BY <1>1, <2>3, <2>6, <2>7, WordsAtPlaces
<1>5. ASSUME word \in Words(Lower(text), separators) PROVE StandsIn(word, text, separators)
  <2>1. PICK i, j \in 1 .. Len(text) : IsPlace(Lower(text), separators, i, j) /\ word = SubSeq(Lower(text), i, j)
    <3>1. \E i, j \in 1 .. Len(Lower(text)) : IsPlace(Lower(text), separators, i, j) /\ word = SubSeq(Lower(text), i, j)
      BY <1>1, <1>5, WordsAtPlaces
    <3> QED
      BY <1>1, <3>1
  <2>2. IsPlace(text, separators, i, j)
    BY <2>1, LowerPlaces
  <2>3. i <= j
    BY <2>2 DEF IsPlace
  <2>4. Lower(SubSeq(text, i, j)) = word /\ n = j - i + 1
    BY <1>3, <2>1, <2>3
  <2>5. j = i + n - 1
    BY <1>1, <1>2, <2>4
  <2> QED
    BY <1>1, <2>2, <2>4, <2>5 DEF StandsIn, IsPlace
<1> QED
  BY <1>4, <1>5

(* The separators of the places. *)
LEMMA SeparatorsType ==
  ASSUME place \in Places
  PROVE  Separators \in SUBSET (Char \ Letter) /\ Blanks \in SUBSET (Char \ Letter)
BY FiltersAssumption DEF Separators, Blanks, Places, Char

(* The words of a text have none of the separators. *)
LEMMA BrokenWord ==
  ASSUME NEW text \in Text, NEW separators, NEW word \in Words(text, separators)
  PROVE  Unbroken(word, separators)
<1>1. PICK i, j \in 1 .. Len(text) : IsPlace(text, separators, i, j) /\ word = SubSeq(text, i, j)
  BY WordsAtPlaces
<1>2. i <= j /\ Len(word) = j - i + 1 /\ \A k \in 1 .. j - i + 1 : word[k] = text[i + k - 1]
  BY <1>1, PartOfPart DEF IsPlace
<1>3. ASSUME NEW k \in 1 .. Len(word) PROVE word[k] \notin separators
  <2>1. k \in 1 .. j - i + 1 /\ i + k - 1 \in i .. j
    BY <1>1, <1>2
  <2> QED
    BY <1>1, <1>2, <2>1 DEF IsPlace
<1> QED
  BY <1>3 DEF Unbroken

(* What a word is compared by in each place of a crate. *)
LEMMA WordInPlace ==
  ASSUME NEW text \in Text, NEW where \in Places, where = place, NEW word, LowerWord(word)
  PROVE  word \in LowerAll(Candidates(CrateWith(text, where)))
           <=> \/ word \in Words(Lower(text), Separators)
               \/ place # "name" /\ word \in Words(Lower(text), Blanks)
<1> DEFINE low   == Lower(text)
           crate == CrateWith(text, where)
<1>1. <<>> \in Text /\ Lower(<<>>) = <<>>
  BY DEF Text, Lower
<1>2. low \in Text /\ Len(low) = Len(text)
  BY LowerType
<1> HIDE DEF low
<1>3. CrateTexts(crate)
  BY <1>1 DEF CrateWith, CrateTexts
<1>4. LowerAll(Candidates(crate))
        = NameWords(Lower(crate.name)) \cup DescriptionWords(Lower(crate.description))
            \cup LowerAll(crate.keywords)
            \cup UNION {CategoryWords(category) : category \in LowerAll(crate.categories)}
  BY <1>3, CandidatesInLowerCase
<1>5. NameWords(<<>>) = {} /\ DescriptionWords(<<>>) = {} /\ LowerAll({}) = {}
  BY NoWords DEF NameWords, DescriptionWords, LowerAll
<1>6. word = low <=> word \in Words(low, {})
  <2>1. CASE low = <<>>
    BY <2>1, NoWords DEF LowerWord
  <2>2. CASE low # <<>>
    BY <1>2, <2>2, WordAlone
  <2> QED
    BY <2>1, <2>2
<1>7. CASE where = "name"
  <2>1. crate.name = text /\ crate.description = <<>> /\ crate.keywords = {} /\ crate.categories = {}
    BY <1>7 DEF CrateWith
  <2>2. LowerAll(Candidates(crate)) = NameWords(low)
    BY <1>1, <1>4, <1>5, <2>1 DEF low
  <2>3. Separators = Dashes
    BY <1>7 DEF Separators, Dashes
  <2> QED
    BY <1>7, <2>2, <2>3 DEF NameWords, low
<1>8. CASE where = "description"
  <2>1. crate.name = <<>> /\ crate.description = text /\ crate.keywords = {} /\ crate.categories = {}
    BY <1>8 DEF CrateWith
  <2>2. LowerAll(Candidates(crate)) = DescriptionWords(low)
    BY <1>1, <1>4, <1>5, <2>1 DEF low
  <2>3. Separators = {" "} \cup Dashes /\ Blanks = {" "} /\ place # "name"
    BY <1>8 DEF Separators, Blanks, Dashes
  <2>4. UNION {Words(w, Dashes) : w \in Words(low, {" "})} = Words(low, Separators)
    BY <1>2, <2>3, SplitTwice
  <2>5. DescriptionWords(low) = Words(low, {" "}) \cup Words(low, Separators)
    BY <2>4 DEF DescriptionWords
  <2> QED
    BY <2>2, <2>3, <2>5 DEF low
<1>9. CASE where = "keyword"
  <2>1. crate.name = <<>> /\ crate.description = <<>> /\ crate.keywords = {text} /\ crate.categories = {}
    BY <1>9 DEF CrateWith
  <2>2. LowerAll(Candidates(crate)) = {low}
    BY <1>1, <1>4, <1>5, <2>1 DEF LowerAll, low
  <2>3. Separators = {} /\ Blanks = {}
    BY <1>9 DEF Separators, Blanks
  <2> QED
    BY <1>6, <1>9, <2>2, <2>3 DEF low
<1>10. CASE where = "category"
  <2>1. crate.name = <<>> /\ crate.description = <<>> /\ crate.keywords = {} /\ crate.categories = {text}
    BY <1>10 DEF CrateWith
  <2>2. LowerAll({text}) = {low}
    BY DEF LowerAll, low
  <2>3. LowerAll(Candidates(crate)) = {low} \cup Words(low, {"::"})
    BY <1>1, <1>4, <1>5, <2>1, <2>2 DEF CategoryWords
  <2>4. Separators = {"::"} /\ Blanks = {} /\ place # "name"
    BY <1>10 DEF Separators, Blanks
  <2> QED
    BY <1>6, <2>3, <2>4 DEF low
<1> QED
  BY <1>7, <1>8, <1>9, <1>10 DEF Places

(* A word without separators of the place that is all there is between two *)
(* blanks is also all there is between two separators.                     *)
LEMMA UnbrokenInPlace ==
  ASSUME place \in Places, NEW low \in Text, NEW word, LowerWord(word), Unbroken(word, Separators),
         word \in Words(low, Blanks), place # "name"
  PROVE  word \in Words(low, Separators)
<1>1. Words(word, Separators) = {word}
  BY WordAlone DEF LowerWord, Unbroken
<1>2. Blanks \cup Separators = Separators
  BY DEF Blanks, Separators, Places
<1>3. UNION {Words(w, Separators) : w \in Words(low, Blanks)} = Words(low, Blanks \cup Separators)
  BY SplitTwice
<1> QED
  BY <1>1, <1>2, <1>3

LEMMA TextDomain == \A text \in Text : DOMAIN text = 1 .. Len(text)
BY DEF Text

(* A keyword stands in a crate where the filter finds it. *)
LEMMA FoundInPlace ==
  ASSUME NEW word, LowerWord(word), content \in Text, place \in Places,
         \A k \in 1 .. Len(word) : word[k] # " "
  PROVE  word \in LowerAll(Candidates(CrateWith(content, place))) <=> Found(word)
<1> DEFINE low == Lower(content)
<1>1. low \in Text
  BY LowerType
<1>2. Separators \in SUBSET (Char \ Letter) /\ Blanks \in SUBSET (Char \ Letter)
  BY SeparatorsType
<1>3. word \in LowerAll(Candidates(CrateWith(content, place)))
        <=> word \in Words(low, Separators) \/ (place # "name" /\ word \in Words(low, Blanks))
  BY WordInPlace
<1>4. Found(word) <=> IF Unbroken(word, Separators) THEN StandsIn(word, content, Separators)
                      ELSE place # "name" /\ StandsIn(word, content, Blanks)
  <2>1. DOMAIN word = 1 .. Len(word)
    BY TextDomain DEF LowerWord
  <2> QED
    BY <2>1 DEF Found, Unbroken
<1>5. Unbroken(word, Blanks)
  BY DEF Unbroken, Blanks
<1>6. StandsIn(word, content, Blanks) <=> word \in Words(low, Blanks)
  BY <1>2, <1>5, StandsAsWord
<1>7. CASE Unbroken(word, Separators)
  <2>1. StandsIn(word, content, Separators) <=> word \in Words(low, Separators)
    BY <1>2, <1>7, StandsAsWord
  <2>2. place # "name" /\ word \in Words(low, Blanks) => word \in Words(low, Separators)
    BY <1>1, <1>7, UnbrokenInPlace
  <2> QED
    BY <1>3, <1>4, <1>7, <2>1, <2>2
<1>8. CASE ~ Unbroken(word, Separators)
  <2>1. word \notin Words(low, Separators)
    BY <1>1, <1>8, BrokenWord
  <2> QED
    BY <1>3, <1>4, <1>6, <1>8, <2>1
<1> QED
  BY <1>7, <1>8

(* A keyword rejects a crate if it stands there as a word, and only then,  *)
(* whatever separators it holds itself and whatever the crate's text is    *)
(* (tui.rs 615-666).                                                       *)
THEOREM KeywordsRejectWords == Spec => []KeywordsAreWords
<1>1. TextInv => KeywordsAreWords
  <2>1. SUFFICES ASSUME TextInv PROVE KeywordsAreWords
    OBVIOUS
  <2> DEFINE words == KeywordsOf(typed)
             crate == CrateWith(content, place)
  <2>2. typed \in Text /\ content \in Text /\ place \in Places
    BY <2>1 DEF TextInv
  <2>3. ASSUME NEW word \in words
        PROVE  word \in LowerAll(Candidates(crate)) <=> Found(word)
    <3>1. PlainWord(word)
      BY <2>2, KeywordsArePlain
    <3>2. LowerWord(word) /\ \A k \in 1 .. Len(word) : word[k] # " "
      BY <3>1 DEF PlainWord, LowerWord, KeywordSeparators
    <3> QED
      BY <2>2, <3>2, FoundInPlace
  <2>4. Rejected(typed, content, place) <=> HasKeyword(words, crate)
    BY DEF Rejected, Rejects, Outdated
  <2>5. HasKeyword(words, crate) <=> \E word \in words : word \in LowerAll(Candidates(crate))
    BY DEF HasKeyword, LowerAll
  <2> HIDE DEF words, crate
  <2>6. Rejected(typed, content, place) <=> \E word \in words : Found(word)
    BY <2>3, <2>4, <2>5
  <2> QED
    BY <2>6 DEF KeywordsAreWords, words
<1> QED
  BY <1>1, TextType, PTL
-----------------------------------------------------------------------------
(* Any table, and any cursor on it. *)
TableInv == rows \in Seq(Row) /\ cursor \in Nat

LEMMA TableType == Spec => []TableInv
<1>1. Init => TableInv
  <2>1. SUFFICES ASSUME rows \in SeqOf(Row, MaxTable), cursor \in 0 .. Len(rows)
                 PROVE  TableInv
    BY DEF Init, AnyTable
  <2>2. PICK m \in 0 .. MaxTable : rows \in [1 .. m -> Row]
    BY <2>1 DEF SeqOf
  <2>3. m \in Nat
    OBVIOUS
  <2>4. rows \in Seq(Row)
    BY <2>2, <2>3
  <2> QED
    BY <2>1, <2>4 DEF TableInv
<1>2. TableInv /\ [Next]_unitVars => TableInv'
  <2>1. SUFFICES ASSUME TableInv, [Next]_unitVars PROVE TableInv'
    OBVIOUS
  <2>2. CASE UNCHANGED tableVars
    BY <2>1, <2>2 DEF TableInv, tableVars
  <2>3. CASE Down
    <3>1. NextEntryIdx(rows, cursor) \in LiveRows(rows) \cup {NoRow}
      BY <2>1, NextEntryIdxType DEF TableInv
    <3>2. LiveRows(rows) \in SUBSET Nat /\ NoRow \in Nat
      BY <2>1 DEF LiveRows, TableInv, NoRow
    <3> QED
      BY <2>1, <2>3, <3>1, <3>2 DEF TableInv, Down
  <2>4. CASE Up
    <3>1. PrevEntryIdx(rows, cursor) \in LiveRows(rows) \cup {NoRow}
      BY <2>1, PrevEntryIdxType DEF TableInv
    <3>2. LiveRows(rows) \in SUBSET Nat /\ NoRow \in Nat
      BY <2>1 DEF LiveRows, TableInv, NoRow
    <3> QED
      BY <2>1, <2>4, <3>1, <3>2 DEF TableInv, Up
  <2>5. CASE Shrink
    <3>1. Len(rows) - 1 \in Nat
      BY <2>1, <2>5 DEF TableInv, Shrink
    <3>2. Resize(rows, Len(rows) - 1) \in [1 .. Len(rows) - 1 -> Row]
      BY <2>1, <3>1, ResizeType DEF TableInv
    <3>3. rows' \in Seq(Row)
      BY <2>5, <3>1, <3>2 DEF Shrink
    <3> QED
      BY <2>5, <3>3 DEF TableInv, Shrink, NoRow
  <2> QED
    BY <2>1, <2>2, <2>3, <2>4, <2>5
    DEF Next, Table, UseTable, Texts, Numbers, Adapter, NotesLoop, NotesWait, NotesKeys, OthersStay, unitVars
<1> QED
  BY <1>1, <1>2, PTL DEF Spec

(* Pressing "j" as often as there are entries selects every one of them,   *)
(* in a table of any size and from any row (tui.rs 228-257).               *)
THEOREM DownReachesEveryEntry == Spec => []DownVisitsEveryEntry
<1>1. TableInv => DownVisitsEveryEntry
  <2>1. SUFFICES ASSUME TableInv PROVE DownVisitsEveryEntry
    OBVIOUS
  <2> DEFINE live     == LiveRows(rows)
             N        == EntriesLen(rows)
             Visits(h) == [n \in 0 .. N |-> IF n = 0 THEN cursor ELSE NextEntryIdx(rows, h[n - 1])]
             visit    == CHOOSE h : h = Visits(h)
             c        == Cardinality({r \in live : r <= cursor})
             Place(n) == IF c + n <= N THEN c + n ELSE c + n - N
             step     == [n \in Nat |-> [x \in Nat |-> NextEntryIdx(rows, x)]]
  <2>2. rows \in Seq(Row) /\ cursor \in Nat
    BY <2>1 DEF TableInv
  <2>3. live \in SUBSET Nat /\ IsFiniteSet(live) /\ N \in Nat /\ Cardinality(live) = N
    BY <2>2, CountingRows DEF LiveRows, EntriesLen
  <2>4. DownVisitsEveryEntry <=> {visit[n] : n \in 1 .. N} = live
    BY DEF DownVisitsEveryEntry
  <2> HIDE DEF live, N, c
  <2>5. visit = Visits(visit)
    <3>1. \A x \in Nat : NextEntryIdx(rows, x) \in Nat
      BY <2>2, <2>3, NextEntryIdxType DEF live, NoRow
    <3>2. step \in [Nat -> [Nat -> Nat]]
      BY <3>1
    <3> HIDE DEF step
    <3>3. PICK g : Recursive(g, Nat, cursor, step)
      BY <2>2, <3>2, Recursion, Zenon
    <3> DEFINE f == [n \in 0 .. N |-> g[n]]
    <3>4. ASSUME NEW n \in 0 .. N PROVE f[n] = Visits(f)[n]
      <4>1. CASE n = 0
        BY <3>3, <4>1 DEF Recursive
      <4>2. CASE n # 0
        <5>1. n - 1 \in Nat /\ (n - 1) + 1 = n /\ n - 1 \in 0 .. N
          BY <2>3, <4>2
        <5>2. g[n] = step[n - 1][g[n - 1]] /\ g[n - 1] \in Nat
          BY <3>3, <5>1 DEF Recursive
        <5>3. step[n - 1][g[n - 1]] = NextEntryIdx(rows, g[n - 1])
          BY <5>1, <5>2 DEF step
        <5> QED
          BY <4>2, <5>1, <5>2, <5>3
      <4> QED
        BY <4>1, <4>2
    <3>5. f = Visits(f)
      BY <3>4
    <3> QED
      BY <3>5
  <2> HIDE DEF visit
  <2>6. CASE N = 0
    <3>1. live = {}
      BY <2>3, <2>6, FS_EmptySet
    <3> QED
      BY <2>4, <2>6, <3>1
  <2>7. CASE N # 0
    <3>1. c \in 0 .. N /\ NextEntryIdx(rows, cursor) = Kth(live, IF c < N THEN c + 1 ELSE 1)
      BY <2>2, <2>7, NextByRank DEF live, N, c
    <3>2. ASSUME NEW n \in 1 .. N PROVE Place(n) \in 1 .. N
      BY <2>3, <3>1
    <3> DEFINE S == {n \in Nat : n + 1 <= N => visit[n + 1] = Kth(live, Place(n + 1))}
    <3>3. 0 \in S
      <4>1. visit[0] = cursor /\ visit[1] = NextEntryIdx(rows, visit[0])
        BY <2>3, <2>5, <2>7
      <4>2. Place(1) = IF c < N THEN c + 1 ELSE 1
        BY <2>3, <3>1
      <4> HIDE DEF Place
      <4> QED
        BY <3>1, <4>1, <4>2
    <3>4. ASSUME NEW n \in S PROVE n + 1 \in S
      <4>1. SUFFICES ASSUME n + 2 <= N PROVE visit[n + 2] = Kth(live, Place(n + 2))
        OBVIOUS
      <4>2. n + 2 \in 0 .. N /\ n + 2 # 0 /\ (n + 2) - 1 = n + 1 /\ n + 1 \in 1 .. N /\ n \in Nat
        BY <2>3, <4>1
      <4> DEFINE k == Place(n + 1)
      <4>3. visit[n + 1] = Kth(live, k)
        BY <4>2
      <4>4. visit[n + 2] = NextEntryIdx(rows, visit[n + 1])
        BY <2>5, <4>2
      <4>5. k \in 1 .. N
        BY <3>2, <4>2
      <4>6. Place(n + 2) = IF k < N THEN k + 1 ELSE 1
        BY <2>3, <3>1, <4>1, <4>2
      <4> HIDE DEF k, Place
      <4>7. Kth(live, k) \in live /\ Cardinality({q \in live : q <= Kth(live, k)}) = k
        BY <2>3, <4>5, KthType
      <4>8. NextEntryIdx(rows, Kth(live, k)) = Kth(live, IF k < N THEN k + 1 ELSE 1)
        <5>1. Kth(live, k) \in Nat
          BY <2>3, <4>7
        <5> QED
          BY <2>2, <2>7, <4>7, <5>1, NextByRank DEF live, N
      <4> QED
        BY <4>3, <4>4, <4>6, <4>8
    <3>5. S \in SUBSET Nat
      OBVIOUS
    <3> HIDE DEF S
    <3>6. \A n \in Nat : n \in S
      BY <3>3, <3>4, <3>5, EveryNumber
    <3>7. ASSUME NEW n \in 1 .. N PROVE visit[n] = Kth(live, Place(n))
      <4>1. n - 1 \in Nat /\ (n - 1) + 1 = n /\ n <= N
        BY <2>3
      <4> HIDE DEF Place
      <4> QED
        BY <3>6, <4>1 DEF S
    <3>8. ASSUME NEW n \in 1 .. N PROVE visit[n] \in live
      <4>1. visit[n] = Kth(live, Place(n)) /\ Place(n) \in 1 .. N
        BY <3>2, <3>7
      <4> HIDE DEF Place
      <4> QED
        BY <2>3, <4>1, KthType
    <3>9. ASSUME NEW r \in live PROVE \E n \in 1 .. N : visit[n] = r
      <4> DEFINE k == Cardinality({q \in live : q <= r})
                 n == IF k > c THEN k - c ELSE k - c + N
      <4>1. k \in 1 .. N /\ Kth(live, k) = r
        BY <2>3, KthOfRank
      <4> HIDE DEF k
      <4>2. n \in 1 .. N /\ Place(n) = k
        BY <2>3, <3>1, <4>1
      <4> HIDE DEF n, Place
      <4> QED
        BY <3>7, <4>1, <4>2
    <3> QED
      BY <2>4, <3>8, <3>9
  <2> QED
    BY <2>6, <2>7
<1> QED
  BY <1>1, TableType, PTL
-----------------------------------------------------------------------------
(* One round of the insertion sort, where the row stops at p. *)
LEMMA InsertTailAt ==
  ASSUME NEW s \in Seq(Row), NEW row \in Row, NEW p \in 0 .. Len(s),
         \A q \in p + 1 .. Len(s) : ComesBefore(row, s[q]),
         p = 0 \/ ~ ComesBefore(row, s[p])
  PROVE  InsertTail(s, row) = InsertAt(s, p + 1, row)
<1> DEFINE stops == {m \in 0 .. Len(s) : \A q \in m + 1 .. Len(s) : ComesBefore(row, s[q])}
<1>1. p \in stops /\ stops \in SUBSET Nat /\ p \in Nat
  OBVIOUS
<1>2. \A m \in stops : p <= m
  OBVIOUS
<1>3. InsertTail(s, row) = InsertAt(s, Min(stops) + 1, row)
  BY DEF InsertTail
<1> HIDE DEF stops
<1>4. Min(stops) \in stops /\ \A m \in stops : Min(stops) <= m
  BY <1>1, MinOfRows
<1>5. Min(stops) = p
  <2>1. Min(stops) \in Nat /\ Min(stops) <= p /\ p <= Min(stops)
    BY <1>1, <1>2, <1>4
  <2> QED
    BY <1>1, <2>1
<1> QED
  BY <1>3, <1>5

(* Which rows come before which. *)
LEMMA Before ==
  /\ \A x \in Info, y \in Row : ComesBefore(x, y) <=> y \notin Info
  /\ \A x \in {Struck, Blank}, y \in Row : ComesBefore(x, y) <=> y \in {Struck, Blank} /\ x # y
BY RowAssumption DEF ComesBefore, Row

(* The sort of a table with one more row is one round of the insertion     *)
(* sort: where the row stops depends on its kind alone.                    *)
LEMMA SortOneMore ==
  ASSUME NEW t \in Seq(Row), NEW row \in Row
  PROVE  SortRows(Append(t, row)) = InsertTail(SortRows(t), row)
<1> DEFINE u == Append(t, row)
           s == SortRows(t)
           N == Len(t)
           e == EntriesLen(t)
           a == AheadLen(t)
           v == SortRows(u)
           Stops(p) == /\ p \in 0 .. N
                       /\ \A q \in p + 1 .. N : ComesBefore(row, s[q])
                       /\ p = 0 \/ ~ ComesBefore(row, s[p])
           Fits(p)  == \A k \in 1 .. N + 1 :
                         v[k] = IF k <= p THEN s[k] ELSE IF k = p + 1 THEN row ELSE s[k - 1]
<1>1. u \in Seq(Row) /\ Len(u) = N + 1 /\ N \in Nat
  OBVIOUS
<1>2. s \in Seq(Row) /\ Len(s) = N
  BY SortRowsType
<1>3. v \in Seq(Row) /\ Len(v) = N + 1
  BY <1>1, SortRowsType
<1>4. ASSUME NEW p, Stops(p), Fits(p) PROVE v = InsertTail(s, row)
  <2> DEFINE w == InsertAt(s, p + 1, row)
  <2>1. InsertTail(s, row) = w
    BY <1>2, <1>4, InsertTailAt
  <2>2. /\ w \in Seq(Row) /\ Len(w) = N + 1
        /\ \A k \in 1 .. N + 1 :
             w[k] = IF k <= p THEN s[k] ELSE IF k = p + 1 THEN row ELSE s[k - 1]
    BY <1>2, <1>4, InsertAtPlace
  <2> HIDE DEF w, v, s
  <2>3. \A k \in 1 .. N + 1 : v[k] = w[k]
    BY <1>4, <2>2
  <2>4. v = w
    BY <1>3, <2>2, <2>3
  <2> QED
    BY <2>1, <2>4
<1>5. e \in 0 .. N /\ a \in e .. N
  BY AheadCount
<1>6. \A k \in 1 .. N :
        /\ k <= e => s[k] \in Info
        /\ k > e /\ k <= a => s[k] = OtherKind(t)
        /\ k > e /\ k > a => s[k] = LastKind(t)
        /\ k > e => s[k] \in {Struck, Blank}
  BY SortedParts
<1>7. \A k \in 1 .. e : s[k] = t[Kth(LiveRows(t), k)]
  BY <1>5, SortRowsValues
<1>8. \A k \in 1 .. N + 1 : v[k] = IF k <= EntriesLen(u) THEN u[Kth(LiveRows(u), k)]
                                   ELSE IF k <= AheadLen(u) THEN OtherKind(u) ELSE LastKind(u)
  BY <1>1, SortRowsValues
<1>9. \A k \in 1 .. N : s[k] \in Row
  BY <1>2
<1>10. VacantRows(t) = {} => e = N
  <2>1. VacantRows(t) = {} => LiveRows(t) = DOMAIN t
    BY DEF VacantRows, LiveRows
  <2>2. Cardinality(DOMAIN t) = N
    BY RowsAreFinite
  <2> QED
    BY <2>1, <2>2 DEF EntriesLen
<1>11. CASE row \in Info
  <2>1. /\ EntriesLen(u) = e + 1
        /\ \A k \in 1 .. e : u[Kth(LiveRows(u), k)] = t[Kth(LiveRows(t), k)]
        /\ u[Kth(LiveRows(u), e + 1)] = row
        /\ VacantRows(t) # {} => /\ LastKind(u) = LastKind(t)
                                 /\ OtherKind(u) = OtherKind(t)
                                 /\ AheadLen(u) = a + 1
    BY <1>11, OneMoreEntry
  <2> HIDE DEF u, s, v, N, e, a
  <2>2. Stops(e)
    <3>1. ASSUME NEW q \in e + 1 .. N PROVE ComesBefore(row, s[q])
      <4>1. q \in 1 .. N /\ q > e
        BY <1>1, <1>5
      <4>2. s[q] \in {Struck, Blank} /\ s[q] \in Row /\ s[q] \notin Info
        BY <1>6, <1>9, <4>1, RowAssumption
      <4> QED
        BY <1>11, <4>2, Before
    <3>2. ASSUME e # 0 PROVE ~ ComesBefore(row, s[e])
      <4>1. e \in 1 .. N /\ e <= e
        BY <1>1, <1>5, <3>2
      <4>2. s[e] \in Info /\ s[e] \in Row
        BY <1>6, <1>9, <4>1
      <4> QED
        BY <1>11, <4>2, Before
    <3> QED
      BY <1>5, <3>1, <3>2
  <2>3. ASSUME NEW k \in 1 .. N + 1
        PROVE  v[k] = IF k <= e THEN s[k] ELSE IF k = e + 1 THEN row ELSE s[k - 1]
    <3>1. CASE k <= e
      <4>1. k \in 1 .. e /\ k <= EntriesLen(u)
        BY <1>1, <1>5, <2>1, <3>1
      <4> QED
        BY <1>7, <1>8, <2>1, <3>1, <4>1
    <3>2. CASE k = e + 1
      <4>1. k <= EntriesLen(u) /\ ~ (k <= e)
        BY <1>1, <1>5, <2>1, <3>2
      <4> QED
        BY <1>8, <2>1, <3>2, <4>1
    <3>3. CASE k > e + 1
      <4>1. k - 1 \in 1 .. N /\ k - 1 > e /\ ~ (k <= EntriesLen(u)) /\ ~ (k <= e) /\ k # e + 1
        BY <1>1, <1>5, <2>1, <3>3
      <4>2. VacantRows(t) # {}
        BY <1>1, <1>10, <4>1
      <4>3. v[k] = IF k <= a + 1 THEN OtherKind(t) ELSE LastKind(t)
        BY <1>8, <2>1, <4>1, <4>2
      <4>4. s[k - 1] = IF k - 1 <= a THEN OtherKind(t) ELSE LastKind(t)
        BY <1>1, <1>5, <1>6, <4>1
      <4>5. k <= a + 1 <=> k - 1 <= a
        BY <1>1, <1>5
      <4> QED
        BY <4>1, <4>3, <4>4, <4>5
    <3> QED
      BY <1>1, <1>5, <3>1, <3>2, <3>3
  <2> QED
    BY <1>4, <2>2, <2>3 DEF u, s, v
<1>12. CASE row \notin Info
  <2>1. row \in {Struck, Blank}
    BY <1>12 DEF Row
  <2>2. /\ EntriesLen(u) = e
        /\ \A k \in 1 .. e : u[Kth(LiveRows(u), k)] = t[Kth(LiveRows(t), k)]
        /\ VacantRows(t) = {} => LastKind(u) = row /\ AheadLen(u) = N /\ e = N
        /\ VacantRows(t) # {} =>
             /\ LastKind(u) = LastKind(t)
             /\ OtherKind(u) = OtherKind(t)
             /\ row = LastKind(t) \/ row = OtherKind(t)
             /\ LastKind(t) # OtherKind(t)
             /\ AheadLen(u) = IF row = OtherKind(t) THEN a + 1 ELSE a
    BY <2>1, OneMoreVacantRow
  <2>3. VacantRows(t) # {} => a < N
    BY AheadCount
  <2> HIDE DEF u, s, v, N, e, a
  <2>4. ASSUME NEW k \in 1 .. N + 1, k <= e PROVE v[k] = s[k]
    <3>1. k \in 1 .. e /\ k <= EntriesLen(u)
      BY <1>1, <1>5, <2>2, <2>4
    <3> QED
      BY <1>7, <1>8, <2>2, <3>1
  <2>5. ASSUME NEW k \in 1 .. N, k <= e PROVE ~ ComesBefore(row, s[k])
    <3>1. s[k] \in Info /\ s[k] \in Row /\ s[k] \notin {Struck, Blank}
      BY <1>6, <1>9, <2>5, RowAssumption
    <3> QED
      BY <2>1, <3>1, Before
  <2>6. CASE VacantRows(t) = {}
    <3>1. Stops(N)
      BY <1>1, <2>2, <2>5, <2>6
    <3>2. ASSUME NEW k \in 1 .. N + 1
          PROVE  v[k] = IF k <= N THEN s[k] ELSE IF k = N + 1 THEN row ELSE s[k - 1]
      <4>1. CASE k <= N
        BY <2>2, <2>4, <2>6, <4>1
      <4>2. CASE k = N + 1
        <5>1. ~ (k <= EntriesLen(u)) /\ ~ (k <= AheadLen(u)) /\ ~ (k <= N)
          BY <1>1, <2>2, <2>6, <4>2
        <5> QED
          BY <1>8, <2>2, <2>6, <4>2, <5>1
      <4> QED
        BY <1>1, <4>1, <4>2
    <3> QED
      BY <1>4, <3>1, <3>2 DEF u, s, v
  <2>7. CASE VacantRows(t) # {} /\ row = LastKind(t)
    <3>1. row # OtherKind(t) /\ AheadLen(u) = a /\ a < N
      BY <2>2, <2>3, <2>7
    <3>2. Stops(N)
      <4>1. N \in 1 .. N /\ N > a /\ N > e
        BY <1>1, <1>5, <3>1
      <4>2. s[N] = row /\ s[N] \in Row
        BY <1>6, <1>9, <2>7, <4>1
      <4>3. ~ ComesBefore(row, s[N])
        BY <2>1, <4>2, Before
      <4> QED
        BY <1>1, <4>3
    <3>3. ASSUME NEW k \in 1 .. N + 1
          PROVE  v[k] = IF k <= N THEN s[k] ELSE IF k = N + 1 THEN row ELSE s[k - 1]
      <4>1. CASE k <= e
        <5>1. k <= N
          BY <1>1, <1>5, <4>1
        <5> QED
          BY <2>4, <4>1, <5>1
      <4>2. CASE ~ (k <= e)
        <5>1. v[k] = IF k <= a THEN OtherKind(t) ELSE LastKind(t)
          BY <1>8, <2>2, <2>7, <3>1, <4>2
        <5>2. k \in 1 .. N => s[k] = IF k <= a THEN OtherKind(t) ELSE LastKind(t)
          BY <1>1, <1>5, <1>6, <4>2
        <5>3. k = N + 1 => ~ (k <= a) /\ ~ (k <= N)
          BY <1>1, <1>5
        <5>4. k \in 1 .. N <=> k <= N
          BY <1>1
        <5>5. k = N + 1 \/ k <= N
          BY <1>1
        <5> QED
          BY <2>7, <5>1, <5>2, <5>3, <5>4, <5>5
      <4> QED
        BY <4>1, <4>2
    <3> QED
      BY <1>4, <3>2, <3>3 DEF u, s, v
  <2>8. CASE VacantRows(t) # {} /\ row = OtherKind(t)
    <3>1. row # LastKind(t) /\ AheadLen(u) = a + 1 /\ a < N
      BY <2>2, <2>3, <2>8
    <3>2. Stops(a)
      <4>1. ASSUME NEW q \in a + 1 .. N PROVE ComesBefore(row, s[q])
        <5>1. q \in 1 .. N /\ q > a /\ q > e
          BY <1>1, <1>5
        <5>2. s[q] = LastKind(t) /\ s[q] \in {Struck, Blank} /\ s[q] \in Row
          BY <1>6, <1>9, <5>1
        <5> QED
          BY <2>1, <3>1, <5>2, Before
      <4>2. ASSUME a # 0 PROVE ~ ComesBefore(row, s[a])
        <5>1. a \in 1 .. N /\ a <= a
          BY <1>1, <1>5, <4>2
        <5>2. CASE a <= e
          BY <2>5, <5>1, <5>2
        <5>3. CASE a > e
          <6>1. s[a] = row /\ s[a] \in Row
            BY <1>6, <1>9, <2>8, <5>1, <5>3
          <6> QED
            BY <2>1, <6>1, Before
        <5> QED
          BY <1>1, <1>5, <5>2, <5>3
      <4> QED
        BY <1>1, <1>5, <4>1, <4>2
    <3>3. ASSUME NEW k \in 1 .. N + 1
          PROVE  v[k] = IF k <= a THEN s[k] ELSE IF k = a + 1 THEN row ELSE s[k - 1]
      <4>1. CASE k <= e
        <5>1. k <= a
          BY <1>1, <1>5, <4>1
        <5> QED
          BY <2>4, <4>1, <5>1
      <4>2. CASE ~ (k <= e)
        <5>1. v[k] = IF k <= a + 1 THEN row ELSE LastKind(t)
          BY <1>8, <2>2, <2>8, <3>1, <4>2
        <5>2. CASE k <= a
          <6>1. k \in 1 .. N /\ k > e /\ k <= a + 1
            BY <1>1, <1>5, <4>2, <5>2
          <6>2. s[k] = row
            BY <1>6, <2>8, <5>2, <6>1
          <6> QED
            BY <5>1, <5>2, <6>1, <6>2
        <5>3. CASE k = a + 1
          <6>1. ~ (k <= a) /\ k <= a + 1
            BY <1>1, <1>5, <5>3
          <6> QED
            BY <5>1, <5>3, <6>1
        <5>4. CASE k > a + 1
          <6>1. k - 1 \in 1 .. N /\ k - 1 > e /\ k - 1 > a /\ ~ (k <= a) /\ ~ (k <= a + 1) /\ k # a + 1
            BY <1>1, <1>5, <5>4
          <6>2. s[k - 1] = LastKind(t)
            BY <1>6, <6>1
          <6> QED
            BY <5>1, <6>1, <6>2
        <5> QED
          BY <1>1, <1>5, <5>2, <5>3, <5>4
      <4> QED
        BY <4>1, <4>2
    <3> QED
      BY <1>4, <3>2, <3>3 DEF u, s, v
  <2> QED
    BY <2>2, <2>6, <2>7, <2>8
<1> QED
  BY <1>11, <1>12

(* The closed form of the sort is what the insertion sort computes with    *)
(* the comparator of resize, for every table it is used on (tui.rs         *)
(* 344-355): the closed form and the insertion agree whatever the size.    *)
THEOREM SortRowsSorts == Spec => []SortIsInsertionSort
<1>1. TableInv => SortIsInsertionSort
  <2>1. SUFFICES ASSUME TableInv PROVE SortIsInsertionSort
    OBVIOUS
  <2> DEFINE N        == Len(rows)
             Sorts(h) == [n \in 0 .. N |-> IF n = 0 THEN <<>> ELSE InsertTail(h[n - 1], rows[n])]
             sorted   == CHOOSE h : h = Sorts(h)
             f        == [n \in 0 .. N |-> SortRows(SubSeq(rows, 1, n))]
             S        == {n \in Nat : n <= N => sorted[n] = f[n]}
  <2>2. rows \in Seq(Row) /\ N \in Nat
    BY <2>1 DEF TableInv
  <2>3. SortIsInsertionSort <=> SortRows(rows) = sorted[N]
    BY DEF SortIsInsertionSort, InsertionSort
  <2>4. f[0] = <<>>
    <3>1. SubSeq(rows, 1, 0) \in Seq(Row) /\ Len(SubSeq(rows, 1, 0)) = 0
      BY <2>2
    <3>2. SortRows(SubSeq(rows, 1, 0)) \in Seq(Row) /\ Len(SortRows(SubSeq(rows, 1, 0))) = 0
      BY <3>1, SortRowsType
    <3>3. SortRows(SubSeq(rows, 1, 0)) = <<>>
      BY <3>2
    <3> QED
      BY <2>2, <3>3
  <2>5. ASSUME NEW n \in 1 .. N
        PROVE  n \in 0 .. N /\ n - 1 \in 0 .. N /\ n # 0 /\ f[n] = InsertTail(f[n - 1], rows[n])
    <3>1. n \in 0 .. N /\ n - 1 \in 0 .. N /\ n # 0
      BY <2>2
    <3>2. /\ SubSeq(rows, 1, n - 1) \in Seq(Row) /\ rows[n] \in Row
          /\ SubSeq(rows, 1, n) = Append(SubSeq(rows, 1, n - 1), rows[n])
      BY <2>2, OneRowLess
    <3>3. SortRows(SubSeq(rows, 1, n)) = InsertTail(SortRows(SubSeq(rows, 1, n - 1)), rows[n])
      BY <3>2, SortOneMore
    <3> QED
      BY <3>1, <3>3
  <2> HIDE DEF N
  <2>6. sorted = Sorts(sorted)
    <3> HIDE DEF f
    <3>1. ASSUME NEW n \in 0 .. N PROVE f[n] = Sorts(f)[n]
      <4>1. n = 0 \/ n \in 1 .. N
        BY <2>2
      <4> QED
        BY <2>4, <2>5, <4>1
    <3>2. f = Sorts(f)
      <4>1. f = [n \in 0 .. N |-> f[n]]
        BY DEF f
      <4> QED
        BY <3>1, <4>1
    <3> QED
      BY <3>2
  <2> HIDE DEF sorted, f
  <2>7. sorted[0] = <<>> /\ \A n \in 1 .. N : sorted[n] = InsertTail(sorted[n - 1], rows[n])
    <3>1. \A n \in 0 .. N : sorted[n] = IF n = 0 THEN <<>> ELSE InsertTail(sorted[n - 1], rows[n])
      BY <2>6
    <3>2. 0 \in 0 .. N /\ \A n \in 1 .. N : n \in 0 .. N /\ n # 0
      BY <2>2
    <3> QED
      BY <3>1, <3>2
  <2>8. 0 \in S
    BY <2>4, <2>7
  <2>9. ASSUME NEW n \in S PROVE n + 1 \in S
    <3>1. SUFFICES ASSUME n + 1 <= N PROVE sorted[n + 1] = f[n + 1]
      BY <2>9
    <3>2. n + 1 \in 1 .. N /\ (n + 1) - 1 = n /\ sorted[n] = f[n]
      BY <2>2, <2>9, <3>1
    <3> QED
      BY <2>5, <2>7, <3>2
  <2>10. S \in SUBSET Nat
    OBVIOUS
  <2> HIDE DEF S
  <2>11. N \in S
    BY <2>2, <2>8, <2>9, <2>10, EveryNumber
  <2>12. sorted[N] = SortRows(SubSeq(rows, 1, N))
    BY <2>2, <2>11 DEF S, f
  <2>13. SubSeq(rows, 1, N) = rows
    BY <2>2 DEF N
  <2> QED
    BY <2>3, <2>12, <2>13
<1> QED
  BY <1>1, TableType, PTL
-----------------------------------------------------------------------------
(* The entries of a table from the top are its live rows by rank. *)
ByRank(few, t) ==
  /\ few \in Seq(Row) /\ Len(few) = EntriesLen(t)
  /\ \A k \in 1 .. Len(few) : few[k] = t[Kth(LiveRows(t), k)]

LEMMA OneMoreByRank ==
  ASSUME NEW t \in Seq(Row), NEW row \in Row, NEW few, ByRank(few, t)
  PROVE  ByRank(IF row \in Info THEN Append(few, row) ELSE few, Append(t, row))
<1> DEFINE u    == Append(t, row)
           more == Append(few, row)
           e    == EntriesLen(t)
<1>1. /\ few \in Seq(Row) /\ Len(few) = e
      /\ \A k \in 1 .. e : few[k] = t[Kth(LiveRows(t), k)]
  BY DEF ByRank
<1>2. CASE row \in Info
  <2>1. /\ EntriesLen(u) = e + 1
        /\ \A k \in 1 .. e : u[Kth(LiveRows(u), k)] = t[Kth(LiveRows(t), k)]
        /\ u[Kth(LiveRows(u), e + 1)] = row
    BY <1>2, OneMoreEntry
  <2>2. /\ more \in Seq(Row) /\ Len(more) = e + 1 /\ more[e + 1] = row
        /\ \A k \in 1 .. e : more[k] = few[k]
    BY <1>1
  <2>3. e \in Nat
    BY <1>1
  <2> HIDE DEF u, more, e
  <2>4. ASSUME NEW k \in 1 .. Len(more) PROVE more[k] = u[Kth(LiveRows(u), k)]
    <3>1. k \in 1 .. e \/ k = e + 1
      BY <2>2, <2>3
    <3> QED
      BY <1>1, <2>1, <2>2, <3>1
  <2>5. ByRank(more, u)
    BY <2>1, <2>2, <2>4 DEF ByRank
  <2> QED
    BY <1>2, <2>5 DEF more, u
<1>3. CASE row \notin Info
  <2>1. row \in {Struck, Blank}
    BY <1>3 DEF Row
  <2>2. /\ EntriesLen(u) = e
        /\ \A k \in 1 .. e : u[Kth(LiveRows(u), k)] = t[Kth(LiveRows(t), k)]
    BY <2>1, OneMoreVacantRow
  <2> HIDE DEF u, e
  <2>3. ByRank(few, u)
    BY <1>1, <2>2 DEF ByRank
  <2> QED
    BY <1>3, <2>3 DEF u
<1> QED
  BY <1>2, <1>3

LEMMA TopmostByRank ==
  ASSUME NEW t \in Seq(Row)
  PROVE  ByRank(Topmost(t), t)
<1> DEFINE N        == Len(t)
           Keeps(h) == [n \in 0 .. N |->
                         IF n = 0 THEN <<>>
                         ELSE IF t[n] \in Info THEN Append(h[n - 1], t[n]) ELSE h[n - 1]]
           kept     == CHOOSE h : h = Keeps(h)
           S        == {n \in Nat : n <= N => ByRank(kept[n], SubSeq(t, 1, n))}
<1>1. N \in Nat
  OBVIOUS
<1>2. Topmost(t) = kept[N]
  BY DEF Topmost
<1> HIDE DEF N
<1>3. kept = Keeps(kept)
  <2>1. PICK g : Sifted(g, t, Info)
    BY SiftedIsThere, Zenon
  <2>2. g[0] = <<>> /\ \A n \in 1 .. N :
          g[n] = IF t[n] \in Info THEN Append(g[n - 1], t[n]) ELSE g[n - 1]
    BY <2>1 DEF Sifted, N
  <2> DEFINE f == [n \in 0 .. N |-> g[n]]
  <2>3. ASSUME NEW n \in 0 .. N PROVE f[n] = Keeps(f)[n]
    <3>1. CASE n = 0
      BY <2>2, <3>1
    <3>2. CASE n # 0
      <4>1. n \in 1 .. N /\ n - 1 \in 0 .. N
        BY <1>1, <3>2
      <4> QED
        BY <2>2, <3>2, <4>1
    <3> QED
      BY <3>1, <3>2
  <2>4. f = Keeps(f)
    BY <2>3
  <2> QED
    BY <2>4
<1> HIDE DEF kept
<1>4. kept[0] = <<>> /\ \A n \in 1 .. N :
        kept[n] = IF t[n] \in Info THEN Append(kept[n - 1], t[n]) ELSE kept[n - 1]
  <2>1. \A n \in 0 .. N : kept[n] = IF n = 0 THEN <<>>
                                  ELSE IF t[n] \in Info THEN Append(kept[n - 1], t[n])
                                  ELSE kept[n - 1]
    BY <1>3
  <2>2. 0 \in 0 .. N /\ \A n \in 1 .. N : n \in 0 .. N /\ n # 0
    BY <1>1
  <2> QED
    BY <2>1, <2>2
<1>5. 0 \in S
  <2> DEFINE v == SubSeq(t, 1, 0)
  <2>1. v = <<>> /\ v \in Seq(Row) /\ Len(v) = 0
    OBVIOUS
  <2>2. EntriesLen(v) \in 0 .. Len(v)
    BY <2>1, CountingRows
  <2>3. EntriesLen(v) = 0
    BY <2>1, <2>2
  <2> HIDE DEF v
  <2>4. ByRank(kept[0], v)
    BY <1>4, <2>1, <2>3 DEF ByRank
  <2> QED
    BY <2>4 DEF v
<1>6. ASSUME NEW n \in S PROVE n + 1 \in S
  <2>1. SUFFICES ASSUME n + 1 <= N PROVE ByRank(kept[n + 1], SubSeq(t, 1, n + 1))
    BY <1>6
  <2>2. n + 1 \in 1 .. N /\ (n + 1) - 1 = n /\ ByRank(kept[n], SubSeq(t, 1, n))
    BY <1>1, <1>6, <2>1
  <2>3. /\ SubSeq(t, 1, n) \in Seq(Row) /\ t[n + 1] \in Row
        /\ SubSeq(t, 1, n + 1) = Append(SubSeq(t, 1, n), t[n + 1])
    <3>1. n + 1 \in 1 .. Len(t)
      BY <2>2 DEF N
    <3> QED
      BY <2>2, <3>1, OneRowLess
  <2>4. kept[n + 1] = IF t[n + 1] \in Info THEN Append(kept[n], t[n + 1]) ELSE kept[n]
    BY <1>4, <2>2
  <2>5. ByRank(IF t[n + 1] \in Info THEN Append(kept[n], t[n + 1]) ELSE kept[n],
               Append(SubSeq(t, 1, n), t[n + 1]))
    BY <2>2, <2>3, OneMoreByRank
  <2> QED
    BY <2>3, <2>4, <2>5
<1>7. S \in SUBSET Nat
  OBVIOUS
<1> HIDE DEF S
<1>8. N \in S
  BY <1>1, <1>5, <1>6, <1>7, EveryNumber
<1>9. ByRank(kept[N], SubSeq(t, 1, N))
  BY <1>1, <1>8 DEF S
<1>10. SubSeq(t, 1, N) = t
  BY DEF N
<1> QED
  BY <1>2, <1>9, <1>10

(* Shrinking the table drops an entry only if the table is full, and then  *)
(* the one at the bottom; what stays is in its order (tui.rs 332-358).     *)
THEOREM ShrinkingKeepsEntries == Spec => ShrinkKeepsEntries
<1> DEFINE Keeps == Len(rows') < Len(rows) =>
                      LET old == Topmost(rows)
                          new == Topmost(rows')
                      IN  IsPrefix(new, old) /\ (new = old \/ Len(old) = Len(rows))
<1>1. TableInv /\ [Next]_unitVars => [Keeps]_tableVars
  <2>1. SUFFICES ASSUME TableInv, [Next]_unitVars, Len(rows') < Len(rows)
                 PROVE  LET old == Topmost(rows)
                            new == Topmost(rows')
                        IN  IsPrefix(new, old) /\ (new = old \/ Len(old) = Len(rows))
    OBVIOUS
  <2>2. rows \in Seq(Row) /\ Len(rows) \in Nat
    BY <2>1 DEF TableInv
  <2>3. ~ UNCHANGED rows
    BY <2>1, <2>2
  <2>4. Shrink
    BY <2>1, <2>3
    DEF Next, Table, UseTable, Down, Up, Texts, Numbers, Adapter, NotesLoop, NotesWait, NotesKeys,
        OthersStay, unitVars, tableVars
  <2> DEFINE count == Len(rows) - 1
             old   == Topmost(rows)
             new   == Topmost(rows')
             e     == EntriesLen(rows)
             left  == IF e <= count THEN e ELSE count
  <2>5. count \in 0 .. Len(rows) /\ ~ (count > Len(rows)) /\ count + 1 = Len(rows)
    BY <2>2, <2>4 DEF Shrink
  <2>6. rows' = SubSeq(SortRows(rows), 1, count)
    BY <2>4, <2>5 DEF Shrink, Resize
  <2>7. /\ rows' \in Seq(Row) /\ EntriesLen(rows') = left
        /\ \A k \in 1 .. left : rows'[Kth(LiveRows(rows'), k)] = rows[Kth(LiveRows(rows), k)]
    BY <2>2, <2>5, <2>6, CutKeepsEntries
  <2>8. /\ old \in Seq(Row) /\ Len(old) = e
        /\ \A k \in 1 .. e : old[k] = rows[Kth(LiveRows(rows), k)]
    BY <2>2, TopmostByRank DEF ByRank
  <2>9. /\ new \in Seq(Row) /\ Len(new) = left
        /\ \A k \in 1 .. left : new[k] = rows'[Kth(LiveRows(rows'), k)]
    BY <2>7, TopmostByRank DEF ByRank
  <2>10. e \in 0 .. Len(rows)
    BY <2>2, AheadCount
  <2> HIDE DEF old, new, e, count
  <2>11. left \in Nat /\ left <= e /\ (left = e \/ e = Len(rows))
    BY <2>5, <2>10
  <2> HIDE DEF left
  <2>12. \A k \in 1 .. left : new[k] = old[k]
    BY <2>7, <2>8, <2>9, <2>10, <2>11
  <2>13. SubSeq(old, 1, left) = new /\ SubSeq(new, 1, left) = new
    <3>1. /\ SubSeq(old, 1, left) \in Seq(Row) /\ Len(SubSeq(old, 1, left)) = left
          /\ \A k \in 1 .. left : SubSeq(old, 1, left)[k] = old[k]
      BY <2>8, <2>10, <2>11
    <3>2. \A k \in 1 .. left : SubSeq(old, 1, left)[k] = new[k]
      BY <2>12, <3>1
    <3>3. SubSeq(old, 1, left) = new
      BY <2>9, <3>1, <3>2
    <3> QED
      BY <2>9, <3>3
  <2>14. IsPrefix(new, old)
    BY <2>8, <2>9, <2>11, <2>13 DEF IsPrefix
  <2>15. new = old \/ Len(old) = Len(rows)
    <3>1. CASE left = e
      BY <2>8, <2>9, <2>12, <3>1
    <3>2. CASE e = Len(rows)
      BY <2>8, <3>2
    <3> QED
      BY <2>11, <3>1, <3>2
  <2> QED
    BY <2>14, <2>15 DEF old, new
<1> QED
  BY <1>1, TableType, PTL DEF Spec, ShrinkKeepsEntries
-----------------------------------------------------------------------------
(* The notifications with their ages, in any order, and in theirs. *)
Aged == [note : Note, age : Nat]

YoungestFirst(notes) ==
  \A j, k \in 1 .. Len(notes) : j <= k => notes[j].age <= notes[k].age

NotOlder(notes, age) == \A k \in 1 .. Len(notes) : notes[k].age <= age

LEMMA FreshNotes ==
  ASSUME NEW notes \in Seq(Aged), YoungestFirst(notes)
  PROVE  /\ Fresh(notes) \in Seq(Aged) /\ Len(Fresh(notes)) <= Len(notes)
         /\ YoungestFirst(Fresh(notes))
         /\ NotOlder(Fresh(notes), Show)
<1> DEFINE N        == Len(notes)
           Keeps(h) == [n \in 0 .. N |->
                         IF n = 0 THEN <<>>
                         ELSE IF notes[n].age <= Show THEN Append(h[n - 1], notes[n]) ELSE h[n - 1]]
           kept     == CHOOSE h : h = Keeps(h)
           young    == {x \in Aged : x.age <= Show}
<1>1. N \in Nat /\ \A n \in 1 .. N : notes[n] \in Aged
  OBVIOUS
<1>2. Fresh(notes) = kept[N]
  BY DEF Fresh
<1> HIDE DEF N
<1>3. \A n \in 1 .. N : notes[n] \in young <=> notes[n].age <= Show
  BY <1>1, SMTT(30)
<1> HIDE DEF young
<1>4. kept = Keeps(kept)
  <2>1. PICK g : Sifted(g, notes, young)
    BY SiftedIsThere, Zenon
  <2>2. g[0] = <<>> /\ \A n \in 1 .. N :
          g[n] = IF notes[n] \in young THEN Append(g[n - 1], notes[n]) ELSE g[n - 1]
    BY <2>1 DEF Sifted, N
  <2> DEFINE f == [n \in 0 .. N |-> g[n]]
  <2>3. ASSUME NEW n \in 0 .. N PROVE f[n] = Keeps(f)[n]
    <3>1. CASE n = 0
      BY <2>2, <3>1
    <3>2. CASE n # 0
      <4>1. n \in 1 .. N /\ n - 1 \in 0 .. N
        BY <1>1, <3>2
      <4> QED
        BY <1>3, <2>2, <3>2, <4>1
    <3> QED
      BY <3>1, <3>2
  <2>4. f = Keeps(f)
    BY <2>3
  <2> QED
    BY <2>4
<1> HIDE DEF kept
<1>5. Sifted(kept, notes, young)
  <2>1. \A n \in 0 .. N : kept[n] = IF n = 0 THEN <<>>
                                  ELSE IF notes[n].age <= Show THEN Append(kept[n - 1], notes[n])
                                  ELSE kept[n - 1]
    BY <1>4
  <2>2. 0 \in 0 .. N /\ \A n \in 1 .. N : n \in 0 .. N /\ n # 0
    BY <1>1
  <2>3. \A n \in 1 .. N :
          kept[n] = IF notes[n] \in young THEN Append(kept[n - 1], notes[n]) ELSE kept[n - 1]
    BY <1>3, <2>1, <2>2
  <2> QED
    BY <2>1, <2>2, <2>3 DEF Sifted, N
<1> DEFINE fresh == kept[N]
           m     == Len(fresh)
<1>6. /\ fresh \in Seq(Aged) /\ m <= N
      /\ \E at \in [1 .. m -> 1 .. N] :
           /\ \A j \in 1 .. m : notes[at[j]] \in young /\ fresh[j] = notes[at[j]]
           /\ \A j, k \in 1 .. m : j < k => at[j] < at[k]
  <2>1. N \in 0 .. Len(notes)
    BY <1>1 DEF N
  <2>2. \A n \in 0 .. Len(notes) : KeptOf(kept[n], notes, young, Aged, n)
    BY <1>5, SiftedMembers, Zenon
  <2> QED
    BY <2>1, <2>2 DEF KeptOf
<1>7. PICK at \in [1 .. m -> 1 .. N] :
        /\ \A j \in 1 .. m : notes[at[j]] \in young /\ fresh[j] = notes[at[j]]
        /\ \A j, k \in 1 .. m : j < k => at[j] < at[k]
  BY <1>6
<1>8. m \in Nat
  BY <1>6
<1> HIDE DEF fresh, m
<1>9. ASSUME NEW j \in 1 .. m, NEW k \in 1 .. m, j <= k PROVE fresh[j].age <= fresh[k].age
  <2>1. at[j] \in 1 .. N /\ at[k] \in 1 .. N
    BY <1>7
  <2>2. at[j] <= at[k]
    <3>1. j < k => at[j] < at[k]
      BY <1>7
    <3>2. j = k \/ j < k
      BY <1>8, <1>9
    <3>3. at[j] \in Nat /\ at[k] \in Nat
      BY <1>1, <2>1
    <3> QED
      BY <3>1, <3>2, <3>3
  <2>3. fresh[j] = notes[at[j]] /\ fresh[k] = notes[at[k]]
    BY <1>7
  <2> QED
    BY <2>1, <2>2, <2>3 DEF YoungestFirst, N
<1>10. ASSUME NEW k \in 1 .. m PROVE fresh[k].age <= Show
  BY <1>7 DEF young
<1> QED
  BY <1>2, <1>6, <1>9, <1>10 DEF YoungestFirst, NotOlder, fresh, m, N

LEMMA TruncatedNotes ==
  ASSUME NEW notes \in Seq(Aged), NEW count \in Nat
  PROVE  LET top == Truncated(notes, count)
         IN  /\ top \in Seq(Aged) /\ Len(top) <= count /\ Len(top) <= Len(notes)
             /\ \A k \in 1 .. Len(top) : top[k] = notes[k]
<1> DEFINE n == IF Len(notes) < count THEN Len(notes) ELSE count
<1>1. n \in 0 .. Len(notes) /\ n <= count
  OBVIOUS
<1>2. Truncated(notes, count) = SubSeq(notes, 1, n)
  BY DEF Truncated
<1> HIDE DEF n
<1>3. /\ SubSeq(notes, 1, n) \in Seq(Aged) /\ Len(SubSeq(notes, 1, n)) = n
      /\ \A k \in 1 .. n : SubSeq(notes, 1, n)[k] = notes[k]
  BY <1>1
<1> QED
  BY <1>1, <1>2, <1>3

LEMMA NotesBehindNotes ==
  ASSUME NEW s \in Seq(Aged), NEW t \in Seq(Aged)
  PROVE  /\ s \o t \in Seq(Aged) /\ Len(s \o t) = Len(s) + Len(t)
         /\ \A k \in 1 .. Len(s) : (s \o t)[k] = s[k]
         /\ \A k \in 1 .. Len(t) : (s \o t)[Len(s) + k] = t[k]
OBVIOUS

LEMMA NoteOnTop ==
  ASSUME NEW notes \in Seq(Aged), NEW one \in Aged
  PROVE  LET more == <<one>> \o notes
         IN  /\ more \in Seq(Aged) /\ Len(more) = Len(notes) + 1 /\ more[1] = one
             /\ \A k \in 2 .. Len(more) : more[k] = notes[k - 1]
<1> DEFINE top  == <<one>>
           more == top \o notes
<1>1. top \in Seq(Aged) /\ Len(top) = 1 /\ top[1] = one
  OBVIOUS
<1> HIDE DEF top
<1>2. /\ more \in Seq(Aged) /\ Len(more) = Len(top) + Len(notes)
      /\ \A k \in 1 .. Len(top) : more[k] = top[k]
      /\ \A k \in 1 .. Len(notes) : more[Len(top) + k] = notes[k]
  BY <1>1, NotesBehindNotes, Zenon
<1> HIDE DEF more
<1>3. Len(notes) \in Nat /\ Len(more) = Len(notes) + 1 /\ 1 \in 1 .. Len(top)
  BY <1>1, <1>2
<1>4. more[1] = one
  BY <1>1, <1>2, <1>3
<1>5. ASSUME NEW k \in 2 .. Len(more) PROVE more[k] = notes[k - 1]
  <2>1. k - 1 \in 1 .. Len(notes) /\ Len(top) + (k - 1) = k
    BY <1>1, <1>3
  <2>2. more[Len(top) + (k - 1)] = notes[k - 1]
    BY <1>2, <2>1
  <2> QED
    BY <2>1, <2>2
<1> QED
  BY <1>2, <1>3, <1>4, <1>5 DEF more, top

(* The inductive invariant: the notes are in the order of their ages, and  *)
(* after a drawing none is stale until the next tick ends, which is in the *)
(* wait for an event; what follows that wait draws before it waits again.  *)
NotesInv ==
  /\ maxCount \in Nat
  /\ inner \in Seq(Aged)
  /\ Len(inner) <= maxCount
  /\ YoungestFirst(inner)
  /\ NotOlder(inner, Show + 1)
  /\ pc = "drain" \/ (pc = "event" /\ ~ waited) => NotOlder(inner, Show)

LEMMA NotesType == Spec => []NotesInv
<1>1. Init => NotesInv
  BY NotificationsAssumption DEF Init, NoNotes, NotesInv, YoungestFirst, NotOlder
<1>2. NotesInv /\ [Next]_unitVars => NotesInv'
  <2>1. SUFFICES ASSUME NotesInv, [Next]_unitVars PROVE NotesInv'
    OBVIOUS
  <2>2. /\ maxCount \in Nat /\ inner \in Seq(Aged) /\ Len(inner) <= maxCount /\ Len(inner) \in Nat
        /\ YoungestFirst(inner) /\ NotOlder(inner, Show + 1)
        /\ pc = "drain" \/ (pc = "event" /\ ~ waited) => NotOlder(inner, Show)
    BY <2>1 DEF NotesInv
  <2>3. Show \in Nat /\ MaxRows \in Nat
    BY NotificationsAssumption
  <2>4. ASSUME NEW notes \in Seq(Aged)
        PROVE  /\ Len(notes) \in Nat
               /\ \A k \in 1 .. Len(notes) : notes[k] \in Aged /\ notes[k].age \in Nat
               /\ NotOlder(notes, Show) => NotOlder(notes, Show + 1)
    <3>1. ASSUME NEW k \in 1 .. Len(notes) PROVE notes[k] \in Aged /\ notes[k].age \in Nat
      <4>1. notes[k] \in Aged
        OBVIOUS
      <4>2. \A x \in Aged : x.age \in Nat
        BY DEF Aged
      <4> QED
        BY <4>1, <4>2
    <3> QED
      BY <2>3, <3>1 DEF NotOlder
  <2>5. CASE UNCHANGED notesVars
    BY <2>2, <2>5 DEF NotesInv, notesVars
  <2>6. CASE Draw
    <3>1. /\ Fresh(inner) \in Seq(Aged) /\ Len(Fresh(inner)) <= Len(inner)
          /\ YoungestFirst(Fresh(inner)) /\ NotOlder(Fresh(inner), Show)
      BY <2>2, FreshNotes
    <3>2. inner' = Fresh(inner) /\ maxCount' = maxCount
      BY <2>6 DEF Draw
    <3>3. NotOlder(inner', Show + 1) /\ Len(inner') <= maxCount'
      BY <2>2, <2>4, <3>1, <3>2
    <3> QED
      BY <2>2, <3>1, <3>2, <3>3 DEF NotesInv
  <2>7. CASE Receive
    <3>1. PICK note \in Note : AppendNote(note)
      BY <2>7 DEF Receive
    <3> DEFINE one  == [note |-> note, age |-> 0]
               more == <<one>> \o inner
               top  == Truncated(more, maxCount)
    <3>2. one \in Aged /\ one.age = 0
      BY DEF Aged
    <3> HIDE DEF one
    <3>3. /\ more \in Seq(Aged) /\ Len(more) = Len(inner) + 1 /\ more[1] = one
          /\ \A k \in 2 .. Len(more) : more[k] = inner[k - 1]
      BY <2>2, <3>2, NoteOnTop
    <3> HIDE DEF more
    <3>4. /\ top \in Seq(Aged) /\ Len(top) <= maxCount /\ Len(top) <= Len(more)
          /\ \A k \in 1 .. Len(top) : top[k] = more[k]
      BY <2>2, <3>3, TruncatedNotes
    <3>5. /\ inner' = top /\ maxCount' = maxCount /\ pc = "drain"
      BY <2>7, <3>1 DEF Receive, AppendNote, top, more, one
    <3> HIDE DEF top
    <3>6. ASSUME NEW k \in 1 .. Len(top), k # 1
          PROVE  k - 1 \in 1 .. Len(inner) /\ top[k] = inner[k - 1]
      <4>1. k \in 2 .. Len(more) /\ k - 1 \in 1 .. Len(inner)
        BY <2>2, <2>4, <3>3, <3>4, <3>6
      <4> QED
        BY <3>3, <3>4, <4>1
    <3>7. 1 \in 1 .. Len(top) => top[1] = one
      BY <3>3, <3>4
    <3>8. YoungestFirst(top)
      <4>1. SUFFICES ASSUME NEW j \in 1 .. Len(top), NEW k \in 1 .. Len(top), j <= k
                     PROVE  top[j].age <= top[k].age
        BY DEF YoungestFirst
      <4>2. top[j].age \in Nat /\ top[k].age \in Nat
        BY <2>4, <3>4
      <4>3. CASE j = 1
        BY <3>2, <3>7, <4>2, <4>3
      <4>4. CASE j # 1
        <5>1. k # 1 /\ j - 1 <= k - 1
          BY <4>1, <4>4
        <5> QED
          BY <2>2, <3>6, <4>4, <5>1 DEF YoungestFirst
      <4> QED
        BY <4>3, <4>4
    <3>9. NotOlder(top, Show)
      <4>1. SUFFICES ASSUME NEW k \in 1 .. Len(top) PROVE top[k].age <= Show
        BY DEF NotOlder
      <4>2. CASE k = 1
        BY <2>3, <3>2, <3>7, <4>2
      <4>3. CASE k # 1
        BY <2>2, <3>5, <3>6, <4>3 DEF NotOlder
      <4> QED
        BY <4>2, <4>3
    <3>10. NotOlder(top, Show + 1)
      BY <2>4, <3>4, <3>9
    <3> QED
      BY <2>2, <3>4, <3>5, <3>8, <3>9, <3>10 DEF NotesInv
  <2>8. CASE EndDrain
    BY <2>2, <2>8 DEF EndDrain, NotesInv
  <2>9. CASE Wait
    <3>1. pc = "event" /\ pc' = "event" /\ ~ waited /\ waited' /\ maxCount' = maxCount
      BY <2>9 DEF Wait
    <3>2. DOMAIN inner = 1 .. Len(inner)
      BY <2>2
    <3>3. inner' = [k \in 1 .. Len(inner) |-> Older(inner[k])]
      BY <2>9, <3>2 DEF Wait
    <3>4. ASSUME NEW k \in 1 .. Len(inner)
          PROVE  Older(inner[k]) \in Aged /\ Older(inner[k]).age = inner[k].age + 1
      <4>1. inner[k] \in Aged /\ inner[k].age \in Nat /\ inner[k].age <= Show
        BY <2>2, <2>4, <3>1 DEF NotOlder
      <4>2. inner[k].age < Show + 2
        BY <2>3, <4>1
      <4>3. Older(inner[k]) = [inner[k] EXCEPT !.age = inner[k].age + 1]
        BY <4>2 DEF Older
      <4> QED
        BY <4>1, <4>3 DEF Aged
    <3>5. inner' \in Seq(Aged) /\ Len(inner') = Len(inner)
      BY <2>2, <3>3, <3>4
    <3>6. \A k \in 1 .. Len(inner) : inner'[k].age = inner[k].age + 1
      BY <3>3, <3>4
    <3>7. \A k \in 1 .. Len(inner) : inner[k].age \in Nat
      BY <2>2, <2>4
    <3>8. YoungestFirst(inner')
      BY <2>2, <3>5, <3>6, <3>7 DEF YoungestFirst
    <3>9. NotOlder(inner', Show + 1)
      BY <2>2, <2>3, <3>1, <3>5, <3>6, <3>7 DEF NotOlder
    <3> QED
      BY <2>2, <3>1, <3>5, <3>8, <3>9 DEF NotesInv
  <2>10. CASE PollTimesOut
    <3>1. inner' = inner /\ maxCount' = maxCount /\ pc' = IF hasUpdate \/ inner # <<>> THEN "draw" ELSE "drain"
      BY <2>10 DEF PollTimesOut
    <3>2. pc' # "event" /\ (pc' = "drain" => inner' = <<>>)
      BY <3>1
    <3>3. inner = <<>> => NotOlder(inner, Show)
      BY DEF NotOlder
    <3> QED
      BY <2>2, <3>1, <3>2, <3>3 DEF NotesInv
  <2>11. CASE PressKey
    BY <2>2, <2>11 DEF PressKey, NotesInv
  <2>12. CASE ChangeRows
    <3>1. /\ pc' = "draw" /\ maxCount' \in Nat /\ inner' = Truncated(inner, maxCount')
      BY <2>12 DEF ChangeRows
    <3>2. /\ inner' \in Seq(Aged) /\ Len(inner') <= maxCount' /\ Len(inner') <= Len(inner)
          /\ \A k \in 1 .. Len(inner') : inner'[k] = inner[k]
      BY <2>2, <3>1, TruncatedNotes
    <3>3. \A k \in 1 .. Len(inner') : k \in 1 .. Len(inner)
      BY <2>2, <2>4, <3>2
    <3>4. YoungestFirst(inner') /\ NotOlder(inner', Show + 1)
      BY <2>2, <3>2, <3>3 DEF YoungestFirst, NotOlder
    <3> QED
      BY <3>1, <3>2, <3>4 DEF NotesInv
  <2> QED
    BY <2>1, <2>5, <2>6, <2>7, <2>8, <2>9, <2>10, <2>11, <2>12
    DEF Next, Table, Texts, Numbers, Adapter, NotesLoop, NotesWait, NotesKeys, LoopStep, unitVars
<1> QED
  BY <1>1, <1>2, PTL DEF Spec

(* There are never more notifications than rows, and the newest is on top: *)
(* what truncate cuts off is the oldest, whatever the number of rows and   *)
(* the time for which they are shown (tui.rs 1565-1579).                   *)
THEOREM NotesAreYoungestFirst == Spec => []NewestFirst
<1>1. NotesInv => NewestFirst
  <2>1. inner \in Seq(Aged) => DOMAIN inner = 1 .. Len(inner)
    OBVIOUS
  <2> QED
    BY <2>1 DEF NotesInv, NewestFirst, YoungestFirst
<1> QED
  BY <1>1, NotesType, PTL

(* No notification is on the screen for more than one poll longer than it  *)
(* is to be shown (tui.rs 774-788, 1575-1579).                             *)
THEOREM NotesDoNotLinger == Spec => []NeverLingers
<1>1. NotesInv => NeverLingers
  <2>1. inner \in Seq(Aged) => DOMAIN inner = 1 .. Len(inner)
    OBVIOUS
  <2> QED
    BY <2>1 DEF NotesInv, NeverLingers, NotOlder
<1> QED
  BY <1>1, NotesType, PTL
=============================================================================
