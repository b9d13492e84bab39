------------------------------- MODULE Formats -------------------------------
(***************************************************************************)
(* How numbers of downloads are abbreviated (format_downloads, src/src/    *)
(* tui.rs 1218): "999", "1.2K", "123K", "1.2M", "123M", "1.2B".  Modelled  *)
(* is the number that the text stands for.                                 *)
(***************************************************************************)
EXTENDS Integers

CONSTANTS
  Starts,  (* bound: where counting begins ...                             *)
  Window   (* ... and how far it goes                                      *)

ASSUME FormatsAssumption == Starts \subseteq Nat /\ Window \in Nat

VARIABLES
  first,   (* where counting began                                         *)
  num      (* the number of downloads                                      *)

numVars == <<first, num>>

Thousand == 1000
Million  == 1000000
Billion  == 1000000000

-----------------------------------------------------------------------------
(* A mutant of FormatDecimal: it is rounded up to the next unit, too. *)
FormatDecimalCarries(rem) ==
  LET dec == rem \div 100
  IN  IF rem \div 10 >= 5 THEN dec + 1 ELSE dec

(* format_decimal, of 0 .. 999.  It rounds up from 50 on, not only where   *)
(* the next digit is a 5 or more.                                          *)
FormatDecimal(rem) ==
  LET dec == rem \div 100
  IN  IF dec # 9 /\ rem \div 10 >= 5 THEN dec + 1 ELSE dec

Whole(n, unit) == (n \div unit) * unit

(* What dec digits after a point stand for. *)
Decimal(dec, unit) == IF dec < 10 THEN dec * (unit \div 10) ELSE dec * (unit \div 100)

WithDecimal(n, unit) ==
  Whole(n, unit) + Decimal(FormatDecimal((n % unit) \div (unit \div 1000)), unit)

(* A mutant of Shown: no decimal for millions. *)
ShownWholeMillions(n) ==
  CASE n < Thousand                                -> n
    [] n >= Thousand /\ n < 100 * Thousand         -> WithDecimal(n, Thousand)
    [] n >= 100 * Thousand /\ n < Million          -> Whole(n, Thousand)
    [] n >= Million /\ n < Billion                 -> Whole(n, Million)
    [] n >= Billion                                -> WithDecimal(n, Billion)

(* The todo!(), from 100 billion on. *)
Unfinished(n) == n \div Billion >= 100

(* What the text stands for, unless Unfinished(n). *)
Shown(n) ==
  CASE n < Thousand                        -> n
    [] n >= Thousand /\ n < 100 * Thousand -> WithDecimal(n, Thousand)
    [] n >= 100 * Thousand /\ n < Million  -> Whole(n, Thousand)
    [] n >= Million /\ n < 100 * Million   -> WithDecimal(n, Million)
    [] n >= 100 * Million /\ n < Billion   -> Whole(n, Million)
    [] n >= Billion                        -> WithDecimal(n, Billion)

-----------------------------------------------------------------------------
(* One number after the other. *)
FirstNumber == first \in Starts /\ num = first

Count == num - first < Window /\ num' = num + 1 /\ UNCHANGED first

Counting == FirstNumber /\ [][Count]_numVars

-----------------------------------------------------------------------------
(* The step between two texts that can be told apart. *)
Step(n) ==
  CASE n < Thousand                        -> 1
    [] n >= Thousand /\ n < 100 * Thousand -> Thousand \div 10
    [] n >= 100 * Thousand /\ n < Million  -> Thousand
    [] n >= Million /\ n < 100 * Million   -> Million \div 10
    [] n >= 100 * Million /\ n < Billion   -> Million
    [] n >= Billion                        -> Billion \div 10

(* The text is off by at most one of its last digit, whichever way it was  *)
(* rounded and into whichever unit (tui.rs 1219-1226).                     *)
OffByOneDigit == ~ Unfinished(num) => Shown(num) - num \in - Step(num) .. Step(num)

(* More downloads never look like fewer, also from one unit to the next,   *)
(* where the decimal must not be rounded up to ten (tui.rs 1222).          *)
Monotone == [][~ Unfinished(num') => Shown(num') >= Shown(num)]_numVars
=============================================================================
