------------------------------ MODULE IoAdapter ------------------------------
(***************************************************************************)
(* The adapter between the two kinds of read buffer (Io, src/src/          *)
(* hyper_tls.rs): Io<T> reads for hyper from a T that reads for tokio, and *)
(* the other way round.  Modelled is an Io<Io<T>>, both ways one in the    *)
(* other, read by a caller that fills one buffer several times before it   *)
(* uses its bytes and clears it.  Writes are handed on unchanged.          *)
(*                                                                         *)
(* A buffer is memory, of which the caller and each adapter see a part: a  *)
(* view with where it starts, how much of it is filled, and how much of it *)
(* is known to be initialized.  Both kinds of buffer keep these numbers.   *)
(***************************************************************************)
EXTENDS Integers

CONSTANTS
  Capacity,  (* of the caller's buffer                                     *)
  MaxBytes   (* bound: the stream ends after so many bytes                 *)

ASSUME IoAssumption == Capacity \in Nat \ {0} /\ MaxBytes \in Nat

VARIABLES
  memory,    (* the buffer's bytes: their places in the stream, or others  *)
  tbuf,      (* the caller's view of it, a tokio ReadBuf                   *)
  taken,     (* bytes that the caller has used                             *)
  sent,      (* bytes that the stream has given                            *)
  panicked   (* an assertion of ReadBuf has failed                         *)

ioVars == <<memory, tbuf, taken, sent, panicked>>

Uninit  == 0   (* never written *)
Scratch == -1  (* written, but not given *)
Byte    == -1 .. MaxBytes

View(from) == [from |-> from, filled |-> 0, init |-> 0]

Larger(m, n) == IF m < n THEN n ELSE m

IoTypeOK ==
  /\ memory \in [1 .. Capacity -> Byte]
  /\ tbuf \in [from : {0}, filled : 0 .. Capacity, init : 0 .. Capacity]
  /\ taken \in 0 .. MaxBytes
  /\ sent \in 0 .. MaxBytes
  /\ panicked \in BOOLEAN

EmptyBuffer ==
  /\ memory = [i \in 1 .. Capacity |-> Uninit]
  /\ tbuf = View(0)
  /\ taken = 0
  /\ sent = 0
  /\ panicked = FALSE

-----------------------------------------------------------------------------
(* ReadBuf::put_slice of n bytes, by the T inside. *)
Put(view, n) ==
  [view EXCEPT !.filled = @ + n, !.init = Larger(@, view.filled + n)]

(* ReadBufCursor::advance *)
Advance(view, n) ==
  [view EXCEPT !.filled = @ + n, !.init = Larger(@, view.filled + n)]

(* The part of a view that is not filled: as_mut, unfilled_mut. *)
Unfilled(view) == View(view.from + view.filled)

(* <Io as hyper::rt::Read>::poll_read: how the view ends when n bytes come.*)
ReadForHyper(buf, n) == Advance(buf, Put(Unfilled(buf), n).filled)

(* assume_init: of bytes behind the filled ones. *)
AssumeInit(view, n) == [view EXCEPT !.init = Larger(@, view.filled + n)]

(* A mutant of ReadForTokio: what is initialized is counted from the start.*)
ReadForTokioInit(buf, n) ==
  LET subFilled == ReadForHyper(Unfilled(buf), n).filled
  IN  [[buf EXCEPT !.init = Larger(@, subFilled)] EXCEPT !.filled = @ + subFilled]

(* A mutant of ReadForTokio: the bytes filled before are counted twice. *)
ReadForTokioTwice(buf, n) ==
  LET subFilled == ReadForHyper(Unfilled(buf), n).filled
  IN  [AssumeInit(buf, buf.filled + subFilled) EXCEPT !.filled = @ + subFilled]

(* A mutant of ReadForTokio: set_filled(sub_filled). *)
ReadForTokioSub(buf, n) ==
  LET subFilled == ReadForHyper(Unfilled(buf), n).filled
  IN  [AssumeInit(buf, subFilled) EXCEPT !.filled = subFilled]

(* <Io as tokio::io::AsyncRead>::poll_read, the same. *)
ReadForTokio(buf, n) ==
  LET subFilled == ReadForHyper(Unfilled(buf), n).filled
  IN  [AssumeInit(buf, subFilled) EXCEPT !.filled = @ + subFilled]

(* set_filled asserts that what it fills is initialized. *)
SetFilledPanics(buf) == buf.filled > buf.init

(* A poll_read that is ready, with the n bytes that the T inside wrote at  *)
(* the innermost view; none are the end of the stream or a full buffer.    *)
Read ==
  \E n \in 0 .. (Capacity - tbuf.filled) :
    LET from == Unfilled(Unfilled(tbuf)).from
    IN  /\ ~ panicked
        /\ sent + n <= MaxBytes
        /\ memory' = [i \in 1 .. Capacity |->
                        IF i \in from + 1 .. from + n THEN sent + (i - from) ELSE memory[i]]
        /\ sent' = sent + n
        /\ tbuf' = ReadForTokio(tbuf, n)
        /\ panicked' = SetFilledPanics(tbuf')
        /\ UNCHANGED taken

(* A poll_read that is pending or fails may have written to the buffer,    *)
(* but none of the views is changed.                                       *)
NotReady ==
  /\ ~ panicked
  /\ \E i \in tbuf.filled + 1 .. Capacity : memory' = [memory EXCEPT ![i] = Scratch]
  /\ UNCHANGED <<tbuf, taken, sent, panicked>>

(* The caller uses the bytes, and clears its buffer. *)
Use ==
  /\ ~ panicked
  /\ taken' = taken + tbuf.filled
  /\ tbuf' = [tbuf EXCEPT !.filled = 0]
  /\ UNCHANGED <<memory, sent, panicked>>

Transfer == Read \/ NotReady \/ Use

Reading == EmptyBuffer /\ [][Transfer]_ioVars

-----------------------------------------------------------------------------
(* What the caller takes for filled is the stream, from where it has used  *)
(* it: nothing is lost, repeated or overwritten by a later read into the   *)
(* same buffer, at either nesting (hyper_tls.rs 32, 94-103).               *)
DeliversStream ==
  /\ sent = taken + tbuf.filled
  /\ \A i \in 1 .. tbuf.filled : memory[i] = taken + i

(* What the buffers claim to be initialized has been written (the unsafe   *)
(* assume_init and advance, hyper_tls.rs 35, 101).                         *)
ClaimsAreTrue == \A i \in 1 .. tbuf.init : i <= Capacity /\ memory[i] # Uninit

(* ReadBuf::set_filled does not panic: what is filled was declared to be   *)
(* initialized before (hyper_tls.rs 99-103).                               *)
NeverPanics == ~ panicked
=============================================================================
