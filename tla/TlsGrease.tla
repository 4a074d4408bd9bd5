------------------------------ MODULE TlsGrease ------------------------------
(***************************************************************************)
(* exclude_tls_grease of src/ssl_utils.c: copies the two-byte codes of an  *)
(* input list into a struct buffer, appending at output->data, and drops   *)
(* the GREASE values of RFC 8701 (0x0A0A, 0x1A1A, ..., 0xFAFA).  An odd    *)
(* trailing byte is copied as it is.                                       *)
(*                                                                         *)
(* size and data are size_t: the expressions output->size - 2 and          *)
(* output->size - output->data are computed modulo 2^SizeWidth.  len and   *)
(* ptr are int.  The call is one action whose loop is a RECURSIVE operator *)
(* following the C loop.                                                   *)
(***************************************************************************)
EXTENDS Integers, Sequences, SequencesExt

CONSTANTS
  Bytes,       \* byte values (0..255) the input is made of
  MaxInput,    \* longest input list, in bytes
  Sizes,       \* capacities of the output buffer
  SizeWidth,   \* width in bits of size_t
  Stale,       \* a byte of the output not written by the call
  Garbage      \* a byte read outside the input

ASSUME Bytes \subseteq 0..255 /\ Sizes \subseteq Nat /\ SizeWidth \in Nat \ {0}

SizeMod == 2^SizeWidth

(* size_t subtraction. *)
USub(a, b) == (a - b) % SizeMod

VARIABLES call, out, pc
vars == <<call, out, pc>>

(* The caller's output buffer may already hold data bytes. *)
Calls == {c \in [in : BoundedSeq(Bytes, MaxInput), size : Sizes, data0 : 0..Max(Sizes)] :
            c.data0 <= c.size}

Start(c) == [size |-> c.size, data |-> c.data0, area |-> [i \in 1..c.size |-> Stale]]

(* input[k] with k 0-based; a read past the end yields an unspecified byte. *)
InByte(in, k) == IF k < Len(in) THEN in[k + 1] ELSE Garbage

(* memcpy(area + off, src, Len(src)); bytes past the capacity extend area. *)
MemCpy(area, off, src) ==
  [i \in 1..Max({Len(area), off + Len(src)}) |->
     IF off < i /\ i <= off + Len(src) THEN src[i - off]
     ELSE IF i <= Len(area) THEN area[i] ELSE Stale]

IsGreasePair(b1, b2) == b1 = b2 /\ b1 % 16 = 10

-----------------------------------------------------------------------------
(* Mutant: the capacity test is off by one. *)
RECURSIVE GreaseLoopRoomOffByOne(_, _, _)
GreaseLoopRoomOffByOne(in, o, ptr) ==
  IF ~(ptr < Len(in) - 1) THEN [out |-> o, ptr |-> ptr]
  ELSE IF ~IsGreasePair(InByte(in, ptr), InByte(in, ptr + 1))
       THEN IF o.data <= USub(o.size, 1)
            THEN GreaseLoopRoomOffByOne(in,
                   [o EXCEPT !.area = MemCpy(@, o.data, <<InByte(in, ptr), InByte(in, ptr + 1)>>),
                             !.data = @ + 2], ptr + 2)
            ELSE [out |-> o, ptr |-> ptr]
       ELSE GreaseLoopRoomOffByOne(in, o, ptr + 2)

(* Mutant: a pair is dropped on its low nibble alone. *)
RECURSIVE GreaseLoopNibbleOnly(_, _, _)
GreaseLoopNibbleOnly(in, o, ptr) ==
  IF ~(ptr < Len(in) - 1) THEN [out |-> o, ptr |-> ptr]
  ELSE IF InByte(in, ptr) % 16 # 10
       THEN IF o.data <= USub(o.size, 2)
            THEN GreaseLoopNibbleOnly(in,
                   [o EXCEPT !.area = MemCpy(@, o.data, <<InByte(in, ptr), InByte(in, ptr + 1)>>),
                             !.data = @ + 2], ptr + 2)
            ELSE [out |-> o, ptr |-> ptr]
       ELSE GreaseLoopNibbleOnly(in, o, ptr + 2)

(* The while loop: a pair that is not GREASE is appended while            *)
(* data <= size - 2, otherwise the loop breaks; a GREASE pair is skipped.  *)
RECURSIVE GreaseLoop(_, _, _)
GreaseLoop(in, o, ptr) ==
  IF ~(ptr < Len(in) - 1) THEN [out |-> o, ptr |-> ptr]
  ELSE IF ~IsGreasePair(InByte(in, ptr), InByte(in, ptr + 1))
       THEN IF o.data <= USub(o.size, 2)
            THEN GreaseLoop(in,
                   [o EXCEPT !.area = MemCpy(@, o.data, <<InByte(in, ptr), InByte(in, ptr + 1)>>),
                             !.data = @ + 2], ptr + 2)
            ELSE [out |-> o, ptr |-> ptr]
       ELSE GreaseLoop(in, o, ptr + 2)

(* Mutant: the trailing-byte test reads one byte past the input. *)
TailCopyOffByOne(in, o, ptr) ==
  IF USub(o.size, o.data) > 0 /\ Len(in) - ptr >= 0
  THEN [o EXCEPT !.area = MemCpy(@, o.data, <<InByte(in, ptr)>>), !.data = @ + 1]
  ELSE o

(* After the loop: one more byte, input[ptr], when size - data > 0 and     *)
(* bytes remain.                                                           *)
TailCopy(in, o, ptr) ==
  IF USub(o.size, o.data) > 0 /\ Len(in) - ptr > 0
  THEN [o EXCEPT !.area = MemCpy(@, o.data, <<InByte(in, ptr)>>), !.data = @ + 1]
  ELSE o

ExcludeTlsGrease(in, o) ==
  LET r == GreaseLoop(in, o, 0) IN TailCopy(in, r.out, r.ptr)

-----------------------------------------------------------------------------
Init ==
  /\ call \in Calls
  /\ out = Start(call)
  /\ pc = "call"

CallExcludeTlsGrease ==
  /\ pc = "call"
  /\ out' = ExcludeTlsGrease(call.in, out)
  /\ pc' = "returned"
  /\ UNCHANGED call

Next == CallExcludeTlsGrease

Spec == Init /\ [][Next]_vars

-----------------------------------------------------------------------------
(* Properties.                                                             *)

(* The output holds nothing but input bytes and bytes it held before. *)
TypeOK ==
  /\ call \in Calls
  /\ pc \in {"call", "returned"}
  /\ out.data \in Nat
  /\ \A i \in DOMAIN out.area : out.area[i] \in Bytes \cup {Stale}

Appended == SubSeq(out.area, call.data0 + 1, out.data)

(* The reference filter of section 4.3: the input's pairs that are not     *)
(* GREASE, in order, and the unpaired trailing byte of an odd input.       *)
KeptPairs(in) ==
  LET pairs == [k \in 1..(Len(in) \div 2) |-> <<in[2 * k - 1], in[2 * k]>>]
  IN SelectSeq(pairs, LAMBDA p : ~IsGreasePair(p[1], p[2]))
OddTail(in) == IF Len(in) % 2 = 1 THEN <<in[Len(in)]>> ELSE <<>>
Filtered(in) == FlattenSeq(KeptPairs(in)) \o OddTail(in)

(* The bytes appended are the filtered input, cut short only when the      *)
(* room left in the buffer (size - data on entry) is too small for it.     *)
GreaseFiltered ==
  pc = "returned" =>
    /\ IsPrefix(Appended, Filtered(call.in))
    /\ Len(Filtered(call.in)) <= call.size - call.data0 => Appended = Filtered(call.in)

(* The filter never writes past the capacity of the output buffer. *)
NoOverflow ==
  /\ Len(out.area) = out.size
  /\ out.data <= out.size

(* Truncation stops at a pair boundary (section 4.3: "stops copying        *)
(* further pairs"): the output is some whole kept pairs, or all of them    *)
(* followed by the unpaired trailing byte.                                 *)
WholePairs ==
  pc = "returned" =>
    LET kp == KeptPairs(call.in) IN
    Appended \in {FlattenSeq(SubSeq(kp, 1, k)) : k \in 0..Len(kp)}
                   \cup {FlattenSeq(kp) \o OddTail(call.in)}

=============================================================================
