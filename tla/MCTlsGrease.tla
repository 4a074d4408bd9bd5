----------------------------- MODULE MCTlsGrease -----------------------------
(***************************************************************************)
(* Bytes for TlsGrease: 0x0A (a GREASE pair when doubled), 0x1A and 0x1B   *)
(* (GREASE low nibble, but 0x1A1B is not GREASE) and 0x01.  Inputs of up   *)
(* to five bytes give two pairs and a trailing byte.  size_t is given 8    *)
(* bits: size - 2 wraps for every width when size < 2.                     *)
(***************************************************************************)
EXTENDS TlsGrease

MCBytes == {10, 26, 27, 1}
=============================================================================
