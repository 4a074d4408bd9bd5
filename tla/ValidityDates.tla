---------------------------- MODULE ValidityDates ----------------------------
(***************************************************************************)
(* The validity dates of a certificate as text (x509_get_notafter,         *)
(* x509_get_notbefore) and as time_t (ASN1_to_time_t,                      *)
(* x509_get_notafter_time_t, x509_get_notbefore_time_t) in                 *)
(* src/ssl_utils.c, composed with asn1_generalizedtime_to_epoch of         *)
(* GenTimeEpoch, the other conversion of an ASN1 time to an epoch.         *)
(*                                                                         *)
(* Each text accessor renders into its own static THREAD_LOCAL char        *)
(* buf[256] and returns it: buf[t][f] is the buffer of thread t for field  *)
(* f.  held[t] is what the callers of thread t still point at, oldest      *)
(* first: the field, and the text the call returned (NullPtr for NULL).    *)
(* ASN1_TIME_print, ASN1_TIME_to_tm and my_timegm are outside src/ and     *)
(* modelled from their contracts: a time the library cannot read fails     *)
(* both, a readable one prints as a text that names its fields and         *)
(* converts to its instant in UTC.  BIO_new fails nondeterministically     *)
(* (allocation).  A parsed certificate always has both dates, so           *)
(* X509_getm_notAfter/notBefore never return NULL here.                    *)
(***************************************************************************)
EXTENDS Integers, Sequences, SequencesExt

CONSTANTS
  Threads,      \* the threads calling the accessors
  Fields,       \* the well-formed times a certificate may carry
  NoSec,        \* the sec field of a time written without seconds
  MaxHeld,      \* how many results a thread's callers keep at once
  EmptyText,    \* the buffer after memset(buf, 0, sizeof(buf))
  NullPtr,      \* a NULL result
  Unset         \* no time_t conversion has been made yet

Fns == {"notafter", "notbefore"}

Gen == INSTANCE GenTimeEpoch WITH Malformed <- {}, input <- NullPtr, result <- -1, pc <- "call"

(* A time the library cannot read: a generalized time cut after its year. *)
BadTime == [type |-> "generalized", text |-> <<"2", "0", "2", "4">>, fields |-> NoSec]

Times == {[type |-> "generalized", text |-> Gen!Text(f), fields |-> f] : f \in Fields} \cup {BadTime}

VARIABLES
  cert,     \* [Fns -> Times]: the certificate's notAfter and notBefore
  buf,      \* [Threads -> [Fns -> text]]: the thread-local static buffers
  held,     \* [Threads -> Seq([fn, text])]: results the callers still use
  epoch     \* [Fns -> Int \cup {Unset}]: the last time_t conversion

vars == <<cert, buf, held, epoch>>

(* ASN1_TIME_print and ASN1_TIME_to_tm succeed on a readable time. *)
Readable(tm) == tm.fields # NoSec /\ tm.fields.month \in 1..12

(* The text ASN1_TIME_print writes: it names the time's fields. *)
AsnTimePrint(tm) == [shows |-> tm.fields]

(* my_timegm of the struct tm ASN1_TIME_to_tm fills: the UTC instant. *)
MyTimegm(tm) == Gen!CalendarEpoch(tm.fields) - Gen!ZoneOffset(tm.fields.zone)

Init ==
  /\ cert \in [Fns -> Times]
  /\ buf = [t \in Threads |-> [f \in Fns |-> EmptyText]]
  /\ held = [t \in Threads |-> <<>>]
  /\ epoch = [f \in Fns |-> Unset]

(* Mutant: one static buffer shared by every thread (THREAD_LOCAL lost). *)
GetTextShared(t, f, bioOk) ==
  LET ok == bioOk /\ Readable(cert[f])
      text == IF ok THEN AsnTimePrint(cert[f]) ELSE EmptyText
  IN /\ Len(held[t]) < MaxHeld
     /\ buf' = [u \in Threads |-> [buf[u] EXCEPT ![f] = text]]
     /\ held' = [held EXCEPT ![t] = Append(@, [fn |-> f, text |-> IF ok THEN text ELSE NullPtr])]
     /\ UNCHANGED <<cert, epoch>>

(* x509_get_notafter / x509_get_notbefore called by thread t: memset the   *)
(* buffer; if BIO_new or ASN1_TIME_print fails return NULL, the buffer     *)
(* left zeroed; else BIO_read at most 255 bytes (the printed time is far   *)
(* shorter, and at least one byte), terminate, return buf.  The caller     *)
(* keeps the result.                                                       *)
GetText(t, f, bioOk) ==
  LET ok == bioOk /\ Readable(cert[f])
      text == IF ok THEN AsnTimePrint(cert[f]) ELSE EmptyText
  IN /\ Len(held[t]) < MaxHeld
     /\ buf' = [buf EXCEPT ![t][f] = text]
     /\ held' = [held EXCEPT ![t] = Append(@, [fn |-> f, text |-> IF ok THEN text ELSE NullPtr])]
     /\ UNCHANGED <<cert, epoch>>

X509GetNotafter(t, bioOk) == GetText(t, "notafter", bioOk)
X509GetNotbefore(t, bioOk) == GetText(t, "notbefore", bioOk)

(* The oldest result a caller of thread t kept is no longer used. *)
Release(t) ==
  /\ held[t] # <<>>
  /\ held' = [held EXCEPT ![t] = Tail(@)]
  /\ UNCHANGED <<cert, buf, epoch>>

(* ASN1_to_time_t: -1 when ASN1_TIME_to_tm fails, else my_timegm. *)
Asn1ToTimeT(tm) == IF ~Readable(tm) THEN -1 ELSE MyTimegm(tm)

(* x509_get_notafter_time_t / x509_get_notbefore_time_t: -1 if the date  *)
(* is missing (never, see above), else ASN1_to_time_t of it.               *)
GetTimeT(f) ==
  /\ epoch' = [epoch EXCEPT ![f] = Asn1ToTimeT(cert[f])]
  /\ UNCHANGED <<cert, buf, held>>

X509GetNotafterTimeT == GetTimeT("notafter")
X509GetNotbeforeTimeT == GetTimeT("notbefore")

Next ==
  \/ \E t \in Threads, bioOk \in BOOLEAN : X509GetNotafter(t, bioOk) \/ X509GetNotbefore(t, bioOk)
  \/ \E t \in Threads : Release(t)
  \/ X509GetNotafterTimeT
  \/ X509GetNotbeforeTimeT

Spec == Init /\ [][Next]_vars

-----------------------------------------------------------------------------
(* Properties.                                                             *)

(* A text a caller holds still reads as what its call returned, unless the *)
(* same thread has since called the same accessor (whose memset clears    *)
(* the buffer even when that call fails): calls of other threads, and of   *)
(* the other accessor, never change it.                                    *)
HeldTextIntact ==
  \A t \in Threads : \A k \in 1..Len(held[t]) :
    held[t][k].text # NullPtr =>
      \/ buf[t][held[t][k].fn] = held[t][k].text
      \/ \E j \in (k + 1)..Len(held[t]) : held[t][j].fn = held[t][k].fn

=============================================================================
