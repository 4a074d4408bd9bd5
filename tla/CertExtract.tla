----------------------------- MODULE CertExtract -----------------------------
(***************************************************************************)
(* The certificate field extractors of src/ssl_utils.c and the bounded     *)
(* output buffer (struct buffer) they fill.                                *)
(*                                                                         *)
(* Every extractor is called with a trash chunk of the caller: a buffer of *)
(* capacity `size`, `data` = 0 and stale bytes in `area`.  Each call is    *)
(* one action: it records its inputs in `call`, the buffer it leaves in    *)
(* `out` and its return value in `ret`.  The loops of the DN extractors    *)
(* are RECURSIVE operators that follow the C loops step by step.          *)
(*                                                                         *)
(* Data is abstracted: bytes are one-character strings; a DN attribute is  *)
(* an element of Attrs with the short name OBJ_nid2sn gives it, or Absent  *)
(* when it has none, and its dotted OID text; the RFC 2253 printer of the  *)
(* library ignores escaping.                                               *)
(***************************************************************************)
EXTENDS Integers, Sequences, SequencesExt

CONSTANTS
  Ops,          \* the extractors this model may call
  ContractOps,  \* the extractors whose result the contract is checked on
  Sizes,        \* capacities of the caller's buffer
  Attrs,        \* DN attribute types
  ShortName,    \* [Attrs -> Seq(char) \cup {Absent}]: OBJ_nid2sn, or none
  OidText,      \* [Attrs -> Seq(char)]: the dotted OID text in full
  TmpSize,      \* sizeof(tmp), the buffer the OID text is rendered into
  ObjTmpSize,   \* sizeof(objtmp) of OpenSSL's RFC 2253 printer
  Requests,     \* entry names asked of ssl_sock_get_dn_entry
  Upper,        \* [lower-case letters -> upper case] for the case fold
  Values,       \* byte strings an ASN.1 string, serial or DER may hold
  MaxEntries,   \* longest DN
  Positions,    \* occurrence indices given to ssl_sock_get_dn_entry
  TimeLens,     \* lengths of ASN.1 time strings
  TimeHeads,    \* first two characters of ASN.1 time strings
  KeyBits,      \* EVP_PKEY_bits results
  Families,     \* EVP_PKEY_base_id results ("RSA", "EC", "DSA", others)
  Absent,       \* "no value" (NULL accessor result, no match ...)
  EncFail,      \* i2d_X509 reporting a non-positive length
  NoKey,        \* X509_get_pubkey returning NULL
  Stale,        \* a byte of the trash chunk not written by the call
  NUL           \* the terminating NUL written by vsnprintf

AllOps == {"serial", "der", "time", "dn_entry", "oneline", "formatted", "pkey"}
ASSUME Ops \subseteq AllOps
ASSUME Sizes \subseteq Nat /\ MaxEntries \in Nat

VARIABLES call, out, ret, pc
vars == <<call, out, ret, pc>>

-----------------------------------------------------------------------------
(* Inputs.                                                                 *)

Entries == [attr : Attrs, val : Values]

(* chunk_strcasecmp(entry, s): equal lengths and equal characters up to    *)
(* case.                                                                   *)
Fold(c) == IF c \in DOMAIN Upper THEN Upper[c] ELSE c
StrCaseEq(x, y) == Len(x) = Len(y) /\ \A i \in 1..Len(x) : Fold(x[i]) = Fold(y[i])

(* i2t_ASN1_OBJECT(buf, len, obj): the dotted text, cut to len - 1         *)
(* characters and NUL-terminated.                                          *)
I2tAsn1Object(attr, len) == SubSeq(OidText[attr], 1, Min({Len(OidText[attr]), len - 1}))
DNs == BoundedSeq(Entries, MaxEntries)
TimeData == {h \o [i \in 1..(n - 2) |-> "0"] : h \in TimeHeads, n \in TimeLens}
Times == [type : {"GEN", "UTC", "OTHER"}, data : TimeData]
Keys == {NoKey} \cup [fam : Families, bits : KeyBits]

DigitVal(c) == CHOOSE d \in 0..9 : <<"0","1","2","3","4","5","6","7","8","9">>[d + 1] = c
DigitChar(d) == <<"0","1","2","3","4","5","6","7","8","9">>[d + 1]

(* The trash chunk handed to an extractor. *)
Trash(size) == [size |-> size, data |-> 0, area |-> [i \in 1..size |-> Stale]]

(* memcpy(area + off, src, Len(src)); bytes past the capacity extend the   *)
(* area, which is how an overflow shows in the model.                      *)
MemCpy(area, off, src) ==
  [i \in 1..Max({Len(area), off + Len(src)}) |->
     IF off < i /\ i <= off + Len(src) THEN src[i - off]
     ELSE IF i <= Len(area) THEN area[i] ELSE Stale]

(* Result of a call: the return value and the buffer. *)
R(r, o) == [ret |-> r, out |-> o]

-----------------------------------------------------------------------------
(* cert_get_pkey_algo and the chunk_printf it calls.                       *)

RECURSIVE Decimal(_)
Decimal(n) == IF n < 10 THEN <<DigitChar(n)>>
              ELSE Decimal(n \div 10) \o <<DigitChar(n % 10)>>

FamText(f) == CASE f = "RSA" -> <<"R","S","A">>
                [] f = "EC"  -> <<"E","C">>
                [] f = "DSA" -> <<"D","S","A">>

(* chunk_printf: 0 with nothing written when the chunk has no room at    *)
(* all; otherwise vsnprintf into area with capacity size, and the text    *)
(* fits when its NUL does, else the area holds a truncated text, data is   *)
(* unchanged and the result is -1.                                         *)
ChunkPrintf(o, text) ==
  CASE o.size = 0 -> [len |-> 0, out |-> o]
    [] Len(text) >= o.size ->
         [len |-> -1, out |-> [o EXCEPT !.area = MemCpy(@, 0, SubSeq(text, 1, o.size - 1) \o <<NUL>>)]]
    [] OTHER ->
         [len |-> Len(text), out |-> [o EXCEPT !.area = MemCpy(@, 0, text \o <<NUL>>), !.data = Len(text)]]

PkeyAlgo(key, o) ==
  IF key = NoKey \/ key.fam \notin {"RSA", "EC", "DSA"} THEN R(0, o)
  ELSE LET p == ChunkPrintf(o, FamText(key.fam) \o Decimal(key.bits))
       IN IF p.len < 0 THEN R(0, p.out) ELSE R(1, p.out)

-----------------------------------------------------------------------------
(* ssl_sock_get_serial, ssl_sock_crt2der, ssl_sock_get_time.               *)

(* Mutant: the capacity check is off by one. *)
GetSerialOffByOne(serial, o) ==
  IF serial = Absent THEN R(0, o)
  ELSE IF o.size < Len(serial) - 1 THEN R(-1, o)
  ELSE R(1, [o EXCEPT !.area = MemCpy(@, 0, serial), !.data = Len(serial)])

GetSerial(serial, o) ==
  IF serial = Absent THEN R(0, o)
  ELSE IF o.size < Len(serial) THEN R(-1, o)
  ELSE R(1, [o EXCEPT !.area = MemCpy(@, 0, serial), !.data = Len(serial)])

Crt2Der(der, o) ==
  IF der = EncFail THEN R(1, o)
  ELSE IF o.size < Len(der) THEN R(-1, o)
  ELSE R(1, [o EXCEPT !.area = MemCpy(@, 0, der), !.data = Len(der)])

GetTime(tm, o) ==
  LET len == Len(tm.data) IN
  CASE tm.type = "GEN" ->
         IF len < 12 THEN R(0, o)
         ELSE IF tm.data[1] # "2" \/ tm.data[2] # "0" THEN R(0, o)
         ELSE IF o.size < len - 2 THEN R(-1, o)
         ELSE R(1, [o EXCEPT !.area = MemCpy(@, 0, SubSeq(tm.data, 3, len)),
                             !.data = len - 2])
    [] tm.type = "UTC" ->
         IF len < 10 THEN R(0, o)
         ELSE IF DigitVal(tm.data[1]) >= 5 THEN R(0, o)
         ELSE IF o.size < len THEN R(-1, o)
         ELSE R(1, [o EXCEPT !.area = MemCpy(@, 0, tm.data), !.data = len])
    [] OTHER -> R(0, o)

-----------------------------------------------------------------------------
(* ssl_sock_get_dn_entry: iteration i visits entry j (reversed when pos is *)
(* negative); cur counts the matches seen, downwards when pos < 0.         *)

(* The name ssl_sock_get_dn_entry compares: the short name, else the OID   *)
(* text rendered into its char tmp[128].                                   *)
DnEntryName(attr) ==
  IF ShortName[attr] # Absent THEN ShortName[attr] ELSE I2tAsn1Object(attr, TmpSize)

(* Mutant: a negative pos counts down but iterates forwards. *)
RECURSIVE DnEntryLoopForward(_, _, _, _, _, _)
DnEntryLoopForward(a, entry, pos, o, i, cur) ==
  IF i >= Len(a) THEN R(0, o)
  ELSE
    LET ne   == a[i + 1]
        cur2 == IF pos < 0 THEN cur - 1 ELSE cur + 1
    IN IF ~StrCaseEq(entry, DnEntryName(ne.attr)) THEN DnEntryLoopForward(a, entry, pos, o, i + 1, cur)
       ELSE IF cur2 # pos THEN DnEntryLoopForward(a, entry, pos, o, i + 1, cur2)
       ELSE IF Len(ne.val) > o.size THEN R(-1, o)
       ELSE R(1, [o EXCEPT !.area = MemCpy(@, 0, ne.val), !.data = Len(ne.val)])

RECURSIVE DnEntryLoop(_, _, _, _, _, _)
DnEntryLoop(a, entry, pos, o, i, cur) ==
  IF i >= Len(a) THEN R(0, o)
  ELSE
    LET j    == IF pos < 0 THEN (Len(a) - 1) - i ELSE i
        ne   == a[j + 1]
        cur2 == IF pos < 0 THEN cur - 1 ELSE cur + 1
    IN IF ~StrCaseEq(entry, DnEntryName(ne.attr)) THEN DnEntryLoop(a, entry, pos, o, i + 1, cur)
       ELSE IF cur2 # pos THEN DnEntryLoop(a, entry, pos, o, i + 1, cur2)
       ELSE IF Len(ne.val) > o.size THEN R(-1, o)
       ELSE R(1, [o EXCEPT !.area = MemCpy(@, 0, ne.val), !.data = Len(ne.val)])

GetDnEntry(a, entry, pos, o) == DnEntryLoop(a, entry, pos, [o EXCEPT !.data = 0], 0, 0)

-----------------------------------------------------------------------------
(* ssl_sock_get_dn_oneline: l is the length written so far; data follows  *)
(* l only after the capacity check of each entry.                          *)

(* Mutant: oneline renders unknown OIDs in full (a larger tmp). *)
OnelineNameUntruncated(attr) ==
  IF ShortName[attr] # Absent THEN ShortName[attr] ELSE OidText[attr]

(* The name ssl_sock_get_dn_oneline prints: the short name, else the OID   *)
(* text rendered into its own char tmp[128].                               *)
OnelineName(attr) ==
  IF ShortName[attr] # Absent THEN ShortName[attr] ELSE I2tAsn1Object(attr, TmpSize)

EntryText(ne) == <<"/">> \o OnelineName(ne.attr) \o <<"=">> \o ne.val

(* Mutant: the write pointer p is not advanced past the short names. *)
NamesLen(a, i) == FoldLeft(LAMBDA acc, ne : acc + Len(OnelineName(ne.attr)), 0, SubSeq(a, 1, i))

RECURSIVE OnelineLoopNoNameAdvance(_, _, _, _)
OnelineLoopNoNameAdvance(a, o, i, l) ==
  IF i >= Len(a) THEN R(IF o.data = 0 THEN 0 ELSE 1, o)
  ELSE
    LET ne == a[i + 1]
        l2 == l + 1 + Len(OnelineName(ne.attr)) + 1 + Len(ne.val)
    IN IF l2 > o.size THEN R(-1, o)
       ELSE OnelineLoopNoNameAdvance(a, [o EXCEPT !.data = l2,
                 !.area = MemCpy(@, l - NamesLen(a, i), EntryText(ne))], i + 1, l2)

RECURSIVE OnelineLoop(_, _, _, _)
OnelineLoop(a, o, i, l) ==
  IF i >= Len(a) THEN R(IF o.data = 0 THEN 0 ELSE 1, o)
  ELSE
    LET ne == a[i + 1]
        l2 == l + 1 + Len(OnelineName(ne.attr)) + 1 + Len(ne.val)
    IN IF l2 > o.size THEN R(-1, o)
       ELSE OnelineLoop(a, [o EXCEPT !.data = l2,
                                     !.area = MemCpy(@, l, EntryText(ne))], i + 1, l2)

GetDnOneline(a, o) == OnelineLoop(a, [o EXCEPT !.data = 0], 0, 0)

-----------------------------------------------------------------------------
(* ssl_sock_get_dn_formatted: X509_NAME_print_ex with XN_FLAG_RFC2253      *)
(* writes the entries last first, separated by ","; BIO_read copies at     *)
(* most size bytes of it.  sinkOk is FALSE when BIO_new or the printer     *)
(* fails.  The printer renders an OID without a short name into its own    *)
(* char objtmp[80] with OBJ_obj2txt, cut as i2t_ASN1_OBJECT cuts it.      *)

Rfc2253Text(a) ==
  LET r == Reverse(a)
      name(ne) == IF ShortName[ne.attr] # Absent THEN ShortName[ne.attr] ELSE I2tAsn1Object(ne.attr, ObjTmpSize)
      text(ne) == name(ne) \o <<"=">> \o ne.val
      part(k) == IF k = 1 THEN text(r[k]) ELSE <<",">> \o text(r[k])
  IN FlattenSeq([k \in 1..Len(r) |-> part(k)])

(* Mutant: returns the number of bytes read instead of 1. *)
GetDnFormattedRetLen(a, format, sinkOk, o) ==
  IF format # "rfc2253" \/ ~sinkOk THEN R(0, o)
  ELSE LET text == Rfc2253Text(a)
           n    == Min({Len(text), o.size})
       IN IF n <= 0 THEN R(0, o)
          ELSE R(n, [o EXCEPT !.area = MemCpy(@, 0, SubSeq(text, 1, n)), !.data = n])

GetDnFormatted(a, format, sinkOk, o) ==
  IF format # "rfc2253" \/ ~sinkOk THEN R(0, o)
  ELSE LET text == Rfc2253Text(a)
           n    == Min({Len(text), o.size})
       IN IF n <= 0 THEN R(0, o)
          ELSE R(1, [o EXCEPT !.area = MemCpy(@, 0, SubSeq(text, 1, n)), !.data = n])

-----------------------------------------------------------------------------
(* The calls.  Init picks a call with its inputs and the caller's trash   *)
(* chunk; the extractor's action runs it to its return, after which the   *)
(* caller has its result and the model stops.                             *)

Calls ==
  UNION {
    IF "pkey" \in Ops THEN [op : {"pkey"}, size : Sizes, key : Keys] ELSE {},
    IF "serial" \in Ops
      THEN [op : {"serial"}, size : Sizes, serial : Values \cup {Absent}] ELSE {},
    IF "der" \in Ops THEN [op : {"der"}, size : Sizes, der : Values \cup {EncFail}] ELSE {},
    IF "time" \in Ops THEN [op : {"time"}, size : Sizes, tm : Times] ELSE {},
    IF "dn_entry" \in Ops
      THEN [op : {"dn_entry"}, size : Sizes, dn : DNs, entry : Requests, pos : Positions]
      ELSE {},
    IF "oneline" \in Ops THEN [op : {"oneline"}, size : Sizes, dn : DNs] ELSE {},
    IF "formatted" \in Ops
      THEN [op : {"formatted"}, size : Sizes, dn : DNs,
            format : {"rfc2253", "other"}, sinkOk : BOOLEAN]
      ELSE {} }

Do(r) == pc = "call" /\ pc' = "returned" /\ out' = r.out /\ ret' = r.ret /\ UNCHANGED call

CallPkeyAlgo     == call.op = "pkey"      /\ Do(PkeyAlgo(call.key, out))
CallGetSerial    == call.op = "serial"    /\ Do(GetSerial(call.serial, out))
CallCrt2Der      == call.op = "der"       /\ Do(Crt2Der(call.der, out))
CallGetTime      == call.op = "time"      /\ Do(GetTime(call.tm, out))
CallGetDnEntry   == call.op = "dn_entry"  /\ Do(GetDnEntry(call.dn, call.entry, call.pos, out))
CallGetDnOneline == call.op = "oneline"   /\ Do(GetDnOneline(call.dn, out))
CallGetDnFormatted ==
  call.op = "formatted" /\ Do(GetDnFormatted(call.dn, call.format, call.sinkOk, out))

Init ==
  /\ call \in Calls
  /\ out = Trash(call.size)
  /\ ret = 0
  /\ pc = "call"

Next ==
  \/ CallPkeyAlgo
  \/ CallGetSerial
  \/ CallCrt2Der
  \/ CallGetTime
  \/ CallGetDnEntry
  \/ CallGetDnOneline
  \/ CallGetDnFormatted

Spec == Init /\ [][Next]_vars

-----------------------------------------------------------------------------
(* Properties.                                                             *)

TypeOK ==
  /\ call \in Calls
  /\ pc \in {"call", "returned"}
  /\ ret \in {-1, 0, 1}
  /\ out.size = call.size
  /\ out.data \in Nat

(* The name section 4.2 matches an entry against: the short name, else    *)
(* the dotted OID text as rendered into a buffer of TmpSize bytes (the     *)
(* spec does not say what happens to a longer text; the code cuts it).     *)
Rendered(attr) ==
  IF ShortName[attr] # Absent THEN ShortName[attr]
  ELSE SubSeq(OidText[attr], 1, Min({Len(OidText[attr]), TmpSize - 1}))

(* The value the spec says the call should deliver (section 4.2), written  *)
(* independently of the C loops: the pos-th match counted from the front,  *)
(* or from the back when pos is negative; the whole DN as "/sn=value"      *)
(* pieces, reported absent when the DN is empty.                           *)
Occurrence(a, e, pos) ==
  LET m == SelectSeq(a, LAMBDA ne : StrCaseEq(e, Rendered(ne.attr))) IN
  IF pos > 0 /\ pos <= Len(m) THEN m[pos].val
  ELSE IF pos < 0 /\ -pos <= Len(m) THEN m[Len(m) + 1 + pos].val
  ELSE Absent

Expected(c) ==
  CASE c.op = "serial"    -> c.serial
    [] c.op = "der"       -> IF c.der = EncFail THEN Absent ELSE c.der
    [] c.op = "time"      ->
         LET d == c.tm.data IN
         IF c.tm.type = "GEN" /\ Len(d) >= 12 /\ SubSeq(d, 1, 2) = <<"2", "0">>
         THEN SubSeq(d, 3, Len(d))
         ELSE IF c.tm.type = "UTC" /\ Len(d) >= 10 /\ DigitVal(d[1]) < 5 THEN d
         ELSE Absent
    [] c.op = "dn_entry"  -> Occurrence(c.dn, c.entry, c.pos)
    [] c.op = "oneline"   ->
         IF c.dn = <<>> THEN Absent
         ELSE FlattenSeq([k \in 1..Len(c.dn) |-> EntryText(c.dn[k])])
    [] c.op = "formatted" ->
         IF c.format # "rfc2253" \/ ~c.sinkOk \/ c.dn = <<>> THEN Absent
         ELSE Rfc2253Text(c.dn)
    [] c.op = "pkey"      ->
         IF c.key = NoKey \/ c.key.fam \notin {"RSA", "EC", "DSA"} THEN Absent
         ELSE FamText(c.key.fam) \o Decimal(c.key.bits)

Outcome(v, size) == IF v = Absent THEN 0 ELSE IF Len(v) <= size THEN 1 ELSE -1

(* The tri-state contract of sections 4.1 and 8: an extractor returns 1    *)
(* exactly when the value exists and fits, -1 exactly when it exists and   *)
(* does not fit, 0 when it is absent; on 1 the buffer holds exactly the    *)
(* value.  Checked on the extractors of ContractOps.                       *)
ResultContract ==
  pc = "returned" /\ call.op \in ContractOps =>
    LET v == Expected(call) IN
    /\ ret = Outcome(v, out.size)
    /\ ret = 1 => /\ out.data = Len(v)
                  /\ SubSeq(out.area, 1, out.data) = v

(* No extractor writes past the capacity of the caller's buffer or leaves  *)
(* data larger than it (section 3, "data <= size always holds").           *)
NoOverflow ==
  /\ Len(out.area) = out.size
  /\ out.data <= out.size

(* After a call that did not succeed, data is 0 or covers a valid prefix   *)
(* of the value: the open question of section 9 on the -1 path of         *)
(* ssl_sock_get_dn_oneline, which advances data entry by entry.            *)
FailureKeepsPrefix ==
  (pc = "returned" /\ ret # 1) =>
    \/ out.data = 0
    \/ /\ Expected(call) # Absent
       /\ out.data <= Len(out.area)
       /\ IsPrefix(SubSeq(out.area, 1, out.data), Expected(call))

(* ssl_sock_get_dn_oneline and ssl_sock_get_dn_entry name attributes       *)
(* alike, each rendering an unknown OID into its own tmp[128]: for every   *)
(* entry of the DN of a oneline call, asking dn_entry for the name oneline *)
(* prints for it, at its occurrence among the entries printed with that    *)
(* name (counted from the front, and from the back), yields its value.     *)
(* Two OIDs whose texts agree up to the buffer are thus one name to both.  *)
OnelineNameSelects ==
  call.op = "oneline" =>
    \A k \in 1..Len(call.dn) :
      LET n     == OnelineName(call.dn[k].attr)
          same(ne) == StrCaseEq(n, OnelineName(ne.attr))
          j     == Len(SelectSeq(SubSeq(call.dn, 1, k), same))
          total == Len(SelectSeq(call.dn, same))
          v     == call.dn[k].val
          Finds(pos) == LET r == GetDnEntry(call.dn, n, pos, Trash(Len(v)))
                        IN r.ret = 1 /\ SubSeq(r.out.area, 1, r.out.data) = v
      IN Finds(j) /\ Finds(j - total - 1)

=============================================================================
