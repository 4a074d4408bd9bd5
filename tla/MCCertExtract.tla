---------------------------- MODULE MCCertExtract ----------------------------
(***************************************************************************)
(* Model values for CertExtract: CN, an attribute with a short name, and   *)
(* two OIDs the library has no name for, whose dotted texts agree on their *)
(* first three characters; the OID buffer is TmpSize = 4 bytes (128 in    *)
(* the code), so both render as "1.2", as two OIDs agreeing on 127         *)
(* characters do; the RFC 2253 printer's objtmp (80 in OpenSSL) is      *)
(* ObjTmpSize = 3 bytes, shorter again.  Entry names are asked in lower    *)
(* case, as that text, and                                                 *)
(* as a full OID text.  Three distinguishable values, DNs of up to three  *)
(* entries (so a name can occur twice, with a different one between),      *)
(* occurrence indices around 0 from both ends, and capacities 0..13 that   *)
(* fall below, on and above every value length.                            *)
(***************************************************************************)
EXTENDS CertExtract

Chars(str) == [i \in 1..Len(str) |-> SubSeq(str, i, i)]

MCAttrs == {"CN", "oidA", "oidB"}
MCShortName == [a \in MCAttrs |-> IF a = "CN" THEN Chars("CN") ELSE Absent]
MCOidText == [a \in MCAttrs |-> CASE a = "CN" -> Chars("2.5.4.3")
                                  [] a = "oidA" -> Chars("1.2.3")
                                  [] a = "oidB" -> Chars("1.2.4")]
MCRequests == {Chars("cn"), Chars("1.2"), Chars("1.2.3")}
MCUpper == [c \in {"c", "n"} |-> IF c = "c" THEN "C" ELSE "N"]
MCValues == {<<"a">>, <<"b">>, <<"a", "b">>}
MCPositions == {-2, -1, 0, 1, 2}
MCTimeLens == {9, 10, 11, 12, 13, 14}
MCTimeHeads == {<<"2", "0">>, <<"2", "1">>, <<"1", "0">>, <<"5", "0">>}
MCKeyBits == {256, 2048}
MCFamilies == {"RSA", "EC", "DSA", "ED25519"}
MCSizes == 0..13

(* The extractors whose code keeps the tri-state contract, and those whose *)
(* code departs from it.                                                   *)
MCContractOps == {"serial", "time", "dn_entry", "oneline"}
MCDivergentOps == {"der", "formatted", "pkey"}
=============================================================================
