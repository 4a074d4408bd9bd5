---------------------------- MODULE LookupTables ----------------------------
(***************************************************************************)
(* The static lookup tables of src/ssl_utils.c, every row of them:         *)
(* x509_v_codes with init_x509_v_err_tab, x509_v_err_str_to_int and        *)
(* x509_v_err_int_to_str; sigalgs_list with sigalg2str; curves_list with   *)
(* init_curves_tab, curveid2str and curves2nid; and the nid2nist switch.   *)
(*                                                                         *)
(* A row names a library macro.  The preprocessor turns _Q(MACRO) into the *)
(* text of its value when the library's headers define it and into the    *)
(* macro's own name when they do not; which optional macros a library     *)
(* version defines is chosen in Init.  A digit text is a sequence of       *)
(* one-character strings; a macro name, whose first character is a letter *)
(* and never a digit or sign, is the one-element sequence <<name>>.        *)
(* The two init functions run once at STG_REGISTER, before the            *)
(* configuration is parsed, and the lookups (made while parsing and at run *)
(* time) after them; last is the most recent lookup and its result.       *)
(***************************************************************************)
EXTENDS Integers, Sequences, SequencesExt

CONSTANTS
  Macros,       \* [macro -> value] in the library's headers
  Optional,     \* the macros older library versions lack
  Names, Codes, SigalgIds, CurveIds, CurveNames, Nids,  \* lookup arguments
  NULL

(* A sigalgs_list row and a curves_list row (the V() macro of the curve   *)
(* table: nid starts at -1, nid_val_str is _Q of the NID macro).           *)
S(name, sigalg) == [name |-> name, sigalg |-> sigalg]
C(id, nid, name, nist) == [curve_id |-> id, nid |-> nid, name |-> name, nist |-> nist]

(* x509_v_codes: the macro names its V() rows list, in order. *)
X509VCodes ==
  << "X509_V_OK", "X509_V_ERR_UNSPECIFIED",
     "X509_V_ERR_UNABLE_TO_GET_ISSUER_CERT", "X509_V_ERR_UNABLE_TO_GET_CRL",
     "X509_V_ERR_UNABLE_TO_DECRYPT_CERT_SIGNATURE", "X509_V_ERR_UNABLE_TO_DECRYPT_CRL_SIGNATURE",
     "X509_V_ERR_UNABLE_TO_DECODE_ISSUER_PUBLIC_KEY", "X509_V_ERR_CERT_SIGNATURE_FAILURE",
     "X509_V_ERR_CRL_SIGNATURE_FAILURE", "X509_V_ERR_CERT_NOT_YET_VALID",
     "X509_V_ERR_CERT_HAS_EXPIRED", "X509_V_ERR_CRL_NOT_YET_VALID",
     "X509_V_ERR_CRL_HAS_EXPIRED", "X509_V_ERR_ERROR_IN_CERT_NOT_BEFORE_FIELD",
     "X509_V_ERR_ERROR_IN_CERT_NOT_AFTER_FIELD", "X509_V_ERR_ERROR_IN_CRL_LAST_UPDATE_FIELD",
     "X509_V_ERR_ERROR_IN_CRL_NEXT_UPDATE_FIELD", "X509_V_ERR_OUT_OF_MEM",
     "X509_V_ERR_DEPTH_ZERO_SELF_SIGNED_CERT", "X509_V_ERR_SELF_SIGNED_CERT_IN_CHAIN",
     "X509_V_ERR_UNABLE_TO_GET_ISSUER_CERT_LOCALLY", "X509_V_ERR_UNABLE_TO_VERIFY_LEAF_SIGNATURE",
     "X509_V_ERR_CERT_CHAIN_TOO_LONG", "X509_V_ERR_CERT_REVOKED",
     "X509_V_ERR_NO_ISSUER_PUBLIC_KEY", "X509_V_ERR_PATH_LENGTH_EXCEEDED",
     "X509_V_ERR_INVALID_PURPOSE", "X509_V_ERR_CERT_UNTRUSTED",
     "X509_V_ERR_CERT_REJECTED", "X509_V_ERR_SUBJECT_ISSUER_MISMATCH",
     "X509_V_ERR_AKID_SKID_MISMATCH", "X509_V_ERR_AKID_ISSUER_SERIAL_MISMATCH",
     "X509_V_ERR_KEYUSAGE_NO_CERTSIGN", "X509_V_ERR_UNABLE_TO_GET_CRL_ISSUER",
     "X509_V_ERR_UNHANDLED_CRITICAL_EXTENSION", "X509_V_ERR_KEYUSAGE_NO_CRL_SIGN",
     "X509_V_ERR_UNHANDLED_CRITICAL_CRL_EXTENSION", "X509_V_ERR_INVALID_NON_CA",
     "X509_V_ERR_PROXY_PATH_LENGTH_EXCEEDED", "X509_V_ERR_KEYUSAGE_NO_DIGITAL_SIGNATURE",
     "X509_V_ERR_PROXY_CERTIFICATES_NOT_ALLOWED", "X509_V_ERR_INVALID_EXTENSION",
     "X509_V_ERR_INVALID_POLICY_EXTENSION", "X509_V_ERR_NO_EXPLICIT_POLICY",
     "X509_V_ERR_DIFFERENT_CRL_SCOPE", "X509_V_ERR_UNSUPPORTED_EXTENSION_FEATURE",
     "X509_V_ERR_UNNESTED_RESOURCE", "X509_V_ERR_PERMITTED_VIOLATION",
     "X509_V_ERR_EXCLUDED_VIOLATION", "X509_V_ERR_SUBTREE_MINMAX",
     "X509_V_ERR_APPLICATION_VERIFICATION", "X509_V_ERR_UNSUPPORTED_CONSTRAINT_TYPE",
     "X509_V_ERR_UNSUPPORTED_CONSTRAINT_SYNTAX", "X509_V_ERR_UNSUPPORTED_NAME_SYNTAX",
     "X509_V_ERR_CRL_PATH_VALIDATION_ERROR", "X509_V_ERR_PATH_LOOP",
     "X509_V_ERR_SUITE_B_INVALID_VERSION", "X509_V_ERR_SUITE_B_INVALID_ALGORITHM",
     "X509_V_ERR_SUITE_B_INVALID_CURVE", "X509_V_ERR_SUITE_B_INVALID_SIGNATURE_ALGORITHM",
     "X509_V_ERR_SUITE_B_LOS_NOT_ALLOWED", "X509_V_ERR_SUITE_B_CANNOT_SIGN_P_384_WITH_P_256",
     "X509_V_ERR_HOSTNAME_MISMATCH", "X509_V_ERR_EMAIL_MISMATCH",
     "X509_V_ERR_IP_ADDRESS_MISMATCH", "X509_V_ERR_DANE_NO_MATCH",
     "X509_V_ERR_EE_KEY_TOO_SMALL", "X509_V_ERR_CA_KEY_TOO_SMALL",
     "X509_V_ERR_CA_MD_TOO_WEAK", "X509_V_ERR_INVALID_CALL",
     "X509_V_ERR_STORE_LOOKUP", "X509_V_ERR_NO_VALID_SCTS",
     "X509_V_ERR_PROXY_SUBJECT_NAME_VIOLATION", "X509_V_ERR_OCSP_VERIFY_NEEDED",
     "X509_V_ERR_OCSP_VERIFY_FAILED", "X509_V_ERR_OCSP_CERT_UNKNOWN",
     "X509_V_ERR_UNSUPPORTED_SIGNATURE_ALGORITHM", "X509_V_ERR_SIGNATURE_ALGORITHM_MISMATCH",
     "X509_V_ERR_SIGNATURE_ALGORITHM_INCONSISTENCY", "X509_V_ERR_INVALID_CA",
     "X509_V_ERR_PATHLEN_INVALID_FOR_NON_CA", "X509_V_ERR_PATHLEN_WITHOUT_KU_KEY_CERT_SIGN",
     "X509_V_ERR_KU_KEY_CERT_SIGN_INVALID_FOR_NON_CA", "X509_V_ERR_ISSUER_NAME_EMPTY",
     "X509_V_ERR_SUBJECT_NAME_EMPTY", "X509_V_ERR_MISSING_AUTHORITY_KEY_IDENTIFIER",
     "X509_V_ERR_MISSING_SUBJECT_KEY_IDENTIFIER", "X509_V_ERR_EMPTY_SUBJECT_ALT_NAME",
     "X509_V_ERR_EMPTY_SUBJECT_SAN_NOT_CRITICAL", "X509_V_ERR_CA_BCONS_NOT_CRITICAL",
     "X509_V_ERR_AUTHORITY_KEY_IDENTIFIER_CRITICAL", "X509_V_ERR_SUBJECT_KEY_IDENTIFIER_CRITICAL",
     "X509_V_ERR_CA_CERT_MISSING_KEY_USAGE", "X509_V_ERR_EXTENSIONS_REQUIRE_VERSION_3",
     "X509_V_ERR_EC_KEY_EXPLICIT_PARAMS" >>

(* sigalgs_list, in order (0x0203 is listed twice). *)
SigalgsList ==
  << S("rsa_pkcs1_sha256", \h0401), S("rsa_pkcs1_sha384", \h0501),
     S("rsa_pkcs1_sha512", \h0601), S("ecdsa_secp256r1_sha256", \h0403),
     S("ecdsa_secp384r1_sha384", \h0503), S("ecdsa_secp521r1_sha512", \h0603),
     S("rsa_pss_rsae_sha256", \h0804), S("rsa_pss_rsae_sha384", \h0805),
     S("rsa_pss_rsae_sha512", \h0806), S("ed25519", \h0807),
     S("ed448", \h0808), S("rsa_pss_pss_sha256", \h0809),
     S("rsa_pss_pss_sha384", \h080A), S("rsa_pss_pss_sha512", \h080B),
     S("rsa_pkcs1_sha1", \h0201), S("ecdsa_sha1", \h0203),
     S("rsa_pkcs1_sha256_legacy", \h0420), S("rsa_pkcs1_sha384_legacy", \h0520),
     S("rsa_pkcs1_sha512_legacy", \h0620), S("eccsi_sha256", \h0704),
     S("iso_ibs1", \h0705), S("iso_ibs2", \h0706),
     S("iso_chinese_ibs", \h0707), S("sm2sig_sm3", \h0708),
     S("gostr34102012_256a", \h0709), S("gostr34102012_256b", \h070A),
     S("gostr34102012_256c", \h070B), S("gostr34102012_256d", \h070C),
     S("gostr34102012_512a", \h070D), S("gostr34102012_512b", \h070E),
     S("gostr34102012_512c", \h070F), S("ecdsa_brainpoolP256r1tls13_sha256", \h081A),
     S("ecdsa_brainpoolP384r1tls13_sha384", \h081B), S("ecdsa_brainpoolP512r1tls13_sha512", \h081C),
     S("dsa_sha256", \h0402), S("dsa_sha384", \h0502),
     S("dsa_sha512", \h0602), S("dsa_sha224", \h0302),
     S("dsa_sha1", \h0202), S("ecdsa_sha224", \h0303),
     S("ecdsa_sha1", \h0203), S("gostr34102012_256_intrinsic", \h0840),
     S("gostr34102012_512_intrinsic", \h0841) >>

(* curves_list, in order; "-1" is the literal -1 of the last four rows. *)
CurvesList ==
  << C(1, "NID_sect163k1", "sect163k1", "K-163"), C(2, "NID_sect163r1", "sect163r1", NULL),
     C(3, "NID_sect163r2", "sect163r2", "B-163"), C(4, "NID_sect193r1", "sect193r1", NULL),
     C(5, "NID_sect193r2", "sect193r2", NULL), C(6, "NID_sect233k1", "sect233k1", "K-233"),
     C(7, "NID_sect233r1", "sect233r1", "B-233"), C(8, "NID_sect239k1", "sect239k1", NULL),
     C(9, "NID_sect283k1", "sect283k1", "K-283"), C(10, "NID_sect283r1", "sect283r1", "B-283"),
     C(11, "NID_sect409k1", "sect409k1", "K-409"), C(12, "NID_sect409r1", "sect409r1", "B-409"),
     C(13, "NID_sect571k1", "sect571k1", "K-571"), C(14, "NID_sect571r1", "sect571r1", "B-571"),
     C(15, "NID_secp160k1", "secp160k1", NULL), C(16, "NID_secp160r1", "secp160r1", NULL),
     C(17, "NID_secp160r2", "secp160r2", NULL), C(18, "NID_secp192k1", "secp192k1", NULL),
     C(19, "NID_X9_62_prime192v1", "secp192r1", "P-192"), C(20, "NID_secp224k1", "secp224k1", NULL),
     C(21, "NID_secp224r1", "secp224r1", "P-224"), C(22, "NID_secp256k1", "secp256k1", NULL),
     C(23, "NID_X9_62_prime256v1", "secp256r1", "P-256"), C(24, "NID_secp384r1", "secp384r1", "P-384"),
     C(25, "NID_secp521r1", "secp521r1", "P-521"), C(26, "NID_brainpoolP256r1", "brainpoolP256r1", NULL),
     C(27, "NID_brainpoolP384r1", "brainpoolP384r1", NULL), C(28, "NID_brainpoolP512r1", "brainpoolP512r1", NULL),
     C(29, "EVP_PKEY_X25519", "ecdh_x25519", NULL), C(30, "EVP_PKEY_X448", "ecdh_x448", NULL),
     C(31, "NID_brainpoolP256r1tls13", "brainpoolP256r1tls13", NULL), C(32, "NID_brainpoolP384r1tls13", "brainpoolP384r1tls13", NULL),
     C(33, "NID_brainpoolP512r1tls13", "brainpoolP512r1tls13", NULL), C(34, "NID_id_tc26_gost_3410_2012_256_paramSetA", "GC256A", NULL),
     C(35, "NID_id_tc26_gost_3410_2012_256_paramSetB", "GC256B", NULL), C(36, "NID_id_tc26_gost_3410_2012_256_paramSetC", "GC256C", NULL),
     C(37, "NID_id_tc26_gost_3410_2012_256_paramSetD", "GC256D", NULL), C(38, "NID_id_tc26_gost_3410_2012_512_paramSetA", "GC512A", NULL),
     C(39, "NID_id_tc26_gost_3410_2012_512_paramSetB", "GC512B", NULL), C(40, "NID_id_tc26_gost_3410_2012_512_paramSetC", "GC512C", NULL),
     C(256, "NID_ffdhe2048", "ffdhe2048", NULL), C(257, "NID_ffdhe3072", "ffdhe3072", NULL),
     C(258, "NID_ffdhe4096", "ffdhe4096", NULL), C(259, "NID_ffdhe6144", "ffdhe6144", NULL),
     C(260, "NID_ffdhe8192", "ffdhe8192", NULL), C(25497, "-1", "X25519Kyber768Draft00", NULL),
     C(25498, "-1", "SecP256r1Kyber768Draft00", NULL), C(\hFF01, "-1", "arbitrary_explicit_prime_curves", NULL),
     C(\hFF02, "-1", "arbitrary_explicit_char2_curves", NULL) >>

VARIABLES
  defined,    \* the macros the library's headers define
  xcode,      \* the code field of each x509_v_codes row
  cnid,       \* the nid field of each curves_list row
  xInit,      \* init_x509_v_err_tab has run
  cInit,      \* init_curves_tab has run
  last        \* the last lookup: [op, arg, res]

vars == <<defined, xcode, cnid, xInit, cInit, last>>

Digits == <<"0","1","2","3","4","5","6","7","8","9">>

RECURSIVE Decimal(_)
Decimal(n) == IF n < 10 THEN <<Digits[n + 1]>> ELSE Decimal(n \div 10) \o <<Digits[(n % 10) + 1]>>

(* _Q(x): the text of a macro's value, or its name when undefined; the    *)
(* curve rows' literal -1 stays "-1".                                      *)
MacroText(x) ==
  CASE x = "-1"       -> <<"-", "1">>
    [] x \in defined  -> Decimal(Macros[x])
    [] OTHER          -> <<x>>

(* strtol(s, &end, 10) on these texts (a number, or a name): an optional  *)
(* sign, then the digits; consumed says whether end moved past the start.  *)
Strtol(s) ==
  LET body == IF s[1] \in {"-", "+"} THEN Tail(s) ELSE s
      v    == FoldLeft(LAMBDA acc, c : 10 * acc + (CHOOSE d \in 0..9 : Digits[d + 1] = c), 0, body)
  IN IF body # <<>> /\ body[1] \in ToSet(Digits)
     THEN [val |-> IF s[1] = "-" THEN -v ELSE v, consumed |-> TRUE]
     ELSE [val |-> 0, consumed |-> FALSE]

(* atoi: strtol's value, 0 when nothing was converted. *)
Atoi(s) == Strtol(s).val

Init ==
  /\ defined \in {DOMAIN Macros \ o : o \in SUBSET Optional}
  /\ xcode = [i \in 1..Len(X509VCodes) |-> -1]
  /\ cnid = [i \in 1..Len(CurvesList) |-> -1]
  /\ xInit = FALSE
  /\ cInit = FALSE
  /\ last = [op |-> "none", arg |-> NULL, res |-> NULL]

(* Mutant: the loop stops one row early, so the last row keeps -1. *)
InitX509VErrTabSkipLast ==
  /\ ~xInit
  /\ xcode' = [i \in 1..Len(X509VCodes) |->
                 IF i = Len(X509VCodes) \/ MacroText(X509VCodes[i]) = <<X509VCodes[i]>> THEN xcode[i]
                 ELSE Atoi(MacroText(X509VCodes[i]))]
  /\ xInit' = TRUE
  /\ UNCHANGED <<defined, cnid, cInit, last>>

(* init_x509_v_err_tab: a row whose value text equals its name (the macro *)
(* is undefined) keeps -1; any other takes atoi(value).                    *)
InitX509VErrTab ==
  /\ ~xInit
  /\ xcode' = [i \in 1..Len(X509VCodes) |->
                 IF MacroText(X509VCodes[i]) = <<X509VCodes[i]>> THEN xcode[i]
                 ELSE Atoi(MacroText(X509VCodes[i]))]
  /\ xInit' = TRUE
  /\ UNCHANGED <<defined, cnid, cInit, last>>

(* Mutant: the end-pointer test is dropped, so a row whose macro is        *)
(* undefined gets strtol's 0.                                              *)
InitCurvesTabNoEndCheck ==
  /\ ~cInit
  /\ cnid' = [i \in 1..Len(CurvesList) |-> Strtol(MacroText(CurvesList[i].nid)).val]
  /\ cInit' = TRUE
  /\ UNCHANGED <<defined, xcode, xInit, last>>

(* init_curves_tab: nid = strtol(nid_val_str) when it converted something *)
(* (errno stays 0: the values fit a long); else nid keeps -1.              *)
InitCurvesTab ==
  /\ ~cInit
  /\ cnid' = [i \in 1..Len(CurvesList) |->
                LET r == Strtol(MacroText(CurvesList[i].nid)) IN
                IF r.consumed THEN r.val ELSE cnid[i]]
  /\ cInit' = TRUE
  /\ UNCHANGED <<defined, xcode, xInit, last>>

(* x509_v_err_str_to_int: the code of the first row named str, or -1. *)
StrToInt(s) ==
  LET i == SelectInSeq(X509VCodes, LAMBDA m : m = s) IN IF i = 0 THEN -1 ELSE xcode[i]

(* Mutant: the code == -1 early return is dropped. *)
IntToStrNoGuard(c) ==
  LET i == SelectInSeq(xcode, LAMBDA x : x = c) IN IF i = 0 THEN NULL ELSE X509VCodes[i]

(* x509_v_err_int_to_str: NULL for -1, else the first row with the code. *)
IntToStr(c) ==
  IF c = -1 THEN NULL
  ELSE LET i == SelectInSeq(xcode, LAMBDA x : x = c) IN IF i = 0 THEN NULL ELSE X509VCodes[i]

(* sigalg2str: the name of the first row with the identifier, or NULL. *)
Sigalg2Str(x) ==
  LET i == SelectInSeq(SigalgsList, LAMBDA r : r.sigalg = x) IN
  IF i = 0 THEN NULL ELSE SigalgsList[i].name

(* curveid2str: the name of the first row with the identifier, or NULL. *)
Curveid2Str(id) ==
  LET i == SelectInSeq(CurvesList, LAMBDA r : r.curve_id = id) IN
  IF i = 0 THEN NULL ELSE CurvesList[i].name

(* curves2nid: the nid of the first row whose name or (non-NULL) NIST name *)
(* is the string, or -1.                                                   *)
Curves2Nid(n) ==
  LET i == SelectInSeq(CurvesList, LAMBDA r : r.name = n \/ (r.nist # NULL /\ r.nist = n)) IN
  IF i = 0 THEN -1 ELSE cnid[i]

(* nid2nist: the switch over the three NIDs it knows. *)
Nid2Nist(nid) ==
  CASE nid = Macros["NID_X9_62_prime256v1"] -> "P-256"
    [] nid = Macros["NID_secp384r1"]        -> "P-384"
    [] nid = Macros["NID_secp521r1"]        -> "P-521"
    [] OTHER                                -> NULL

(* A lookup made once both tables are initialised. *)
Lookup(op, arg, res) ==
  /\ xInit /\ cInit
  /\ last' = [op |-> op, arg |-> arg, res |-> res]
  /\ UNCHANGED <<defined, xcode, cnid, xInit, cInit>>

Next ==
  \/ InitX509VErrTab
  \/ InitCurvesTab
  \/ \E s \in Names : Lookup("str_to_int", s, StrToInt(s))
  \/ \E c \in Codes : Lookup("int_to_str", c, IntToStr(c))
  \/ \E x \in SigalgIds : Lookup("sigalg2str", x, Sigalg2Str(x))
  \/ \E id \in CurveIds : Lookup("curveid2str", id, Curveid2Str(id))
  \/ \E n \in CurveNames : Lookup("curves2nid", n, Curves2Nid(n))
  \/ \E nid \in Nids : Lookup("nid2nist", nid, Nid2Nist(nid))

Spec == Init /\ [][Next]_vars

-----------------------------------------------------------------------------
(* Properties.  They compare each answer with the library's macros for    *)
(* the version chosen in Init, not with the tables' fields.                *)

(* The value a library version gives a macro, or -1 when it lacks it. *)
Value(m) == IF m \in defined THEN Macros[m] ELSE -1

(* The verification-error table answers with the library's own codes:     *)
(* x509_v_err_str_to_int gives a listed name the value its macro has in   *)
(* this library, and -1 when the library lacks it or it is not listed;    *)
(* x509_v_err_int_to_str only ever names a listed macro this library       *)
(* defines with that value, and NULL when there is none.                   *)
ErrorNamesResolve ==
  /\ last.op = "str_to_int" =>
       last.res = IF last.arg \in ToSet(X509VCodes) THEN Value(last.arg) ELSE -1
  /\ last.op = "int_to_str" =>
       IF \E m \in ToSet(X509VCodes) \cap defined : Macros[m] = last.arg
       THEN last.res \in defined /\ Macros[last.res] = last.arg
       ELSE last.res = NULL

(* Section 4.4 and the test of section 8: a curve's SECG name and its NIST *)
(* alias resolve through curves2nid to its NID in this library (-1 when   *)
(* the library lacks it, or the name is unknown); curveid2str and          *)
(* sigalg2str name the first row of an identifier; nid2nist names only the *)
(* NIST curve the curve table gives that NID.                              *)
TlsNamesResolve ==
  /\ last.op = "curves2nid" =>
       last.res = IF \E r \in ToSet(CurvesList) : last.arg \in {r.name, r.nist}
                  THEN LET r == CHOOSE r \in ToSet(CurvesList) : last.arg \in {r.name, r.nist}
                       IN IF r.nid = "-1" THEN -1 ELSE Value(r.nid)
                  ELSE -1
  /\ last.op = "curveid2str" =>
       last.res = IF \E r \in ToSet(CurvesList) : r.curve_id = last.arg
                  THEN (CHOOSE r \in ToSet(CurvesList) : r.curve_id = last.arg).name
                  ELSE NULL
  /\ last.op = "sigalg2str" =>
       last.res = IF \E r \in ToSet(SigalgsList) : r.sigalg = last.arg
                  THEN (CHOOSE r \in ToSet(SigalgsList) : r.sigalg = last.arg).name
                  ELSE NULL
  /\ last.op = "nid2nist" /\ last.res # NULL =>
       \E r \in ToSet(CurvesList) : r.nist = last.res /\ r.nid # "-1" /\ Value(r.nid) = last.arg

(* Section 8's round trip, over every row once its table is initialised:  *)
(* a verification error this library defines goes name -> code -> name    *)
(* back to its own name (x509_v_err_str_to_int then x509_v_err_int_to_str, *)
(* so no two defined rows share a code and none is left at -1); a curve    *)
(* with a resolvable NID goes identifier -> name -> NID back to its row's  *)
(* NID (curveid2str then curves2nid), and its NIST alias to the same NID.  *)
RoundTrip ==
  /\ xInit =>
       \A i \in 1..Len(X509VCodes) :
         X509VCodes[i] \in defined => IntToStr(StrToInt(X509VCodes[i])) = X509VCodes[i]
  /\ cInit =>
       \A i \in 1..Len(CurvesList) : cnid[i] # -1 =>
         /\ Curves2Nid(Curveid2Str(CurvesList[i].curve_id)) = cnid[i]
         /\ CurvesList[i].nist # NULL => Curves2Nid(CurvesList[i].nist) = cnid[i]

=============================================================================
