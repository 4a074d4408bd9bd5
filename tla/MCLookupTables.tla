--------------------------- MODULE MCLookupTables ---------------------------
(***************************************************************************)
(* The library: the values the OpenSSL 3.0.11 headers give the macros the  *)
(* tables name (EVP_PKEY_X25519 and EVP_PKEY_X448 through NID_X25519 and   *)
(* NID_X448; the three brainpool TLS 1.3 NIDs are not defined there).      *)
(* Older library versions lack some macros: four of them, from both       *)
(* tables, are Optional, so Init chooses among 16 builds.  Each lookup is *)
(* asked for every listed argument and for unlisted ones, -1 and 0.      *)
(***************************************************************************)
EXTENDS LookupTables

MCMacroValues ==
  { <<"X509_V_OK", 0>>, <<"X509_V_ERR_UNSPECIFIED", 1>>,
    <<"X509_V_ERR_UNABLE_TO_GET_ISSUER_CERT", 2>>, <<"X509_V_ERR_UNABLE_TO_GET_CRL", 3>>,
    <<"X509_V_ERR_UNABLE_TO_DECRYPT_CERT_SIGNATURE", 4>>, <<"X509_V_ERR_UNABLE_TO_DECRYPT_CRL_SIGNATURE", 5>>,
    <<"X509_V_ERR_UNABLE_TO_DECODE_ISSUER_PUBLIC_KEY", 6>>, <<"X509_V_ERR_CERT_SIGNATURE_FAILURE", 7>>,
    <<"X509_V_ERR_CRL_SIGNATURE_FAILURE", 8>>, <<"X509_V_ERR_CERT_NOT_YET_VALID", 9>>,
    <<"X509_V_ERR_CERT_HAS_EXPIRED", 10>>, <<"X509_V_ERR_CRL_NOT_YET_VALID", 11>>,
    <<"X509_V_ERR_CRL_HAS_EXPIRED", 12>>, <<"X509_V_ERR_ERROR_IN_CERT_NOT_BEFORE_FIELD", 13>>,
    <<"X509_V_ERR_ERROR_IN_CERT_NOT_AFTER_FIELD", 14>>, <<"X509_V_ERR_ERROR_IN_CRL_LAST_UPDATE_FIELD", 15>>,
    <<"X509_V_ERR_ERROR_IN_CRL_NEXT_UPDATE_FIELD", 16>>, <<"X509_V_ERR_OUT_OF_MEM", 17>>,
    <<"X509_V_ERR_DEPTH_ZERO_SELF_SIGNED_CERT", 18>>, <<"X509_V_ERR_SELF_SIGNED_CERT_IN_CHAIN", 19>>,
    <<"X509_V_ERR_UNABLE_TO_GET_ISSUER_CERT_LOCALLY", 20>>, <<"X509_V_ERR_UNABLE_TO_VERIFY_LEAF_SIGNATURE", 21>>,
    <<"X509_V_ERR_CERT_CHAIN_TOO_LONG", 22>>, <<"X509_V_ERR_CERT_REVOKED", 23>>,
    <<"X509_V_ERR_NO_ISSUER_PUBLIC_KEY", 24>>, <<"X509_V_ERR_PATH_LENGTH_EXCEEDED", 25>>,
    <<"X509_V_ERR_INVALID_PURPOSE", 26>>, <<"X509_V_ERR_CERT_UNTRUSTED", 27>>,
    <<"X509_V_ERR_CERT_REJECTED", 28>>, <<"X509_V_ERR_SUBJECT_ISSUER_MISMATCH", 29>>,
    <<"X509_V_ERR_AKID_SKID_MISMATCH", 30>>, <<"X509_V_ERR_AKID_ISSUER_SERIAL_MISMATCH", 31>>,
    <<"X509_V_ERR_KEYUSAGE_NO_CERTSIGN", 32>>, <<"X509_V_ERR_UNABLE_TO_GET_CRL_ISSUER", 33>>,
    <<"X509_V_ERR_UNHANDLED_CRITICAL_EXTENSION", 34>>, <<"X509_V_ERR_KEYUSAGE_NO_CRL_SIGN", 35>>,
    <<"X509_V_ERR_UNHANDLED_CRITICAL_CRL_EXTENSION", 36>>, <<"X509_V_ERR_INVALID_NON_CA", 37>>,
    <<"X509_V_ERR_PROXY_PATH_LENGTH_EXCEEDED", 38>>, <<"X509_V_ERR_KEYUSAGE_NO_DIGITAL_SIGNATURE", 39>>,
    <<"X509_V_ERR_PROXY_CERTIFICATES_NOT_ALLOWED", 40>>, <<"X509_V_ERR_INVALID_EXTENSION", 41>>,
    <<"X509_V_ERR_INVALID_POLICY_EXTENSION", 42>>, <<"X509_V_ERR_NO_EXPLICIT_POLICY", 43>>,
    <<"X509_V_ERR_DIFFERENT_CRL_SCOPE", 44>>, <<"X509_V_ERR_UNSUPPORTED_EXTENSION_FEATURE", 45>>,
    <<"X509_V_ERR_UNNESTED_RESOURCE", 46>>, <<"X509_V_ERR_PERMITTED_VIOLATION", 47>>,
    <<"X509_V_ERR_EXCLUDED_VIOLATION", 48>>, <<"X509_V_ERR_SUBTREE_MINMAX", 49>>,
    <<"X509_V_ERR_APPLICATION_VERIFICATION", 50>>, <<"X509_V_ERR_UNSUPPORTED_CONSTRAINT_TYPE", 51>>,
    <<"X509_V_ERR_UNSUPPORTED_CONSTRAINT_SYNTAX", 52>>, <<"X509_V_ERR_UNSUPPORTED_NAME_SYNTAX", 53>>,
    <<"X509_V_ERR_CRL_PATH_VALIDATION_ERROR", 54>>, <<"X509_V_ERR_PATH_LOOP", 55>>,
    <<"X509_V_ERR_SUITE_B_INVALID_VERSION", 56>>, <<"X509_V_ERR_SUITE_B_INVALID_ALGORITHM", 57>>,
    <<"X509_V_ERR_SUITE_B_INVALID_CURVE", 58>>, <<"X509_V_ERR_SUITE_B_INVALID_SIGNATURE_ALGORITHM", 59>>,
    <<"X509_V_ERR_SUITE_B_LOS_NOT_ALLOWED", 60>>, <<"X509_V_ERR_SUITE_B_CANNOT_SIGN_P_384_WITH_P_256", 61>>,
    <<"X509_V_ERR_HOSTNAME_MISMATCH", 62>>, <<"X509_V_ERR_EMAIL_MISMATCH", 63>>,
    <<"X509_V_ERR_IP_ADDRESS_MISMATCH", 64>>, <<"X509_V_ERR_DANE_NO_MATCH", 65>>,
    <<"X509_V_ERR_EE_KEY_TOO_SMALL", 66>>, <<"X509_V_ERR_CA_KEY_TOO_SMALL", 67>>,
    <<"X509_V_ERR_CA_MD_TOO_WEAK", 68>>, <<"X509_V_ERR_INVALID_CALL", 69>>,
    <<"X509_V_ERR_STORE_LOOKUP", 70>>, <<"X509_V_ERR_NO_VALID_SCTS", 71>>,
    <<"X509_V_ERR_PROXY_SUBJECT_NAME_VIOLATION", 72>>, <<"X509_V_ERR_OCSP_VERIFY_FAILED", 74>>,
    <<"X509_V_ERR_OCSP_CERT_UNKNOWN", 75>>, <<"X509_V_ERR_UNSUPPORTED_SIGNATURE_ALGORITHM", 76>>,
    <<"X509_V_ERR_SIGNATURE_ALGORITHM_MISMATCH", 77>>, <<"X509_V_ERR_SIGNATURE_ALGORITHM_INCONSISTENCY", 78>>,
    <<"X509_V_ERR_INVALID_CA", 79>>, <<"X509_V_ERR_PATHLEN_INVALID_FOR_NON_CA", 80>>,
    <<"X509_V_ERR_PATHLEN_WITHOUT_KU_KEY_CERT_SIGN", 81>>, <<"X509_V_ERR_KU_KEY_CERT_SIGN_INVALID_FOR_NON_CA", 82>>,
    <<"X509_V_ERR_ISSUER_NAME_EMPTY", 83>>, <<"X509_V_ERR_SUBJECT_NAME_EMPTY", 84>>,
    <<"X509_V_ERR_MISSING_AUTHORITY_KEY_IDENTIFIER", 85>>, <<"X509_V_ERR_MISSING_SUBJECT_KEY_IDENTIFIER", 86>>,
    <<"X509_V_ERR_EMPTY_SUBJECT_ALT_NAME", 87>>, <<"X509_V_ERR_EMPTY_SUBJECT_SAN_NOT_CRITICAL", 88>>,
    <<"X509_V_ERR_CA_BCONS_NOT_CRITICAL", 89>>, <<"X509_V_ERR_AUTHORITY_KEY_IDENTIFIER_CRITICAL", 90>>,
    <<"X509_V_ERR_SUBJECT_KEY_IDENTIFIER_CRITICAL", 91>>, <<"X509_V_ERR_CA_CERT_MISSING_KEY_USAGE", 92>>,
    <<"X509_V_ERR_EXTENSIONS_REQUIRE_VERSION_3", 93>>, <<"X509_V_ERR_EC_KEY_EXPLICIT_PARAMS", 94>>,
    <<"NID_sect163k1", 721>>, <<"NID_sect163r1", 722>>,
    <<"NID_sect163r2", 723>>, <<"NID_sect193r1", 724>>,
    <<"NID_sect193r2", 725>>, <<"NID_sect233k1", 726>>,
    <<"NID_sect233r1", 727>>, <<"NID_sect239k1", 728>>,
    <<"NID_sect283k1", 729>>, <<"NID_sect283r1", 730>>,
    <<"NID_sect409k1", 731>>, <<"NID_sect409r1", 732>>,
    <<"NID_sect571k1", 733>>, <<"NID_sect571r1", 734>>,
    <<"NID_secp160k1", 708>>, <<"NID_secp160r1", 709>>,
    <<"NID_secp160r2", 710>>, <<"NID_secp192k1", 711>>,
    <<"NID_X9_62_prime192v1", 409>>, <<"NID_secp224k1", 712>>,
    <<"NID_secp224r1", 713>>, <<"NID_secp256k1", 714>>,
    <<"NID_X9_62_prime256v1", 415>>, <<"NID_secp384r1", 715>>,
    <<"NID_secp521r1", 716>>, <<"NID_brainpoolP256r1", 927>>,
    <<"NID_brainpoolP384r1", 931>>, <<"NID_brainpoolP512r1", 933>>,
    <<"EVP_PKEY_X25519", 1034>>, <<"EVP_PKEY_X448", 1035>>,
    <<"NID_id_tc26_gost_3410_2012_256_paramSetA", 1148>>, <<"NID_id_tc26_gost_3410_2012_256_paramSetB", 1184>>,
    <<"NID_id_tc26_gost_3410_2012_256_paramSetC", 1185>>, <<"NID_id_tc26_gost_3410_2012_256_paramSetD", 1186>>,
    <<"NID_id_tc26_gost_3410_2012_512_paramSetA", 998>>, <<"NID_id_tc26_gost_3410_2012_512_paramSetB", 999>>,
    <<"NID_id_tc26_gost_3410_2012_512_paramSetC", 1149>>, <<"NID_ffdhe2048", 1126>>,
    <<"NID_ffdhe3072", 1127>>, <<"NID_ffdhe4096", 1128>>,
    <<"NID_ffdhe6144", 1129>>, <<"NID_ffdhe8192", 1130>>,
    <<"X509_V_ERR_OCSP_VERIFY_NEEDED", 73>> }

MCMacros == [m \in {p[1] : p \in MCMacroValues} |-> (CHOOSE p \in MCMacroValues : p[1] = m)[2]]

MCOptional ==
  {"X509_V_ERR_UNSPECIFIED", "X509_V_ERR_CA_BCONS_NOT_CRITICAL",
   "X509_V_ERR_EC_KEY_EXPLICIT_PARAMS", "NID_ffdhe2048"}

MCNames == ToSet(X509VCodes) \cup {"X509_V_ERR_NOT_LISTED"}
MCCodes == {MCMacros[m] : m \in ToSet(X509VCodes)} \cup {-1, 200}
MCSigalgIds == {r.sigalg : r \in ToSet(SigalgsList)} \cup {0, \hFFFF}
MCCurveIds == {r.curve_id : r \in ToSet(CurvesList)} \cup {0, 41}
MCCurveNames ==
  {r.name : r \in ToSet(CurvesList)} \cup {r.nist : r \in {r \in ToSet(CurvesList) : r.nist # NULL}}
    \cup {"X448", "p-256"}
MCNids == {MCMacros[m] : m \in DOMAIN MCMacros \ ToSet(X509VCodes)} \cup {-1, 0}
=============================================================================
