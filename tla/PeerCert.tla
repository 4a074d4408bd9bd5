------------------------------ MODULE PeerCert ------------------------------
(***************************************************************************)
(* ssl_sock_get_peer_certificate of src/ssl_utils.c and the references to  *)
(* the peer certificate of one SSL connection.                             *)
(*                                                                         *)
(* The certificate is an X509 object with a reference count.  It is owned  *)
(* by the SSL session (the peer certificate the handshake parsed), by the  *)
(* ex_data slot ssl_client_crt_ref_index where the verification callback   *)
(* stashes a reference, and by the callers (sample fetches) to which       *)
(* ssl_sock_get_peer_certificate hands one.  The session, the callback,    *)
(* the callers and SSL_free are outside src/ and modelled from the spec    *)
(* (sections 4.5, 5 and 9); the accessor is modelled from the code.        *)
(*                                                                         *)
(* The same connection's verified chain (SSL_get0_verified_chain, fixed by *)
(* the handshake, NoChain when the library has none) is searched by        *)
(* ssl_sock_get_verified_chain_root.  X509_check_issued(crt, crt) is       *)
(* X509_V_OK for the certificates of SelfIssued; OpenSSL's chain builder   *)
(* stops at the first self-issued certificate, so only a chain's last one  *)
(* can be in SelfIssued (Chains respects this).  The root is a borrowed    *)
(* pointer (no reference is taken), so it does not touch refcnt.           *)
(***************************************************************************)
EXTENDS Integers, FiniteSets, Sequences, SequencesExt

CONSTANTS
  Callers,
  Certs,        \* the certificates a verified chain is made of
  SelfIssued,   \* those whose issuer check against themselves succeeds
  Chains,       \* the verified chains a handshake may leave
  NoChain,      \* SSL_get0_verified_chain returned NULL
  NoCert        \* a NULL X509 pointer

VARIABLES
  refcnt,     \* the X509 reference count; the object is freed at 0
  peerSlot,   \* the SSL session still holds its peer certificate
  stash,      \* ex_data[ssl_client_crt_ref_index] holds a reference
  held,       \* [Callers -> {"none", "cert", "null"}]: a caller's fetch result
  sslAlive,   \* the SSL object has not been freed
  chain,      \* the connection's verified chain, or NoChain
  root,       \* what the last ssl_sock_get_verified_chain_root returned
  rootCalled  \* ssl_sock_get_verified_chain_root has been called

vars == <<refcnt, peerSlot, stash, held, sslAlive, chain, root, rootCalled>>

chainVars == <<chain, root, rootCalled>>

(* X509_up_ref on the (live) certificate. *)
UpRef == refcnt' = refcnt + 1

Init ==
  /\ refcnt = 1
  /\ peerSlot = TRUE
  /\ stash = FALSE
  /\ held = [c \in Callers |-> "none"]
  /\ sslAlive = TRUE
  /\ chain \in Chains \cup {NoChain}
  /\ root = NoCert
  /\ rootCalled = FALSE

(* The verification callback keeps a reference to the client certificate  *)
(* in the SSL's ex_data, taking a reference with X509_up_ref.              *)
VerifyCallbackStash ==
  /\ sslAlive
  /\ peerSlot
  /\ ~stash
  /\ UpRef
  /\ stash' = TRUE
  /\ UNCHANGED <<peerSlot, held, sslAlive, chainVars>>

(* The library releases the session's peer certificate (the case the      *)
(* fallback exists for): SSL_get_peer_certificate returns NULL from now.   *)
SessionDropPeer ==
  /\ sslAlive
  /\ peerSlot
  /\ refcnt' = refcnt - 1
  /\ peerSlot' = FALSE
  /\ UNCHANGED <<stash, held, sslAlive, chainVars>>

(* Mutant: the fallback returns the stashed pointer without X509_up_ref. *)
GetPeerCertificateNoUpRef(c) ==
  /\ sslAlive
  /\ held[c] = "none"
  /\ IF peerSlot THEN UpRef /\ held' = [held EXCEPT ![c] = "cert"]
     ELSE IF stash THEN UNCHANGED refcnt /\ held' = [held EXCEPT ![c] = "cert"]
     ELSE UNCHANGED refcnt /\ held' = [held EXCEPT ![c] = "null"]
  /\ UNCHANGED <<peerSlot, stash, sslAlive, chainVars>>

(* Mutant: X509_up_ref is called on whatever was returned, the primary     *)
(* accessor's own reference included.                                      *)
GetPeerCertificateUpRefAlways(c) ==
  /\ sslAlive
  /\ held[c] = "none"
  /\ IF peerSlot \/ stash
     THEN refcnt' = refcnt + (IF peerSlot THEN 2 ELSE 1) /\ held' = [held EXCEPT ![c] = "cert"]
     ELSE UNCHANGED refcnt /\ held' = [held EXCEPT ![c] = "null"]
  /\ UNCHANGED <<peerSlot, stash, sslAlive, chainVars>>

(* ssl_sock_get_peer_certificate called by caller c: SSL_get_peer_        *)
(* certificate returns the session's certificate with a new reference;     *)
(* if it returns NULL, the stashed ex_data pointer is returned after       *)
(* X509_up_ref; if that is NULL too, the result is NULL.                   *)
GetPeerCertificate(c) ==
  /\ sslAlive
  /\ held[c] = "none"
  /\ IF peerSlot THEN UpRef /\ held' = [held EXCEPT ![c] = "cert"]
     ELSE IF stash THEN UpRef /\ held' = [held EXCEPT ![c] = "cert"]
     ELSE UNCHANGED refcnt /\ held' = [held EXCEPT ![c] = "null"]
  /\ UNCHANGED <<peerSlot, stash, sslAlive, chainVars>>

(* The caller is done with the result and X509_frees a certificate. *)
CallerRelease(c) ==
  /\ held[c] # "none"
  /\ refcnt' = IF held[c] = "cert" THEN refcnt - 1 ELSE refcnt
  /\ held' = [held EXCEPT ![c] = "none"]
  /\ UNCHANGED <<peerSlot, stash, sslAlive, chainVars>>

(* SSL_free: the ex_data free callback X509_frees the stashed reference    *)
(* and the session releases its peer certificate.                          *)
SslFree ==
  /\ sslAlive
  /\ refcnt' = refcnt - (IF stash THEN 1 ELSE 0) - (IF peerSlot THEN 1 ELSE 0)
  /\ stash' = FALSE
  /\ peerSlot' = FALSE
  /\ sslAlive' = FALSE
  /\ UNCHANGED <<held, chainVars>>

(* Mutant: only a self-issued certificate is returned; a chain without   *)
(* one gives NULL instead of the certificate the loop ended on.           *)
RECURSIVE ChainRootLoopSelfIssuedOnly(_, _, _)
ChainRootLoopSelfIssuedOnly(ch, i, crt) ==
  IF i > Len(ch) THEN NoCert
  ELSE IF ch[i] \in SelfIssued THEN ch[i]
  ELSE ChainRootLoopSelfIssuedOnly(ch, i + 1, ch[i])

(* for (i = 0; i < sk_X509_num(chain); i++): crt = sk_X509_value(chain, i) *)
(* and break when it is self-issued; crt is returned as the loop left it.  *)
RECURSIVE ChainRootLoop(_, _, _)
ChainRootLoop(ch, i, crt) ==
  IF i > Len(ch) THEN crt
  ELSE IF ch[i] \in SelfIssued THEN ch[i]
  ELSE ChainRootLoop(ch, i + 1, ch[i])

(* ssl_sock_get_verified_chain_root: NULL without a chain, else the loop   *)
(* started with crt = NULL (so an empty chain gives NULL too).             *)
GetVerifiedChainRoot ==
  /\ sslAlive
  /\ root' = IF chain = NoChain THEN NoCert ELSE ChainRootLoop(chain, 1, NoCert)
  /\ rootCalled' = TRUE
  /\ UNCHANGED <<refcnt, peerSlot, stash, held, sslAlive, chain>>

Next ==
  \/ VerifyCallbackStash
  \/ SessionDropPeer
  \/ \E c \in Callers : GetPeerCertificate(c) \/ CallerRelease(c)
  \/ SslFree
  \/ GetVerifiedChainRoot

Spec == Init /\ [][Next]_vars

-----------------------------------------------------------------------------
(* Properties.                                                             *)

TypeOK ==
  /\ refcnt \in Nat
  /\ peerSlot \in BOOLEAN /\ stash \in BOOLEAN /\ sslAlive \in BOOLEAN
  /\ held \in [Callers -> {"none", "cert", "null"}]
  /\ chain \in Chains \cup {NoChain}
  /\ root \in Certs \cup {NoCert}
  /\ rootCalled \in BOOLEAN

(* The owners of a reference, as the abstract specification sees them. *)
Owners ==
  {o \in {"session"} : peerSlot} \cup {o \in {"stash"} : stash}
    \cup {c \in Callers : held[c] = "cert"}

Ownership == INSTANCE CertOwnership
               WITH Holders <- {"session", "stash"} \cup Callers,
                    FirstOwner <- "session",
                    owners <- Owners,
                    alive <- refcnt > 0

(* The reference counting of the session, the ex_data stash and            *)
(* ssl_sock_get_peer_certificate implements shared ownership: whatever     *)
(* path a caller's certificate came by, the object stays alive while       *)
(* anyone owns it (no use after free) and is freed when the last owner     *)
(* releases it (no leak).                                                  *)
OwnershipRefined == Ownership!Spec

(* The comment above ssl_sock_get_verified_chain_root: the root CA is    *)
(* "the last certificate in the x509 stack" of the verified chain, and     *)
(* NULL when there is no chain.  A chain OpenSSL builds ends at its first  *)
(* self-issued certificate, so the loop's break and the comment agree; a   *)
(* partial chain (no self-issued certificate, ending at a trusted          *)
(* intermediate) must give its last certificate too, not NULL.             *)
RootIsLastOfChain ==
  rootCalled =>
    root = IF chain = NoChain \/ chain = <<>> THEN NoCert ELSE Last(chain)

=============================================================================
