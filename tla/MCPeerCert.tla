----------------------------- MODULE MCPeerCert -----------------------------
(***************************************************************************)
(* Four callers (model values in the cfg): one can fetch through           *)
(* SSL_get_peer_certificate, another through the ex_data fallback after    *)
(* the session let go of the certificate, a third get NULL, and any can   *)
(* still hold its reference after SSL_free.  No symmetry is declared, as   *)
(* OwnershipRefined is a temporal property.                                *)
(*                                                                         *)
(* Verified chains: none, empty, a lone self-signed certificate, a leaf    *)
(* verified to its anchor directly or through an intermediate, and a       *)
(* partial chain that stops at a trusted intermediate.  Only the last      *)
(* certificate of a chain is self-issued, as OpenSSL's chain builder ends  *)
(* a chain at the first one.                                               *)
(***************************************************************************)
EXTENDS PeerCert

MCSelfIssued == {"anchor", "selfsigned"}

MCChains ==
  { <<>>, <<"selfsigned">>, <<"leaf", "anchor">>, <<"leaf", "ca", "anchor">>,
    <<"leaf", "ca">> }
=============================================================================
