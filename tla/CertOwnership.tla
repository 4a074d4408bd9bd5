---------------------------- MODULE CertOwnership ----------------------------
(***************************************************************************)
(* What the shared-ownership model of a certificate handle promises        *)
(* (spec sections 3, 5 and 9): a set of owners, each holding its own       *)
(* reference.  Only a live certificate can gain an owner, and only from    *)
(* someone who already owns it; it stays alive while it has an owner and   *)
(* is freed when the last one lets go.                                     *)
(***************************************************************************)
CONSTANTS Holders, FirstOwner

VARIABLES owners, alive
vars == <<owners, alive>>

Init ==
  /\ owners = {FirstOwner}
  /\ alive = TRUE

Acquire(h) ==
  /\ alive
  /\ h \notin owners
  /\ owners' = owners \cup {h}
  /\ UNCHANGED alive

(* Some owners let go at once (one call may drop several references). *)
Release(hs) ==
  /\ hs # {}
  /\ hs \subseteq owners
  /\ owners' = owners \ hs
  /\ alive' = (owners' # {})

Next ==
  \/ \E h \in Holders : Acquire(h)
  \/ \E hs \in SUBSET Holders : Release(hs)

Spec == Init /\ [][Next]_vars
=============================================================================
