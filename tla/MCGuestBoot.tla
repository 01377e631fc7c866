----------------------------- MODULE MCGuestBoot -----------------------------
(* A boot whose best-effort provisioner fails with more output than a report holds. *)
EXTENDS GuestBoot

LongFailure ==
  {[init |-> "none", plan |-> <<[id |-> "users", requires |-> {}, policy |-> "BestEffort"]>>,
    enabled |-> TRUE, own |-> TRUE, chains |-> {"fits", "long"}, faults |-> {}]}
=============================================================================
