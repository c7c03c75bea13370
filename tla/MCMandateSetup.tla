--------------------------- MODULE MCMandateSetup ---------------------------
(* Two accounts and two policy bodies; the intents of the ledger are left  *)
(* alone. *)
EXTENDS MandateSetup

CONSTANTS shop, payee

token == [chain |-> "fuji", asset |-> "xsgd"]

MCTokens == {token}

MCPolicyBodies ==
    {[recipient |-> payee, token |-> token, maxPerCard |-> cap, maxPerWindow |-> 30,
      maxCards |-> 2, windowSeconds |-> 300, maxAuthValidity |-> 300,
      allowlist |-> {shop}] : cap \in {20, 30}}

MCLower(domain) == domain
=============================================================================
