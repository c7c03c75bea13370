------------------------------ MODULE MCLedger ------------------------------
(* A small ledger: one request, which two instructions give two nonces.    *)
EXTENDS Ledger, TLC

CONSTANTS shop, payee

token == [chain |-> "fuji", asset |-> "xsgd"]

MCTokens == {token}

MCPolicyBodies ==
    {[recipient |-> payee, token |-> token, maxPerCard |-> 30, maxPerWindow |-> 30,
      maxCards |-> 2, windowSeconds |-> 1, maxAuthValidity |-> 300,
      allowlist |-> {shop}]}

MCChallenges ==
    {[amount |-> a, payTo |-> payee, token |-> token, maxTimeout |-> 300] :
        a \in {10, 20}}

Symmetry == Permutations(Instructions)

MCLower(domain) == domain
=============================================================================
