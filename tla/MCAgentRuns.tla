---------------------------- MODULE MCAgentRuns ----------------------------
(* Small instances of a run over the payment services.                     *)
EXTENDS AgentRuns, TLC

CONSTANTS m1, payee, thief, wallet, shop, good, mixed

token == [chain |-> "fuji", asset |-> "xsgd"]

MCTokens == {token}

Envelope ==
    [recipient |-> payee, token |-> token, maxPerCard |-> 30, maxPerWindow |-> 30,
     maxCards |-> 5, windowSeconds |-> 300, maxAuthValidity |-> 600,
     allowlist |-> {shop}]

MCPolicyBodies == {Envelope}

MCChallenges ==
    {[amount |-> 20, payTo |-> payee, token |-> token, maxTimeout |-> 300]}

MCPinned == [m \in {m1} |-> [settlementRecipient |-> payee, hardMaxTotal |-> 30]]

MCLower(domain) == domain

Moved(recipient, amount) == [token |-> token, to |-> recipient, amount |-> amount]

(* One transaction pays what was quoted; the logs of the other do so only  *)
(* taken together. *)
MCTransfers ==
    [tx \in Transactions |->
        IF tx = good THEN {Moved(payee, 20)} ELSE {Moved(payee, 30), Moved(thief, 20)}]

Symmetry == Permutations(Clients)
=============================================================================
