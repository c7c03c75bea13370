----------------------------- MODULE MCPayments -----------------------------
(* Small instances of the composed services.  Amounts are XSGD.            *)
EXTENDS Payments, TLC

CONSTANTS m1, payee, thief, wallet, shop, Shop

token == [chain |-> "fuji", asset |-> "xsgd"]

MCTokens == {token}

(* Room for one card in a window. *)
Envelope ==
    [recipient |-> payee, token |-> token, maxPerCard |-> 30, maxPerWindow |-> 30,
     maxCards |-> 5, windowSeconds |-> 300, maxAuthValidity |-> 600,
     allowlist |-> {shop}]

(* No room at all: every payment asks the human. *)
AlwaysAsk == [Envelope EXCEPT !.maxCards = 0]

MCPolicyBodies == {Envelope}
MCAskingBodies == {AlwaysAsk}

Quote(amount, timeout) ==
    [amount |-> amount, payTo |-> payee, token |-> token, maxTimeout |-> timeout]

MCChallenges == {Quote(20, 300)}

MCPinned == [m \in {m1} |-> [settlementRecipient |-> payee, hardMaxTotal |-> 30]]

MCLower(domain) == shop

Symmetry == Permutations(Clients) \cup Permutations(Requests)
=============================================================================
