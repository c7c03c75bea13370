\* One request seen by unconstrained clients, with restarts.
SPECIFICATION LedgerSpec
CONSTANTS
    Requests = {r1}
    Mandates = {m1}
    shop = shop
    payee = payee
    None = None
    Domains = {shop}
    Instructions = {buy, gift}
    Addresses = {payee}
    Amounts = {10, 20}
    Durations = {1, 300}
    Transactions = {tx1}
    Orders = {o1}
    Ttl = 1
    MaxTime = 2
    MaxDecisions = 2
    MaxVersion = 1
    Tokens <- MCTokens
    PolicyBodies <- MCPolicyBodies
    Challenges <- MCChallenges
    Lower <- MCLower
SYMMETRY Symmetry
INVARIANTS StateIsBacked
PROPERTIES EvidenceIsWriteOnce LiveNonceIsExclusive
CHECK_DEADLOCK FALSE
