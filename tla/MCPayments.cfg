\* Payment requests, approvals and denials of one request race; pages may be
\* poisoned, the mandate may be revoked or expire, the key may fail.
SPECIFICATION PaymentsSpec
CONSTANTS
    m1 = m1
    payee = payee
    thief = thief
    wallet = wallet
    shop = shop
    Shop = Shop
    None = None
    Requests = {r1}
    Mandates = {m1}
    Domains = {shop, Shop}
    Instructions = {buy}
    Addresses = {payee, wallet}
    Amounts = {20, 30}
    Durations = {300, 600}
    Accounts = {owner}
    Owner = owner
    ZeroAddress = ZeroAddress
    ZeroHash = ZeroHash
    ExpiryTimes = {2}
    Transactions = {}
    Orders = {}
    Ttl = 1
    MaxTime = 2
    MaxDecisions = 9
    MaxVersion = 1
    Clients = {c1, c2, c3}
    SignerAddress = wallet
    MaxSaneValidity = 300
    SentDomains = {Shop}
    PayToOverrides = {}
    AmountOverrides = {30}
    Uses = {"payment", "resolve"}
    Faults = {"keyFails"}
    Tokens <- MCTokens
    PolicyBodies <- MCPolicyBodies
    Challenges <- MCChallenges
    Pinned <- MCPinned
    SignerToken <- token
    Lower <- MCLower
SYMMETRY Symmetry
INVARIANTS SignedNonceIsBurned ReceiptRecomputesNonce ApprovalIsBacked LiveNonceIsAccountedFor RevocationStopsPayments SignedAsQuoted
CHECK_DEADLOCK FALSE
