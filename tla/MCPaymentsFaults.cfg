\* Every service may fail or restart at any moment.
SPECIFICATION PaymentsSpec
CONSTANTS
    m1 = m1
    payee = payee
    thief = thief
    wallet = wallet
    shop = shop
    Shop = Shop
    None = None
    Requests = {r1}
    Mandates = {m1}
    Domains = {shop}
    Instructions = {buy}
    Addresses = {payee, wallet}
    Amounts = {20}
    Durations = {300, 600}
    Accounts = {owner}
    Owner = owner
    ZeroAddress = ZeroAddress
    ZeroHash = ZeroHash
    ExpiryTimes = {2}
    Transactions = {}
    Orders = {}
    Ttl = 1
    MaxTime = 1
    MaxDecisions = 9
    MaxVersion = 1
    Clients = {c1, c2, c3}
    SignerAddress = wallet
    MaxSaneValidity = 300
    SentDomains = {shop}
    PayToOverrides = {}
    AmountOverrides = {}
    Uses = {"payment", "resolve"}
    Faults = {"keyFails", "handlerDies", "signerDown", "signerRestart", "ledgerRestart"}
    Tokens <- MCTokens
    PolicyBodies <- MCPolicyBodies
    Challenges <- MCChallenges
    Pinned <- MCPinned
    SignerToken <- token
    Lower <- MCLower
SYMMETRY Symmetry
INVARIANTS HandlerInv SigningInv AtMostOneSignature
PROPERTIES ImplementsAuthorization
CHECK_DEADLOCK FALSE
