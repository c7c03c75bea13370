\* One run, its timer, two human answers at any moment, and restarts of the
\* orchestrator.  Runs are followed up to the checkout.
SPECIFICATION RunsSpec
CONSTANTS
    m1 = m1
    payee = payee
    thief = thief
    wallet = wallet
    shop = shop
    good = good
    mixed = mixed
    None = None
    Requests = {r1}
    Mandates = {m1}
    Domains = {shop}
    Instructions = {buy}
    Addresses = {payee, wallet, thief}
    Amounts = {20, 30}
    Durations = {300, 600}
    Accounts = {owner}
    Owner = owner
    ZeroAddress = ZeroAddress
    ZeroHash = ZeroHash
    ExpiryTimes = {9}
    Transactions = {good}
    Orders = {}
    Ttl = 0
    MaxTime = 2
    MaxDecisions = 9
    MaxVersion = 1
    MaxAnswers = 2
    Clients = {c1, c2, c3, c4}
    SignerAddress = wallet
    MaxSaneValidity = 300
    SentDomains = {shop}
    PayToOverrides = {}
    AmountOverrides = {}
    Uses = {"payment", "resolve"}
    Faults = {"orchestratorRestart"}
    Tokens <- MCTokens
    PolicyBodies <- MCPolicyBodies
    Challenges <- MCChallenges
    Pinned <- MCPinned
    SignerToken <- token
    Lower <- MCLower
    Transfers <- MCTransfers
SYMMETRY Symmetry
INVARIANTS HeaderPresentedOnce UnansweredIsNeverSigned ExpiryClaimIsRecorded
CHECK_DEADLOCK FALSE
