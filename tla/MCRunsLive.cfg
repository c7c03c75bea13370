\* Every run comes to an end, whatever fails and whoever stays silent, and what
\* it claims by then is on record.
SPECIFICATION FairRunsSpec
CONSTANTS
    m1 = m1
    payee = payee
    thief = thief
    wallet = wallet
    shop = shop
    good = good
    mixed = mixed
    None = None
    Requests = {r1}
    Mandates = {m1}
    Domains = {shop}
    Instructions = {buy}
    Addresses = {payee, wallet, thief}
    Amounts = {20, 30}
    Durations = {300, 600}
    Accounts = {owner}
    Owner = owner
    ZeroAddress = ZeroAddress
    ZeroHash = ZeroHash
    ExpiryTimes = {9}
    Transactions = {good, mixed}
    Orders = {o1}
    Ttl = 0
    MaxTime = 2
    MaxDecisions = 9
    MaxVersion = 1
    MaxAnswers = 1
    Clients = {c1, c2, c3}
    SignerAddress = wallet
    MaxSaneValidity = 300
    SentDomains = {shop}
    PayToOverrides = {thief}
    AmountOverrides = {}
    Uses = {"payment", "resolve"}
    Faults = {"answerLost", "ledgerRestart", "callFails", "policyUnheard"}
    Tokens <- MCTokens
    PolicyBodies <- MCPolicyBodies
    Challenges <- MCChallenges
    Pinned <- MCPinned
    SignerToken <- token
    Lower <- MCLower
    Transfers <- MCTransfers
INVARIANTS RunsTypeOK HeaderIsOnRecord DoneIsFinalized
PROPERTIES EveryCallEnds NoRunIsStranded
CHECK_DEADLOCK FALSE
