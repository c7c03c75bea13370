\* Three clicks on "create" or "revoke" by two accounts, others on the chain,
\* failing calls, restarts of the dashboard and of the ledger.
SPECIFICATION FairSetupSpec
CONSTANTS
    Tabs = {t1, t2, t3}
    SetupFaults = {"callFails", "dashboardRestart", "ledgerRestart"}
    Requests = {r1}
    Mandates = {m1}
    shop = shop
    payee = payee
    None = None
    Domains = {shop}
    Instructions = {buy}
    Addresses = {payee}
    Amounts = {20}
    Durations = {300}
    Challenges = {}
    Transactions = {}
    Orders = {}
    Ttl = 1
    MaxTime = 0
    MaxDecisions = 0
    MaxVersion = 1
    Lower <- MCLower
    Accounts = {alice, bob}
    ZeroAddress = ZeroAddress
    ZeroHash = ZeroHash
    ExpiryTimes = {1}
    Tokens <- MCTokens
    PolicyBodies <- MCPolicyBodies
INVARIANTS PolicyFollowsEnvelope
PROPERTIES EnvelopeIsFrozen SentTabsEnd
CHECK_DEADLOCK FALSE
