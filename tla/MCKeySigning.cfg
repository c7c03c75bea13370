\* The rail and the key pipeline: damaged answers, high s, a replaced key.
SPECIFICATION KeySpec
CONSTANTS
    shop = shop
    payee = payee
    thief = thief
    buy = buy
    pinned = pinned
    None = None
    Requests = {r1}
    Mandates = {pinned, unpinned}
    Domains = {shop}
    Instructions = {buy}
    Addresses = {payee, thief, 5}
    Amounts = {29, 30, 31}
    Durations = {600, 601}
    Clients = {c1, c2}
    SignerAddress = 5
    Tokens <- MCTokens
    PolicyBodies <- MCPolicyBodies
    Challenges = {}
    Pinned <- MCPinned
    SignerToken <- MCToken
    Order = 31
    X <- MCX
    Odd <- MCOdd
    Base = 16
    PointWidth = 2
    IntegerTag = 2
    SequenceTag = 6
    BitStringTag = 3
    Keys = {5, 11}
    Digest <- MCDigest
INVARIANTS EverySignatureIsWithinRail HeaderRecoversToPayer GenuineSignatureIsAnswered
