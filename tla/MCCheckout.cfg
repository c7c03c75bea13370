\* One run: a page that moves, awaits that fail, lost, late and repeated replies.
SPECIFICATION FairCheckoutSpec
CONSTANTS
    None = None
    MaxReplies = 3
    Urls <- mcUrls
    ProductUrl <- mcProductUrl
    AllowedHosts <- mcAllowedHosts
    CheckoutUrls <- mcCheckoutUrls
    StoreNames = {"shop", "SHOP"}
    Lower <- mcLower
    RelayHosts = {"relay"}
    Prices <- mcPrices
    Decimals = 2
    MinAmount = 5
    MaxAmount = 30
INVARIANTS CheckoutTypeOK AskedAsListed CardFollowsAssertion CardDataIsTransient ReplyIsOwn
PROPERTIES NothingSentOnceOver CheckoutEnds
CHECK_DEADLOCK FALSE
