------------------------------ MODULE Checkout ------------------------------
(***************************************************************************)
(* The outward half of a run: executeRun discovers what is for sale and     *)
(* asks the card API for a quote, and, when the card is paid for (see       *)
(* AgentRuns), continueSignedRun buys with it: runCheckout drives a browser *)
(* over a page nobody trusts, completeUcpCheckout posts to the store.       *)
(* getCard and viewCard talk to the card API through McpClient, one client  *)
(* each.  A step ends at the next await; the browser, the page and the      *)
(* network move in between.                                                 *)
(***************************************************************************)
EXTENDS McpClient, Discovery

VARIABLES
    source,    \* RunInput.source: "fixture", "merchant" or "shopify"
    stage,     \* what the run is at, or awaits
    item,      \* the resolved item, None before
    quote,     \* until it is paid for: the price on display and the amount asked for
    browser,   \* "none", "open" or "closed"
    context,   \* the same, of the browser context
    page,      \* where the page of that context is, None before goto
    iframe,    \* the card's iframe is in the page
    held,      \* number, expiry and cvc are in the worker's hands
    asserted,  \* the URL that onDomainAsserted was called for, None before
    evidence,  \* the host the order's evidence is to name, None before
    failed     \* an exception is on its way out

pageVars     == <<page, iframe>>
runVars      == <<source, item, quote>>
workerVars   == <<browser, context, pageVars, held, asserted, evidence, failed>>
checkoutVars == <<mcpVars, runVars, stage, workerVars>>

Sources == {"fixture", "merchant", "shopify"}
Stages  == {"discover", "getCard", "priming", "paying", "launch", "newContext",
            "goto", "viewCard", "embed", "read", "fill", "remove", "submit",
            "evidence", "closeContext", "closeBrowser", "ucp", "completing", "over"}

(* A client is at work while getCard or viewCard awaits it. *)
InSession == stage \in {"getCard", "viewCard"}

CheckoutInit ==
    /\ McpInit
    /\ source \in Sources
    /\ stage = "discover"
    /\ item = None /\ quote = None
    /\ browser = "none" /\ context = "none"
    /\ page = None /\ iframe = FALSE
    /\ held = FALSE
    /\ asserted = None /\ evidence = None
    /\ failed = FALSE

Goto(next) == stage' = next

(* safeFailure, from a place with nothing to clean up. *)
Abandon ==
    /\ Goto("over")
    /\ failed' = TRUE
    /\ UNCHANGED <<mcpVars, runVars, browser, context, pageVars, held, asserted, evidence>>
-----------------------------------------------------------------------------
(* executeRun *)

(* The merchant's checkout carries its total in base units. *)
TotalOf(price) == price.whole * UnitsPerDollar
                      + NumberOf(price.frac) * TenTo(Decimals - Len(price.frac))

(* What the source yields for a page that leads anywhere and shows any     *)
(* price.  Both page readers close a browser of their own. *)
Discovered(live, link, price) ==
    CASE source = "fixture"  -> discoverProduct(link, price)
      [] source = "merchant" -> discoverMerchantProduct(live, link, price)
      [] source = "shopify"  -> IF IsPrice(price)
                                THEN UNION {discoverShopifyCheckout(store, TotalOf(price)) :
                                            store \in StoreNames}
                                ELSE {}

(* Discovery, exactAmountSgd and the start of getCard, whose own bounds are *)
(* the same. *)
Discover ==
    /\ stage = "discover"
    /\ \E live, link \in Urls, price \in Prices :
          \E found \in Discovered(live, link, price) :
             IF IsAmount(found.price)
             THEN /\ item' = [merchantDomain |-> found.merchantDomain,
                              checkoutUrl |-> found.checkoutUrl]
                  /\ quote' = [listed |-> price, asked |-> exactAmountSgd(found.price)]
                  /\ Goto("getCard")
                  /\ NewClient
                  /\ UNCHANGED <<source, workerVars>>
             ELSE Abandon

(* A page does not answer, misses what is read of it, or is not the        *)
(* profile's. *)
DiscoveryFails == stage = "discover" /\ Abandon

(* getCard has its tool result; the terms come from the card API itself,   *)
(* which is to answer a request without a header by 402. *)
CardQuoted ==
    /\ stage = "getCard" /\ session = "done"
    /\ Goto("priming")
    /\ UNCHANGED <<mcpVars, runVars, workerVars>>

GetCardFails == stage = "getCard" /\ session = "failed" /\ Abandon

Primed ==
    /\ stage = "priming"
    /\ Goto("paying")
    /\ UNCHANGED <<mcpVars, runVars, workerVars>>

(* The policy decides, the signer signs and payAndIssue brings a card; or  *)
(* any of them says no. *)
Paid ==
    /\ stage = "paying"
    /\ quote' = None
    /\ Goto(IF source = "shopify" THEN "ucp" ELSE "launch")
    /\ UNCHANGED <<mcpVars, source, item, workerVars>>

NotPaid == stage \in {"priming", "paying"} /\ Abandon
-----------------------------------------------------------------------------
(* runCheckout *)

(* Mutant: one finally closes context and browser, in turn. *)
UnwoundTogether ==
    CASE stage \in {"closeContext", "closeBrowser"} -> "over"
      [] stage # "closeContext" /\ context = "open" -> "closeContext"
      [] context # "open" /\ browser = "open"       -> "closeBrowser"
      [] context # "open" /\ browser # "open"       -> "over"

(* Where an exception goes: into the finally block around it, if any. *)
Unwound ==
    CASE stage = "closeContext"                     -> "closeBrowser"
      [] stage # "closeContext" /\ context = "open" -> "closeContext"
      [] context # "open" /\ browser = "open"       -> "closeBrowser"
      [] context # "open" /\ browser # "open"       -> "over"

Throw ==
    /\ Goto(Unwound)
    /\ failed' = TRUE

(* An await of the browser comes back with an error, or at its timeout. *)
AwaitFails ==
    /\ stage \in {"launch", "newContext", "goto", "embed", "read", "submit", "evidence"}
    /\ Throw
    /\ UNCHANGED <<mcpVars, runVars, browser, context, pageVars, held, asserted, evidence>>

Launch ==
    /\ stage = "launch"
    /\ browser' = "open"
    /\ Goto("newContext")
    /\ UNCHANGED <<mcpVars, runVars, context, pageVars, held, asserted, evidence, failed>>

NewContext ==
    /\ stage = "newContext"
    /\ context' = "open"
    /\ Goto("goto")
    /\ UNCHANGED <<mcpVars, runVars, browser, pageVars, held, asserted, evidence, failed>>

(* newPage, goto and the assertion about where it led; then viewCard begins. *)
Opened ==
    /\ stage = "goto"
    /\ \E current \in Urls :
          /\ page' = current
          /\ IF assertCheckoutDomain(current, item)
             THEN /\ asserted' = current
                  /\ Goto("viewCard")
                  /\ NewClient
                  /\ UNCHANGED failed
             ELSE Throw /\ UNCHANGED <<mcpVars, asserted>>
    /\ UNCHANGED <<runVars, browser, context, iframe, held, evidence>>

CardViewed ==
    /\ stage = "viewCard" /\ session = "done"
    /\ Goto("embed")
    /\ UNCHANGED <<mcpVars, runVars, workerVars>>

ViewCardFails ==
    /\ stage = "viewCard" /\ session = "failed"
    /\ Throw
    /\ UNCHANGED <<mcpVars, runVars, browser, context, pageVars, held, asserted, evidence>>

(* page.evaluate, in whatever page there is by then. *)
Embed ==
    /\ stage = "embed"
    /\ iframe' = TRUE
    /\ Goto("read")
    /\ UNCHANGED <<mcpVars, runVars, browser, context, page, held, asserted, evidence, failed>>

(* The three inputValue calls. *)
ReadCard ==
    /\ stage = "read" /\ iframe
    /\ held' = TRUE
    /\ Goto("fill")
    /\ UNCHANGED <<mcpVars, runVars, browser, context, pageVars, asserted, evidence, failed>>

(* The three fills, done or not: the finally block forgets what it held. *)
Fill ==
    /\ stage = "fill"
    /\ failed' \in BOOLEAN
    /\ held' = FALSE
    /\ Goto("remove")
    /\ UNCHANGED <<mcpVars, runVars, browser, context, pageVars, asserted, evidence>>

(* The rest of that block removes the iframe, or throws itself. *)
RemoveIframe ==
    /\ stage = "remove"
    /\ \/ /\ iframe /\ iframe' = FALSE
          /\ IF failed THEN Throw ELSE Goto("submit") /\ UNCHANGED failed
       \/ Throw /\ UNCHANGED iframe
    /\ UNCHANGED <<mcpVars, runVars, browser, context, page, held, asserted, evidence>>

(* The click, and the look at where the page is once it returns. *)
Submit ==
    /\ stage = "submit"
    /\ IF page.host \in AllowedHosts
       THEN /\ evidence' = page.host
            /\ Goto("evidence")
            /\ UNCHANGED failed
       ELSE Throw /\ UNCHANGED evidence
    /\ UNCHANGED <<mcpVars, runVars, browser, context, pageVars, held, asserted>>

ReadEvidence ==
    /\ stage = "evidence"
    /\ Goto("closeContext")
    /\ UNCHANGED <<mcpVars, runVars, workerVars>>

CloseContext ==
    /\ stage = "closeContext"
    /\ \/ /\ context' = "closed" /\ page' = None /\ iframe' = FALSE
          /\ Goto("closeBrowser")
          /\ UNCHANGED failed
       \/ Throw /\ UNCHANGED <<context, pageVars>>
    /\ UNCHANGED <<mcpVars, runVars, browser, held, asserted, evidence>>

(* A browser that cannot be closed is one that is gone. *)
CloseBrowser ==
    /\ stage = "closeBrowser"
    /\ browser' = "closed"
    /\ context' = IF context = "open" THEN "closed" ELSE context
    /\ page' = None /\ iframe' = FALSE
    /\ failed' \in {failed, TRUE}
    /\ Goto("over")
    /\ UNCHANGED <<mcpVars, runVars, held, asserted, evidence>>

(* The page goes elsewhere, by itself or by its scripts, and takes the     *)
(* iframe with it. *)
PageMoves ==
    /\ context = "open" /\ page # None
    /\ page' \in Urls /\ iframe' = FALSE
    /\ UNCHANGED <<mcpVars, runVars, stage, browser, context, held, asserted,
                   evidence, failed>>
-----------------------------------------------------------------------------
(* completeUcpCheckout *)

(* The endpoint is UCP_CHECKOUT_API_URL's, or the store's without one. *)
PostUcp ==
    /\ stage = "ucp"
    /\ \E endpoint \in Hosts :
          IF IsUcpEndpoint(endpoint, item.checkoutUrl.host)
          THEN /\ asserted' = [host |-> endpoint, path |-> "complete"]
               /\ Goto("completing")
               /\ UNCHANGED <<mcpVars, runVars, browser, context, pageVars, held,
                              evidence, failed>>
          ELSE Abandon

(* The evidence names the store as it came, not as the item does. *)
UcpCompleted ==
    /\ stage = "completing"
    /\ evidence' = item.checkoutUrl.host
    /\ Goto("over")
    /\ UNCHANGED <<mcpVars, runVars, browser, context, pageVars, held, asserted, failed>>

(* An error answer, no answer, or one without an order. *)
UcpFails == stage = "completing" /\ Abandon
-----------------------------------------------------------------------------
Client(step) ==
    /\ InSession
    /\ step
    /\ UNCHANGED <<runVars, stage, workerVars>>

Worker ==
    \/ Discover \/ DiscoveryFails \/ CardQuoted \/ GetCardFails \/ Primed
    \/ Paid \/ NotPaid
    \/ Launch \/ NewContext \/ Opened \/ CardViewed \/ ViewCardFails \/ Embed
    \/ ReadCard \/ Fill \/ RemoveIframe \/ Submit \/ ReadEvidence
    \/ CloseContext \/ CloseBrowser \/ AwaitFails
    \/ PostUcp \/ UcpCompleted \/ UcpFails

CheckoutNext == Worker \/ PageMoves \/ Client(McpNext)

CheckoutSpec == CheckoutInit /\ [][CheckoutNext]_checkoutVars

(* Every call of the worker comes back, if only as an error or at its      *)
(* timeout, and the client's timers go off. *)
FairCheckoutSpec ==
    /\ CheckoutSpec
    /\ WF_checkoutVars(Worker)
    /\ WF_checkoutVars(Client(Timers))
-----------------------------------------------------------------------------
(* Type correctness of a run's outward half and of its client. *)
CheckoutTypeOK ==
    /\ McpTypeOK
    /\ source \in Sources /\ stage \in Stages
    /\ item \in [merchantDomain : Hosts,
                checkoutUrl : [host : Hosts \cup StoreNames, path : Paths]] \cup {None}
    /\ quote # None => DOMAIN quote = {"listed", "asked"}
    /\ {browser, context} \subseteq {"none", "open", "closed"}
    /\ page \in Urls \cup {None}
    /\ {iframe, held, failed} \subseteq BOOLEAN
    /\ asserted \in [host : Hosts, path : Paths] \cup {None}
    /\ evidence \in Hosts \cup StoreNames \cup {None}

(* A card is asked for in exactly the amount that the page shows, however  *)
(* many places it shows, and the card API never hears of an amount below   *)
(* or above what it issues cards for (dollarsToBaseUnits6, exactAmountSgd:  *)
(* "without rounding or clamping").                                        *)
AskedAsListed ==
    (stage = "getCard" /\ "tool" \in sent) =>
        /\ SameAmount(quote.listed, quote.asked)
        /\ quote.asked.whole >= MinAmount
        /\ quote.asked.whole <= MaxAmount
        /\ quote.asked.whole = MaxAmount => NumberOf(quote.asked.frac) = 0

(* "The one-time URL is obtained only after the live page has passed both  *)
(* checks" (checkout-worker.ts): nothing is asked of the card API for a    *)
(* view, and nothing posted to a store, before the run stood on the        *)
(* checkout of the domain that discovery resolved and the signed nonce     *)
(* binds, even when the product page linked to another shop.               *)
CardFollowsAssertion ==
    /\ (stage = "viewCard" /\ sent # {}) =>
           /\ asserted \in CheckoutUrls /\ asserted.host = item.merchantDomain
           /\ asserted = item.checkoutUrl
    /\ stage = "completing" =>
           asserted.host \in {item.merchantDomain} \cup RelayHosts

(* "Card data exists transiently in this isolated browser process": when   *)
(* the order is submitted, the worker holds no card data and the page no   *)
(* card iframe; and however many of the steps fail, in the clean-up as     *)
(* well, a checkout leaves neither context nor browser behind.             *)
CardDataIsTransient ==
    /\ stage \in {"submit", "evidence"} => ~held /\ ~iframe
    /\ stage = "over" => ~held /\ ~iframe /\ "open" \notin {browser, context}

(* The checkout ends, whatever the page does and whatever the card API or  *)
(* the network leave undone: no run waits for its quote or for its card    *)
(* view for ever.                                                          *)
CheckoutEnds == <>(stage = "over")
=============================================================================
