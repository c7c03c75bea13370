----------------------------- MODULE Discovery -----------------------------
(***************************************************************************)
(* What a run reads off a product page or a UCP checkout before it asks for *)
(* a card, and the conversions and address checks that lead from there to  *)
(* the card API and to the checkout page.  A URL is its host and its path: *)
(* the schemes agree wherever two URLs are compared for equality.          *)
(***************************************************************************)
EXTENDS Numerals

CONSTANTS
    Urls,          \* the pages there are: [host, path]
    ProductUrl,    \* where the product page of the run's source is
    AllowedHosts,  \* MerchantProfile.allowedHosts
    CheckoutUrls,  \* the URLs that match checkoutUrlPattern
    StoreNames,    \* the storeDomains of UCP checkouts, as the agent sends them
    Lower,         \* toLowerCase of those
    RelayHosts,    \* UCP_CHECKOUT_RELAY_HOSTS
    Prices,        \* the prices pages show: [whole, frac], frac a sequence of digits
    Decimals,      \* of XSGD, 6
    MinAmount,     \* MIN_BASE_UNITS and MAX_BASE_UNITS, which are AMOUNT_MIN_SGD
    MaxAmount      \* and AMOUNT_MAX_SGD in dollars

Hosts == {url.host : url \in Urls}

(* "complete" is that of a UCP endpoint. *)
Paths == {url.path : url \in Urls} \cup {"complete"}

ASSUME DiscoveryAssumption ==
    /\ Urls \subseteq [host : Hosts, path : Paths]
    /\ ProductUrl \in Urls /\ CheckoutUrls \subseteq Urls
    /\ AllowedHosts \subseteq Hosts /\ RelayHosts \subseteq Hosts
    /\ Lower \in [StoreNames -> Hosts]
    /\ \A p \in Prices : p.whole \in Nat /\ p.frac \in Seq(0..9)
    /\ Decimals \in Nat \ {0}
    /\ MinAmount \in Nat /\ MaxAmount \in Nat

(* The number that decimal digits write. *)
NumberOf(digits) == ValueOf(10, digits)

TenTo(n) == Power(10, n)

UnitsPerDollar == TenTo(Decimals)
-----------------------------------------------------------------------------
(* dollarsToBaseUnits6: at most six places, padded on the right. *)
IsPrice(p) == Len(p.frac) <= Decimals

(* Mutant: the places are padded on the left. *)
PaddedOnTheLeft(p) == p.whole * UnitsPerDollar + NumberOf(p.frac)

dollarsToBaseUnits6(p) ==
    p.whole * UnitsPerDollar + NumberOf(p.frac \o Zeros(Decimals - Len(p.frac)))

(* exactAmountSgd: the dollars, and the remainder in six places. *)
exactAmountSgd(units) ==
    [whole |-> units \div UnitsPerDollar,
     frac  |-> DigitsOf(10, units % UnitsPerDollar, Decimals)]

IsAmount(units) ==
    units >= MinAmount * UnitsPerDollar /\ units <= MaxAmount * UnitsPerDollar

(* Two decimals are the same amount of money. *)
SameAmount(p, q) ==
    (p.whole * TenTo(Len(p.frac)) + NumberOf(p.frac)) * TenTo(Len(q.frac))
        = (q.whole * TenTo(Len(q.frac)) + NumberOf(q.frac)) * TenTo(Len(p.frac))
-----------------------------------------------------------------------------
Item(domain, url, units) ==
    [merchantDomain |-> domain, checkoutUrl |-> url, price |-> units]

(* discoverProduct: the domain is that of the page asked for, wherever the *)
(* link on it leads.  A discovery that throws resolves no item. *)
discoverProduct(link, price) ==
    IF IsPrice(price)
    THEN {Item(ProductUrl.host, link, dollarsToBaseUnits6(price))}
    ELSE {}

(* discoverMerchantProduct: the page asked for, the page it led to and the *)
(* checkout it links to are on the profile. *)
discoverMerchantProduct(live, link, price) ==
    IF /\ {ProductUrl.host, live.host, link.host} \subseteq AllowedHosts
       /\ link \in CheckoutUrls
       /\ IsPrice(price)
    THEN {Item(link.host, link, dollarsToBaseUnits6(price))}
    ELSE {}

(* discoverShopifyCheckout: the total is in base units, and no page is     *)
(* read; the domain is in lower case, the address as it came. *)
discoverShopifyCheckout(store, units) ==
    {Item(Lower[store], [host |-> store, path |-> "complete"], units)}

(* Mutant: the host is enough. *)
AssertsHostOnly(current, item) ==
    current.host = item.merchantDomain /\ current.host \in AllowedHosts

(* assertCheckoutDomain. *)
assertCheckoutDomain(current, item) ==
    /\ current.host = item.merchantDomain
    /\ current = item.checkoutUrl
    /\ current.host \in AllowedHosts
    /\ current \in CheckoutUrls

(* The endpoint check of completeUcpCheckout. *)
IsUcpEndpoint(endpoint, store) == endpoint = Lower[store] \/ endpoint \in RelayHosts
=============================================================================
