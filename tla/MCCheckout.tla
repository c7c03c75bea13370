----------------------------- MODULE MCCheckout -----------------------------
(* One run from a shop with two hosts of its own, a relay and a stranger,  *)
(* at prices around the bounds, in a currency of two decimals.             *)
EXTENDS Checkout

Url(h, p) == [host |-> h, path |-> p]

mcProductUrl   == Url("shop", "product")
mcCheckoutUrls == {Url("shop", "checkout"), Url("pay", "checkout")}
mcUrls == mcCheckoutUrls \cup
    {mcProductUrl, Url("stranger", "checkout"), Url("relay", "thanks")}
mcLower == [store \in {"shop", "SHOP"} |-> "shop"]
mcAllowedHosts == {"shop", "pay"}

Price(w, f) == [whole |-> w, frac |-> f]
mcPrices == {Price(4, <<9, 9>>), Price(5, << >>), Price(5, <<5>>), Price(5, <<0, 7>>),
             Price(5, <<1, 2, 3>>), Price(30, <<0, 0>>), Price(30, <<0, 1>>)}
=============================================================================
