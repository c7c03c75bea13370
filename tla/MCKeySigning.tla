---------------------------- MODULE MCKeySigning ----------------------------
(* Callers that send any body, and a key source on y^2 = x^3 + 7 over the  *)
(* field of 43 elements: a group of prime order 31, in which 14 of the 30  *)
(* nonce points have an x of 31 or more.  Bytes are hexadecimal digits, so *)
(* numbers from 8 to 15 need the leading zero and most sequences the long  *)
(* form of the length.                                                     *)
EXTENDS KeySigning

CONSTANTS shop, payee, thief, buy, pinned

MCTokens == [chain : {"fuji", "mainnet"}, asset : {"xsgd", "other"}]

MCPinned == [m \in {pinned} |-> [settlementRecipient |-> payee, hardMaxTotal |-> 30]]

MCToken == [chain |-> "fuji", asset |-> "xsgd"]

MCPolicyBodies ==
    {[recipient |-> payee, token |-> MCToken, maxPerCard |-> 30, maxPerWindow |-> 30,
      maxCards |-> 2, windowSeconds |-> 600, maxAuthValidity |-> 600,
      allowlist |-> {}]}

(* The x coordinates of the multiples 1 to 15 of (2, 12); 16 to 30 are     *)
(* their negatives. *)
Half == <<2, 7, 35, 21, 12, 29, 25, 32, 20, 42, 40, 37, 13, 34, 38>>

MCX == [k \in 1 .. 30 |-> IF k <= 15 THEN Half[k] ELSE Half[31 - k]]

HalfOdd == {2, 3, 6, 10, 11, 13, 15}

MCOdd == [k \in 1 .. 30 |-> IF k <= 15 THEN k \in HalfOdd ELSE 31 - k \notin HalfOdd]

MCDigest(q) == (q.value * 7 + q.window) % 31
=============================================================================
