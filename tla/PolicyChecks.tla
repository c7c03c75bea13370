---------------------------- MODULE PolicyChecks ----------------------------
(***************************************************************************)
(* policy-service's pure checks.  Each check of checks/ is a predicate     *)
(* that holds of a context when the check fails; the verdict is the first  *)
(* failing one, in the order of CHECKS.  Amounts are whole XSGD (one unit  *)
(* is 10^6 base units) and the (chainId, asset) pair is one token.         *)
(*                                                                         *)
(* A context has: now, mandate (the policy body on file), registry (the    *)
(* entry read through chain-gateway, or None on a 404), challenge,         *)
(* requestedAmount, window (the set of counted intents the ledger summed), *)
(* intentCreatedAt and challengeAttachedAt (or None).                      *)
(***************************************************************************)
EXTENDS Contracts, FiniteSets, FiniteSetsExt

CONSTANT MaxSaneValidity  \* maxSaneValiditySeconds, check 7's ceiling

ASSUME ChecksAssumption == MaxSaneValidity \in Nat

MinAmount == 5
HardCap   == 30

Lesser(a, b) == IF a <= b THEN a ELSE b

(* What GET /window answers: the sum and the size of the counted set. *)
Spent(window)     == MapThenSumSet(LAMBDA e : e.amount, window)
CardCount(window) == Cardinality(window)

AuthWindow(mandate, challenge) ==
    Lesser(mandate.maxAuthValidity, challenge.maxTimeout)

(* Mutant: the revoked flag is not read. *)
ExpiredOnly(ctx) ==
    ctx.registry = None \/ ctx.now >= ctx.registry.expiresAt

MandateNotLive(ctx) ==
    \/ ctx.registry = None
    \/ ctx.registry.revoked
    \/ ctx.now >= ctx.registry.expiresAt

PolicyHashDrift(ctx) ==
    ctx.registry # None /\ ctx.registry.policyHash # ctx.mandate

WrongToken(ctx) == ctx.challenge.token # ctx.mandate.token

WrongRecipient(ctx) == ctx.challenge.payTo # ctx.mandate.recipient

(* Mutant: the agent's amount is not compared with the challenge's. *)
AmountOutsideCaps(ctx) ==
    \/ ctx.challenge.amount < MinAmount
    \/ ctx.challenge.amount > Lesser(ctx.mandate.maxPerCard, HardCap)

AmountOutOfBounds(ctx) ==
    \/ ctx.challenge.amount < MinAmount
    \/ ctx.challenge.amount > Lesser(ctx.mandate.maxPerCard, HardCap)
    \/ ctx.challenge.amount # ctx.requestedAmount

OverWindowBudget(ctx) ==
    \/ Spent(ctx.window) + ctx.challenge.amount > ctx.mandate.maxPerWindow
    \/ CardCount(ctx.window) >= ctx.mandate.maxCards

ValidityNotSane(ctx) ==
    AuthWindow(ctx.mandate, ctx.challenge) > MaxSaneValidity

IntentNotBound(ctx) ==
    \/ ctx.challengeAttachedAt = None
    \/ ctx.intentCreatedAt >= ctx.challengeAttachedAt

Fails(i, ctx) ==
    CASE i = 1 -> MandateNotLive(ctx)
      [] i = 2 -> PolicyHashDrift(ctx)
      [] i = 3 -> WrongToken(ctx)
      [] i = 4 -> WrongRecipient(ctx)
      [] i = 5 -> AmountOutOfBounds(ctx)
      [] i = 6 -> OverWindowBudget(ctx)
      [] i = 7 -> ValidityNotSane(ctx)
      [] i = 8 -> IntentNotBound(ctx)

(* The loop over CHECKS stops at the first failure; 0 when none fails. *)
FirstFailure(ctx) ==
    IF \E i \in 1..8 : Fails(i, ctx)
    THEN CHOOSE i \in 1..8 : Fails(i, ctx) /\ \A j \in 1..(i-1) : ~Fails(j, ctx)
    ELSE 0

Verdict(ctx) ==
    CASE FirstFailure(ctx) = 0 -> "pass"
      [] FirstFailure(ctx) = 6 -> "escalate"
      [] OTHER                 -> "refuse"

(* Check 9 after a pass: a standing approval skips it; otherwise an        *)
(* off-allowlist domain or an uncertain match escalates, and nothing here  *)
(* can refuse.  Domains are compared in lower case.                        *)
IntentMismatch(standing, lowerDomain, allowlist, matches) ==
    /\ ~standing
    /\ \/ allowlist # {} /\ lowerDomain \notin allowlist
       \/ ~matches
=============================================================================
