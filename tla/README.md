# Mandated agent payments: a TLA+ model

The repository lets an AI agent buy things with a human's money under a
*mandate*: the human freezes an envelope (recipient, token, caps, window) in a
contract, the agent finds an item and obtains an x402 quote from a card API,
policy-service decides whether the payment is inside the envelope, a signer
holds the key, and a ledger holds the evidence. This directory models those
services, checks them with TLC on small instances and proves the central
results with TLAPS for every instance.

## 1. The system

Every service is one Node process: a single thread, state in memory, HTTP
between them. A handler runs without interruption between two `await`s, and
handlers of one process interleave at every `await`. Nothing is persisted except
on chain.

| component | state it keeps | operations | what makes it correct |
|---|---|---|---|
| `MandateRegistry.sol` | mandate -> owner, policy hash, expiry, revoked | `createMandate`, `revoke`, `get` | an envelope is frozen; only its owner revokes it, once and for good |
| ledger-service | intents, decision log, policies, escalations, standing approvals | create an intent, attach the challenge, reserve/release the nonce, record decision, settlement, spend, capture, escalation; window usage | the nonce reservation is exclusive; evidence is written once; a state has evidence behind it |
| policy-service | none (it reads the ledger and the chain on every call) | `POST /payment/request` (checks 1-9, sign), `POST /escalation/:id/resolve`, `PUT /policy` | a request is signed once, as quoted, inside the envelope, or not at all |
| signer-service | the address derived at boot, the replay set, requests at the key source | boot; `POST /sign` behind a structural rail; parse, normalise, recover | no caller gets a signature outside the rail; a header that leaves settles |
| key sources | the key (AWS KMS, or a local one) | public key as SPKI, signature as DER | every genuine signature comes through, nothing else does |
| chain-gateway | none | read a mandate, build a revocation, confirm a settlement | a settlement is one Transfer log that matches in asset, recipient and amount |
| agent-orchestrator | runs, pending escalations, expiry timers | start a run, answer an escalation, the timer, the tail after a signature | one header is presented, silence never signs, a run comes to an end |
| discovery | - | read a product page or a UCP checkout; price to base units and back | the amount asked for is the one listed; the domain is the one the checkout is asserted against |
| checkout | browser, context, page, card iframe, card data | open, assert, view the card, fill, submit, clean up; or post to the store | the card is viewed only where the nonce binds it, and nothing of it remains |
| card-gateway (in the orchestrator) | one MCP session per tool call: pending calls by id, the stream, POSTs | initialize, notify, call a tool, close | a reply settles its own call; the session ends and then stays silent |
| contracts package | - | shared records, canonical policy hash, commitment nonce | one encoding for all services |
| mandate setup (dashboard, wallet) | which mandates the dashboard tracks; tabs, sent transactions | create, confirm, revoke | the stored body is the one the registry has the hash of; no click stays busy |
| ledger event stream, Ledger page | event numbers, listeners; the page's cards and events | snapshot, append, reconnect, first fetch | a page that has read its stream shows what the ledger holds |
| run event stream, run card | a run's events, subscribers; the card's rows | emit, replay, subscribe, "Run again" | no event is lost between replay and subscription; rows are in order |
| the dashboard's other pages | - | proxies and views | not modelled, see section 8 |

How they interact: the orchestrator creates the intent in the ledger, gets a
quote through card-gateway, attaches it, and asks policy-service. Policy-service
reads intent, policy, window and standing approval from the ledger and the
mandate from the chain, runs its checks, reserves the nonce in the ledger, asks
the signer, and records the decision. Off-budget or off-item payments become an
*escalation*, which a human answers through the orchestrator, or which the
orchestrator's timer denies. The signed header goes to the card API; after that
the run checks out, confirms the settlement on chain and records the capture.

What is hard here: the checks read state that several awaits later has changed;
two requests, or an approval and a denial, for one requestId run at the same
time; any call may fail after it took effect; every process may restart and
forget; the orchestrator's clock and policy-service's clock round differently;
replies on the MCP stream come late or twice; the page under a checkout belongs
to somebody else, moves when it likes, and any step over it may throw with card
data in hand; a key source promises neither a recovery id nor a low `s`; a mandate is created by four
parties in turn, any of which may fail; viewers connect, break off and reconnect
while what they view goes on. `PROJECT.json` lists these hazards
line by line with the properties that watch each.

## 2. The modules

| module | models | notes |
|---|---|---|
| `Contracts` | `packages/contracts` | records; a policy body stands for its hash, a nonce for what it commits to |
| `MandateRegistry` | the contract | one action per transaction |
| `Ledger` | ledger-service | one action per route that changes state, plus `LedgerRestart` and the clock |
| `PolicyChecks` | `checks/` | predicates over the context a handler has read, and the order they run in |
| `Signer` | `POST /sign` | the await of the key source splits it into `Sign` and `KeySigns`/`KeyFails` |
| `Payments` | policy-service over `Ledger`, `Signer`, `MandateRegistry` | the composition; section 3 |
| `Authorization` | what the services promise together | abstract: a request is granted money at most once, only when asked, within the rail |
| `AgentRuns` | the orchestrator over `Payments` | tasks, timers, escalation contexts |
| `CurveGroup` | secp256k1 and ecrecover, external | a cyclic group of odd prime order; a point shows its x and the parity of its y |
| `Numerals` | the conversions of numbers to digits and back in `der.ts`, `local-key-source.ts`, `discover.ts` and `exactAmountSgd` | digits of any base, bytes or decimals; no `^`, of which the provers know nothing |
| `SignatureCodec` | `keys/der.ts`, `derive-address.ts`, the encoder of `local-key-source.ts` | bytes as numbers below `Base`; a reader that throws returns the empty set |
| `KeySigning` | boot, `sign/pipeline.ts` and the key source over `Signer` and `SignatureCodec` | shown to implement `Signer` |
| `Discovery` | `discovery/discover.ts`, `exactAmountSgd`, `assert-checkout-domain.ts`, the endpoint check of `ucp-checkout.ts` | pure operators; a URL is its host and path |
| `McpClient` | `mcp-client.ts` as `get-card.ts` and `view-card.ts` use it | actions of one client; `NewClient` is the constructor |
| `Checkout` | discovery, `getCard`, `runCheckout`, `completeUcpCheckout` over `McpClient` and `Discovery` | the outward half of a run; `AgentRuns` is its inward half |
| `MandateSetup` | how a mandate comes into force: dashboard, wallet, `PUT /policy` | over `MandateRegistry` and `Ledger` |
| `LedgerFeed` | the ledger's event stream and the Ledger page | self-contained; an intent is the number of its last change |
| `RunTrail` | a run's event stream and the card that shows it | self-contained; keeps of a run what viewers tell apart |
| `MC*` | instances for TLC | constants only |
| `*Proofs` | theorems | section 6 |

Definitions keep the names of the code where TLA+ allows; `PROJECT.json` maps
each to its lines. Operators introduced by "Mutant:" are plausible bugs of the
definition that follows them; no specification uses them. Substituting one
for its definition must break the property it is listed with.

## 3. How state and actions correspond to the code

*Handlers.* In `Payments` an activation of a handler is a client `c` of the
signer. `pc[c]` names the call the handler awaits next, `body[c]` is its HTTP body and
`got[c]` what it has read. A step performs that call and runs the code up to the
next `await`: so `RunChecks` reads the registry and evaluates checks 1-8,
`Reserve` performs the ledger's conditional write and branches on its answer.
The ledger's handlers have no `await` between check and write; each is one step
of whoever calls it. A call that the ledger refuses changes nothing, and
`Ledger` has no action for it: the caller tests the guard (`CanReserve`,
`CanRelease`, `Exists`).

*The signer.* Its checks run before the key source is awaited, the replay set
is updated after. A handler waiting at `signing` may die meanwhile; its request
stays at the key source and may still be signed.

*Failures* are actions enabled by `Faults`, so that a run says which it
exercises: `handlerDies` (an exception, a caller's timeout, the end of the
process), `signerDown` (fetch throws past the release), `keyFails`,
`signerRestart`, `ledgerRestart`, and in `AgentRuns` `callFails` (before the
effect), `answerLost` (after it), `policyUnheard` (policy-service is not heard
from, while its handler goes on or dies) and `orchestratorRestart`.

*History variables*: `signatures` (what the key ever signed and for whom),
`used` (requestIds in circulation; a UUID is minted once, also after a restart),
`afterRevoke` (the handler began after the revocation), `presented` (headers
sent to the card API), `sent` in `McpClient`.

*Runs.* A task in `AgentRuns` is an activation of `executeRun`,
`resolveRunEscalation` or `expireEscalation`. Each calls policy-service once, so
task `c` is the caller of handler activation `c`. The steps between two awaits
are one action: `continueSignedRun` sends the header in the step that learned of
the signature.

*The key source.* `Answer` is the task that runs when the DER arrives: it parses,
normalises and recovers without a further await, and fails or signs as
`KeyFails` and `KeySigns` of `Signer` do. What can arrive is every encoding of a
genuine signature of the key the source holds, whatever the nonce, and each of
these with one byte changed, lost or added (`Emissions`). `KeyReplaced` is KMS or
the environment; nothing of it is in the code, which is the point.

*The MCP session.* A step is one task of the event loop with the continuations
it resolves: the caller's `close()` runs in the step that settles its call.
`Client(...)` embeds these steps in `Checkout` while `getCard` or `viewCard` is
awaited; the step that settles the session and the worker's next step are two.

*The checkout.* `stage` names what the run awaits. Where an exception goes is one
operator, `Unwound`: into the finally block around it if the resource of that
block exists, else out. `failed` says that one is under way, so that a clean-up
step that succeeds goes on or goes out. `PageMoves` may happen between any two
steps and takes the iframe with it, because the page is not ours. Between the
quote and the card the run is in `AgentRuns`; here `Paid` and `NotPaid` stand for
it. The three reads and the three fills of card data are one step each, the fill
with either outcome.

*Mandate setup.* A tab is one click: its `step` is the promise the page awaits.
The transaction `tx[t]` lives apart from it, because it is mined or reverted
whether or not the tab still waits. `ReadRegistry` and `PutPolicyBody` are the
two awaits of `PUT /policy`; a dashboard that restarts between them leaves an
orphan, which policy-service carries through with nobody to tell.

*Streams.* A stream is a queue of what was written and not read, and a state of
the connection. The ledger's appends and the run's emits write to it in the step
that makes the change, as the synchronous listeners of the code do. `setBack`
(history) holds the cards that the late answer of the page's own fetch may have
overwritten. A run in `RunTrail` is `AgentRuns` cut down to its states, its
events and whatever can still end it; a step between two awaits emits at most one
event, before it sets the state.

*Abstractions.* Amounts are whole XSGD, except in `Discovery`, where a price is
its dollars and its decimal places as written; a (chain, asset) pair is one token;
addresses are in one letter case, merchant domains are not (`Lower` is a
constant). A policy body is its own hash, which assumes that its texts hold no
separator of the serialisation. Hashes are injective, so an address is its public
key and that its private scalar. The commitment nonce is the record of its four
inputs. A validity window is its length. Whether an item matches the constraint
is a Boolean input. The body of a payment request names the mandate of its intent,
as the orchestrator's does.

## 4. The runs

| run | what it explores | properties |
|---|---|---|
| `setup` | three clicks by two accounts on one mandate, two bodies, reverts, others on the chain, failing calls, restarts of dashboard and ledger (43 k states) | `PolicyFollowsEnvelope`, `EnvelopeIsFrozen`, `SentTabsEnd` |
| `ledger` | clients that call any route at any time and may leave out the terms of a decision, two decisions that overwrite each other, restarts (2.3 M states) | `StateIsBacked`, `EvidenceIsWriteOnce`, `LiveNonceIsExclusive` |
| `keys` | two concurrent callers that send anything, a key source with two keys and one-byte faults, restarts (9.5 k states; each step looks at every nonce and fault) | `EverySignatureIsWithinRail`, `HeaderRecoversToPayer`, `GenuineSignatureIsAnswered` |
| `payments` | three handlers of one request (1.8 M states): payments, approvals and denials, a page that changes the amount, a mandate that is revoked or expires, a domain whose letter case differs; the key may fail | `SignedNonceIsBurned`, `ReceiptRecomputesNonce`, `ApprovalIsBacked`, `LiveNonceIsAccountedFor`, `RevocationStopsPayments`, `SignedAsQuoted` |
| `faults` | three handlers, five kinds of faults (1.2 M states) | `HandlerInv`, `SigningInv`, `AtMostOneSignature`, `ImplementsAuthorization` |
| `runs` | one run, its timer, two human answers, restarts of the orchestrator (1.4 M states), up to the checkout | `HeaderPresentedOnce`, `UnansweredIsNeverSigned`, `ExpiryClaimIsRecorded` |
| `runs_live` | one run to its end under fairness: calls fail, answers are lost, policy-service is not heard by a payment, a human's answer or the timer, the ledger restarts, a page changes the recipient (607 k states) | `RunsTypeOK`, `HeaderIsOnRecord`, `DoneIsFinalized`, `EveryCallEnds`, `NoRunIsStranded` |
| `checkout` | one run from discovery to the order, each source, any page behind a link, prices around the bounds, a page that moves, awaits that fail, two MCP sessions with three replies in the stream (122 k states) | `CheckoutTypeOK`, `AskedAsListed`, `CardFollowsAssertion`, `CardDataIsTransient`, `ReplyIsOwn`, `NothingSentOnceOver`, `CheckoutEnds` |
| `ledger_feed` | two intents, three changes, any number of breaks, reconnections and restarts, a first fetch answered at any time (77 k states) | `SettledPageIsCurrent`, `EventsHaveNoGap`, `ChangeIsShown` |
| `run_trail` | two runs started from one card, timer and human answers, streams that break (576 k states) | `TrailTypeOK`, `TrailIsFaithful`, `TrailCatchesUp` |

Two more runs (`budget`, `refusal`) each find a counterexample to one sentence
of the repository's documents or of its messages to the human; section 7.

*Bounds.* Whatever can go wrong with a nonce goes wrong for one requestId, so
most runs have one request and three handlers: two that race and one that
arrives late or releases. Two requests are needed for a budget (`budget`). The
clock runs over two instants where time matters: a mandate expires at the second
(`payments`), and an escalation is at its deadline at the first and past it at
the second where `Ttl` is 0 (the runs of `AgentRuns`); where `Ttl` is 1 it stays
open. `MaxDecisions` bounds the log of the unconstrained clients of `ledger`
only, at two, so that one decision overwrites another; composed handlers end,
which bounds it there. `MaxVersion` is 1: the frozen
hash lets only one body in, so a second write stores the same policy.
`MaxAnswers` bounds the answers humans post to an escalation, and `RunsAssumption`
gives the timer and the run a client of their own beside them. `MaxReplies`
bounds the unread replies of the MCP stream; three allow a reply to each
call and a duplicate. Amounts are chosen at the limits: 20 fits once in a window
of 30, 31 and 601 are just over the rail. Deadlock checking is off where the
system stops by itself: handlers end and clients are finite.

`setup` needs one mandate, since nothing relates two, and three tabs: a creation,
a revocation and one that interferes. Bodies differ in one cap, so that a hash
can fail to match; others on the chain supply it under another owner.
`ledger_feed` shows two events and makes three changes: one more than the list
holds, as 201 are in the code, and enough that a restart numbers an event twice.
`run_trail` gives each run two events: the second is the one a viewer who
connects between them can miss or see twice.

`keys` needs arithmetic that TLC can enumerate: the curve y^2 = x^3 + 7 over the
field of 43 elements has 31 points, a prime, and 14 of its 30 nonce points have
an x of 31 or more, so that every branch of recovery is taken, where on secp256k1
one in 2^128 is. Bytes are hexadecimal digits: numbers from 8 to 15 need the
leading zero, and most sequences the long form of the length.
`GenuineSignatureIsAnswered` looks at every digest and every nonce of each key the
source comes to hold.

`checkout` has a shop with two hosts of its own (links may lead from one to the
other), a relay and a stranger, a store whose name comes in two letter cases, and
seven prices below, at and above the bounds with none to three places in a
currency of two, so that padding, carrying and refusing all happen.

*Symmetry* permutes clients and requests, and the instructions of `ledger` (they
make its two nonces), in safety runs; liveness runs use none.

`runs` has no merchant orders (`Orders` is empty): a run stops before the
checkout completes, because two answers beside the timer make the state space
large and no later step touches escalations. `runs_live` has one answer and
follows the run to `DONE`. It alone has `policyUnheard`; that an expiry is claimed
only when recorded holds under that fault too, by `ExpiryClaimStaysRecorded`.

## 5. Fairness

`RunsFairness` gives weak fairness to every task of the orchestrator, to every
handler of policy-service and request at the key source (`ServiceStep`), to the
orchestrator's timers and to the clock: Node runs a ready continuation,
`setTimeout` fires, and every awaited call is answered, if only with an error or
a timeout. Nothing is assumed of humans, of the chain's owner or of faults.
`FairSetupSpec` is fair to the tab's timeout and to the services that answer it,
not to the wallet, the human or the chain. `FairFeedSpec` lets the browser
connect and reconnect, and a ledger that stopped start again; reading is strongly
fair, because connections that break for ever, each before its snapshot is
through, show nothing. `FairTrailSpec` is fair to serving a stream and reading
it, not to the run. `FairCheckoutSpec` is fair to the worker: Playwright gives launch, navigation
and every locator call a timeout of 30 s, `fetch` to the store has undici's
header timeout, and for the calls without one (`newContext`, `newPage`,
`evaluate`, `close`) it assumes that a local browser answers or dies. And it is
fair to the MCP client's own timers: neither the server nor the network nor the
page has to do anything. `keys` claims no liveness: KMS may be down for ever.

## 6. What is proved

Each theorem holds for every value of the constants that the named `ASSUME`s
allow: any number of requests, handlers, mandates, policies and amounts, all
faults enabled or not. The assumptions say that `None` is none of the values it
is mixed with (reasons, decisions, and the records of runs and tasks included),
that amounts and durations are naturals, that a URL is a host and a path, and
that the pinned mandates and overrides have their types. Of the group they say
that its order is prime (every scalar has an inverse) and that no coordinate is
twice the order, which hold of secp256k1; of the codec that a point holds any
scalar and that four bytes hold the length of what is written. Three theorems
assume more. `LiveNonceStaysAccounted` and `RunsAccountForNonces` exclude the faults that
end a handler between reservation and answer (`HandlersStay`), because with them
the claim is false (section 7). `RunsFinalize` assumes `DivertsOnly`: a page that
replaces the recipient names another one than the pinned. Without it the claim
is false as well: a card API that quotes a stranger as the recipient, and a page
that replaces that stranger by the mandate's own recipient, make the wallet pay the
latter while the settlement is looked for at the former. `RunsSettleAsQuoted` is
what holds without the assumption.

| theorem | statement |
|---|---|
| `RegistryTypeCorrect`, `OnlyKnownIsRevoked`, `EnvelopeStaysFrozen` | the registry |
| `LedgerTypeCorrect`, `StateStaysBacked`, `EvidenceIsKept`, `NonceIsExclusive` | the ledger under arbitrary clients: a state has its evidence and the decision shown is the last one logged; evidence and live nonces stay |
| `SignerTypeCorrect`, `RailHolds` | the signer under arbitrary callers |
| `KeySigningImplementsSigner`, `RailHoldsWithKeys`, `HeaderSettles` | the signer with its key source implements `Signer`; what leaves it recovers to the payer |
| `GenuineIsAlwaysAnswered` | no key, digest or nonce is refused by the signer when nothing is damaged |
| `RepliesStayOwn`, `NothingLeavesOnceOver` | every MCP client of a run |
| `CheckoutTypeCorrect`, `CardAskedAsListed`, `CardAlwaysFollowsAssertion`, `CardDataStaysTransient` | every checkout |
| `PaymentsTypeCorrect` | types of the composition, and `HandlerInv` |
| `SignedAtMostOnce`, `SigningStaysSound`, `SignedNonceStaysBurned` | one signature per requestId; its nonce is never freed or replaced |
| `PaymentsImplementAuthorization`, `PaymentsImplementSigner` | the services implement `Authorization`, and drive `Signer` by its own steps |
| `PaymentsStateStaysBacked`, `PaymentsKeepEvidence`, `PaymentsKeepNonceExclusive`, `PaymentsStayWithinRail` | what the ledger and the signer promise any caller, in the composition |
| `ReceiptAlwaysRecomputesNonce`, `ApprovalAlwaysBacked` | a receipt's terms hash to the signed nonce; a stored approval stands for a signature |
| `SignedStaysAsQuoted` | what is signed is the quote on record, to the pinned recipient |
| `RevocationAlwaysStops` | no payment request that begins after a revocation is signed |
| `LiveNonceStaysAccounted` | a reserved nonce is signed or in a handler's hands, if handlers run to their end |
| `RunsTypeCorrect`, `RunsSignAtMostOnce` | types of the orchestrator's memory; restarts, timers and repeated answers leave one signature per requestId |
| `HeaderAlwaysPresentedOnce`, `HeaderStaysOnRecord` | a request's header reaches the card API once, signed and on record |
| `RunsImplementAuthorization` | the orchestrator over the services implements `Authorization` |
| `RunsRecomputeNonce`, `RunsBackApprovals`, `RunsSignAsQuoted`, `RunsBurnNonce`, `RunsStopOnRevocation`, `RunsAccountForNonces`, `RunsStateStaysBacked`, `RunsKeepEvidence`, `RunsKeepNonceExclusive`, `RunsStayWithinRail` | every promise of the services, kept to the orchestrator that calls them |
| `RunsSettleAsQuoted`, `RunsFinalize` | a run that is DONE settled what the card API quoted and the wallet signed |
| `SilenceNeverSigns`, `ExpiryClaimStaysRecorded` | behind a signature of an escalated request is the owner's approval; an expiry is claimed only when recorded |
| `SetupTypeCorrect`, `PolicyAlwaysFollows` | types of the setup; a stored body, and a mandate shown as live, agree with the registry |
| `SetupUsesRegistry`, `SetupKeepsEnvelopes` | the setup implements the registry, whose theorem on envelopes it inherits |
| `TrailTypeCorrect`, `TrailStaysFaithful` | types of runs, streams and card, and never more rows than a run has events; every event of the run shown is unread or has a row with its number while its stream is open, and rows are in order as long as no older run writes into the card |
| `FeedTypeCorrect`, `SettledPageStaysCurrent`, `EventsNeverHaveGap` | types of the feed; a page that has read its stream is current, and its events are consecutive |

*The argument.* Types alone are not inductive: a handler dereferences what it
read without testing it again (`got[c].policy.recipient`), which is sound only
because of the path that led there. `Base` therefore joins the type invariant
with `HandlerInv`, which says for each stage what has been read (`Ready`). At most
one signature is not inductive either. `SigningInv` adds why it is true: call a
handler a *holder* from its reservation until the key source has answered or the
nonce is released (`Holds`; a dead handler whose request is still at the key
source goes on holding). Then a holder's nonce is live and is the one it will
sign (`HeldNonceInv`), a request has one holder (`OneHolder`), a signed request
has none (`NoHolderOnceSigned`), so nobody is left who could release it or sign it
again, and a requestId that a restarted ledger forgot is not minted again
(`NothingUnused`). The one step that creates a holder is the ledger's conditional
write, whose guard (`CanReserve`) fails for a live nonce; that is the whole of
the protection. TLC checks `HandlerInv` and `SigningInv` in `faults`. For the
refinement, the key's answer maps to `Grant`, a requestId that comes into
circulation to `Ask`, and every other step stutters.

*Outcomes.* What a handler writes down after the key has answered rests on locals
it read before. `EvidenceInv` says that whoever writes a receipt or an approval has
heard of a signature over the very nonce its locals still give (`HeardIsSigned`),
and that these locals are the ones on record (`ReadIsOnRecord`). `QuoteInv` follows
the amount: body, locals, stored question and request at the key agree with the
intent in its mandate, and past check 5 the amount is the challenge's. A request
at the key outlives its handler, so it carries the agreement itself (`KeyAsQuoted`).
`RevokedInv` confines a handler that began after a revocation to the stages that
end in a refusal: check 1 comes before every stage that could reserve, and the
registry never forgets a revocation. `AccountedInv` adds that what is at the key is
waited for, and that a decision `signed`, which would forbid the release, has a
signature.

*Runs.* The orchestrator calls the same handlers, but not in any order, and what a
run promises rests on that order. `ServedInv` says it of the handlers: a request
is paid for by one of them (`OnePayment`), which is over before anybody answers
an escalation of it (`PaymentFirst`); a signature belongs to the handler that was
told of it, and conversely (`SignerIsTold`, `ToldIsSigner`); a payment that was
escalated signs nothing (`EscalatedOnly`), so that who signs for an escalated
request holds the owner's approval (`ApprovedByOwner`); and what a handler
answers is on record first (`SignedIsRecorded`, `DenialIsRecorded`). `RunInv` says
why the orchestrator keeps to it: a request belongs to one `executeRun`
(`OneRun`), and nobody else knows the request until that run has asked for its
payment (`EarlyIsAlone`); a run is `ESCALATED` only once its payment is over
(`SuspendedIsOver`), and that state is what an answer or a timer waits for. A
restart leaves all of this standing, because it forgets the runs with their
timers. `HeaderPresentedOnce` then follows from `AtMostOneSignature`: whoever
presents a header is the caller of the handler that signed it. `RunsInv`, the
conjunction of these with the services' `Inv`, is the inductive invariant; the
services' own steps reuse the proof of `SignedAtMostOnce`.

*The services under runs.* `Payments` lets anyone ask for anything; the orchestrator
asks in an order of its own and writes to the ledger besides (intents,
challenges, spend, settlement, capture). `RunsServe` shows that every step of it is,
for the services, one of theirs, a request minted, the intent of a request nobody
has heard of, or evidence added to an intent (`Serves`), and each invariant of the
services is shown to survive those three as well. For a payment request that
takes `RunQuoteInv`: run and intent agree on the mandate from the start and on the
quote from the moment it is attached, so what a task asks for is what is on record.

*Settlement.* `DoneIsFinalized` relates the end of a run to its quote and to its
signature. `SettledInv` follows the task after the signature: what it confirmed and
recorded is still on record when it goes on (`PaidSoFar`), because nobody else
writes to a request that is signed (`SignerIsAlone`), and a ledger that forgot the
intent does not get it back. `VouchInv` follows the recipient, which the signing
pipeline takes from the mandate's policy and never from the request: whatever is
read of a policy is what its hash on chain says, and that hash is frozen
(`PolicyIsRead`); check 4 compared it with what the payment asked for, before any
escalation (`PassedRecipient`); question, answer, request at the key and signature
carry that on (`Vouched`). `RunAsks` says that a payment asks for the run's own quote, but for a
recipient that a page replaced. Together: the wallet signed for the amount and
asset that settled, to the recipient somebody asked for, who is the one quoted or
the page's; and the signing service's pin leaves the page's out if it only diverts.

*Setup.* `PolicyFollowsEnvelope` is stored an await after its test. `SetupInv` adds
`Compared`: from the comparison until the tab is over, the staged body is the
registered one. That is preserved because the registry freezes an envelope
(`KnownStaysKnown`, from `EnvelopeStep` of the registry's proofs) and because
nothing is staged twice; `TabOK` carries that a creation under way is staged.

*Keys.* `HeaderSettles` needs no invariant of the key source: whatever bytes
arrive, a header is made only from scalars in range (`ParsedIsInRange`), and only
if one of four ids recovers the derived address, which `Boot` compared with the
signer's. The rest is that v, the parity of that id, recovers the same key unless
x was r plus the order (`RecoveredV`).

`GenuineIsAlwaysAnswered` is the converse: nothing genuine is refused. Its state
part is only that the source holds one of `Keys`; the rest is the round trip
(`NothingIsLost`). `IsFound` says what a writer owes a reader: wherever a value
stands between other bytes, its header is read there and leads to its content.
`HeaderRead` proves it for both forms of a length, `IntegerIsFound` adds the sign
byte, and `SignatureIsParsed` and `KeyIsReadBack` walk through what encloses them.
In the group, `s * k` is the digest plus `r` times the key but for a multiple of
the order (`Signed`), both halves negated keep that (`Negated`), and
`SomeIdRecovers` finds the id: whether x was the order or more, and the parity of
the nonce point or of its negative. The least of the ids is one (`OneV`).

*Checkout.* For the client, `McpInv` says that ids tell the two calls apart
(`IdsInv`), that what is in the stream answers something sent under that id
(`StreamInv`), that the tool is called once (`HandshakeInv`), and that a session
that is over has nothing pending or in flight (`OverInv`). For the worker,
`UnwindInv` ties each resource to the stages inside its finally block: the browser
is open exactly there, the context at most there, the iframe and the card data
only where an enclosing block still comes. `AssertedInv` carries the assertion
over the await of the card view, and the item's domain from discovery to the post.
The theorems of `CheckoutProofs` hold without any assumption on links, pages or
replies. `KeptTypes` adds that a run has an item wherever it reads one.

*Amounts.* `AskedInv` is about one stage, but what makes it true is arithmetic
of any number of digits: a price is padded to `Decimals` places, read as an
integer, divided, and written out again. `UnitsAgree` says that padding and
multiplying are the same, `AmountIsWritten` that the decimal sent to the card API
is the base units to the last place, and `AskedIsListed` and `AskedIsWithinBounds`
conclude.

*Numerals.* What amounts and bytes need of digits is in `NumeralProofs`, for any
base. The library's induction takes an operator, which no prover here can
instantiate, so these lemmas argue from the smallest counterexample (`Least`, from
`WFMin`): the table by which `ValueOf` reads exists (`ReadingsExist`), a digit or k
zeros on the right do what they should (`ValueOfMore`, `ValueShifts`), the last n
digits of a number read as its remainder (`DigitsWrite`) and, if it has no more,
as the number (`ReadBack`), and `Width` is the least number of digits that does
(`WidthFits`, `WidthIsLeast`).

*Feed.* While messages are unread the page and the ledger differ. `FeedInv` says
where the difference is: for every intent, the last unread message that mentions
it carries what the ledger holds, and if none does, the card says it or was set
back (`PipeEndsInLedger`). With nothing unread that is `SettledPageIsCurrent`. A
snapshot mentions every intent, which is what makes a reconnection sound.
`Numbered` says of the events that list and stream together count up by one to the
ledger's last number while the stream is open, and that a snapshot starts both
afresh.

*Ledger.* `StateIsBacked` is inductive with the types: a decision is appended and
shown in one step (`LoggingStep`), and no other route touches decision or terms,
or makes a state `SIGNED` (`UnloggedStep`).

*Run card.* What the card shows is right only together with what is under way to it.
`NothingLost` and `RowsInOrder` say so of the run shown: an open stream has every
event as a row or unread, and as long as no other run has a row, rows and unread
events count up by one to the last event (`CountedOut`). The replay makes that true
because the run has no row before its stream opens (`RowsComeLater`): the rows are
taken away when the start is answered, which is also when the source is made. A run
of before, whose stream is still open, can only add rows with its own name; from
then on order is not claimed, but `RowsDiffer` bounds the rows.

*Only model-checked*: the liveness properties, which are out of the prover's reach.
Every invariant and action property of the passing runs is a theorem.

## 7. Where the code and its documents disagree

Races, each a run that TLC ends with a counterexample (`PROJECT.json` "findings"
quotes the lines):

- `budget`: two concurrent requests under one mandate both read the window before
  either is counted, and together exceed the budget with no human asked.
- `refusal`: a denial and an approval of one escalation race; the denier is told
  that nothing was signed while the approval signs.

Divergences that no run is spent on:

- Concurrent callers get two signatures for one requestId out of the signer: the
  id joins the replay set only after the key source has answered (`sign.ts:229`;
  `docs/api-contracts.md:417` lists it as refused). The ledger's reservation, not
  the signer, is what prevents it, and `AtMostOneSignature` is proved from that.
- The timer may fail a run while an approval is in flight; the run goes on and
  pays when the approval arrives (`pipeline.ts:196`; `api-contracts.md:1105` calls
  `FAILED` terminal).
- The stream of a run is not ended at its last event for a viewer who was there:
  `emitEvent` comes before `setRunState` (`routes/run.ts:65`). An expiry that races
  an approval may end a stream while the run goes on.
- The run card looks for a run state among the statuses of events, which never
  hold one, so it says "running" for ever (`run-console.tsx:499`).
- "Run again" mixes the rows of two runs, and drops events of the new one whose
  number is taken (`run-console.tsx:484`). `TrailCatchesUp` excepts exactly these.
- A late answer to the Ledger page's first fetch overwrites newer cards
  (`ledger/page.tsx:87`); a stream opened while the ledger is down is not tried
  again (`ledger/events/route.ts`).
- A mandate whose transaction is mined after its tab gave up, or whose
  confirmation fails, stays "pending confirmation" with no retry and no revoke
  button; `waitForReceipt` takes a reverted transaction for a mined one
  (`wallet.ts:83`), and it is policy-service's 404 that stops it.
- The page may move while the card view is awaited, after it was asserted to be
  the checkout (`checkout-worker.ts:50-74`); the card is then embedded and filled
  wherever it is. `assert-checkout-domain.ts:2` asks for the assertion "before the
  card is auto-filled" and for refusal otherwise. `CardFollowsAssertion` claims it
  of the card view, not of the fill.
- The evidence of an order is read after the host of the page was tested, two
  awaits apart (`checkout-worker.ts:89-99`), and may come from another page.
- The domain in the evidence may be another allowlisted host than the one the
  nonce binds, and for a UCP checkout it has the letter case it came in, where the
  item's is lower-cased (`ucp-checkout.ts:87`, `discover.ts:41`).
- A failure after the submit, even of `context.close()`, fails the run with the
  order placed and the card spent; a fresh request is advised (`pipeline.ts:263`).
- The confirmation is asked for once, right after the checkout: a transfer not
  mined yet is a 404 (`settlement.ts:65`) and the run fails. `pay-and-issue.ts:2`
  says that settlement precedes issuance, `pipeline.ts:212` that issuance does not
  wait for it.
- `recoverV` sends only the parity because "Ethereum's ecrecover handles the
  overflow internally" (`sign/pipeline.ts:144`); ecrecover does not, and a header
  for a nonce point with x of n or more names another key. On secp256k1 that is
  one signature in 2^128; `HeaderRecoversToPayer` excepts it.
- The ledger takes a "signed" decision without policy hash and domain
  (ledger-service `app.ts:324`; `routes.test.ts:120` and `:154` post one), which
  leaves a `SIGNED` intent without the terms its receipt is recomputed from, and a
  later one replaces terms that are there. `StateIsBacked` claims no terms.
  policy-service always sends both: that a header presented has its terms on
  record, and that they recompute the signed nonce, is proved of the composition
  (`HeaderIsOnRecord`, `ReceiptRecomputesNonce`).
- A settlement or a spend that is recorded again replaces the one before, and a
  capture goes on naming the settlement of its time (ledger-service `app.ts:348`).
- A repeated payment request loses the reservation and records `refused` over
  `signed` (policy-service `app.ts:185`, ledger-service `app.ts:334`), where
  `docs/execution_plan.md:568` calls a signed intent terminal.
- An unreachable signer leaves the nonce reserved for good: `fetch` throws past
  the release (`signerClient.ts:52`, `signing.ts:56-65`), which
  `execution_plan.md:566` wants used for signer call errors.
  `LiveNonceIsAccountedFor` holds in `payments`, where only the key fails.
- An approval given after the revocation is signed, because resolve does not read
  the registry (`app.ts:321`; `MandateRegistry.sol:16` says revocation is instant).
- Check 6 escalates before check 7, and an approval runs no check: a validity
  above the sane maximum is signed, up to the rail's (`app.ts:152`;
  `execution_plan.md:795`).
- A payment for an unknown intent ends in an exception instead of a 422, because
  the ledger cannot record the refusal (`app.ts:67`; `b23-refusal-suite.test.ts:234`
  has a fake ledger that can).
- A policy refusal ends the run `FAILED`, not `REFUSED`: the client throws on 422
  (`policy-client.ts:48`; `pipeline.test.ts:125` stubs the client).
- The timer fires 250 ms into the deadline's second, policy-service compares whole
  seconds, and no denial is recorded (`pipeline.ts:140`; the comment at
  `pipeline.ts:150` says it is).

## 8. Not modelled

The search behind a product page and the texts a page shows beyond its price
(their effect is an input), the browser that page readers open and close, the
injection block of the test fixtures (its overrides are inputs of `AgentRuns`),
the evidence texts and `captureSpendAttestation`, which no route of a run uses;
the curve itself (`CurveGroup` is external), digests and the header's encoding;
the fuzzy matcher of check 9 (a Boolean input); the dashboard's other pages
(proxies, polls and views; the run page's two-second polls may answer out of
order), the event source that a run card leaks when it is closed during
`POST /run`; balances, token constants, boot retries and RPC fallbacks of
chain-gateway, and that its mandate read and its block number are two calls that
may see different blocks; request validation (bodies are well-formed); the fixture
server, Terraform, scripts and vendored code. The card API is external: it quotes,
issues a card, names a transaction and shows the card.

## 9. Plan

Done, in this order: contracts, registry, ledger, signer, checks, the
composition and its abstract specification; the orchestrator; the MCP client;
the setup of a mandate; both event streams with their viewers; the key source
with its codec; discovery and the checkout; proofs of the registry, the ledger,
the signer with its keys, the composition and its outcomes, the setup, the
ledger's feed, the MCP client, the checkout, the orchestrator's runs and the
run card; the services' promises carried to the orchestrator that calls them, what a
run that is DONE has settled, the amount a card is asked for, and the round trip
of keys and signatures.

Next:

1. Two requests through `AgentRuns`: a settlement that could count twice.
2. `AgentRuns` with `Checkout` in the place of its step "checkout", so that what a
   run records of an order is related to where the card was shown.
3. The canonical serialisation and the matcher as pure algorithms over bounded
   texts; a run that enumerates contexts of `PolicyChecks` and shows that a pass
   implies the signer's rail.
4. An abstract specification of a viewer (what it shows is a prefix of what
   happened) that `LedgerFeed` and `RunTrail` implement.
