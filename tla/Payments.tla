------------------------------ MODULE Payments ------------------------------
(***************************************************************************)
(* policy-service at work: POST /payment/request and                       *)
(* POST /escalation/:id/resolve, with the ledger, the registry and the     *)
(* signer they call.  An activation of a handler is a client c of the      *)
(* signer.  It advances one awaited call at a time, and activations        *)
(* interleave at every await, so pc[c] names the call c makes next: the    *)
(* step makes that call and runs the code up to the next one.  body[c] is  *)
(* the HTTP body, got[c] what the handler has read so far.                 *)
(***************************************************************************)
EXTENDS MandateRegistry, Ledger, Signer, PolicyChecks

CONSTANTS
    Owner,            \* the account that owns every mandate
    SentDomains,      \* resolvedItem.merchantDomain values, None if missing
    PayToOverrides,   \* recipients a poisoned page makes the agent ask for
    AmountOverrides,  \* amounts a poisoned page makes the agent ask for
    Uses,             \* endpoints exercised: "payment", "resolve"
    Faults            \* faults exercised, see FaultStep

(* What a handler is sent. *)
Body ==
    [kind : {"payment", "resolve"}, request : Requests,
     mandateId : Or(Mandates), challenge : Or(Challenge), requested : Or(Amounts),
     domain : Or(Domains), matches : BOOLEAN,
     verdict : Or({"approve", "deny"}), byOwner : BOOLEAN, standing : BOOLEAN,
     afterRevoke : BOOLEAN]  \* history: revoked before the handler began

ASSUME PaymentsAssumption ==
    /\ Owner \in Accounts
    /\ PayToOverrides \subseteq Addresses
    /\ AmountOverrides \subseteq Amounts
    /\ SentDomains \subseteq Or(Domains)
    /\ SignerAddress \in Addresses
    /\ None \notin Body

VARIABLES
    used,  \* requestIds in circulation; a UUID is minted once
    body,  \* handler activation -> HTTP body, or None
    got,   \* handler activation -> what it has read
    pc     \* handler activation -> the call it makes next, or how it ended

serviceVars == <<used, body, got, pc>>
vars == <<registry, ledgerVars, signerVars, serviceVars>>

Got ==
    [intent : Or(IntentRecord), policy : Or(PolicyBodies),
     window : SUBSET [requestId : Requests, amount : Amounts],
     escalation : Or(EscalationRecord), reason : Or(Reasons),
     because : {"check", "signer", "expired", "denied"}]

Nothing == [intent |-> None, policy |-> None, window |-> {}, escalation |-> None,
            reason |-> None, because |-> "check"]

(* How a handler ends: the three verdicts, 410 ESCALATION_EXPIRED, any     *)
(* other error it answers, and an exception.                               *)
Final == {"signed", "refused", "escalated", "expired", "rejected", "failed"}

Stages ==
    {"idle", "getIntent", "getPolicy", "getWindow", "getMandate", "getStanding",
     "createEscalation", "recordEscalated", "reserve", "sign", "signing",
     "release", "recordSigned", "recordRefused", "getEscalation",
     "resolvePolicy", "resolveIntent", "denyStorage", "approveStorage",
     "setStanding"} \cup Final

IsPayment(c) == body[c].kind = "payment"
Req(c)       == body[c].request

(* The arguments of performSigning, from either caller. *)
MandateOf(c)   == IF IsPayment(c) THEN body[c].mandateId
                                  ELSE got[c].escalation.mandateId
ChallengeOf(c) == IF IsPayment(c) THEN body[c].challenge ELSE got[c].intent.challenge
AmountOf(c)    == IF IsPayment(c) THEN body[c].requested
                                  ELSE got[c].intent.challenge.amount
DomainOf(c)    == IF IsPayment(c) THEN body[c].domain
                                  ELSE got[c].escalation.merchantDomain
NonceOf(c)     == CommitmentNonce(Req(c), got[c].policy,
                                  got[c].intent.instruction, DomainOf(c))

(* buildTypedData: the recipient is the mandate's, not the challenge's. *)
TypedData(c) ==
    [requestId |-> Req(c), mandateId |-> MandateOf(c), from |-> SignerAddress,
     to |-> got[c].policy.recipient, value |-> AmountOf(c),
     token |-> ChallengeOf(c).token,
     window |-> AuthWindow(got[c].policy, ChallengeOf(c)), nonce |-> NonceOf(c)]

Goto(c, stage) == pc' = [pc EXCEPT ![c] = stage]

(* The stage after a step; a handler that has ended keeps no locals. *)
Proceed(c, stage, locals) ==
    /\ Goto(c, stage)
    /\ got' = [got EXCEPT ![c] = IF stage \in Final THEN Nothing ELSE locals]
    /\ UNCHANGED <<used, body>>

At(c, stage) == pc[c] = stage

ReadsOnly == UNCHANGED <<registry, ledgerVars, signerVars>>
LedgerOnly == UNCHANGED <<registry, signerVars>>
-----------------------------------------------------------------------------
(* POST /payment/request *)

(* Mutant: an unknown intent is not refused. *)
GetIntentUnchecked(c) ==
    /\ At(c, "getIntent")
    /\ ReadsOnly
    /\ Proceed(c, IF body[c].domain # None THEN "getPolicy" ELSE "recordRefused",
               [got[c] EXCEPT !.intent = intents[Req(c)]])

GetIntent(c) ==
    /\ At(c, "getIntent")
    /\ ReadsOnly
    /\ Proceed(c, IF Exists(Req(c)) /\ body[c].domain # None
                  THEN "getPolicy" ELSE "recordRefused",
               [got[c] EXCEPT !.intent = intents[Req(c)]])

GetPolicy(c) ==
    /\ At(c, "getPolicy")
    /\ ReadsOnly
    /\ LET record == policies[body[c].mandateId] IN
       IF record = None THEN Proceed(c, "rejected", got[c])
       ELSE Proceed(c, "getWindow", [got[c] EXCEPT !.policy = record.policy])

GetWindowUsage(c) ==
    /\ At(c, "getWindow")
    /\ ReadsOnly
    /\ Proceed(c, "getMandate",
               [got[c] EXCEPT !.window = WindowUsage(body[c].mandateId,
                                                     got[c].policy.windowSeconds)])

(* The registry read through chain-gateway: latest block, 404 when unknown. *)
ChainMandate(m) == IF Known(m) THEN registry[m] ELSE None

CheckContext(c) ==
    [now |-> now, mandate |-> got[c].policy,
     registry |-> ChainMandate(body[c].mandateId),
     challenge |-> body[c].challenge, requestedAmount |-> body[c].requested,
     window |-> got[c].window, intentCreatedAt |-> got[c].intent.createdAt,
     challengeAttachedAt |-> got[c].intent.challengeAttachedAt]

RunChecks(c) ==
    /\ At(c, "getMandate")
    /\ ReadsOnly
    /\ LET verdict == Verdict(CheckContext(c)) IN
       \/ verdict = "pass" /\ Proceed(c, "getStanding", got[c])
       \/ verdict = "refuse" /\ Proceed(c, "recordRefused", got[c])
       \/ /\ verdict = "escalate"
          /\ Proceed(c, "createEscalation",
                     [got[c] EXCEPT !.reason = "WINDOW_BUDGET_EXCEEDED"])

MatchIntent(c) ==
    /\ At(c, "getStanding")
    /\ ReadsOnly
    /\ LET mismatch == IntentMismatch(
               StandingApprovalActive(body[c].mandateId, body[c].domain),
               Lower(body[c].domain), got[c].policy.allowlist, body[c].matches)
       IN  IF mismatch
           THEN Proceed(c, "createEscalation",
                        [got[c] EXCEPT !.reason = "INTENT_MISMATCH"])
           ELSE Proceed(c, "reserve", got[c])

Escalate(c) ==
    /\ At(c, "createEscalation")
    /\ LedgerOnly
    /\ CreateEscalation(Req(c), body[c].mandateId, got[c].reason, Ttl, body[c].domain)
    /\ Proceed(c, "recordEscalated", got[c])

(* recordDecision throws on the ledger's 404, and the handler with it. *)
RecordOrFail(c, decision, terms, next) ==
    /\ LedgerOnly
    /\ IF Exists(Req(c))
       THEN RecordDecision(Req(c), decision, terms) /\ Proceed(c, next, got[c])
       ELSE UNCHANGED ledgerVars /\ Proceed(c, "failed", got[c])

RecordEscalated(c) ==
    /\ At(c, "recordEscalated")
    /\ RecordOrFail(c, "escalated", None, "escalated")

(* A check's refusal and a denial explain themselves to the human as       *)
(* refused; a signer's refusal and an expired escalation are errors.       *)
RefusalOf(because) ==
    CASE because \in {"check", "denied"} -> "refused"
      [] because = "expired"             -> "expired"
      [] because = "signer"              -> "rejected"

RecordRefused(c) ==
    /\ At(c, "recordRefused")
    /\ RecordOrFail(c, "refused", None, RefusalOf(got[c].because))
-----------------------------------------------------------------------------
(* performSigning, the tail shared by both handlers *)

(* Mutant: an approval is stored even when the signer refused. *)
ApprovesAnyway(c) == IF IsPayment(c) THEN "recordRefused" ELSE "approveStorage"

AfterRefusedSigning(c) == IF IsPayment(c) THEN "recordRefused" ELSE "denyStorage"

(* Mutant: a lost reservation is cleaned up like a failed signing. *)
ReserveOrRelease(c) ==
    /\ At(c, "reserve")
    /\ LedgerOnly
    /\ IF CanReserve(Req(c))
       THEN ReserveNonce(Req(c), NonceOf(c)) /\ Proceed(c, "sign", got[c])
       ELSE UNCHANGED ledgerVars /\ Proceed(c, "release", got[c])

Reserve(c) ==
    /\ At(c, "reserve")
    /\ LedgerOnly
    /\ IF CanReserve(Req(c))
       THEN ReserveNonce(Req(c), NonceOf(c)) /\ Proceed(c, "sign", got[c])
       ELSE /\ UNCHANGED ledgerVars
            /\ Proceed(c, AfterRefusedSigning(c), [got[c] EXCEPT !.because = "signer"])

CallSigner(c) ==
    /\ At(c, "sign")
    /\ UNCHANGED <<registry, ledgerVars>>
    /\ IF Accepts(TypedData(c))
       THEN Sign(c, TypedData(c)) /\ Proceed(c, "signing", got[c])
       ELSE UNCHANGED signerVars /\ Proceed(c, "release", got[c])

(* The key source answers.  The handler may have died waiting: then        *)
(* nobody hears.                                                           *)
Hears(c, stage) ==
    IF At(c, "signing") THEN Proceed(c, stage, got[c]) ELSE UNCHANGED serviceVars

(* Mutant: the header is answered before the ledger hears of it. *)
AnswersUnrecorded(c) ==
    /\ KeySigns(c)
    /\ Hears(c, "signed")
    /\ UNCHANGED <<registry, ledgerVars>>

SignerSigns(c) ==
    /\ KeySigns(c)
    /\ Hears(c, IF IsPayment(c) THEN "recordSigned" ELSE "approveStorage")
    /\ UNCHANGED <<registry, ledgerVars>>

(* Mutant: a failed signing is not released. *)
SignerFailsForGood(c) ==
    /\ "keyFails" \in Faults
    /\ KeyFails(c)
    /\ Hears(c, AfterRefusedSigning(c))
    /\ UNCHANGED <<registry, ledgerVars>>

SignerFails(c) ==
    /\ "keyFails" \in Faults
    /\ KeyFails(c)
    /\ Hears(c, "release")
    /\ UNCHANGED <<registry, ledgerVars>>

(* releaseNonce ignores how the ledger answers. *)
Release(c) ==
    /\ At(c, "release")
    /\ LedgerOnly
    /\ IF CanRelease(Req(c)) THEN ReleaseNonce(Req(c)) ELSE UNCHANGED ledgerVars
    /\ Proceed(c, AfterRefusedSigning(c), [got[c] EXCEPT !.because = "signer"])

(* Mutant: the receipt records the domain in lower case. *)
RecordSignedNormalised(c) ==
    /\ At(c, "recordSigned")
    /\ RecordOrFail(c, "signed",
           [policyHash |-> got[c].policy, merchantDomain |-> Lower(DomainOf(c))],
           IF body[c].standing /\ got[c].escalation.reason = "INTENT_MISMATCH"
           THEN "setStanding" ELSE "signed")

RecordSigned(c) ==
    /\ At(c, "recordSigned")
    /\ RecordOrFail(c, "signed",
           [policyHash |-> got[c].policy, merchantDomain |-> DomainOf(c)],
           IF body[c].standing /\ got[c].escalation.reason = "INTENT_MISMATCH"
           THEN "setStanding" ELSE "signed")
-----------------------------------------------------------------------------
(* POST /escalation/:id/resolve *)

(* Mutant: whoever finds the escalation resolved waits instead of being     *)
(* answered. *)
GetEscalationLocked(c) ==
    /\ At(c, "getEscalation")
    /\ ReadsOnly
    /\ LET e == escalations[Req(c)]
           read == [got[c] EXCEPT !.escalation = e] IN
       IF e = None THEN Proceed(c, "rejected", got[c])
       ELSE /\ ~e.resolved
            /\ IF now > e.expiresAt
               THEN Proceed(c, "denyStorage", [read EXCEPT !.because = "expired"])
               ELSE Proceed(c, "resolvePolicy", read)

(* Mutant: an approval that is already stored is answered as signed again. *)
GetEscalationAgain(c) ==
    /\ At(c, "getEscalation")
    /\ ReadsOnly
    /\ LET e == escalations[Req(c)]
           read == [got[c] EXCEPT !.escalation = e] IN
       IF e = None THEN Proceed(c, "rejected", got[c])
       ELSE IF e.resolved
            THEN Proceed(c, IF e.decision = "approve" THEN "signed" ELSE "rejected", got[c])
       ELSE IF now > e.expiresAt
            THEN Proceed(c, "denyStorage", [read EXCEPT !.because = "expired"])
            ELSE Proceed(c, "resolvePolicy", read)

GetEscalation(c) ==
    /\ At(c, "getEscalation")
    /\ ReadsOnly
    /\ LET e == escalations[Req(c)]
           read == [got[c] EXCEPT !.escalation = e] IN
       IF e = None \/ e.resolved THEN Proceed(c, "rejected", got[c])
       ELSE IF now > e.expiresAt
            THEN Proceed(c, "denyStorage", [read EXCEPT !.because = "expired"])
            ELSE Proceed(c, "resolvePolicy", read)

(* Mutant: who signed the verdict is not looked at. *)
ResolveUnattributed(c) ==
    /\ At(c, "resolvePolicy")
    /\ ReadsOnly
    /\ LET record == policies[got[c].escalation.mandateId] IN
       IF record = None THEN Proceed(c, "rejected", got[c])
       ELSE IF body[c].verdict = "deny"
            THEN Proceed(c, "denyStorage", [got[c] EXCEPT !.because = "denied"])
            ELSE Proceed(c, "resolveIntent", [got[c] EXCEPT !.policy = record.policy])

(* Attribution to the owner comes before the branch on the verdict. *)
ResolvePolicy(c) ==
    /\ At(c, "resolvePolicy")
    /\ ReadsOnly
    /\ LET record == policies[got[c].escalation.mandateId] IN
       IF record = None \/ ~body[c].byOwner THEN Proceed(c, "rejected", got[c])
       ELSE IF body[c].verdict = "deny"
            THEN Proceed(c, "denyStorage", [got[c] EXCEPT !.because = "denied"])
            ELSE Proceed(c, "resolveIntent", [got[c] EXCEPT !.policy = record.policy])

ResolveIntent(c) ==
    /\ At(c, "resolveIntent")
    /\ ReadsOnly
    /\ IF Exists(Req(c)) /\ intents[Req(c)].challenge # None
       THEN Proceed(c, "reserve", [got[c] EXCEPT !.intent = intents[Req(c)]])
       ELSE Proceed(c, "rejected", got[c])

StoreVerdict(c, verdict, next) ==
    /\ LedgerOnly
    /\ IF escalations[Req(c)] # None
       THEN ResolveEscalation(Req(c), verdict) /\ Proceed(c, next, got[c])
       ELSE UNCHANGED ledgerVars /\ Proceed(c, "failed", got[c])

DenyStorage(c) ==
    At(c, "denyStorage") /\ StoreVerdict(c, "deny", "recordRefused")

ApproveStorage(c) ==
    At(c, "approveStorage") /\ StoreVerdict(c, "approve", "recordSigned")

SetStanding(c) ==
    /\ At(c, "setStanding")
    /\ LedgerOnly
    /\ SetStandingApproval(got[c].escalation.mandateId, got[c].escalation.merchantDomain,
                           now + got[c].policy.windowSeconds)
    /\ Proceed(c, "signed", got[c])

HandlerStep(c) ==
    \/ GetIntent(c) \/ GetPolicy(c) \/ GetWindowUsage(c) \/ RunChecks(c)
    \/ MatchIntent(c) \/ Escalate(c) \/ RecordEscalated(c) \/ RecordRefused(c)
    \/ Reserve(c) \/ CallSigner(c) \/ Release(c) \/ RecordSigned(c)
    \/ GetEscalation(c) \/ ResolvePolicy(c) \/ ResolveIntent(c)
    \/ DenyStorage(c) \/ ApproveStorage(c) \/ SetStanding(c)
-----------------------------------------------------------------------------
(* Failures.  A thrown error, a timeout of its caller or the end of the    *)
(* process stops a handler anywhere; what it set in motion goes on.        *)
Stop(S) ==
    /\ pc' = [c \in Clients |-> IF c \in S THEN "failed" ELSE pc[c]]
    /\ got' = [c \in Clients |-> IF c \in S THEN Nothing ELSE got[c]]
    /\ UNCHANGED <<used, body>>

HandlerDies ==
    /\ "handlerDies" \in Faults
    /\ \E c \in Clients : pc[c] \notin Final \cup {"idle"} /\ Stop({c})
    /\ ReadsOnly

(* fetch to the signer rejects: it throws out of performSigning, past the  *)
(* release. *)
SignerUnreachable ==
    /\ "signerDown" \in Faults
    /\ \E c \in Clients : At(c, "sign") /\ Stop({c})
    /\ ReadsOnly

SignerGoesDown ==
    /\ "signerRestart" \in Faults
    /\ SignerRestart
    /\ Stop({c \in Clients : At(c, "signing")})
    /\ UNCHANGED <<registry, ledgerVars>>

LedgerGoesDown ==
    /\ "ledgerRestart" \in Faults
    /\ LedgerRestart
    /\ UNCHANGED <<registry, signerVars, serviceVars>>

FaultStep ==
    HandlerDies \/ SignerUnreachable \/ SignerGoesDown \/ LedgerGoesDown
-----------------------------------------------------------------------------
(* The orchestrator, the owner and the clock.                              *)

(* startRun mints the id; the stamp is the orchestrator's own clock. *)
NewIntent ==
    /\ \E r \in Requests \ used, m \in Mandates, i \in Instructions, t \in {now - 1, now} :
          /\ CreateIntent(r, m, i, t)
          /\ used' = used \cup {r}
    /\ UNCHANGED <<registry, signerVars, body, got, pc>>

ChallengeQuoted ==
    /\ \E r \in Requests, ch \in Challenges : AttachChallenge(r, ch)
    /\ UNCHANGED <<registry, signerVars, serviceVars>>

Begin(c, b, stage) ==
    /\ pc[c] = "idle"
    /\ b.kind \in Uses
    /\ used' = used \cup {b.request}
    /\ body' = [body EXCEPT ![c] = b]
    /\ Goto(c, stage)
    /\ UNCHANGED <<registry, ledgerVars, signerVars, got>>

PaymentBody(r, m, challenge, requested, domain, matches) ==
    [kind |-> "payment", request |-> r, mandateId |-> m, challenge |-> challenge,
     requested |-> requested, domain |-> domain, matches |-> matches,
     verdict |-> None, byOwner |-> FALSE, standing |-> FALSE,
     afterRevoke |-> registry[m].revoked]

ResolveBody(r, verdict, byOwner, standing) ==
    [kind |-> "resolve", request |-> r, mandateId |-> None, challenge |-> None,
     requested |-> None, domain |-> None, matches |-> FALSE,
     verdict |-> verdict, byOwner |-> byOwner, standing |-> standing,
     afterRevoke |-> escalations[r] # None /\ registry[escalations[r].mandateId].revoked]

(* The challenge the agent asks for: the one quoted, whose payTo a         *)
(* poisoned page may have replaced. *)
Poisoned(ch) == {ch} \cup {[ch EXCEPT !.payTo = a] : a \in PayToOverrides}

Quoted(r) ==
    IF Exists(r) THEN {intents[r].challenge} \ {None} ELSE Challenges

RequestPayment(c) ==
    \E r \in Requests, m \in Mandates, dom \in SentDomains, matches \in BOOLEAN :
        \E quote \in Quoted(r) : \E ch \in Poisoned(quote) :
            \E a \in {ch.amount} \cup AmountOverrides :
               /\ Exists(r) => m = intents[r].mandateId
               /\ Begin(c, PaymentBody(r, m, ch, a, dom, matches), "getIntent")

ResolveRequest(c) ==
    \E r \in used, verdict \in {"approve", "deny"}, byOwner, standing \in BOOLEAN :
        Begin(c, ResolveBody(r, verdict, byOwner, standing), "getEscalation")

OwnerRevokes ==
    /\ \E m \in Mandates : Revoke(Owner, m)
    /\ UNCHANGED <<ledgerVars, signerVars, serviceVars>>

(* PUT /policy: only the body the registry has the hash of.  That hash is  *)
(* frozen, so reading it and storing the body is one step. *)
PutPolicy ==
    /\ \E m \in Mandates, p \in PolicyBodies :
          /\ policies[m] # None => policies[m].policyVersion < MaxVersion
          /\ Known(m) /\ registry[m].policyHash = p
          /\ StorePolicy(m, p)
    /\ UNCHANGED <<registry, signerVars, serviceVars>>

TimePasses == Tick /\ UNCHANGED <<registry, signerVars, serviceVars>>

Environment ==
    \/ NewIntent \/ ChallengeQuoted \/ OwnerRevokes \/ PutPolicy \/ TimePasses
    \/ \E c \in Clients : RequestPayment(c) \/ ResolveRequest(c)

(* The services start empty, after mandates were created on chain or not.  *)
PaymentsInit ==
    /\ registry \in [Mandates -> {ZeroEntry} \cup
           [owner : {Owner}, policyHash : PolicyBodies,
            expiresAt : ExpiryTimes, revoked : {FALSE}]]
    /\ LedgerInit
    /\ SignerInit
    /\ used = {}
    /\ body = [c \in Clients |-> None]
    /\ got = [c \in Clients |-> Nothing]
    /\ pc = [c \in Clients |-> "idle"]

SignerStep(c) == SignerSigns(c) \/ SignerFails(c)

PaymentsNext ==
    \/ \E c \in Clients : HandlerStep(c) \/ SignerStep(c)
    \/ Environment
    \/ FaultStep

PaymentsSpec == PaymentsInit /\ [][PaymentsNext]_vars
-----------------------------------------------------------------------------
(* Type correctness of the composed system. *)
PaymentsTypeOK ==
    /\ registry \in [Mandates -> RegistryEntry]
    /\ LedgerTypeOK
    /\ SignerTypeOK
    /\ used \subseteq Requests
    /\ body \in [Clients -> Or(Body)]
    /\ got \in [Clients -> Got]
    /\ pc \in [Clients -> Stages]

SignedFor(r) == {s \in signatures : s.request.requestId = r}

(* A handler holds a nonce from the reservation until the key source has   *)
(* answered, or until it has released it; if it dies meanwhile, its        *)
(* request at the key source goes on holding it. *)
Holds(c) ==
    pc[c] \in {"sign", "signing", "release"} \/ signing[c] # None

(* However often a payment is requested or approved, concurrently, after   *)
(* crashes or restarts of any service, its requestId is signed at most     *)
(* once.  It is the ledger's nonce reservation, and never the signer's     *)
(* forgetful replay set, that makes it so. *)
AtMostOneSignature ==
    \A s, t \in signatures : s.request.requestId = t.request.requestId => s = t

(* A nonce that was signed stays reserved in the ledger for good: no       *)
(* release by a losing or failing handler can free it, and what the ledger *)
(* holds is what was signed. *)
SignedNonceIsBurned ==
    \A s \in signatures : Exists(s.request.requestId) =>
        /\ LiveNonce(s.request.requestId)
        /\ intents[s.request.requestId].nonce = s.request.nonce

(* A receipt's terms are those of a real signature: hashing the request,   *)
(* the recorded policy, instruction and domain gives the signed nonce. *)
ReceiptRecomputesNonce ==
    \A r \in Requests : (Exists(r) /\ intents[r].terms # None) =>
        \E s \in SignedFor(r) :
            s.request.nonce = CommitmentNonce(r, intents[r].terms.policyHash,
                                  intents[r].instruction,
                                  intents[r].terms.merchantDomain)

(* What was signed is what the card API quoted, and it goes to the pinned  *)
(* recipient: a poisoned page changes neither, with or without a human's   *)
(* approval in between. *)
SignedAsQuoted ==
    \A s \in signatures : Exists(s.request.requestId) =>
        /\ s.request.value = intents[s.request.requestId].challenge.amount
        /\ s.request.to = Pinned[s.request.mandateId].settlementRecipient
        /\ s.request.mandateId = intents[s.request.requestId].mandateId

(* A stored approval stands for a signature; a signer that refuses, or a   *)
(* nonce already taken, turns the approval into a denial. *)
ApprovalIsBacked ==
    \A r \in Requests :
        (escalations[r] # None /\ escalations[r].decision = "approve")
            => SignedFor(r) # {}

(* A revoked mandate signs nothing through POST /payment/request from the  *)
(* first request that starts after the revocation. *)
RevocationStopsPayments ==
    \A c \in Clients :
        (body[c] # None /\ IsPayment(c) /\ body[c].afterRevoke) =>
            pc[c] \notin {"reserve", "sign", "signing", "recordSigned", "signed"}

(* A reserved nonce is in a handler's hands, or it was signed: a signing   *)
(* that failed never leaves the request locked. *)
LiveNonceIsAccountedFor ==
    \A r \in Requests : (Exists(r) /\ LiveNonce(r)) =>
        \/ SignedFor(r) # {}
        \/ \E c \in Clients : body[c] # None /\ Req(c) = r /\ Holds(c)

(* Every handler activation comes to an end, whatever the other services   *)
(* answer: no client stays under way for ever. *)
EveryCallEnds == \A c \in Clients : []<>(pc[c] \in Final \cup {"idle"})
-----------------------------------------------------------------------------
TailStages == {"reserve", "sign", "signing", "release", "recordSigned",
               "approveStorage", "setStanding"}

CheckStages == {"getPolicy", "getWindow", "getMandate", "getStanding", "createEscalation"}

(* A handler with body b that comes to a stage with locals g can go on.    *)
Ready(stage, b, g) ==
    /\ stage # "idle" => b # None
    /\ stage \in CheckStages \cup {"getIntent", "recordEscalated"} => b.kind = "payment"
    /\ stage \in {"getEscalation", "resolvePolicy", "resolveIntent", "denyStorage",
                  "approveStorage", "setStanding"} => b.kind = "resolve"
    /\ (stage \in CheckStages \cup TailStages /\ b.kind = "payment")
          => b.domain # None /\ g.intent # None
    /\ stage \in TailStages \cup (CheckStages \ {"getPolicy"}) \cup {"resolveIntent"}
          => g.policy # None
    /\ (stage \in TailStages \cup {"resolvePolicy", "resolveIntent"} /\ b.kind = "resolve")
          => g.escalation # None
    /\ (stage \in TailStages /\ b.kind = "resolve")
          => g.intent # None /\ g.intent.challenge # None
    /\ stage = "createEscalation" => g.reason # None
    /\ (b # None /\ b.kind = "payment") =>
          /\ b.mandateId # None /\ b.challenge # None /\ b.requested # None
          /\ ~b.standing

(* What a handler has read by the time it needs it: the dereferences the   *)
(* code makes without a check are safe, whatever changed meanwhile. *)
HandlerInv == \A c \in Clients : Ready(pc[c], body[c], got[c])

(* Why at most one signature: a holder's nonce is live, holders of one     *)
(* request are one, and once signed the nonce is live with no holder left  *)
(* that could release it.  Requests a restarted ledger forgot are not      *)
(* minted again. *)
HoldersAreKnown ==
    \A c \in Clients : Holds(c) => body[c] # None

AtKeyInv ==
    \A c \in Clients : signing[c] # None =>
        /\ pc[c] \in {"signing", "failed"}
        /\ signing[c].requestId = Req(c) /\ signing[c].nonce.request = Req(c)
        /\ WithinRail(signing[c]) /\ DomainMatches(signing[c])

HeldNonceInv ==
    \A c \in Clients : (Holds(c) /\ Exists(Req(c))) =>
        /\ LiveNonce(Req(c))
        /\ pc[c] = "sign" => intents[Req(c)].nonce = NonceOf(c)
        /\ signing[c] # None => intents[Req(c)].nonce = signing[c].nonce

OneHolder ==
    \A c, d \in Clients : (Holds(c) /\ Holds(d) /\ Req(c) = Req(d)) => c = d

NoHolderOnceSigned ==
    \A s \in signatures, c \in Clients : Holds(c) => Req(c) # s.request.requestId

NothingUnused ==
    /\ \A r \in Requests : Exists(r) => r \in used
    /\ \A c \in Clients : body[c] # None => Req(c) \in used
    /\ \A s \in signatures : s.request.requestId \in used

SigningInv ==
    /\ HoldersAreKnown /\ AtKeyInv /\ HeldNonceInv /\ OneHolder
    /\ NoHolderOnceSigned /\ NothingUnused
    /\ AtMostOneSignature /\ SignedNonceIsBurned
-----------------------------------------------------------------------------
(* The abstract specification, with the key's history as its grants. *)
HonoursRequest(r, g) ==
    /\ g.request.requestId = r
    /\ g.request.nonce.request = r
    /\ WithinRail(g.request) /\ DomainMatches(g.request)

Abstract == INSTANCE Authorization WITH
    Grants <- [client : Clients, request : SignRequest],
    Honours <- HonoursRequest,
    asked <- used,
    granted <- [r \in Requests |-> SignedFor(r)]

(* The services implement Authorization: a request is granted money at     *)
(* most once, only after it was asked for, and within the rail. *)
ImplementsAuthorization == Abstract!AuthSpec
-----------------------------------------------------------------------------
(* What the repository's documents say, and the code does not do. *)

(* The orchestrator tells a human whose denial was answered that nothing   *)
(* was signed and no money moved. *)
DenialMeansNothingSigned ==
    \A c \in Clients :
        (pc[c] = "refused" /\ ~IsPayment(c)) => SignedFor(Req(c)) = {}

(* execution_plan.md: spentInWindow + amount <= maxPerWindow.  No human    *)
(* approved anything here. *)
WindowBudgetRespected ==
    \A m \in Mandates : policies[m] # None =>
        Spent(WindowUsage(m, policies[m].policy.windowSeconds))
            <= policies[m].policy.maxPerWindow
=============================================================================
