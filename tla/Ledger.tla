------------------------------- MODULE Ledger -------------------------------
(***************************************************************************)
(* ledger-service: the store of intents, decisions, policies, escalations  *)
(* and standing approvals.  A handler touches the in-memory maps with no   *)
(* await between its check and its write, so every endpoint is one step.   *)
(* A request the handler answers with an error changes nothing and has no  *)
(* action; its caller tests the guard.  A restart loses everything.        *)
(***************************************************************************)
EXTENDS Contracts, Sequences

CONSTANTS
    Transactions,  \* settlement transaction hashes
    Orders,        \* merchant order ids
    Lower(_),      \* toLowerCase of a merchant domain
    Ttl,           \* ttlSeconds, configured in policy-service
    MaxTime,       \* bound on the clock
    MaxDecisions,  \* bound on the decision log
    MaxVersion     \* bound on a policy's version

Reasons == {"WINDOW_BUDGET_EXCEEDED", "INTENT_MISMATCH"}

ASSUME LedgerAssumption ==
    /\ None \notin Reasons \cup {"approve", "deny", "signed"}
    /\ None \notin Transactions \cup Orders
    /\ None \notin [order : Orders, tx : Transactions]
    /\ None \notin [policyHash : PolicyBodies \cup {None}, merchantDomain : Domains \cup {None}]
    /\ Ttl \in Int
    /\ MaxTime \in Nat /\ MaxDecisions \in Nat /\ MaxVersion \in Nat

VARIABLES
    intents,            \* requestId -> IntentRecord or None
    decisionLog,        \* append-only, never read back by a service
    policies,           \* mandateId -> PolicyRecord or None
    escalations,        \* requestId -> EscalationRecord or None
    standingApprovals,  \* mandateId, domain -> expiry; 0 is no approval
    now                 \* Date.now()

ledgerVars ==
    <<intents, decisionLog, policies, escalations, standingApprovals, now>>

Or(S) == S \cup {None}

IntentStates == {"INTENT_CREATED", "CHALLENGE_ATTACHED", "NONCE_RESERVED",
                 "SIGNED", "SETTLED", "CAPTURED"}

Decisions == {"signed", "refused", "escalated"}

(* What a "signed" decision said of the payment.  A client may leave out   *)
(* either field, which is None then; policy-service sends both.            *)
SignedTerms == [policyHash : Or(PolicyBodies), merchantDomain : Or(Domains)]

IntentRecord ==
    [mandateId : Mandates, instruction : Instructions, createdAt : Int,
     challenge : Or(Challenges), challengeAttachedAt : Or(Int),
     nonce : Or(Nonce), nonceReleased : BOOLEAN,
     decision : Or(Decisions), decidedAt : Or(Int), terms : Or(SignedTerms),
     settlement : Or(Transactions), capture : Or([order : Orders, tx : Transactions]),
     spend : Or(Orders), state : IntentStates]

PolicyRecord == [policy : PolicyBodies, policyVersion : Nat]

EscalationRecord ==
    [mandateId : Mandates, reason : Reasons, expiresAt : Int,
     merchantDomain : Domains, resolved : BOOLEAN,
     decision : Or({"approve", "deny"})]

LogEntry == [requestId : Requests, decision : Decisions]

Exists(r)    == intents[r] # None
LiveNonce(r) == intents[r].nonce # None /\ ~intents[r].nonceReleased

Empty(S) == [x \in S |-> None]

LedgerInit ==
    /\ intents = Empty(Requests)
    /\ decisionLog = << >>
    /\ policies = Empty(Mandates)
    /\ escalations = Empty(Requests)
    /\ standingApprovals = [k \in Mandates \X Domains |-> 0]
    /\ now = 1
-----------------------------------------------------------------------------
(* POST /intent: append-only; the caller stamps createdAt. *)
CreateIntent(r, m, instruction, createdAt) ==
    /\ ~Exists(r)
    /\ intents' = [intents EXCEPT ![r] =
           [mandateId |-> m, instruction |-> instruction, createdAt |-> createdAt,
            challenge |-> None, challengeAttachedAt |-> None,
            nonce |-> None, nonceReleased |-> FALSE,
            decision |-> None, decidedAt |-> None, terms |-> None,
            settlement |-> None, capture |-> None, spend |-> None,
            state |-> "INTENT_CREATED"]]
    /\ UNCHANGED <<decisionLog, policies, escalations, standingApprovals, now>>

(* Every handler below that writes an intent changes that map alone. *)
UpdateIntent(r, record) ==
    /\ intents' = [intents EXCEPT ![r] = record]
    /\ UNCHANGED <<decisionLog, policies, escalations, standingApprovals, now>>

(* Mutant: a second challenge replaces the first. *)
AttachAnyChallenge(r, challenge) ==
    /\ Exists(r)
    /\ UpdateIntent(r, [intents[r] EXCEPT !.challenge = challenge,
                                          !.challengeAttachedAt = now,
                                          !.state = "CHALLENGE_ATTACHED"])

(* POST /intent/:id/challenge: 409 CHALLENGE_EXISTS on a second one. *)
AttachChallenge(r, challenge) ==
    /\ Exists(r) /\ intents[r].challenge = None
    /\ UpdateIntent(r, [intents[r] EXCEPT !.challenge = challenge,
                                          !.challengeAttachedAt = now,
                                          !.state = "CHALLENGE_ATTACHED"])

(* Mutants: a reservation that never conflicts, and one that looks at the  *)
(* decision instead of the nonce. *)
AlwaysReserves(r) == Exists(r)
ReservesUndecided(r) == Exists(r) /\ intents[r].decision # "signed"

(* POST /intent/:id/nonce: the replay boundary. *)
CanReserve(r) == Exists(r) /\ ~LiveNonce(r)

ReserveNonce(r, nonce) ==
    /\ CanReserve(r)
    /\ UpdateIntent(r, [intents[r] EXCEPT !.nonce = nonce,
                                          !.nonceReleased = FALSE,
                                          !.state = "NONCE_RESERVED"])

(* POST /intent/:id/release-nonce: 409 NONCE_BURNED once signed. *)
CanRelease(r) == Exists(r) /\ intents[r].decision # "signed" /\ LiveNonce(r)

(* Mutant: a release that forgets the state. *)
ReleaseKeepsState(r) ==
    /\ CanRelease(r)
    /\ UpdateIntent(r, [intents[r] EXCEPT !.nonce = None, !.nonceReleased = TRUE])

ReleaseNonce(r) ==
    /\ CanRelease(r)
    /\ UpdateIntent(r, [intents[r] EXCEPT !.nonce = None,
                                          !.nonceReleased = TRUE,
                                          !.state = "CHALLENGE_ATTACHED"])

(* POST /decision: logs, and overwrites whatever was decided before; the   *)
(* terms, too, by those of a later "signed", even if it has none. *)
RecordDecision(r, decision, terms) ==
    /\ Exists(r)
    /\ decisionLog' = Append(decisionLog, [requestId |-> r, decision |-> decision])
    /\ intents' = [intents EXCEPT ![r] =
           IF decision = "signed"
           THEN [intents[r] EXCEPT !.decision = decision, !.decidedAt = now,
                                   !.terms = terms, !.state = "SIGNED"]
           ELSE [intents[r] EXCEPT !.decision = decision, !.decidedAt = now]]
    /\ UNCHANGED <<policies, escalations, standingApprovals, now>>

(* POST /intent/:id/settlement: a later one replaces an earlier one. *)
RecordSettlement(r, tx) ==
    /\ Exists(r)
    /\ UpdateIntent(r, [intents[r] EXCEPT !.settlement = tx, !.state = "SETTLED"])

(* POST /intent/:id/capture: once, after settlement, and naming its tx. *)
RecordCapture(r, order, tx) ==
    /\ Exists(r)
    /\ intents[r].capture = None
    /\ intents[r].settlement # None
    /\ tx \in {None, intents[r].settlement}
    /\ UpdateIntent(r, [intents[r] EXCEPT
           !.capture = [order |-> order, tx |-> intents[r].settlement],
           !.state = "CAPTURED"])

(* POST /intent/:id/spend. *)
RecordSpend(r, order) ==
    /\ Exists(r)
    /\ UpdateIntent(r, [intents[r] EXCEPT !.spend = order])

(* PUT /policy/:id: any body; the version counts the writes. *)
StorePolicy(m, policy) ==
    /\ policies' = [policies EXCEPT ![m] =
           [policy |-> policy,
            policyVersion |-> IF @ = None THEN 1 ELSE @.policyVersion + 1]]
    /\ UNCHANGED <<intents, decisionLog, escalations, standingApprovals, now>>

(* POST /escalation: an existing record is answered as it is. *)
CreateEscalation(r, m, reason, ttl, domain) ==
    /\ escalations' = [escalations EXCEPT ![r] =
           IF @ # None THEN @
           ELSE [mandateId |-> m, reason |-> reason, expiresAt |-> now + ttl,
                 merchantDomain |-> domain, resolved |-> FALSE, decision |-> None]]
    /\ UNCHANGED <<intents, decisionLog, policies, standingApprovals, now>>

(* PUT /escalation/:id: the last writer wins. *)
ResolveEscalation(r, decision) ==
    /\ escalations[r] # None
    /\ escalations' = [escalations EXCEPT ![r].resolved = TRUE,
                                          ![r].decision = decision]
    /\ UNCHANGED <<intents, decisionLog, policies, standingApprovals, now>>

(* POST and GET /standing-approval. *)
SetStandingApproval(m, domain, expiresAt) ==
    /\ standingApprovals' = [standingApprovals EXCEPT ![<<m, Lower(domain)>>] = expiresAt]
    /\ UNCHANGED <<intents, decisionLog, policies, escalations, now>>

StandingApprovalActive(m, domain) == standingApprovals[<<m, Lower(domain)>>] > now

(* GET /window/:id, as the set of intents the handler sums and counts. *)
Counted(r, m, windowSeconds) ==
    /\ Exists(r) /\ intents[r].mandateId = m
    /\ intents[r].decision = "signed" /\ intents[r].challenge # None
    /\ intents[r].decidedAt >= now - windowSeconds

WindowUsage(m, windowSeconds) ==
    {[requestId |-> r, amount |-> intents[r].challenge.amount] :
        r \in {q \in Requests : Counted(q, m, windowSeconds)}}

Tick ==
    /\ now < MaxTime
    /\ now' = now + 1
    /\ UNCHANGED <<intents, decisionLog, policies, escalations, standingApprovals>>

(* The process is replaced: every map starts empty. *)
LedgerRestart ==
    /\ intents' = Empty(Requests)
    /\ decisionLog' = << >>
    /\ policies' = Empty(Mandates)
    /\ escalations' = Empty(Requests)
    /\ standingApprovals' = [k \in Mandates \X Domains |-> 0]
    /\ UNCHANGED now
-----------------------------------------------------------------------------
(* The clients of the ledger, unconstrained: what it guarantees by itself. *)
IntentStep(r) ==
    \/ \E m \in Mandates, i \in Instructions : CreateIntent(r, m, i, now)
    \/ \E ch \in Challenges : AttachChallenge(r, ch)
    \/ \E n \in Nonce : n.request = r /\ ReserveNonce(r, n)
    \/ ReleaseNonce(r)
    \/ \E tx \in Transactions : RecordSettlement(r, tx)
    \/ \E o \in Orders, tx \in Or(Transactions) : RecordCapture(r, o, tx)
    \/ \E o \in Orders : RecordSpend(r, o)
    \/ \E d \in Decisions, terms \in SignedTerms :
          /\ Len(decisionLog) < MaxDecisions
          /\ RecordDecision(r, d, terms)

EscalationStep(r) ==
    \/ \E m \in Mandates, reason \in Reasons, dom \in Domains :
          CreateEscalation(r, m, reason, Ttl, dom)
    \/ \E d \in {"approve", "deny"} : ResolveEscalation(r, d)

MandateStep(m) ==
    \/ \E p \in PolicyBodies :
          /\ policies[m] # None => policies[m].policyVersion < MaxVersion
          /\ StorePolicy(m, p)
    \/ \E dom \in Domains : SetStandingApproval(m, dom, now + Ttl)

LedgerNext ==
    \/ \E r \in Requests : IntentStep(r) \/ EscalationStep(r)
    \/ \E m \in Mandates : MandateStep(m)
    \/ Tick
    \/ LedgerRestart

LedgerSpec == LedgerInit /\ [][LedgerNext]_ledgerVars
-----------------------------------------------------------------------------
(* Type correctness of the store. *)
LedgerTypeOK ==
    /\ intents \in [Requests -> Or(IntentRecord)]
    /\ decisionLog \in Seq(LogEntry)
    /\ policies \in [Mandates -> Or(PolicyRecord)]
    /\ escalations \in [Requests -> Or(EscalationRecord)]
    /\ standingApprovals \in [Mandates \X Domains -> Int]
    /\ now \in Int

(* A state names the evidence behind it, whatever order clients call in:   *)
(* NONCE_RESERVED has a live nonce, SETTLED and CAPTURED their             *)
(* transactions; and there is no stamp, which check 8 takes for a          *)
(* challenge, without the challenge.                                       *)
Backed(i) ==
    /\ i.challengeAttachedAt # None => i.challenge # None
    /\ i.state = "NONCE_RESERVED" => i.nonce # None /\ ~i.nonceReleased
    /\ i.state \in {"SETTLED", "CAPTURED"} => i.settlement # None
    /\ i.state = "CAPTURED" => i.capture # None

LogEntryOf(r, decision) == [requestId |-> r, decision |-> decision]

(* The decision an intent shows is the last one logged for it, however     *)
(* often it was overwritten, and one that was ever SIGNED, or has terms,   *)
(* has a "signed" in the log.  What terms a SIGNED intent has is up to the *)
(* client: a "signed" may come without any. *)
DecisionIsLogged(r) ==
    /\ intents[r].decision # None =>
          \E k \in DOMAIN decisionLog :
             /\ decisionLog[k] = LogEntryOf(r, intents[r].decision)
             /\ \A j \in DOMAIN decisionLog :
                   j > k => decisionLog[j].requestId # r
    /\ (intents[r].state = "SIGNED" \/ intents[r].terms # None) =>
          \E k \in DOMAIN decisionLog : decisionLog[k] = LogEntryOf(r, "signed")

StateIsBacked ==
    \A r \in Requests : Exists(r) => Backed(intents[r]) /\ DecisionIsLogged(r)

(* The evidence a receipt is built from is write-once: who asked for what, *)
(* the challenge quoted, the capture, and the question put to the human    *)
(* (its mandate, deadline and domain) never change while the record lives. *)
KeepsEvidence(old, new) ==
    /\ new.mandateId = old.mandateId
    /\ new.instruction = old.instruction
    /\ new.createdAt = old.createdAt
    /\ old.challenge \in {None, new.challenge}
    /\ old.challengeAttachedAt \in {None, new.challengeAttachedAt}
    /\ old.capture \in {None, new.capture}

KeepsQuestion(old, new) ==
    /\ new.mandateId = old.mandateId
    /\ new.reason = old.reason
    /\ new.expiresAt = old.expiresAt
    /\ new.merchantDomain = old.merchantDomain

EvidenceIsWriteOnce ==
    [][\A r \in Requests :
          /\ (Exists(r) /\ intents'[r] # None)
                => KeepsEvidence(intents[r], intents'[r])
          /\ (escalations[r] # None /\ escalations'[r] # None)
                => KeepsQuestion(escalations[r], escalations'[r])]_ledgerVars

(* The replay boundary: one live nonce is never replaced by another.       *)
(* Between two different nonces of a request lies a release, and no        *)
(* release happens while the intent is recorded as signed.                 *)
KeepsNonce(old, new) ==
    (old.nonce # None /\ ~old.nonceReleased) =>
        \/ new.nonce = old.nonce /\ ~new.nonceReleased
        \/ new.nonce = None /\ old.decision # "signed"

LiveNonceIsExclusive ==
    [][\A r \in Requests : (Exists(r) /\ intents'[r] # None)
          => KeepsNonce(intents[r], intents'[r])]_ledgerVars
=============================================================================
