---------------------------- MODULE LedgerProofs ----------------------------
(* What ledger-service guarantees by itself, whatever its clients call and *)
(* in whatever order.                                                      *)
EXTENDS Ledger, TLAPS

LEMMA UpdateIntentType ==
    ASSUME LedgerTypeOK, NEW r \in Requests, NEW record \in IntentRecord,
           UpdateIntent(r, record)
    PROVE  LedgerTypeOK'
BY DEF LedgerTypeOK, UpdateIntent, Or

LEMMA IntentIsRecord ==
    ASSUME LedgerTypeOK, NEW r \in Requests, Exists(r)
    PROVE  intents[r] \in IntentRecord
BY DEF LedgerTypeOK, Exists, Or

LEMMA CreateIntentType ==
    ASSUME LedgerTypeOK, NEW r \in Requests, NEW m \in Mandates,
           NEW i \in Instructions, NEW t \in Int, CreateIntent(r, m, i, t)
    PROVE  LedgerTypeOK'
BY DEF LedgerTypeOK, CreateIntent, Or, IntentRecord, IntentStates

LEMMA AttachChallengeType ==
    ASSUME LedgerTypeOK, NEW r \in Requests, NEW ch \in Challenges,
           AttachChallenge(r, ch)
    PROVE  LedgerTypeOK'
<1>1. intents[r] \in IntentRecord /\ now \in Int
  BY IntentIsRecord DEF AttachChallenge, LedgerTypeOK
<1> DEFINE new == [intents[r] EXCEPT !.challenge = ch, !.challengeAttachedAt = now,
                                     !.state = "CHALLENGE_ATTACHED"]
<1>2. new \in IntentRecord
  BY <1>1 DEF IntentRecord, IntentStates, Or
<1>3. QED
  BY <1>2, UpdateIntentType DEF AttachChallenge

LEMMA ReserveNonceType ==
    ASSUME LedgerTypeOK, NEW r \in Requests, NEW n \in Nonce, ReserveNonce(r, n)
    PROVE  LedgerTypeOK'
<1>1. intents[r] \in IntentRecord
  BY IntentIsRecord DEF ReserveNonce, CanReserve
<1> DEFINE new == [intents[r] EXCEPT !.nonce = n, !.nonceReleased = FALSE,
                                     !.state = "NONCE_RESERVED"]
<1>2. new \in IntentRecord
  BY <1>1 DEF IntentRecord, IntentStates, Or
<1>3. QED
  BY <1>2, UpdateIntentType DEF ReserveNonce

LEMMA ReleaseNonceType ==
    ASSUME LedgerTypeOK, NEW r \in Requests, ReleaseNonce(r)
    PROVE  LedgerTypeOK'
<1>1. intents[r] \in IntentRecord
  BY IntentIsRecord DEF ReleaseNonce, CanRelease
<1> DEFINE new == [intents[r] EXCEPT !.nonce = None, !.nonceReleased = TRUE,
                                     !.state = "CHALLENGE_ATTACHED"]
<1>2. new \in IntentRecord
  BY <1>1 DEF IntentRecord, IntentStates, Or
<1>3. QED
  BY <1>2, UpdateIntentType DEF ReleaseNonce

LEMMA RecordDecisionType ==
    ASSUME LedgerTypeOK, NEW r \in Requests, NEW d \in Decisions, NEW terms,
           d = "signed" => terms \in SignedTerms,
           RecordDecision(r, d, terms)
    PROVE  LedgerTypeOK'
<1>1. intents[r] \in IntentRecord /\ now \in Int
  BY IntentIsRecord DEF RecordDecision, LedgerTypeOK
<1>2. [intents[r] EXCEPT !.decision = d, !.decidedAt = now] \in IntentRecord
  BY <1>1 DEF IntentRecord, Decisions, Or
<1>3. d = "signed" => [intents[r] EXCEPT !.decision = d, !.decidedAt = now,
                           !.terms = terms, !.state = "SIGNED"] \in IntentRecord
  BY <1>1 DEF IntentRecord, IntentStates, Decisions, Or
<1>4. intents' \in [Requests -> Or(IntentRecord)]
  BY <1>2, <1>3 DEF LedgerTypeOK, RecordDecision, Or
<1>5. decisionLog' \in Seq(LogEntry)
  BY DEF RecordDecision, LedgerTypeOK, LogEntry
<1>6. QED
  BY <1>4, <1>5 DEF RecordDecision, LedgerTypeOK

LEMMA RecordSettlementType ==
    ASSUME LedgerTypeOK, NEW r \in Requests, NEW tx \in Transactions,
           RecordSettlement(r, tx)
    PROVE  LedgerTypeOK'
<1>1. intents[r] \in IntentRecord
  BY IntentIsRecord DEF RecordSettlement
<1> DEFINE new == [intents[r] EXCEPT !.settlement = tx, !.state = "SETTLED"]
<1>2. new \in IntentRecord
  BY <1>1 DEF IntentRecord, IntentStates, Or
<1>3. QED
  BY <1>2, UpdateIntentType DEF RecordSettlement

LEMMA RecordCaptureType ==
    ASSUME LedgerTypeOK, NEW r \in Requests, NEW o \in Orders, NEW tx,
           RecordCapture(r, o, tx)
    PROVE  LedgerTypeOK'
<1>1. intents[r] \in IntentRecord /\ intents[r].settlement # None
  BY IntentIsRecord DEF RecordCapture
<1> DEFINE new == [intents[r] EXCEPT
                       !.capture = [order |-> o, tx |-> intents[r].settlement],
                       !.state = "CAPTURED"]
<1>2. new \in IntentRecord
  BY <1>1 DEF IntentRecord, IntentStates, Or
<1>3. QED
  BY <1>2, UpdateIntentType DEF RecordCapture

LEMMA RecordSpendType ==
    ASSUME LedgerTypeOK, NEW r \in Requests, NEW o \in Orders, RecordSpend(r, o)
    PROVE  LedgerTypeOK'
<1>1. intents[r] \in IntentRecord
  BY IntentIsRecord DEF RecordSpend
<1>2. [intents[r] EXCEPT !.spend = o] \in IntentRecord
  BY <1>1 DEF IntentRecord, Or
<1>3. QED
  BY <1>2, UpdateIntentType DEF RecordSpend

LEMMA StorePolicyType ==
    ASSUME LedgerTypeOK, NEW m \in Mandates, NEW p \in PolicyBodies, StorePolicy(m, p)
    PROVE  LedgerTypeOK'
<1> DEFINE version == IF policies[m] = None THEN 1 ELSE policies[m].policyVersion + 1
<1>1. version \in Nat
  BY DEF LedgerTypeOK, PolicyRecord, Or
<1>2. policies' = [policies EXCEPT ![m] = [policy |-> p, policyVersion |-> version]]
  BY DEF StorePolicy
<1>3. QED
  BY <1>1, <1>2 DEF LedgerTypeOK, StorePolicy, PolicyRecord, Or

LEMMA CreateEscalationType ==
    ASSUME LedgerTypeOK, NEW r \in Requests, NEW m \in Mandates, NEW reason \in Reasons,
           NEW dom \in Domains, CreateEscalation(r, m, reason, Ttl, dom)
    PROVE  LedgerTypeOK'
<1>1. now + Ttl \in Int
  BY LedgerAssumption DEF LedgerTypeOK
<1>2. QED
  BY <1>1 DEF LedgerTypeOK, CreateEscalation, EscalationRecord, Or

LEMMA ResolveEscalationType ==
    ASSUME LedgerTypeOK, NEW r \in Requests, NEW d \in {"approve", "deny"},
           ResolveEscalation(r, d)
    PROVE  LedgerTypeOK'
<1>1. escalations[r] \in EscalationRecord
  BY DEF LedgerTypeOK, ResolveEscalation, Or
<1>2. [escalations[r] EXCEPT !.resolved = TRUE, !.decision = d] \in EscalationRecord
  BY <1>1 DEF EscalationRecord, Or
<1>3. QED
  BY <1>2 DEF LedgerTypeOK, ResolveEscalation, Or

LEMMA SetStandingApprovalType ==
    ASSUME LedgerTypeOK, NEW m, NEW dom, NEW e \in Int, SetStandingApproval(m, dom, e)
    PROVE  LedgerTypeOK'
BY DEF LedgerTypeOK, SetStandingApproval

LEMMA LedgerRestartType ==
    ASSUME LedgerTypeOK, LedgerRestart
    PROVE  LedgerTypeOK'
BY DEF LedgerTypeOK, LedgerRestart, Empty, Or

(* Any call of any client with arguments of the right type: what the ledger *)
(* itself does not bound.  LedgerNext, and the steps of every composition   *)
(* the ledger is part of, are such calls. *)
IntentCall(r) ==
    \/ \E m \in Mandates, i \in Instructions, t \in Int : CreateIntent(r, m, i, t)
    \/ \E ch \in Challenges : AttachChallenge(r, ch)
    \/ \E n \in Nonce : ReserveNonce(r, n)
    \/ ReleaseNonce(r)
    \/ \E tx \in Transactions : RecordSettlement(r, tx)
    \/ \E o \in Orders, tx \in Or(Transactions) : RecordCapture(r, o, tx)
    \/ \E o \in Orders : RecordSpend(r, o)
    \/ \E d \in Decisions, terms \in Or(SignedTerms) :
          /\ d = "signed" => terms # None
          /\ RecordDecision(r, d, terms)

LedgerCall ==
    \/ \E r \in Requests : IntentCall(r) \/ EscalationStep(r)
    \/ \E m \in Mandates, p \in PolicyBodies : StorePolicy(m, p)
    \/ \E m \in Mandates, dom \in Domains, e \in Int : SetStandingApproval(m, dom, e)
    \/ Tick
    \/ LedgerRestart

LEMMA NextIsCall ==
    ASSUME LedgerTypeOK, LedgerNext
    PROVE  LedgerCall
<1>1. now \in Int /\ now + Ttl \in Int
  BY LedgerAssumption DEF LedgerTypeOK
<1>2. \A terms \in SignedTerms : terms # None
  BY LedgerAssumption DEF SignedTerms, Or
<1>3. ASSUME NEW r \in Requests, IntentStep(r)
      PROVE  IntentCall(r)
  <2>1. ASSUME NEW d \in Decisions, NEW terms \in SignedTerms, RecordDecision(r, d, terms)
        PROVE  IntentCall(r)
    BY <1>2, <2>1 DEF IntentCall, Or
  <2>2. QED
    BY <1>1, <1>3, <2>1 DEF IntentStep, IntentCall
<1>4. QED
  BY <1>1, <1>3 DEF LedgerNext, LedgerCall, MandateStep

LEMMA LedgerTypeStep ==
    ASSUME LedgerTypeOK, [LedgerCall]_ledgerVars
    PROVE  LedgerTypeOK'
<1>1. CASE UNCHANGED ledgerVars
  BY <1>1 DEF LedgerTypeOK, ledgerVars
<1>2. ASSUME NEW r \in Requests, IntentCall(r)
      PROVE  LedgerTypeOK'
  <2>1. now \in Int
    BY DEF LedgerTypeOK
  <2>2. ASSUME NEW m \in Mandates, NEW i \in Instructions, NEW t \in Int,
               CreateIntent(r, m, i, t)
        PROVE  LedgerTypeOK'
    BY <2>1, <2>2, CreateIntentType
  <2>3. ASSUME NEW ch \in Challenges, AttachChallenge(r, ch)
        PROVE  LedgerTypeOK'
    BY <2>3, AttachChallengeType
  <2>4. ASSUME NEW n \in Nonce, ReserveNonce(r, n)
        PROVE  LedgerTypeOK'
    BY <2>4, ReserveNonceType
  <2>5. CASE ReleaseNonce(r)
    BY <2>5, ReleaseNonceType
  <2>6. ASSUME NEW tx \in Transactions, RecordSettlement(r, tx)
        PROVE  LedgerTypeOK'
    BY <2>6, RecordSettlementType
  <2>7. ASSUME NEW o \in Orders, NEW tx \in Or(Transactions), RecordCapture(r, o, tx)
        PROVE  LedgerTypeOK'
    BY <2>7, RecordCaptureType
  <2>8. ASSUME NEW o \in Orders, RecordSpend(r, o)
        PROVE  LedgerTypeOK'
    BY <2>8, RecordSpendType
  <2>9. ASSUME NEW d \in Decisions, NEW terms \in Or(SignedTerms),
               d = "signed" => terms # None, RecordDecision(r, d, terms)
        PROVE  LedgerTypeOK'
    BY <2>9, RecordDecisionType DEF Or
  <2>10. QED
    BY <1>2, <2>2, <2>3, <2>4, <2>5, <2>6, <2>7, <2>8, <2>9 DEF IntentCall
<1>3. ASSUME NEW r \in Requests, EscalationStep(r)
      PROVE  LedgerTypeOK'
  BY <1>3, CreateEscalationType, ResolveEscalationType DEF EscalationStep
<1>4. ASSUME NEW m \in Mandates, NEW p \in PolicyBodies, StorePolicy(m, p)
      PROVE  LedgerTypeOK'
  BY <1>4, StorePolicyType
<1>8. ASSUME NEW m \in Mandates, NEW dom \in Domains, NEW e \in Int,
             SetStandingApproval(m, dom, e)
      PROVE  LedgerTypeOK'
  BY <1>8, SetStandingApprovalType
<1>5. CASE Tick
  BY <1>5 DEF LedgerTypeOK, Tick
<1>6. CASE LedgerRestart
  BY <1>6, LedgerRestartType
<1>7. QED
  BY <1>1, <1>2, <1>3, <1>4, <1>5, <1>6, <1>8 DEF LedgerCall

LEMMA LedgerInitType == LedgerInit => LedgerTypeOK
BY DEF LedgerInit, LedgerTypeOK, Empty, Or

(* The store keeps its type, whatever its clients send. *)
THEOREM LedgerTypeCorrect == LedgerSpec => []LedgerTypeOK
<1>1. LedgerTypeOK /\ [LedgerNext]_ledgerVars => LedgerTypeOK'
  BY LedgerTypeStep, NextIsCall
<1>2. QED
  BY <1>1, LedgerInitType, PTL DEF LedgerSpec

(* What a step may leave of an intent without touching what the log says   *)
(* of it. *)
KeepsDecision(old, new) ==
    /\ new.decision = old.decision /\ new.terms = old.terms
    /\ new.state = "SIGNED" => old.state = "SIGNED"

LEMMA UnloggedStep ==
    ASSUME NEW q, DecisionIsLogged(q), decisionLog' = decisionLog,
           KeepsDecision(intents[q], intents'[q])
    PROVE  DecisionIsLogged(q)'
BY DEF DecisionIsLogged, KeepsDecision, LogEntryOf

LEMMA LoggingStep ==
    ASSUME LedgerTypeOK, NEW r \in Requests, NEW d \in Decisions, NEW terms,
           RecordDecision(r, d, terms), DecisionIsLogged(r)
    PROVE  DecisionIsLogged(r)'
<1> DEFINE last == Len(decisionLog) + 1
<1>1. /\ last \in DOMAIN decisionLog' /\ decisionLog'[last] = LogEntryOf(r, d)
      /\ \A j \in DOMAIN decisionLog' : j <= last
      /\ \A k \in DOMAIN decisionLog :
            k \in DOMAIN decisionLog' /\ decisionLog'[k] = decisionLog[k]
  BY DEF LedgerTypeOK, RecordDecision, LogEntryOf, LogEntry
<1>2. intents[r] \in IntentRecord
  BY IntentIsRecord DEF RecordDecision
<1>3. intents'[r].decision = d
  BY <1>2 DEF LedgerTypeOK, RecordDecision, IntentRecord
<1>4. d # "signed" => /\ intents'[r].state = intents[r].state
                     /\ intents'[r].terms = intents[r].terms
  BY <1>2 DEF LedgerTypeOK, RecordDecision, IntentRecord
<1>5. /\ decisionLog'[last] = LogEntryOf(r, intents'[r].decision)
      /\ \A j \in DOMAIN decisionLog' : j > last => decisionLog'[j].requestId # r
  <2>1. \A j \in DOMAIN decisionLog' : ~(j > last)
    BY <1>1 DEF LedgerTypeOK, RecordDecision
  <2>2. QED
    BY <1>1, <1>3, <2>1
<1>6. (intents'[r].state = "SIGNED" \/ intents'[r].terms # None) =>
         \E k \in DOMAIN decisionLog' : decisionLog'[k] = LogEntryOf(r, "signed")
  <2>1. CASE d = "signed"
    BY <1>1, <2>1
  <2>2. CASE d # "signed"
    BY <1>1, <1>4, <2>2 DEF DecisionIsLogged, LogEntryOf
  <2>3. QED
    BY <2>1, <2>2
<1>7. QED
  BY <1>1, <1>5, <1>6 DEF DecisionIsLogged, LogEntryOf

LEMMA OthersLoggingStep ==
    ASSUME LedgerTypeOK, NEW r \in Requests, NEW d \in Decisions, NEW terms,
           RecordDecision(r, d, terms),
           NEW q \in Requests, q # r, DecisionIsLogged(q)
    PROVE  DecisionIsLogged(q)'
<1> DEFINE last == Len(decisionLog) + 1
<1>1. /\ DOMAIN decisionLog' = DOMAIN decisionLog \cup {last}
      /\ decisionLog'[last].requestId = r
      /\ \A k \in DOMAIN decisionLog : decisionLog'[k] = decisionLog[k]
  BY DEF LedgerTypeOK, RecordDecision, LogEntry
<1>2. intents'[q] = intents[q]
  BY DEF LedgerTypeOK, RecordDecision
<1>3. QED
  BY <1>1, <1>2 DEF DecisionIsLogged, LogEntryOf

LEMMA LoggedStep ==
    ASSUME LedgerTypeOK, StateIsBacked, NEW r \in Requests, IntentCall(r),
           NEW q \in Requests, intents'[q] # None
    PROVE  DecisionIsLogged(q)'
<1>1. Exists(q) => DecisionIsLogged(q) /\ intents[q] \in IntentRecord
  BY IntentIsRecord DEF StateIsBacked
<1> USE DEF LedgerTypeOK, UpdateIntent, IntentRecord, KeepsDecision
<1>2. ASSUME NEW m \in Mandates, NEW i \in Instructions, NEW t \in Int,
             CreateIntent(r, m, i, t)
      PROVE  DecisionIsLogged(q)'
  <2>1. CASE q = r
    BY <1>2, <2>1 DEF CreateIntent, DecisionIsLogged
  <2>2. CASE q # r
    BY <1>1, <1>2, <2>2, UnloggedStep DEF CreateIntent, Exists
  <2>3. QED
    BY <2>1, <2>2
<1>3. ASSUME NEW d \in Decisions, NEW terms, RecordDecision(r, d, terms)
      PROVE  DecisionIsLogged(q)'
  <2>1. Exists(q)
    BY <1>3 DEF RecordDecision, Exists
  <2>2. QED
    BY <1>1, <1>3, <2>1, LoggingStep, OthersLoggingStep
<1>4. CASE decisionLog' = decisionLog /\ Exists(q) /\ KeepsDecision(intents[q], intents'[q])
  BY <1>1, <1>4, UnloggedStep
<1>5. ASSUME decisionLog' = decisionLog, Exists(r), NEW record,
             intents' = [intents EXCEPT ![r] = record], KeepsDecision(intents[r], record)
      PROVE  DecisionIsLogged(q)'
  BY <1>4, <1>5 DEF Exists
<1>6. ASSUME NEW ch \in Challenges, AttachChallenge(r, ch)
      PROVE  DecisionIsLogged(q)'
  BY <1>5, <1>6, IntentIsRecord DEF AttachChallenge
<1>7. ASSUME NEW n \in Nonce, ReserveNonce(r, n)
      PROVE  DecisionIsLogged(q)'
  BY <1>5, <1>7, IntentIsRecord DEF ReserveNonce, CanReserve
<1>8. CASE ReleaseNonce(r)
  BY <1>5, <1>8, IntentIsRecord DEF ReleaseNonce, CanRelease
<1>9. ASSUME NEW tx \in Transactions, RecordSettlement(r, tx)
      PROVE  DecisionIsLogged(q)'
  BY <1>5, <1>9, IntentIsRecord DEF RecordSettlement
<1>10. ASSUME NEW o \in Orders, NEW tx \in Or(Transactions), RecordCapture(r, o, tx)
       PROVE  DecisionIsLogged(q)'
  BY <1>5, <1>10, IntentIsRecord DEF RecordCapture
<1>11. ASSUME NEW o \in Orders, RecordSpend(r, o)
       PROVE  DecisionIsLogged(q)'
  BY <1>5, <1>11, IntentIsRecord DEF RecordSpend
<1>12. QED
  BY <1>2, <1>3, <1>6, <1>7, <1>8, <1>9, <1>10, <1>11 DEF IntentCall

LEMMA BackedStep ==
    ASSUME LedgerTypeOK, StateIsBacked, [LedgerCall]_ledgerVars
    PROVE  StateIsBacked'
<1> DEFINE Fine(i) == i # None => Backed(i)
<1>a. \A i : Fine(i)' <=> Fine(i)
  BY DEF Backed
<1>b. \A r \in Requests : Fine(intents[r])
  BY DEF StateIsBacked, Exists
<1> HIDE DEF Fine
<1>1. ASSUME intents' = intents
      PROVE  \A r \in Requests : Fine(intents'[r])
  BY <1>1, <1>b
<1>2. ASSUME NEW r \in Requests, NEW record,
             intents' = [intents EXCEPT ![r] = record], Fine(record)
      PROVE  \A q \in Requests : Fine(intents'[q])
  BY <1>2, <1>b DEF LedgerTypeOK
<1>3. ASSUME NEW r \in Requests, IntentCall(r)
      PROVE  \A q \in Requests : Fine(intents'[q])
  <2>0. intents[r] # None => intents[r] \in IntentRecord /\ Backed(intents[r])
    BY IntentIsRecord, <1>b DEF Exists, Fine
  <2> USE DEF Fine, Backed, IntentRecord, Exists, UpdateIntent
  <2>1. ASSUME NEW m \in Mandates, NEW i \in Instructions, NEW t \in Int,
               CreateIntent(r, m, i, t)
        PROVE  \A q \in Requests : Fine(intents'[q])
    BY <2>1, <1>2 DEF CreateIntent
  <2>2. ASSUME NEW ch \in Challenges, AttachChallenge(r, ch)
        PROVE  \A q \in Requests : Fine(intents'[q])
    BY <2>0, <2>2, <1>2, ContractsAssumption DEF AttachChallenge
  <2>3. ASSUME NEW n \in Nonce, ReserveNonce(r, n)
        PROVE  \A q \in Requests : Fine(intents'[q])
    <3>1. n # None
      BY ContractsAssumption
    <3>2. QED
      BY <2>0, <2>3, <3>1, <1>2 DEF ReserveNonce, CanReserve
  <2>4. CASE ReleaseNonce(r)
    BY <2>0, <2>4, <1>2 DEF ReleaseNonce, CanRelease
  <2>5. ASSUME NEW tx \in Transactions, RecordSettlement(r, tx)
        PROVE  \A q \in Requests : Fine(intents'[q])
    BY <2>0, <2>5, <1>2, LedgerAssumption DEF RecordSettlement
  <2>6. ASSUME NEW o \in Orders, NEW tx \in Or(Transactions), RecordCapture(r, o, tx)
        PROVE  \A q \in Requests : Fine(intents'[q])
    <3>1. intents[r].settlement \in Transactions
      BY <2>0, <2>6 DEF RecordCapture, Or
    <3>2. [order |-> o, tx |-> intents[r].settlement] # None
      BY <3>1, LedgerAssumption
    <3>3. QED
      BY <2>0, <2>6, <3>2, <1>2 DEF RecordCapture
  <2>7. ASSUME NEW o \in Orders, RecordSpend(r, o)
        PROVE  \A q \in Requests : Fine(intents'[q])
    BY <2>0, <2>7, <1>2 DEF RecordSpend
  <2>8. ASSUME NEW d \in Decisions, NEW terms \in Or(SignedTerms),
               d = "signed" => terms # None, RecordDecision(r, d, terms)
        PROVE  \A q \in Requests : Fine(intents'[q])
    <3>1. CASE d = "signed"
      BY <2>0, <2>8, <3>1, <1>2 DEF RecordDecision
    <3>2. CASE d # "signed"
      BY <2>0, <2>8, <3>2, <1>2 DEF RecordDecision
    <3>3. QED
      BY <3>1, <3>2
  <2>9. QED
    BY <1>3, <2>1, <2>2, <2>3, <2>4, <2>5, <2>6, <2>7, <2>8 DEF IntentCall
<1>4. ASSUME LedgerRestart
      PROVE  \A r \in Requests : Fine(intents'[r])
  BY <1>4 DEF LedgerRestart, Empty, Fine
<1>5. intents' = intents \/ LedgerRestart \/ \E r \in Requests : IntentCall(r)
  BY DEF LedgerCall, EscalationStep, Tick, ledgerVars,
         CreateEscalation, ResolveEscalation, StorePolicy, SetStandingApproval
<1>6. \A r \in Requests : intents'[r] # None => DecisionIsLogged(r)'
  <2>1. CASE \E r \in Requests : IntentCall(r)
    BY <2>1, LoggedStep
  <2>2. CASE LedgerRestart
    BY <2>2 DEF LedgerRestart, Empty
  <2>3. ASSUME UNCHANGED <<intents, decisionLog>>
        PROVE  \A r \in Requests : intents'[r] # None => DecisionIsLogged(r)'
    BY <2>3 DEF StateIsBacked, Exists, DecisionIsLogged
  <2>4. QED
    BY <2>1, <2>2, <2>3 DEF LedgerCall, EscalationStep, Tick, ledgerVars,
       CreateEscalation, ResolveEscalation, StorePolicy, SetStandingApproval
<1>7. \A r \in Requests : Fine(intents'[r])
  BY <1>1, <1>3, <1>4, <1>5
<1>8. QED
  BY <1>6, <1>7 DEF StateIsBacked, Exists, Fine, Backed

(* Whatever the order of the clients' calls and whatever they leave out,   *)
(* an intent's state is backed by the evidence that state stands for, and  *)
(* the decision it shows is the last one logged. *)
THEOREM StateStaysBacked == LedgerSpec => []StateIsBacked
<1>1. LedgerInit => StateIsBacked
  BY DEF LedgerInit, StateIsBacked, Exists, Empty
<1>2. LedgerTypeOK /\ StateIsBacked /\ [LedgerNext]_ledgerVars => StateIsBacked'
  BY BackedStep, NextIsCall
<1>3. QED
  BY <1>1, <1>2, LedgerTypeCorrect, PTL DEF LedgerSpec

(* Every step of a client either creates an intent that was not there or   *)
(* keeps its evidence and its live nonce. *)
LEMMA IntentCallKeeps ==
    ASSUME LedgerTypeOK, StateIsBacked, NEW r \in Requests, IntentCall(r),
           NEW q \in Requests, Exists(q)
    PROVE  KeepsEvidence(intents[q], intents'[q]) /\ KeepsNonce(intents[q], intents'[q])
<1> DEFINE Kept(p) == KeepsEvidence(intents[p], intents'[p])
                        /\ KeepsNonce(intents[p], intents'[p])
<1>1. intents[q] \in IntentRecord
  BY IntentIsRecord
<1>2. ASSUME intents'[q] = intents[q]
      PROVE  Kept(q)
  BY <1>2 DEF KeepsEvidence, KeepsNonce
<1>3. CASE q # r
  BY <1>2, <1>3 DEF IntentCall, LedgerTypeOK, UpdateIntent, CreateIntent, AttachChallenge,
     ReserveNonce, ReleaseNonce, RecordSettlement, RecordCapture, RecordSpend, RecordDecision
<1>4. CASE q = r
  <2> USE <1>1, <1>4 DEF LedgerTypeOK, UpdateIntent, IntentRecord, KeepsEvidence, KeepsNonce
  <2>1. ASSUME NEW m \in Mandates, NEW i \in Instructions, NEW t \in Int,
               CreateIntent(r, m, i, t)
        PROVE  FALSE
    BY <2>1 DEF CreateIntent
  <2>2. ASSUME NEW ch \in Challenges, AttachChallenge(r, ch)
        PROVE  Kept(r)
    <3>1. intents' = [intents EXCEPT ![r] = [intents[r] EXCEPT !.challenge = ch,
                          !.challengeAttachedAt = now, !.state = "CHALLENGE_ATTACHED"]]
          /\ intents[r].challenge = None /\ intents[r].challengeAttachedAt = None
      BY <2>2 DEF AttachChallenge, StateIsBacked, Backed
    <3>2. QED
      BY <3>1
  <2>3. ASSUME NEW n \in Nonce, ReserveNonce(r, n)
        PROVE  Kept(r)
    BY <2>3 DEF ReserveNonce, CanReserve, LiveNonce
  <2>4. CASE ReleaseNonce(r)
    BY <2>4 DEF ReleaseNonce, CanRelease
  <2>5. ASSUME NEW tx \in Transactions, RecordSettlement(r, tx)
        PROVE  Kept(r)
    BY <2>5 DEF RecordSettlement
  <2>6. ASSUME NEW o \in Orders, NEW tx \in Or(Transactions), RecordCapture(r, o, tx)
        PROVE  Kept(r)
    BY <2>6 DEF RecordCapture
  <2>7. ASSUME NEW o \in Orders, RecordSpend(r, o)
        PROVE  Kept(r)
    BY <2>7 DEF RecordSpend
  <2>8. ASSUME NEW d \in Decisions, NEW terms \in Or(SignedTerms),
               d = "signed" => terms # None, RecordDecision(r, d, terms)
        PROVE  Kept(r)
    <3>1. CASE d = "signed"
      BY <2>8, <3>1 DEF RecordDecision
    <3>2. CASE d # "signed"
      BY <2>8, <3>2 DEF RecordDecision
    <3>3. QED
      BY <3>1, <3>2
  <2>9. QED
    BY <2>1, <2>2, <2>3, <2>4, <2>5, <2>6, <2>7, <2>8 DEF IntentCall
<1>5. QED
  BY <1>3, <1>4

LEMMA KeepsStep ==
    ASSUME LedgerTypeOK, StateIsBacked, LedgerCall,
           NEW r \in Requests, Exists(r), intents'[r] # None
    PROVE  KeepsEvidence(intents[r], intents'[r]) /\ KeepsNonce(intents[r], intents'[r])
<1>1. CASE intents' = intents
  BY <1>1 DEF KeepsEvidence, KeepsNonce
<1>2. CASE LedgerRestart
  BY <1>2 DEF LedgerRestart, Empty
<1>3. CASE \E q \in Requests : IntentCall(q)
  BY <1>3, IntentCallKeeps
<1>4. QED
  BY <1>1, <1>2, <1>3 DEF LedgerCall, EscalationStep, Tick,
     CreateEscalation, ResolveEscalation, StorePolicy, SetStandingApproval

LEMMA QuestionStep ==
    ASSUME LedgerTypeOK, LedgerCall, NEW r \in Requests,
           escalations[r] # None, escalations'[r] # None
    PROVE  KeepsQuestion(escalations[r], escalations'[r])
<1>1. escalations[r] \in EscalationRecord
  BY DEF LedgerTypeOK, Or
<1>2. CASE escalations' = escalations
  BY <1>2 DEF KeepsQuestion
<1>3. CASE LedgerRestart
  BY <1>3 DEF LedgerRestart, Empty
<1>4. ASSUME NEW q \in Requests, EscalationStep(q)
      PROVE  KeepsQuestion(escalations[r], escalations'[r])
  BY <1>1, <1>4 DEF EscalationStep, CreateEscalation, ResolveEscalation,
     EscalationRecord, KeepsQuestion, LedgerTypeOK
<1>5. QED
  BY <1>2, <1>3, <1>4 DEF LedgerCall, IntentCall, Tick, UpdateIntent,
     CreateIntent, AttachChallenge, ReserveNonce, ReleaseNonce, RecordDecision,
     RecordSettlement, RecordCapture, RecordSpend, StorePolicy, SetStandingApproval

(* The evidence behind a receipt, and the question a human was asked, are  *)
(* written once. *)
THEOREM EvidenceIsKept == LedgerSpec => EvidenceIsWriteOnce
<1>1. LedgerTypeOK /\ StateIsBacked /\ [LedgerNext]_ledgerVars =>
         [\A r \in Requests :
            /\ (Exists(r) /\ intents'[r] # None)
                  => KeepsEvidence(intents[r], intents'[r])
            /\ (escalations[r] # None /\ escalations'[r] # None)
                  => KeepsQuestion(escalations[r], escalations'[r])]_ledgerVars
  BY KeepsStep, QuestionStep, NextIsCall
<1>2. QED
  BY <1>1, LedgerTypeCorrect, StateStaysBacked, PTL DEF LedgerSpec, EvidenceIsWriteOnce

(* A live nonce is never replaced, and only an unsigned one is released. *)
THEOREM NonceIsExclusive == LedgerSpec => LiveNonceIsExclusive
<1>1. LedgerTypeOK /\ StateIsBacked /\ [LedgerNext]_ledgerVars =>
         [\A r \in Requests : (Exists(r) /\ intents'[r] # None)
             => KeepsNonce(intents[r], intents'[r])]_ledgerVars
  BY KeepsStep, NextIsCall
<1>2. QED
  BY <1>1, LedgerTypeCorrect, StateStaysBacked, PTL DEF LedgerSpec, LiveNonceIsExclusive
=============================================================================
