--------------------------- MODULE PaymentsProofs ---------------------------
(* What the services guarantee together, for any number of handlers,       *)
(* requests and mandates, any faults and any pages scraped: types, at most *)
(* one signature for a request with its nonce burned in the ledger, the    *)
(* refinement of Authorization, and what the outcomes mean: a receipt and  *)
(* a stored approval stand for a signature, a signature is what was        *)
(* quoted, a revocation ends payments, and a nonce is locked for a reason. *)
EXTENDS Payments, LedgerProofs

(* The types of what policy-service itself keeps. *)
ServiceTypeOK ==
    /\ used \subseteq Requests
    /\ body \in [Clients -> Or(Body)]
    /\ got \in [Clients -> Got]
    /\ pc \in [Clients -> Stages]

RegistryOK == registry \in [Mandates -> RegistryEntry]

LEMMA TypeParts ==
    PaymentsTypeOK <=> RegistryOK /\ LedgerTypeOK /\ SignerTypeOK /\ ServiceTypeOK
BY DEF PaymentsTypeOK, RegistryOK, ServiceTypeOK

LEMMA NothingType == Nothing \in Got
BY DEF Nothing, Got, Or

(* An activation moves on with locals it can use. *)
LEMMA ProceedStep ==
    ASSUME ServiceTypeOK, HandlerInv, NEW c \in Clients, NEW stage \in Stages,
           NEW locals \in Got, Ready(stage, body[c], locals), Proceed(c, stage, locals)
    PROVE  ServiceTypeOK' /\ HandlerInv'
<1> DEFINE kept == IF stage \in Final THEN Nothing ELSE locals
<1>1. kept \in Got
  BY NothingType
<1>2. ServiceTypeOK'
  BY <1>1 DEF ServiceTypeOK, Proceed, Goto
<1>3. Ready(stage, body[c], kept)
  BY DEF Ready, Final, CheckStages, TailStages
<1>4. /\ pc' = [pc EXCEPT ![c] = stage] /\ got' = [got EXCEPT ![c] = kept]
      /\ body' = body
  BY DEF Proceed, Goto
<1> HIDE DEF kept
<1>5. ASSUME NEW d \in Clients
      PROVE  Ready(pc'[d], body'[d], got'[d])
  <2>1. CASE d = c
    BY <2>1, <1>3, <1>4 DEF ServiceTypeOK
  <2>2. CASE d # c
    BY <2>2, <1>4 DEF ServiceTypeOK, HandlerInv
  <2>3. QED
    BY <2>1, <2>2
<1>6. QED
  BY <1>2, <1>5 DEF HandlerInv, Ready

LEMMA Activation ==
    ASSUME ServiceTypeOK, HandlerInv, NEW c \in Clients, pc[c] # "idle"
    PROVE  /\ body[c] \in Body /\ body[c] # None
           /\ got[c] \in Got /\ Req(c) \in Requests
           /\ Ready(pc[c], body[c], got[c])
<1>1. Ready(pc[c], body[c], got[c]) /\ body[c] # None
  BY DEF HandlerInv, Ready
<1>2. body[c] \in Body
  BY <1>1 DEF ServiceTypeOK, Or
<1>3. QED
  BY <1>1, <1>2 DEF ServiceTypeOK, Body, Req

(* Everything performSigning dereferences is there. *)
LEMMA TailFacts ==
    ASSUME ServiceTypeOK, HandlerInv, NEW c \in Clients, pc[c] \in TailStages
    PROVE  /\ got[c].policy \in PolicyBodies
           /\ MandateOf(c) \in Mandates /\ ChallengeOf(c) \in Challenge
           /\ AmountOf(c) \in Amounts /\ DomainOf(c) \in Domains
           /\ NonceOf(c) \in Nonce /\ NonceOf(c).request = Req(c)
<1>1. /\ body[c] \in Body /\ body[c] # None /\ got[c] \in Got
      /\ Req(c) \in Requests /\ Ready(pc[c], body[c], got[c])
  BY Activation DEF TailStages
<1>2. got[c].policy \in PolicyBodies /\ got[c].intent \in IntentRecord
  <2>1. got[c].policy # None /\ got[c].intent # None
    BY <1>1 DEF Ready, Body
  <2>2. QED
    BY <1>1, <2>1 DEF Got, Or
<1>3. CASE IsPayment(c)
  <2>1. /\ body[c].domain # None /\ body[c].mandateId # None
        /\ body[c].challenge # None /\ body[c].requested # None
    BY <1>1, <1>3 DEF Ready, IsPayment
  <2>2. /\ MandateOf(c) \in Mandates /\ ChallengeOf(c) \in Challenge
        /\ AmountOf(c) \in Amounts /\ DomainOf(c) \in Domains
    BY <1>1, <1>3, <2>1 DEF Body, Or, MandateOf, ChallengeOf, AmountOf, DomainOf
  <2>3. QED
    BY <1>1, <1>2, <2>2 DEF NonceOf, CommitmentNonce, Nonce, IntentRecord
<1>4. CASE ~IsPayment(c)
  <2>1. got[c].escalation # None /\ got[c].intent.challenge # None
    BY <1>1, <1>4 DEF Ready, IsPayment, Body
  <2>2. got[c].escalation \in EscalationRecord /\ got[c].intent.challenge \in Challenge
    BY <1>1, <1>2, <2>1, ContractsAssumption DEF Got, Or, IntentRecord
  <2>3. /\ MandateOf(c) \in Mandates /\ ChallengeOf(c) \in Challenge
        /\ AmountOf(c) \in Amounts /\ DomainOf(c) \in Domains
    BY <1>4, <2>2 DEF EscalationRecord, Challenge, MandateOf, ChallengeOf, AmountOf,
                      DomainOf
  <2>4. QED
    BY <1>1, <1>2, <2>3 DEF NonceOf, CommitmentNonce, Nonce, IntentRecord
<1>5. QED
  BY <1>3, <1>4

LEMMA TypedDataType ==
    ASSUME ServiceTypeOK, HandlerInv, NEW c \in Clients, pc[c] \in TailStages
    PROVE  /\ TypedData(c) \in SignRequest
           /\ TypedData(c).requestId = Req(c)
           /\ TypedData(c).nonce.request = Req(c)
<1>1. Req(c) \in Requests
  BY Activation DEF TailStages
<1>2. /\ got[c].policy \in PolicyBody /\ MandateOf(c) \in Mandates
      /\ ChallengeOf(c) \in Challenge /\ AmountOf(c) \in Amounts
      /\ NonceOf(c) \in Nonce /\ NonceOf(c).request = Req(c)
  BY TailFacts, ContractsAssumption
<1>3. AuthWindow(got[c].policy, ChallengeOf(c)) \in Durations
  BY <1>2 DEF AuthWindow, Lesser, PolicyBody, Challenge
<1>4. QED
  BY <1>1, <1>2, <1>3, PaymentsAssumption
     DEF TypedData, SignRequest, PolicyBody, Challenge
-----------------------------------------------------------------------------
(* Type correctness, with HandlerInv, step by step. *)
Base ==
    RegistryOK /\ LedgerTypeOK /\ SignerTypeOK /\ ServiceTypeOK /\ HandlerInv

LEMMA ReadsOnlyTypes ==
    ASSUME RegistryOK, LedgerTypeOK, SignerTypeOK, ReadsOnly
    PROVE  RegistryOK' /\ LedgerTypeOK' /\ SignerTypeOK'
BY DEF RegistryOK, LedgerTypeOK, SignerTypeOK, ReadsOnly, ledgerVars, signerVars

LEMMA LedgerOnlyTypes ==
    ASSUME RegistryOK, SignerTypeOK, LedgerOnly
    PROVE  RegistryOK' /\ SignerTypeOK'
BY DEF RegistryOK, SignerTypeOK, LedgerOnly, signerVars

LEMMA LedgerUnchangedType ==
    ASSUME LedgerTypeOK, UNCHANGED ledgerVars
    PROVE  LedgerTypeOK'
BY DEF LedgerTypeOK, ledgerVars

(* A step of an activation that only reads. *)
LEMMA ReadStep ==
    ASSUME Base, NEW c \in Clients, NEW stage \in Stages, NEW locals \in Got,
           Ready(stage, body[c], locals), ReadsOnly, Proceed(c, stage, locals)
    PROVE  Base'
BY ReadsOnlyTypes, ProceedStep DEF Base

LEMMA GetIntentType ==
    ASSUME Base, NEW c \in Clients, GetIntent(c)
    PROVE  Base'
<1>1. /\ body[c] \in Body /\ body[c] # None /\ got[c] \in Got
      /\ Req(c) \in Requests /\ Ready("getIntent", body[c], got[c])
  BY Activation DEF Base, GetIntent, At
<1> DEFINE found == Exists(Req(c)) /\ body[c].domain # None
           stage == IF found THEN "getPolicy" ELSE "recordRefused"
           locals == [got[c] EXCEPT !.intent = intents[Req(c)]]
<1>2. intents[Req(c)] \in Or(IntentRecord)
  BY <1>1 DEF Base, LedgerTypeOK
<1>3. locals \in Got
  BY <1>1, <1>2 DEF Got
<1>4. stage \in Stages /\ Ready(stage, body[c], locals)
  BY <1>1 DEF Stages, Ready, CheckStages, TailStages, Exists, Got
<1>5. ReadsOnly /\ Proceed(c, stage, locals)
  BY DEF GetIntent
<1>6. QED
  BY <1>3, <1>4, <1>5, ReadStep

LEMMA GetPolicyType ==
    ASSUME Base, NEW c \in Clients, GetPolicy(c)
    PROVE  Base'
<1>1. /\ body[c] \in Body /\ body[c] # None /\ got[c] \in Got
      /\ Ready("getPolicy", body[c], got[c])
  BY Activation DEF Base, GetPolicy, At
<1> DEFINE record == policies[body[c].mandateId]
           locals == [got[c] EXCEPT !.policy = record.policy]
<1>2. body[c].mandateId \in Mandates
  BY <1>1 DEF Ready, CheckStages, Body, Or
<1>3. record \in Or(PolicyRecord)
  BY <1>2 DEF Base, LedgerTypeOK
<1>4. CASE record = None
  <2>1. Ready("rejected", body[c], got[c]) /\ "rejected" \in Stages
    BY <1>1 DEF Ready, CheckStages, TailStages, Stages, Final
  <2>2. QED
    BY <1>1, <1>4, <2>1, ReadStep DEF GetPolicy
<1>5. CASE record # None
  <2>1. record.policy \in PolicyBodies /\ record.policy # None
    BY <1>3, <1>5, ContractsAssumption DEF PolicyRecord, Or
  <2>2. locals \in Got /\ Ready("getWindow", body[c], locals)
    BY <1>1, <2>1 DEF Got, Or, Ready, CheckStages, TailStages
  <2>3. ReadsOnly /\ Proceed(c, "getWindow", locals) /\ "getWindow" \in Stages
    BY <1>5 DEF GetPolicy, Stages
  <2>4. QED
    BY <2>2, <2>3, ReadStep
<1>6. QED
  BY <1>4, <1>5

LEMMA GetWindowUsageType ==
    ASSUME Base, NEW c \in Clients, GetWindowUsage(c)
    PROVE  Base'
<1>1. /\ body[c] \in Body /\ body[c] # None /\ got[c] \in Got
      /\ Ready("getWindow", body[c], got[c])
  BY Activation DEF Base, GetWindowUsage, At
<1> DEFINE window == WindowUsage(body[c].mandateId, got[c].policy.windowSeconds)
           locals == [got[c] EXCEPT !.window = window]
<1>2. ASSUME NEW q \in Requests, Exists(q), intents[q].challenge # None
      PROVE  intents[q].challenge.amount \in Amounts
  BY <1>2, ContractsAssumption
     DEF Base, LedgerTypeOK, Exists, Or, IntentRecord, Challenge
<1>3. window \subseteq [requestId : Requests, amount : Amounts]
  BY <1>2 DEF WindowUsage, Counted
<1>4. locals \in Got
  BY <1>1, <1>3 DEF Got
<1>5. Ready("getMandate", body[c], locals)
  BY <1>1 DEF Ready, CheckStages, TailStages, Got
<1>6. ReadsOnly /\ Proceed(c, "getMandate", locals) /\ "getMandate" \in Stages
  BY DEF GetWindowUsage, Stages
<1>7. QED
  BY <1>4, <1>5, <1>6, ReadStep

LEMMA RunChecksType ==
    ASSUME Base, NEW c \in Clients, RunChecks(c)
    PROVE  Base'
<1>1. /\ body[c] \in Body /\ body[c] # None /\ got[c] \in Got
      /\ Ready("getMandate", body[c], got[c])
  BY Activation DEF Base, RunChecks, At
<1> DEFINE asks == [got[c] EXCEPT !.reason = "WINDOW_BUDGET_EXCEEDED"]
<1>2. asks \in Got /\ Ready("createEscalation", body[c], asks)
  BY <1>1, LedgerAssumption
     DEF Got, Or, Reasons, Ready, CheckStages, TailStages
<1>3. /\ Ready("getStanding", body[c], got[c])
      /\ Ready("recordRefused", body[c], got[c])
  BY <1>1 DEF Ready, CheckStages, TailStages
<1>4. {"createEscalation", "getStanding", "recordRefused"} \subseteq Stages
  BY DEF Stages
<1>5. QED
  BY <1>1, <1>2, <1>3, <1>4, ReadStep DEF RunChecks

LEMMA MatchIntentType ==
    ASSUME Base, NEW c \in Clients, MatchIntent(c)
    PROVE  Base'
<1>1. /\ body[c] \in Body /\ body[c] # None /\ got[c] \in Got
      /\ Ready("getStanding", body[c], got[c])
  BY Activation DEF Base, MatchIntent, At
<1> DEFINE asks == [got[c] EXCEPT !.reason = "INTENT_MISMATCH"]
<1>2. asks \in Got /\ Ready("createEscalation", body[c], asks)
  BY <1>1, LedgerAssumption
     DEF Got, Or, Reasons, Ready, CheckStages, TailStages
<1>3. Ready("reserve", body[c], got[c])
  BY <1>1 DEF Ready, CheckStages, TailStages
<1>4. {"createEscalation", "reserve"} \subseteq Stages
  BY DEF Stages
<1>5. QED
  BY <1>1, <1>2, <1>3, <1>4, ReadStep DEF MatchIntent

LEMMA EscalateType ==
    ASSUME Base, NEW c \in Clients, Escalate(c)
    PROVE  Base'
<1>1. /\ body[c] \in Body /\ body[c] # None /\ got[c] \in Got /\ Req(c) \in Requests
      /\ Ready("createEscalation", body[c], got[c])
  BY Activation DEF Base, Escalate, At
<1>2. /\ body[c].mandateId \in Mandates /\ got[c].reason \in Reasons
      /\ body[c].domain \in Domains
  BY <1>1 DEF Ready, CheckStages, Body, Got, Or
<1>3. LedgerTypeOK'
  BY <1>1, <1>2, CreateEscalationType DEF Escalate, Base
<1>4. Ready("recordEscalated", body[c], got[c]) /\ "recordEscalated" \in Stages
  BY <1>1 DEF Ready, CheckStages, TailStages, Stages
<1>5. QED
  BY <1>1, <1>3, <1>4, ProceedStep, LedgerOnlyTypes DEF Escalate, Base

LEMMA RecordOrFailType ==
    ASSUME Base, NEW c \in Clients, pc[c] # "idle", NEW decision \in Decisions,
           NEW terms, decision = "signed" => terms \in SignedTerms,
           NEW next \in Stages, Ready(next, body[c], got[c]),
           RecordOrFail(c, decision, terms, next)
    PROVE  Base'
<1>1. body[c] # None /\ got[c] \in Got /\ Req(c) \in Requests
  BY Activation DEF Base
<1>2. LedgerTypeOK'
  BY <1>1, RecordDecisionType, LedgerUnchangedType DEF RecordOrFail, Base
<1>3. Ready("failed", body[c], got[c]) /\ "failed" \in Stages
  BY <1>1 DEF Ready, CheckStages, TailStages, Stages, Final, Base, HandlerInv
<1>4. QED
  BY <1>1, <1>2, <1>3, ProceedStep, LedgerOnlyTypes DEF RecordOrFail, Base

LEMMA RecordEscalatedType ==
    ASSUME Base, NEW c \in Clients, RecordEscalated(c)
    PROVE  Base'
<1>1. /\ body[c] # None /\ pc[c] # "idle"
      /\ Ready("recordEscalated", body[c], got[c])
  BY Activation DEF Base, RecordEscalated, At
<1>2. Ready("escalated", body[c], got[c]) /\ "escalated" \in Stages
  BY <1>1 DEF Ready, CheckStages, TailStages, Stages, Final
<1>3. QED
  BY <1>1, <1>2, RecordOrFailType DEF RecordEscalated, Decisions

LEMMA RecordRefusedType ==
    ASSUME Base, NEW c \in Clients, RecordRefused(c)
    PROVE  Base'
<1>1. /\ body[c] # None /\ pc[c] # "idle"
      /\ Ready("recordRefused", body[c], got[c])
  BY Activation DEF Base, RecordRefused, At
<1>2. RefusalOf(got[c].because) \in {"refused", "expired", "rejected"}
  BY DEF RefusalOf, Base, ServiceTypeOK, Got
<1>3. /\ Ready(RefusalOf(got[c].because), body[c], got[c])
      /\ RefusalOf(got[c].because) \in Stages
  BY <1>1, <1>2 DEF Ready, CheckStages, TailStages, Stages, Final
<1>4. QED
  BY <1>1, <1>3, RecordOrFailType DEF RecordRefused, Decisions

(* Where performSigning's refusals lead. *)
LEMMA AfterRefusal ==
    ASSUME Base, NEW c \in Clients, pc[c] \in TailStages
    PROVE  LET locals == [got[c] EXCEPT !.because = "signer"] IN
           /\ AfterRefusedSigning(c) \in Stages
           /\ locals \in Got
           /\ Ready(AfterRefusedSigning(c), body[c], locals)
<1>1. /\ body[c] \in Body /\ body[c] # None /\ got[c] \in Got
      /\ Ready(pc[c], body[c], got[c])
  BY Activation DEF Base, TailStages
<1>2. [got[c] EXCEPT !.because = "signer"] \in Got
  BY <1>1 DEF Got
<1>3. QED
  BY <1>1, <1>2 DEF AfterRefusedSigning, Stages, Ready, CheckStages, TailStages, Body,
                    IsPayment

LEMMA ReserveType ==
    ASSUME Base, NEW c \in Clients, Reserve(c)
    PROVE  Base'
<1>1. pc[c] = "reserve" /\ pc[c] \in TailStages
  BY DEF Reserve, At, TailStages
<1>2. /\ body[c] # None /\ got[c] \in Got /\ Req(c) \in Requests
      /\ Ready("reserve", body[c], got[c])
  BY <1>1, Activation DEF Base
<1>3. NonceOf(c) \in Nonce
  BY <1>1, TailFacts DEF Base
<1>4. LedgerTypeOK'
  BY <1>2, <1>3, ReserveNonceType, LedgerUnchangedType DEF Reserve, Base
<1>5. Ready("sign", body[c], got[c]) /\ "sign" \in Stages
  BY <1>2 DEF Ready, CheckStages, TailStages, Stages
<1>6. QED
  BY <1>1, <1>2, <1>4, <1>5, AfterRefusal, ProceedStep, LedgerOnlyTypes DEF Reserve, Base

LEMMA CallSignerType ==
    ASSUME Base, NEW c \in Clients, CallSigner(c)
    PROVE  Base'
<1>1. pc[c] = "sign" /\ pc[c] \in TailStages
  BY DEF CallSigner, At, TailStages
<1>2. /\ body[c] # None /\ got[c] \in Got /\ Ready("sign", body[c], got[c])
  BY <1>1, Activation DEF Base
<1>3. TypedData(c) \in SignRequest
  BY <1>1, TypedDataType DEF Base
<1>4. SignerTypeOK'
  BY <1>3 DEF CallSigner, Sign, SignerTypeOK, signerVars, Base
<1>5. RegistryOK' /\ LedgerTypeOK'
  BY LedgerUnchangedType DEF CallSigner, RegistryOK, Base
<1>6. /\ Ready("signing", body[c], got[c]) /\ "signing" \in Stages
      /\ Ready("release", body[c], got[c]) /\ "release" \in Stages
  BY <1>2 DEF Ready, CheckStages, TailStages, Stages
<1>7. QED
  BY <1>2, <1>4, <1>5, <1>6, ProceedStep DEF CallSigner, Base

LEMMA ReleaseType ==
    ASSUME Base, NEW c \in Clients, Release(c)
    PROVE  Base'
<1>1. pc[c] = "release" /\ pc[c] \in TailStages
  BY DEF Release, At, TailStages
<1>2. Req(c) \in Requests
  BY <1>1, Activation DEF Base
<1>3. LedgerTypeOK'
  BY <1>2, ReleaseNonceType, LedgerUnchangedType DEF Release, Base
<1>4. QED
  BY <1>1, <1>3, AfterRefusal, ProceedStep, LedgerOnlyTypes DEF Release, Base

LEMMA RecordSignedType ==
    ASSUME Base, NEW c \in Clients, RecordSigned(c)
    PROVE  Base'
<1>1. pc[c] = "recordSigned" /\ pc[c] \in TailStages
  BY DEF RecordSigned, At, TailStages
<1>2. /\ body[c] \in Body /\ body[c] # None /\ pc[c] # "idle"
      /\ Ready("recordSigned", body[c], got[c])
  BY <1>1, Activation DEF Base
<1> DEFINE terms == [policyHash |-> got[c].policy, merchantDomain |-> DomainOf(c)]
           next == IF body[c].standing /\ got[c].escalation.reason = "INTENT_MISMATCH"
                   THEN "setStanding" ELSE "signed"
<1>3. terms \in SignedTerms
  BY <1>1, TailFacts DEF Base, SignedTerms, Or
<1>4. next \in Stages /\ Ready(next, body[c], got[c])
  BY <1>2 DEF Ready, CheckStages, TailStages, Stages, Final, Body
<1>5. RecordOrFail(c, "signed", terms, next) /\ "signed" \in Decisions
  BY DEF RecordSigned, Decisions
<1>6. QED
  BY <1>2, <1>3, <1>4, <1>5, RecordOrFailType

LEMMA GetEscalationType ==
    ASSUME Base, NEW c \in Clients, GetEscalation(c)
    PROVE  Base'
<1>1. /\ body[c] \in Body /\ body[c] # None /\ got[c] \in Got /\ Req(c) \in Requests
      /\ Ready("getEscalation", body[c], got[c])
  BY Activation DEF Base, GetEscalation, At
<1> DEFINE e == escalations[Req(c)]
           read == [got[c] EXCEPT !.escalation = e]
           late == [read EXCEPT !.because = "expired"]
<1>2. e \in Or(EscalationRecord)
  BY <1>1 DEF Base, LedgerTypeOK
<1>3. read \in Got /\ late \in Got
  BY <1>1, <1>2 DEF Got
<1>4. /\ Ready("rejected", body[c], got[c])
      /\ Ready("denyStorage", body[c], late)
      /\ e # None => Ready("resolvePolicy", body[c], read)
  BY <1>1 DEF Ready, CheckStages, TailStages, Got
<1>5. {"rejected", "denyStorage", "resolvePolicy"} \subseteq Stages
  BY DEF Stages, Final
<1>6. QED
  BY <1>1, <1>3, <1>4, <1>5, ReadStep DEF GetEscalation

LEMMA ResolvePolicyType ==
    ASSUME Base, NEW c \in Clients, ResolvePolicy(c)
    PROVE  Base'
<1>1. /\ body[c] \in Body /\ body[c] # None /\ got[c] \in Got
      /\ Ready("resolvePolicy", body[c], got[c])
  BY Activation DEF Base, ResolvePolicy, At
<1> DEFINE record == policies[got[c].escalation.mandateId]
           denied == [got[c] EXCEPT !.because = "denied"]
           read == [got[c] EXCEPT !.policy = record.policy]
<1>2. got[c].escalation.mandateId \in Mandates
  BY <1>1 DEF Ready, Body, Got, Or, EscalationRecord
<1>3. record # None => record.policy \in PolicyBodies /\ record.policy # None
  BY <1>2, ContractsAssumption DEF Base, LedgerTypeOK, Or, PolicyRecord
<1>4. denied \in Got /\ (record # None => read \in Got)
  BY <1>1, <1>3 DEF Got, Or
<1>5. /\ Ready("rejected", body[c], got[c])
      /\ Ready("denyStorage", body[c], denied)
      /\ record # None => Ready("resolveIntent", body[c], read)
  BY <1>1, <1>3 DEF Ready, CheckStages, TailStages, Got
<1>6. {"rejected", "denyStorage", "resolveIntent"} \subseteq Stages
  BY DEF Stages, Final
<1>7. QED
  BY <1>1, <1>4, <1>5, <1>6, ReadStep DEF ResolvePolicy

LEMMA ResolveIntentType ==
    ASSUME Base, NEW c \in Clients, ResolveIntent(c)
    PROVE  Base'
<1>1. /\ body[c] \in Body /\ body[c] # None /\ got[c] \in Got /\ Req(c) \in Requests
      /\ Ready("resolveIntent", body[c], got[c])
  BY Activation DEF Base, ResolveIntent, At
<1> DEFINE bound == Exists(Req(c)) /\ intents[Req(c)].challenge # None
           read == [got[c] EXCEPT !.intent = intents[Req(c)]]
<1>2. intents[Req(c)] \in Or(IntentRecord)
  BY <1>1 DEF Base, LedgerTypeOK
<1>3. read \in Got
  BY <1>1, <1>2 DEF Got
<1>4. /\ Ready("rejected", body[c], got[c])
      /\ bound => Ready("reserve", body[c], read)
  BY <1>1 DEF Ready, CheckStages, TailStages, Got, Exists
<1>5. {"rejected", "reserve"} \subseteq Stages
  BY DEF Stages, Final
<1>6. QED
  BY <1>1, <1>3, <1>4, <1>5, ReadStep DEF ResolveIntent

LEMMA StoreVerdictType ==
    ASSUME Base, NEW c \in Clients, pc[c] # "idle", NEW verdict \in {"approve", "deny"},
           NEW next \in Stages, Ready(next, body[c], got[c]),
           StoreVerdict(c, verdict, next)
    PROVE  Base'
<1>1. /\ body[c] # None /\ got[c] \in Got /\ Req(c) \in Requests
      /\ Ready(pc[c], body[c], got[c])
  BY Activation DEF Base
<1>2. LedgerTypeOK'
  BY <1>1, ResolveEscalationType, LedgerUnchangedType DEF StoreVerdict, Base
<1>3. Ready("failed", body[c], got[c]) /\ "failed" \in Stages
  BY <1>1 DEF Ready, CheckStages, TailStages, Stages, Final
<1>4. QED
  BY <1>1, <1>2, <1>3, ProceedStep, LedgerOnlyTypes DEF StoreVerdict, Base

LEMMA VerdictTypes ==
    ASSUME Base, NEW c \in Clients, DenyStorage(c) \/ ApproveStorage(c)
    PROVE  Base'
<1>1. /\ body[c] # None /\ pc[c] # "idle" /\ Ready(pc[c], body[c], got[c])
  BY Activation DEF Base, DenyStorage, ApproveStorage, At
<1>2. CASE DenyStorage(c)
  <2>1. Ready("recordRefused", body[c], got[c]) /\ "recordRefused" \in Stages
    BY <1>1, <1>2 DEF Ready, CheckStages, TailStages, Stages, DenyStorage, At
  <2>2. QED
    BY <1>1, <1>2, <2>1, StoreVerdictType DEF DenyStorage
<1>3. CASE ApproveStorage(c)
  <2>1. Ready("recordSigned", body[c], got[c]) /\ "recordSigned" \in Stages
    BY <1>1, <1>3 DEF Ready, CheckStages, TailStages, Stages, ApproveStorage, At
  <2>2. QED
    BY <1>1, <1>3, <2>1, StoreVerdictType DEF ApproveStorage
<1>4. QED
  BY <1>2, <1>3

LEMMA SetStandingType ==
    ASSUME Base, NEW c \in Clients, SetStanding(c)
    PROVE  Base'
<1>1. pc[c] = "setStanding" /\ pc[c] \in TailStages
  BY DEF SetStanding, At, TailStages
<1>2. /\ body[c] # None /\ got[c] \in Got /\ Ready("setStanding", body[c], got[c])
  BY <1>1, Activation DEF Base
<1>3. now + got[c].policy.windowSeconds \in Int
  BY <1>1, TailFacts, ContractsAssumption DEF Base, LedgerTypeOK, PolicyBody
<1>4. LedgerTypeOK'
  BY <1>3, SetStandingApprovalType DEF SetStanding, Base
<1>5. Ready("signed", body[c], got[c]) /\ "signed" \in Stages
  BY <1>2 DEF Ready, CheckStages, TailStages, Stages, Final
<1>6. QED
  BY <1>2, <1>4, <1>5, ProceedStep, LedgerOnlyTypes DEF SetStanding, Base

(* The key source answers a handler, or nobody. *)
LEMMA HearsStep ==
    ASSUME ServiceTypeOK, HandlerInv, NEW c \in Clients,
           NEW stage \in {"recordSigned", "approveStorage", "release"},
           (stage = "approveStorage") => ~IsPayment(c), Hears(c, stage)
    PROVE  ServiceTypeOK' /\ HandlerInv'
<1>1. CASE ~At(c, "signing")
  BY <1>1 DEF Hears, serviceVars, ServiceTypeOK, HandlerInv, Ready
<1>2. CASE At(c, "signing")
  <2>1. /\ body[c] \in Body /\ body[c] # None /\ got[c] \in Got
        /\ Ready("signing", body[c], got[c])
    BY <1>2, Activation DEF At
  <2>2. Ready(stage, body[c], got[c]) /\ stage \in Stages
    BY <2>1 DEF Ready, CheckStages, TailStages, Stages, IsPayment, Body
  <2>3. QED
    BY <1>2, <2>1, <2>2, ProceedStep DEF Hears
<1>3. QED
  BY <1>1, <1>2

LEMMA SignerStepType ==
    ASSUME Base, NEW c \in Clients, SignerStep(c)
    PROVE  Base'
<1>1. RegistryOK' /\ LedgerTypeOK'
  BY LedgerUnchangedType DEF SignerStep, SignerSigns, SignerFails, RegistryOK, Base
<1>2. SignerTypeOK'
  <2>1. signing[c] # None => signing[c] \in SignRequest /\ signing[c].requestId \in Requests
    BY DEF SignerTypeOK, SignRequest, Base
  <2>2. QED
    BY <2>1 DEF SignerStep, SignerSigns, SignerFails, KeySigns, KeyFails, SignerTypeOK, Base
<1>3. ServiceTypeOK' /\ HandlerInv'
  BY HearsStep DEF SignerStep, SignerSigns, SignerFails, Base
<1>4. QED
  BY <1>1, <1>2, <1>3 DEF Base

LEMMA StopStep ==
    ASSUME ServiceTypeOK, HandlerInv, NEW S \in SUBSET Clients,
           \A c \in S : pc[c] # "idle", Stop(S)
    PROVE  ServiceTypeOK' /\ HandlerInv'
<1>1. ServiceTypeOK'
  BY NothingType DEF Stop, ServiceTypeOK, Stages, Final
<1>2. ASSUME NEW c \in Clients
      PROVE  Ready(pc'[c], body'[c], got'[c])
  <2>1. Ready(pc[c], body[c], got[c])
    BY DEF HandlerInv
  <2>2. CASE c \in S
    <3>1. Ready("failed", body[c], Nothing)
      BY <2>1, <2>2 DEF Ready, CheckStages, TailStages
    <3>2. QED
      BY <2>2, <3>1 DEF Stop
  <2>3. CASE c \notin S
    BY <2>1, <2>3 DEF Stop
  <2>4. QED
    BY <2>2, <2>3
<1>3. QED
  BY <1>1, <1>2 DEF HandlerInv, Ready

LEMMA FaultStepType ==
    ASSUME Base, FaultStep
    PROVE  Base'
<1>1. CASE HandlerDies
  <2>1. PICK c \in Clients : pc[c] \notin Final \cup {"idle"} /\ Stop({c})
    BY <1>1 DEF HandlerDies
  <2>2. ServiceTypeOK' /\ HandlerInv'
    BY <2>1, StopStep DEF Base
  <2>3. QED
    BY <1>1, <2>2, ReadsOnlyTypes DEF HandlerDies, Base
<1>2. CASE SignerUnreachable
  <2>1. PICK c \in Clients : At(c, "sign") /\ Stop({c})
    BY <1>2 DEF SignerUnreachable
  <2>2. ServiceTypeOK' /\ HandlerInv'
    BY <2>1, StopStep DEF Base, At
  <2>3. QED
    BY <1>2, <2>2, ReadsOnlyTypes DEF SignerUnreachable, Base
<1>3. CASE SignerGoesDown
  <2>1. ServiceTypeOK' /\ HandlerInv'
    BY <1>3, StopStep DEF SignerGoesDown, Base, At
  <2>2. SignerTypeOK'
    BY <1>3 DEF SignerGoesDown, SignerRestart, SignerTypeOK, Base
  <2>3. QED
    BY <1>3, <2>1, <2>2, LedgerUnchangedType DEF SignerGoesDown, RegistryOK, Base
<1>4. CASE LedgerGoesDown
  <2>1. LedgerTypeOK'
    BY <1>4, LedgerRestartType DEF LedgerGoesDown, Base
  <2>2. ServiceTypeOK' /\ HandlerInv' /\ RegistryOK' /\ SignerTypeOK'
    BY <1>4 DEF LedgerGoesDown, Base, ServiceTypeOK, HandlerInv, Ready, RegistryOK,
                SignerTypeOK, serviceVars, signerVars
  <2>3. QED
    BY <2>1, <2>2 DEF Base
<1>5. QED
  BY <1>1, <1>2, <1>3, <1>4 DEF FaultStep

(* A new activation, idle until now. *)
LEMMA BeginType ==
    ASSUME Base, NEW c \in Clients, NEW b \in Body, NEW stage \in Stages,
           Ready(stage, b, got[c]), Begin(c, b, stage)
    PROVE  Base'
<1>1. b.request \in Requests
  BY DEF Body
<1>2. ServiceTypeOK'
  BY <1>1 DEF Begin, Goto, ServiceTypeOK, Or, Base
<1>3. ASSUME NEW d \in Clients
      PROVE  Ready(pc'[d], body'[d], got'[d])
  <2>1. CASE d = c
    BY <2>1 DEF Begin, Goto, Base, ServiceTypeOK
  <2>2. CASE d # c
    BY <2>2 DEF Begin, Goto, Base, ServiceTypeOK, HandlerInv
  <2>3. QED
    BY <2>1, <2>2
<1>4. RegistryOK' /\ LedgerTypeOK' /\ SignerTypeOK'
  BY ReadsOnlyTypes DEF Begin, ReadsOnly, Base
<1>5. QED
  BY <1>2, <1>3, <1>4 DEF Base, HandlerInv, Ready

LEMMA RequestPaymentBegins ==
    ASSUME Base, NEW c \in Clients, RequestPayment(c)
    PROVE  /\ Base'
           /\ \E b \in Body : Begin(c, b, "getIntent")
<1>a. PICK r \in Requests, m \in Mandates, dom \in SentDomains, matches \in BOOLEAN :
           \E quote \in Quoted(r) : \E ch \in Poisoned(quote) :
               \E a \in {ch.amount} \cup AmountOverrides :
                  Begin(c, PaymentBody(r, m, ch, a, dom, matches), "getIntent")
  BY DEF RequestPayment
<1>b. PICK quote \in Quoted(r) : \E ch \in Poisoned(quote) :
               \E a \in {ch.amount} \cup AmountOverrides :
                  Begin(c, PaymentBody(r, m, ch, a, dom, matches), "getIntent")
  BY <1>a
<1>c. PICK ch \in Poisoned(quote) : \E a \in {ch.amount} \cup AmountOverrides :
              Begin(c, PaymentBody(r, m, ch, a, dom, matches), "getIntent")
  BY <1>b
<1>1. PICK a \in {ch.amount} \cup AmountOverrides :
              Begin(c, PaymentBody(r, m, ch, a, dom, matches), "getIntent")
  BY <1>c
<1>2. ch \in Challenge
  <2>1. quote \in Challenge
    <3>1. CASE Exists(r)
      <4>1. intents[r].challenge \in Or(Challenges)
        BY <3>1 DEF Base, LedgerTypeOK, Exists, Or, IntentRecord
      <4>2. QED
        BY <3>1, <4>1, ContractsAssumption DEF Quoted, Or
    <3>2. CASE ~Exists(r)
      BY <3>2, ContractsAssumption DEF Quoted
    <3>3. QED
      BY <3>1, <3>2
  <2>2. QED
    BY <2>1, PaymentsAssumption DEF Poisoned, Challenge
<1>3. a \in Amounts
  BY <1>2, PaymentsAssumption DEF Challenge
<1>4. registry[m].revoked \in BOOLEAN
  BY DEF Base, RegistryOK, RegistryEntry
<1> DEFINE b == PaymentBody(r, m, ch, a, dom, matches)
<1>5. b \in Body
  BY <1>2, <1>3, <1>4, PaymentsAssumption DEF Body, Or, PaymentBody
<1>6. Ready("getIntent", b, got[c]) /\ "getIntent" \in Stages
  BY <1>2, <1>3, <1>5, ContractsAssumption, PaymentsAssumption
     DEF Ready, CheckStages, TailStages, Stages, PaymentBody
<1>7. QED
  BY <1>1, <1>5, <1>6, BeginType

LEMMA ResolveRequestBegins ==
    ASSUME Base, NEW c \in Clients, ResolveRequest(c)
    PROVE  /\ Base'
           /\ \E b \in Body : Begin(c, b, "getEscalation")
<1>1. PICK r \in used, verdict \in {"approve", "deny"}, byOwner \in BOOLEAN,
           standing \in BOOLEAN :
           Begin(c, ResolveBody(r, verdict, byOwner, standing), "getEscalation")
  BY DEF ResolveRequest
<1> DEFINE b == ResolveBody(r, verdict, byOwner, standing)
<1>2. r \in Requests
  BY DEF Base, ServiceTypeOK
<1>3. b \in Body
  BY <1>2 DEF Body, Or, ResolveBody
<1>4. Ready("getEscalation", b, got[c]) /\ "getEscalation" \in Stages
  BY <1>3, PaymentsAssumption DEF Ready, CheckStages, TailStages, Stages, ResolveBody
<1>5. QED
  BY <1>1, <1>3, <1>4, BeginType

LEMMA EnvironmentType ==
    ASSUME Base, Environment
    PROVE  Base'
<1> USE DEF Base
<1>1. CASE NewIntent
  <2>1. PICK r \in Requests \ used, m \in Mandates, i \in Instructions, t \in {now - 1, now} :
            CreateIntent(r, m, i, t) /\ used' = used \cup {r}
    BY <1>1 DEF NewIntent
  <2>2. t \in Int
    BY DEF LedgerTypeOK
  <2>3. LedgerTypeOK'
    BY <2>1, <2>2, CreateIntentType
  <2>4. ServiceTypeOK' /\ HandlerInv' /\ RegistryOK' /\ SignerTypeOK'
    BY <1>1, <2>1 DEF NewIntent, ServiceTypeOK, HandlerInv, Ready, RegistryOK,
                      SignerTypeOK, signerVars
  <2>5. QED
    BY <2>3, <2>4
<1>2. ASSUME UNCHANGED <<registry, signerVars, serviceVars>>, LedgerTypeOK'
      PROVE  Base'
  BY <1>2 DEF ServiceTypeOK, HandlerInv, Ready, RegistryOK, SignerTypeOK, signerVars,
              serviceVars
<1>3. CASE ChallengeQuoted
  BY <1>2, <1>3, AttachChallengeType DEF ChallengeQuoted
<1>4. CASE OwnerRevokes
  <2>1. RegistryOK'
    BY <1>4 DEF OwnerRevokes, Revoke, RegistryOK, RegistryEntry
  <2>2. ServiceTypeOK' /\ HandlerInv' /\ LedgerTypeOK' /\ SignerTypeOK'
    BY <1>4, LedgerUnchangedType
       DEF OwnerRevokes, ServiceTypeOK, HandlerInv, Ready, SignerTypeOK, signerVars,
           serviceVars
  <2>3. QED
    BY <2>1, <2>2
<1>5. CASE PutPolicy
  BY <1>2, <1>5, StorePolicyType DEF PutPolicy
<1>6. CASE TimePasses
  <2>1. LedgerTypeOK'
    BY <1>6 DEF TimePasses, Tick, LedgerTypeOK
  <2>2. QED
    BY <1>2, <1>6, <2>1 DEF TimePasses
<1>7. ASSUME NEW c \in Clients, RequestPayment(c) \/ ResolveRequest(c)
      PROVE  Base'
  BY <1>7, RequestPaymentBegins, ResolveRequestBegins
<1>8. QED
  BY <1>1, <1>3, <1>4, <1>5, <1>6, <1>7 DEF Environment

LEMMA HandlerStepType ==
    ASSUME Base, NEW c \in Clients, HandlerStep(c)
    PROVE  Base'
BY GetIntentType, GetPolicyType, GetWindowUsageType, RunChecksType, MatchIntentType,
   EscalateType, RecordEscalatedType, RecordRefusedType, ReserveType, CallSignerType,
   ReleaseType, RecordSignedType, GetEscalationType, ResolvePolicyType,
   ResolveIntentType, VerdictTypes, SetStandingType
   DEF HandlerStep

LEMMA BaseStep ==
    ASSUME Base, [PaymentsNext]_vars
    PROVE  Base'
<1>1. CASE UNCHANGED vars
  <2>1. UNCHANGED <<registry, ledgerVars, signerVars, serviceVars>>
    BY <1>1 DEF vars
  <2>2. LedgerTypeOK'
    BY <2>1, LedgerUnchangedType DEF Base
  <2>3. QED
    BY <2>1, <2>2 DEF Base, ServiceTypeOK, HandlerInv, Ready, RegistryOK, SignerTypeOK,
                      signerVars, serviceVars
<1>2. QED
  BY <1>1, HandlerStepType, SignerStepType, EnvironmentType, FaultStepType
     DEF PaymentsNext

LEMMA InitBase == PaymentsInit => Base
<1> SUFFICES ASSUME PaymentsInit PROVE Base
  OBVIOUS
<1>1. LedgerTypeOK
  BY LedgerInitType DEF PaymentsInit
<1>2. SignerTypeOK
  BY DEF PaymentsInit, SignerInit, SignerTypeOK
<1>3. RegistryOK
  <2>1. ZeroEntry \in RegistryEntry
    BY DEF ZeroEntry, RegistryEntry
  <2>2. ASSUME NEW e \in [owner : {Owner}, policyHash : PolicyBodies,
                          expiresAt : ExpiryTimes, revoked : {FALSE}]
        PROVE  e \in RegistryEntry
    BY RegistryAssumption, PaymentsAssumption DEF RegistryEntry
  <2>3. QED
    BY <2>1, <2>2 DEF PaymentsInit, RegistryOK
<1>4. ServiceTypeOK
  BY NothingType DEF PaymentsInit, ServiceTypeOK, Stages, Or
<1>5. HandlerInv
  BY DEF PaymentsInit, HandlerInv, Ready, CheckStages, TailStages
<1>6. QED
  BY <1>1, <1>2, <1>3, <1>4, <1>5 DEF Base

(* The composed system keeps its type, and no handler ever dereferences    *)
(* what it has not read. *)
THEOREM PaymentsTypeCorrect == PaymentsSpec => [](PaymentsTypeOK /\ HandlerInv)
<1>1. Base /\ [PaymentsNext]_vars => Base'
  BY BaseStep
<1>2. Base => PaymentsTypeOK /\ HandlerInv
  BY TypeParts DEF Base
<1>3. QED
  BY <1>1, <1>2, InitBase, PTL DEF PaymentsSpec
-----------------------------------------------------------------------------
(* Signatures                                                             *)

(* What most steps do to nonces: an intent survives with the live nonce it *)
(* had, or not at all. *)
KeepsNonces ==
    \A r \in Requests : intents'[r] # None =>
        /\ intents[r] # None
        /\ LiveNonce(r) => /\ intents'[r].nonce = intents[r].nonce
                           /\ intents'[r].nonce # None /\ ~intents'[r].nonceReleased

(* What most steps do to handlers: none becomes a holder. *)
NoNewHolder(c) ==
    \/ pc'[c] = pc[c] /\ got'[c] = got[c]
    \/ /\ pc'[c] \notin {"sign", "signing", "release"}
       /\ signing[c] = None \/ pc'[c] = "failed"

LEMMA QuietStep ==
    ASSUME Base, SigningInv, KeepsNonces, UNCHANGED <<signing, signatures, body>>,
           used \subseteq used', \A c \in Clients : NoNewHolder(c)
    PROVE  SigningInv'
<1> USE DEF SigningInv
<1>1. \A c \in Clients : Req(c)' = Req(c) /\ (Holds(c)' => Holds(c))
  BY DEF Req, Holds, NoNewHolder
<1>2. \A c \in Clients : body[c] # None => Req(c) \in Requests
  BY DEF Base, ServiceTypeOK, Or, Body, Req
<1>3. HoldersAreKnown'
  BY <1>1 DEF HoldersAreKnown
<1>4. AtKeyInv'
  BY <1>1 DEF AtKeyInv, NoNewHolder, WithinRail, DomainMatches
<1>5. HeldNonceInv'
  <2> SUFFICES ASSUME NEW c \in Clients, Holds(c)', Exists(Req(c))'
               PROVE  (/\ LiveNonce(Req(c))
                       /\ pc[c] = "sign" => intents[Req(c)].nonce = NonceOf(c)
                       /\ signing[c] # None => intents[Req(c)].nonce = signing[c].nonce)'
    BY DEF HeldNonceInv
  <2>1. Holds(c) /\ Req(c) \in Requests
    BY <1>1, <1>2 DEF HoldersAreKnown
  <2>2. Exists(Req(c)) /\ LiveNonce(Req(c)) /\ LiveNonce(Req(c))'
        /\ intents'[Req(c)].nonce = intents[Req(c)].nonce
    BY <1>1, <2>1 DEF KeepsNonces, Exists, LiveNonce, HeldNonceInv
  <2>3. pc'[c] = "sign" => pc[c] = "sign" /\ NonceOf(c)' = NonceOf(c)
    BY <1>1 DEF NoNewHolder, NonceOf, DomainOf, IsPayment
  <2>4. QED
    BY <1>1, <2>1, <2>2, <2>3 DEF HeldNonceInv
<1>6. OneHolder'
  BY <1>1 DEF OneHolder
<1>7. NoHolderOnceSigned'
  BY <1>1 DEF NoHolderOnceSigned
<1>8. NothingUnused'
  BY <1>1 DEF NothingUnused, Exists, KeepsNonces
<1>9. AtMostOneSignature'
  BY DEF AtMostOneSignature
<1>10. SignedNonceIsBurned'
  <2>1. \A s \in signatures : s.request.requestId \in Requests
    BY DEF Base, SignerTypeOK, SignRequest
  <2>2. QED
    BY <2>1 DEF SignedNonceIsBurned, KeepsNonces, Exists, LiveNonce
<1>11. QED
  BY <1>3, <1>4, <1>5, <1>6, <1>7, <1>8, <1>9, <1>10

LEMMA SameIntents ==
    ASSUME UNCHANGED intents
    PROVE  KeepsNonces
BY DEF KeepsNonces, LiveNonce

LEMMA SameRecords ==
    ASSUME LedgerTypeOK, NEW r \in Requests, NEW record, Exists(r),
           intents' = [intents EXCEPT ![r] = record],
           record.nonce = intents[r].nonce,
           record.nonceReleased = intents[r].nonceReleased
    PROVE  KeepsNonces
BY DEF LedgerTypeOK, KeepsNonces, LiveNonce, Exists

LEMMA DecisionKeepsNonces ==
    ASSUME LedgerTypeOK, NEW r \in Requests, NEW d, NEW terms, RecordDecision(r, d, terms)
    PROVE  KeepsNonces
<1>1. intents[r] \in IntentRecord /\ Exists(r)
  BY IntentIsRecord DEF RecordDecision
<1> DEFINE record ==
      IF d = "signed"
      THEN [intents[r] EXCEPT !.decision = d, !.decidedAt = now,
                              !.terms = terms, !.state = "SIGNED"]
      ELSE [intents[r] EXCEPT !.decision = d, !.decidedAt = now]
<1>2. /\ record.nonce = intents[r].nonce
      /\ record.nonceReleased = intents[r].nonceReleased
  BY <1>1 DEF IntentRecord
<1>3. intents' = [intents EXCEPT ![r] = record]
  BY DEF RecordDecision
<1>4. QED
  BY <1>1, <1>2, <1>3, SameRecords

LEMMA ChallengeKeepsNonces ==
    ASSUME LedgerTypeOK, NEW r \in Requests, NEW ch, AttachChallenge(r, ch)
    PROVE  KeepsNonces
<1>1. intents[r] \in IntentRecord /\ Exists(r)
  BY IntentIsRecord DEF AttachChallenge
<1> DEFINE record == [intents[r] EXCEPT !.challenge = ch, !.challengeAttachedAt = now,
                                        !.state = "CHALLENGE_ATTACHED"]
<1>2. /\ record.nonce = intents[r].nonce
      /\ record.nonceReleased = intents[r].nonceReleased
  BY <1>1 DEF IntentRecord
<1>3. intents' = [intents EXCEPT ![r] = record]
  BY DEF AttachChallenge, UpdateIntent
<1>4. QED
  BY <1>1, <1>2, <1>3, SameRecords

LEMMA RestartKeepsNonces ==
    ASSUME LedgerRestart
    PROVE  KeepsNonces
BY DEF LedgerRestart, Empty, KeepsNonces

(* A handler outside the tail moves on, and not to the signer. *)
LEMMA MovesOn ==
    ASSUME Base, SigningInv, NEW c \in Clients, pc[c] \notin {"signing", "failed"},
           NEW stage, stage \notin {"sign", "signing", "release"}, NEW locals,
           Proceed(c, stage, locals), UNCHANGED <<registry, signerVars>>, KeepsNonces
    PROVE  SigningInv'
<1>1. signing[c] = None
  BY DEF SigningInv, AtKeyInv
<1>2. \A d \in Clients : NoNewHolder(d)
  BY <1>1 DEF Proceed, Goto, NoNewHolder, Base, ServiceTypeOK
<1>3. UNCHANGED <<signing, signatures, body>> /\ used \subseteq used'
  BY DEF Proceed, signerVars
<1>4. QED
  BY <1>2, <1>3, QuietStep

LEMMA ReadsSigning ==
    ASSUME Base, SigningInv, NEW c \in Clients,
           \/ GetIntent(c) \/ GetPolicy(c) \/ GetWindowUsage(c) \/ RunChecks(c)
           \/ MatchIntent(c) \/ GetEscalation(c) \/ ResolvePolicy(c) \/ ResolveIntent(c)
    PROVE  SigningInv'
<1>1. pc[c] \notin {"signing", "failed"}
  BY DEF GetIntent, GetPolicy, GetWindowUsage, RunChecks, MatchIntent, GetEscalation,
         ResolvePolicy, ResolveIntent, At
<1>2. ReadsOnly
  BY DEF GetIntent, GetPolicy, GetWindowUsage, RunChecks, MatchIntent, GetEscalation,
         ResolvePolicy, ResolveIntent
<1>3. UNCHANGED <<registry, signerVars>> /\ KeepsNonces
  BY <1>2, SameIntents DEF ReadsOnly, ledgerVars
<1> DEFINE Leads(stage) == \E locals : Proceed(c, stage, locals)
<1>4. \E stage : stage \notin {"sign", "signing", "release"} /\ Leads(stage)
  <2> HIDE DEF Leads
  <2>a. \A stage, locals : Proceed(c, stage, locals) => Leads(stage)
    BY DEF Leads
  <2>1. CASE GetIntent(c)
    BY <2>1, <2>a DEF GetIntent
  <2>2. CASE GetPolicy(c)
    BY <2>2, <2>a DEF GetPolicy
  <2>3. CASE GetWindowUsage(c)
    BY <2>3, <2>a DEF GetWindowUsage
  <2>4. CASE RunChecks(c)
    BY <2>4, <2>a DEF RunChecks
  <2>5. CASE MatchIntent(c)
    BY <2>5, <2>a DEF MatchIntent
  <2>6. CASE GetEscalation(c)
    BY <2>6, <2>a DEF GetEscalation
  <2>7. CASE ResolvePolicy(c)
    BY <2>7, <2>a DEF ResolvePolicy
  <2>8. CASE ResolveIntent(c)
    BY <2>8, <2>a DEF ResolveIntent
  <2>9. QED
    BY <2>1, <2>2, <2>3, <2>4, <2>5, <2>6, <2>7, <2>8
<1>5. QED
  BY <1>1, <1>3, <1>4, MovesOn

LEMMA RecordSigning ==
    ASSUME Base, SigningInv, NEW c \in Clients, pc[c] \notin {"idle", "signing", "failed"},
           NEW decision, NEW terms, NEW next, next \notin {"sign", "signing", "release"},
           RecordOrFail(c, decision, terms, next)
    PROVE  SigningInv'
<1>1. Req(c) \in Requests
  BY Activation DEF Base
<1>2. KeepsNonces /\ UNCHANGED <<registry, signerVars>>
  BY <1>1, DecisionKeepsNonces, SameIntents DEF RecordOrFail, LedgerOnly, ledgerVars, Base
<1>3. CASE Exists(Req(c))
  BY <1>2, <1>3, MovesOn DEF RecordOrFail
<1>4. CASE ~Exists(Req(c))
  BY <1>2, <1>4, MovesOn DEF RecordOrFail
<1>5. QED
  BY <1>3, <1>4

LEMMA WritesSigning ==
    ASSUME Base, SigningInv, NEW c \in Clients,
           \/ Escalate(c) \/ RecordEscalated(c) \/ RecordRefused(c) \/ RecordSigned(c)
           \/ DenyStorage(c) \/ ApproveStorage(c) \/ SetStanding(c)
    PROVE  SigningInv'
<1>1. CASE Escalate(c)
  <2>1. UNCHANGED intents /\ UNCHANGED <<registry, signerVars>>
    BY <1>1 DEF Escalate, CreateEscalation, LedgerOnly
  <2>2. QED
    BY <1>1, <2>1, SameIntents, MovesOn DEF Escalate, At
<1>2. CASE RecordEscalated(c)
  BY <1>2, RecordSigning DEF RecordEscalated, At
<1>3. CASE RecordRefused(c)
  <2>1. RefusalOf(got[c].because) \in {"refused", "expired", "rejected"}
    BY DEF RefusalOf, Base, ServiceTypeOK, Got
  <2>2. RecordOrFail(c, "refused", None, RefusalOf(got[c].because))
    BY <1>3 DEF RecordRefused
  <2>3. QED
    BY <1>3, <2>1, <2>2, RecordSigning DEF RecordRefused, At
<1>4. CASE RecordSigned(c)
  BY <1>4, RecordSigning DEF RecordSigned, At
<1>5. ASSUME NEW verdict, NEW next, next \notin {"sign", "signing", "release"},
             pc[c] \notin {"signing", "failed"}, StoreVerdict(c, verdict, next)
      PROVE  SigningInv'
  <2>1. UNCHANGED intents /\ UNCHANGED <<registry, signerVars>>
    BY <1>5 DEF StoreVerdict, ResolveEscalation, LedgerOnly, ledgerVars
  <2>2. QED
    BY <1>5, <2>1, SameIntents, MovesOn DEF StoreVerdict
<1>6. CASE DenyStorage(c)
  BY <1>5, <1>6 DEF DenyStorage, At
<1>7. CASE ApproveStorage(c)
  BY <1>5, <1>7 DEF ApproveStorage, At
<1>8. CASE SetStanding(c)
  <2>1. UNCHANGED intents /\ UNCHANGED <<registry, signerVars>>
    BY <1>8 DEF SetStanding, SetStandingApproval, LedgerOnly
  <2>2. QED
    BY <1>8, <2>1, SameIntents, MovesOn DEF SetStanding, At
<1>9. QED
  BY <1>1, <1>2, <1>3, <1>4, <1>6, <1>7, <1>8

(* The reservation makes a holder, and there was none: its nonce would     *)
(* have been live. *)
LEMMA ReserveSigning ==
    ASSUME Base, SigningInv, NEW c \in Clients, Reserve(c)
    PROVE  SigningInv'
<1>1. /\ pc[c] = "reserve" /\ pc[c] \in TailStages
      /\ UNCHANGED <<registry, signerVars>>
  BY DEF Reserve, At, TailStages, LedgerOnly
<1>2. CASE ~CanReserve(Req(c))
  <2>1. KeepsNonces
    BY <1>2, SameIntents DEF Reserve, ledgerVars
  <2>2. QED
    BY <1>1, <1>2, <2>1, MovesOn DEF Reserve, AfterRefusedSigning
<1>3. CASE CanReserve(Req(c))
  <2> DEFINE r == Req(c)
  <2>1. /\ r \in Requests /\ body[c] # None
        /\ NonceOf(c) \in Nonce /\ NonceOf(c) # None
    BY <1>1, Activation, TailFacts, ContractsAssumption DEF Base
  <2>2. intents[r] \in IntentRecord /\ ~LiveNonce(r)
    BY <1>3, <2>1, IntentIsRecord DEF CanReserve, Base
  <2> DEFINE record == [intents[r] EXCEPT !.nonce = NonceOf(c), !.nonceReleased = FALSE,
                                          !.state = "NONCE_RESERVED"]
  <2>3. intents' = [intents EXCEPT ![r] = record]
    BY <1>3 DEF Reserve, ReserveNonce, UpdateIntent
  <2>4. /\ intents'[r].nonce = NonceOf(c) /\ ~intents'[r].nonceReleased
        /\ \A q \in Requests : q # r => intents'[q] = intents[q]
    BY <2>1, <2>2, <2>3 DEF IntentRecord, Base, LedgerTypeOK
  <2>5. /\ pc' = [pc EXCEPT ![c] = "sign"] /\ UNCHANGED <<body, used>>
        /\ got' = [got EXCEPT ![c] = got[c]]
    BY <1>3 DEF Reserve, Proceed, Goto, Final
  <2>6. /\ got' = got /\ pc'[c] = "sign"
        /\ \A d \in Clients : d # c => pc'[d] = pc[d]
    BY <2>5 DEF Base, ServiceTypeOK
  <2>7. /\ UNCHANGED <<signing, signatures, seen>>
        /\ signing[c] = None
    BY <1>1 DEF signerVars, SigningInv, AtKeyInv
  <2>8. /\ \A d \in Clients : Req(d)' = Req(d) /\ NonceOf(d)' = NonceOf(d)
        /\ \A d \in Clients : d # c => (Holds(d)' <=> Holds(d))
    BY <2>5, <2>6, <2>7 DEF Req, NonceOf, DomainOf, IsPayment, Holds
  <2>9. \A d \in Clients : Holds(d) => Req(d) # r
    BY <1>3, <2>2 DEF SigningInv, HeldNonceInv, CanReserve
  <2>10. /\ \A d \in Clients : body[d] # None => Req(d) \in Requests
         /\ \A s \in signatures : s.request.requestId \in Requests
    BY DEF Base, ServiceTypeOK, SignerTypeOK, SignRequest, Or, Body, Req
  <2>11. \A s \in signatures : s.request.requestId # r
    BY <1>3, <2>2 DEF SigningInv, SignedNonceIsBurned, CanReserve
  <2> HIDE DEF r, record
  <2> USE DEF SigningInv
  <2>12. HoldersAreKnown'
    BY <2>1, <2>5, <2>8 DEF HoldersAreKnown
  <2>13. AtKeyInv'
    BY <2>6, <2>7, <2>8 DEF AtKeyInv, WithinRail, DomainMatches
  <2>14. HeldNonceInv'
    <3> SUFFICES ASSUME NEW d \in Clients, Holds(d)', Exists(Req(d))'
                 PROVE  (/\ LiveNonce(Req(d))
                         /\ pc[d] = "sign" => intents[Req(d)].nonce = NonceOf(d)
                         /\ signing[d] # None => intents[Req(d)].nonce = signing[d].nonce)'
      BY DEF HeldNonceInv
    <3>1. CASE d = c
      BY <3>1, <2>1, <2>4, <2>7, <2>8 DEF LiveNonce, r
    <3>2. CASE d # c
      <4>1. Holds(d) /\ Req(d) # r /\ Req(d) \in Requests
        BY <3>2, <2>8, <2>9, <2>10 DEF HoldersAreKnown
      <4>2. intents'[Req(d)] = intents[Req(d)]
        BY <4>1, <2>4
      <4>3. QED
        BY <3>2, <4>1, <4>2, <2>6, <2>7, <2>8 DEF HeldNonceInv, LiveNonce, Exists
    <3>3. QED
      BY <3>1, <3>2
  <2>15. OneHolder'
    BY <2>8, <2>9 DEF OneHolder, r
  <2>16. NoHolderOnceSigned'
    BY <2>7, <2>8, <2>11 DEF NoHolderOnceSigned, r
  <2>17. NothingUnused'
    BY <2>1, <2>4, <2>5, <2>7, <2>8 DEF NothingUnused, Exists, r
  <2>18. AtMostOneSignature'
    BY <2>7 DEF AtMostOneSignature
  <2>19. SignedNonceIsBurned'
    BY <2>4, <2>7, <2>10, <2>11 DEF SignedNonceIsBurned, LiveNonce, Exists
  <2>20. QED
    BY <2>12, <2>13, <2>14, <2>15, <2>16, <2>17, <2>18, <2>19
<1>4. QED
  BY <1>2, <1>3

(* Where a holder is one of the steps that touch only the handler and the  *)
(* key source. *)
LEMMA KnownRequests ==
    ASSUME Base
    PROVE  /\ \A d \in Clients : body[d] # None => Req(d) \in Requests
           /\ \A s \in signatures : s.request.requestId \in Requests
BY DEF Base, ServiceTypeOK, SignerTypeOK, SignRequest, Or, Body, Req

LEMMA CallSignerSigning ==
    ASSUME Base, SigningInv, NEW c \in Clients, CallSigner(c)
    PROVE  SigningInv'
<1> DEFINE stage == IF Accepts(TypedData(c)) THEN "signing" ELSE "release"
<1>1. /\ pc[c] = "sign" /\ pc[c] \in TailStages
      /\ UNCHANGED <<registry, ledgerVars>>
  BY DEF CallSigner, At, TailStages
<1>2. UNCHANGED <<intents, body, used, signatures>>
  BY <1>1 DEF CallSigner, ledgerVars, Proceed, Sign, signerVars
<1>3. pc' = [pc EXCEPT ![c] = stage] /\ got' = [got EXCEPT ![c] = got[c]]
  BY DEF CallSigner, Proceed, Goto, Final
<1>4. /\ got' = got /\ pc'[c] = stage /\ stage \in {"signing", "release"}
      /\ \A d \in Clients : d # c => pc'[d] = pc[d]
  BY <1>3 DEF Base, ServiceTypeOK
<1>5. signing[c] = None /\ signing \in [Clients -> SignRequest \cup {None}]
  BY <1>1 DEF SigningInv, AtKeyInv, Base, SignerTypeOK
<1>6. /\ stage = "release" => signing' = signing
      /\ stage = "signing" => /\ signing' = [signing EXCEPT ![c] = TypedData(c)]
                              /\ Accepts(TypedData(c))
  BY DEF CallSigner, Sign, signerVars
<1>7. /\ TypedData(c).requestId = Req(c) /\ TypedData(c).nonce.request = Req(c)
      /\ TypedData(c).nonce = NonceOf(c)
  BY <1>1, TypedDataType DEF TypedData, Base
<1>8. /\ stage = "signing" => signing'[c] = TypedData(c)
      /\ \A d \in Clients : d # c => signing'[d] = signing[d]
  BY <1>5, <1>6
<1>9. \A d \in Clients : /\ Req(d)' = Req(d) /\ NonceOf(d)' = NonceOf(d)
                         /\ Holds(d)' <=> Holds(d)
  BY <1>1, <1>2, <1>4, <1>8 DEF Req, NonceOf, DomainOf, IsPayment, Holds
<1> HIDE DEF stage
<1> USE DEF SigningInv
<1>10. HoldersAreKnown'
  BY <1>2, <1>9 DEF HoldersAreKnown
<1>11. AtKeyInv'
  BY <1>4, <1>5, <1>6, <1>7, <1>8, <1>9 DEF AtKeyInv, WithinRail, DomainMatches, Accepts
<1>12. HeldNonceInv'
  BY <1>1, <1>2, <1>4, <1>5, <1>6, <1>7, <1>8, <1>9 DEF HeldNonceInv, LiveNonce, Exists
<1>13. OneHolder' /\ NoHolderOnceSigned' /\ NothingUnused'
  BY <1>2, <1>9 DEF OneHolder, NoHolderOnceSigned, NothingUnused, Exists
<1>14. AtMostOneSignature' /\ SignedNonceIsBurned'
  BY <1>2 DEF AtMostOneSignature, SignedNonceIsBurned, LiveNonce, Exists
<1>15. QED
  BY <1>10, <1>11, <1>12, <1>13, <1>14

(* The signature takes the holder's place. *)
LEMMA SignerSignsSigning ==
    ASSUME Base, SigningInv, NEW c \in Clients, SignerSigns(c)
    PROVE  SigningInv'
<1> DEFINE new == [client |-> c, request |-> signing[c]]
<1>1. /\ signing[c] # None /\ pc[c] \in {"signing", "failed"} /\ Holds(c)
      /\ signing[c].requestId = Req(c) /\ body[c] # None
  BY DEF SignerSigns, KeySigns, SigningInv, AtKeyInv, HoldersAreKnown, Holds
<1>2. /\ UNCHANGED <<intents, body, used>>
      /\ signatures' = signatures \cup {new} /\ signing' = [signing EXCEPT ![c] = None]
  BY DEF SignerSigns, KeySigns, Hears, Proceed, ledgerVars, serviceVars
<1>3. /\ pc'[c] \in {"recordSigned", "approveStorage", "failed"}
      /\ \A d \in Clients : d # c => pc'[d] = pc[d]
  BY <1>1 DEF SignerSigns, Hears, Proceed, Goto, serviceVars, At, Base, ServiceTypeOK
<1>4. got' = got
  BY DEF SignerSigns, Hears, Proceed, Final, serviceVars, Base, ServiceTypeOK
<1>5. signing'[c] = None /\ \A d \in Clients : d # c => signing'[d] = signing[d]
  BY <1>2 DEF Base, SignerTypeOK
<1>6. /\ \A d \in Clients : Req(d)' = Req(d) /\ NonceOf(d)' = NonceOf(d)
      /\ \A d \in Clients : d # c => (Holds(d)' <=> Holds(d))
      /\ ~Holds(c)'
  BY <1>2, <1>3, <1>4, <1>5 DEF Req, NonceOf, DomainOf, IsPayment, Holds
<1> HIDE DEF new
<1>n. new.request = signing[c]
  BY DEF new
<1> USE DEF SigningInv
<1>7. HoldersAreKnown'
  BY <1>2, <1>6 DEF HoldersAreKnown
<1>8. AtKeyInv'
  BY <1>3, <1>5, <1>6 DEF AtKeyInv, WithinRail, DomainMatches
<1>9. HeldNonceInv'
  BY <1>2, <1>3, <1>5, <1>6 DEF HeldNonceInv, LiveNonce, Exists
<1>10. OneHolder'
  BY <1>6 DEF OneHolder
<1>11. NoHolderOnceSigned'
  BY <1>1, <1>2, <1>6, <1>n DEF NoHolderOnceSigned, OneHolder
<1>12. NothingUnused'
  BY <1>1, <1>2, <1>6, <1>n DEF NothingUnused, Exists
<1>13. AtMostOneSignature'
  BY <1>1, <1>2, <1>n DEF AtMostOneSignature, NoHolderOnceSigned
<1>14. SignedNonceIsBurned'
  BY <1>1, <1>2, <1>n DEF SignedNonceIsBurned, HeldNonceInv, LiveNonce, Exists
<1>15. QED
  BY <1>7, <1>8, <1>9, <1>10, <1>11, <1>12, <1>13, <1>14

LEMMA SignerFailsSigning ==
    ASSUME Base, SigningInv, NEW c \in Clients, SignerFails(c)
    PROVE  SigningInv'
<1>1. signing[c] # None /\ pc[c] \in {"signing", "failed"} /\ Holds(c)
  BY DEF SignerFails, KeyFails, SigningInv, AtKeyInv, Holds
<1>2. /\ UNCHANGED <<intents, body, used, signatures>>
      /\ signing' = [signing EXCEPT ![c] = None]
  BY DEF SignerFails, KeyFails, Hears, Proceed, ledgerVars, serviceVars
<1>3. /\ pc'[c] \in {"release", "failed"}
      /\ \A d \in Clients : d # c => pc'[d] = pc[d]
  BY <1>1 DEF SignerFails, Hears, Proceed, Goto, serviceVars, At, Base, ServiceTypeOK
<1>4. got' = got
  BY DEF SignerFails, Hears, Proceed, Final, serviceVars, Base, ServiceTypeOK
<1>5. signing'[c] = None /\ \A d \in Clients : d # c => signing'[d] = signing[d]
  BY <1>2 DEF Base, SignerTypeOK
<1>6. /\ \A d \in Clients : Req(d)' = Req(d) /\ NonceOf(d)' = NonceOf(d)
      /\ \A d \in Clients : Holds(d)' => Holds(d)
  BY <1>1, <1>2, <1>3, <1>4, <1>5 DEF Req, NonceOf, DomainOf, IsPayment, Holds
<1> USE DEF SigningInv
<1>7. HoldersAreKnown'
  BY <1>2, <1>6 DEF HoldersAreKnown
<1>8. AtKeyInv'
  BY <1>3, <1>5, <1>6 DEF AtKeyInv, WithinRail, DomainMatches
<1>9. HeldNonceInv'
  BY <1>2, <1>3, <1>5, <1>6 DEF HeldNonceInv, LiveNonce, Exists
<1>10. OneHolder' /\ NoHolderOnceSigned' /\ NothingUnused'
  BY <1>2, <1>6 DEF OneHolder, NoHolderOnceSigned, NothingUnused, Exists
<1>11. AtMostOneSignature' /\ SignedNonceIsBurned'
  BY <1>2 DEF AtMostOneSignature, SignedNonceIsBurned, LiveNonce, Exists
<1>12. QED
  BY <1>7, <1>8, <1>9, <1>10, <1>11

(* Only the holder releases, and what it holds was not signed. *)
LEMMA ReleaseSigning ==
    ASSUME Base, SigningInv, NEW c \in Clients, Release(c)
    PROVE  SigningInv'
<1>1. /\ pc[c] = "release" /\ pc[c] \in TailStages /\ Holds(c)
      /\ UNCHANGED <<registry, signerVars>>
  BY DEF Release, At, TailStages, LedgerOnly, Holds
<1>2. CASE ~CanRelease(Req(c))
  <2>1. KeepsNonces
    BY <1>2, SameIntents DEF Release, ledgerVars
  <2>2. QED
    BY <1>1, <2>1, MovesOn DEF Release, AfterRefusedSigning
<1>3. CASE CanRelease(Req(c))
  <2> DEFINE r == Req(c)
  <2>1. r \in Requests /\ body[c] # None
    BY <1>1, Activation DEF Base
  <2>2. \E record : intents' = [intents EXCEPT ![r] = record]
    BY <1>3 DEF Release, ReleaseNonce, UpdateIntent
  <2>3. /\ \A q \in Requests : q # r => intents'[q] = intents[q]
        /\ Exists(r)
    BY <1>3, <2>2 DEF CanRelease, Base, LedgerTypeOK
  <2>4. /\ UNCHANGED <<body, used, signing, signatures>>
        /\ pc' = [pc EXCEPT ![c] = AfterRefusedSigning(c)]
        /\ \A d \in Clients : d # c => got'[d] = got[d]
    BY <1>1 DEF Release, Proceed, Goto, signerVars, Base, ServiceTypeOK
  <2>5. /\ pc'[c] \in {"recordRefused", "denyStorage"}
        /\ \A d \in Clients : d # c => pc'[d] = pc[d]
    BY <2>4 DEF AfterRefusedSigning, Base, ServiceTypeOK
  <2>6. signing[c] = None
    BY <1>1 DEF SigningInv, AtKeyInv
  <2>7. /\ \A d \in Clients : Req(d)' = Req(d) /\ (d # c => NonceOf(d)' = NonceOf(d))
        /\ \A d \in Clients : Holds(d)' => d # c /\ Holds(d)
    BY <2>4, <2>5, <2>6 DEF Req, NonceOf, DomainOf, IsPayment, Holds
  <2>8. /\ \A d \in Clients : Holds(d)' => Req(d) # r
        /\ \A s \in signatures : s.request.requestId # r
    BY <1>1, <2>7 DEF SigningInv, OneHolder, NoHolderOnceSigned
  <2> HIDE DEF r
  <2> USE DEF SigningInv
  <2>9. HoldersAreKnown'
    BY <2>4, <2>7 DEF HoldersAreKnown
  <2>10. AtKeyInv'
    BY <2>4, <2>5, <2>6, <2>7 DEF AtKeyInv, WithinRail, DomainMatches
  <2>11. HeldNonceInv'
    BY <2>3, <2>4, <2>5, <2>7, <2>8, KnownRequests
       DEF HeldNonceInv, LiveNonce, Exists, HoldersAreKnown
  <2>12. OneHolder' /\ NoHolderOnceSigned'
    BY <2>4, <2>7 DEF OneHolder, NoHolderOnceSigned
  <2>13. NothingUnused'
    BY <2>1, <2>3, <2>4, <2>7 DEF NothingUnused, Exists
  <2>14. AtMostOneSignature' /\ SignedNonceIsBurned'
    BY <2>3, <2>4, <2>8, KnownRequests
       DEF AtMostOneSignature, SignedNonceIsBurned, LiveNonce, Exists
  <2>15. QED
    BY <2>9, <2>10, <2>11, <2>12, <2>13, <2>14
<1>4. QED
  BY <1>2, <1>3

LEMMA HandlerStepSigning ==
    ASSUME Base, SigningInv, NEW c \in Clients, HandlerStep(c) \/ SignerStep(c)
    PROVE  SigningInv'
BY ReadsSigning, WritesSigning, ReserveSigning, CallSignerSigning, ReleaseSigning,
   SignerSignsSigning, SignerFailsSigning
   DEF HandlerStep, SignerStep

(* Handlers that stop hold no more than what is at the key source. *)
LEMMA StopSigning ==
    ASSUME Base, SigningInv, NEW S \in SUBSET Clients, Stop(S), ReadsOnly
    PROVE  SigningInv'
<1>1. \A c \in Clients : NoNewHolder(c)
  BY DEF Stop, NoNewHolder
<1>2. KeepsNonces
  BY SameIntents DEF ReadsOnly, ledgerVars
<1>3. UNCHANGED <<signing, signatures, body, used>>
  BY DEF Stop, ReadsOnly, signerVars
<1>4. QED
  BY <1>1, <1>2, <1>3, QuietStep

LEMMA FaultSigning ==
    ASSUME Base, SigningInv, FaultStep
    PROVE  SigningInv'
<1>1. CASE HandlerDies
  BY <1>1, StopSigning DEF HandlerDies
<1>2. CASE SignerUnreachable
  BY <1>2, StopSigning DEF SignerUnreachable
<1>3. CASE SignerGoesDown
  <2> DEFINE S == {c \in Clients : At(c, "signing")}
  <2>1. UNCHANGED <<intents, signatures, body, used>>
    BY <1>3 DEF SignerGoesDown, SignerRestart, Stop, ledgerVars
  <2>2. /\ \A c \in Clients : signing'[c] = None
        /\ \A c \in Clients : \/ pc'[c] = pc[c] /\ got'[c] = got[c]
                              \/ pc'[c] = "failed"
    BY <1>3 DEF SignerGoesDown, SignerRestart, Stop
  <2>3. \A c \in Clients : /\ Req(c)' = Req(c) /\ (Holds(c)' => Holds(c))
                           /\ Holds(c)' => pc'[c] = pc[c] /\ NonceOf(c)' = NonceOf(c)
    BY <2>1, <2>2 DEF Req, Holds, NonceOf, DomainOf, IsPayment
  <2> USE DEF SigningInv
  <2>4. HoldersAreKnown' /\ AtKeyInv'
    BY <2>1, <2>2, <2>3 DEF HoldersAreKnown, AtKeyInv
  <2>5. HeldNonceInv'
    BY <2>1, <2>2, <2>3 DEF HeldNonceInv, LiveNonce, Exists
  <2>6. OneHolder' /\ NoHolderOnceSigned' /\ NothingUnused'
    BY <2>1, <2>3 DEF OneHolder, NoHolderOnceSigned, NothingUnused, Exists
  <2>7. AtMostOneSignature' /\ SignedNonceIsBurned'
    BY <2>1 DEF AtMostOneSignature, SignedNonceIsBurned, LiveNonce, Exists
  <2>8. QED
    BY <2>4, <2>5, <2>6, <2>7
<1>4. CASE LedgerGoesDown
  BY <1>4, RestartKeepsNonces, QuietStep
     DEF LedgerGoesDown, serviceVars, signerVars, NoNewHolder
<1>5. QED
  BY <1>1, <1>2, <1>3, <1>4 DEF FaultStep

(* An intent nobody has asked a payment for: no holder and no signature. *)
(* An intent is created before anybody asks or signs for its requestId. *)
Unheard(r) ==
    /\ \A c \in Clients : body[c] # None => Req(c) # r
    /\ \A s \in signatures : s.request.requestId # r

LEMMA NewIntentIsFresh ==
    ASSUME SigningInv, NewIntent
    PROVE  \E r \in Requests \ used, m \in Mandates, i \in Instructions, t \in {now - 1, now} :
               /\ CreateIntent(r, m, i, t) /\ used' = used \cup {r} /\ Unheard(r)
               /\ UNCHANGED <<signing, signatures, body, got, pc>>
BY DEF NewIntent, signerVars, Unheard, SigningInv, NothingUnused

LEMMA FreshIntentSigning ==
    ASSUME Base, SigningInv, NEW r \in Requests, Unheard(r),
           NEW m, NEW i, NEW t, CreateIntent(r, m, i, t),
           used' = used \cup {r}, UNCHANGED <<signing, signatures, body, got, pc>>
    PROVE  SigningInv'
<1>0. /\ \A c \in Clients : body[c] # None => Req(c) # r
      /\ \A s \in signatures : s.request.requestId # r
  BY DEF Unheard
<1>1. \A q \in Requests : q # r => intents'[q] = intents[q]
  BY DEF CreateIntent, Base, LedgerTypeOK
<1>2. \A c \in Clients : Req(c)' = Req(c) /\ NonceOf(c)' = NonceOf(c) /\ Holds(c)' = Holds(c)
  BY DEF Req, NonceOf, DomainOf, IsPayment, Holds
<1> USE DEF SigningInv
<1>3. HoldersAreKnown' /\ AtKeyInv'
  BY <1>2 DEF HoldersAreKnown, AtKeyInv, WithinRail, DomainMatches
<1>4. HeldNonceInv'
  BY <1>0, <1>1, <1>2, KnownRequests DEF HeldNonceInv, HoldersAreKnown, LiveNonce, Exists
<1>5. OneHolder' /\ NoHolderOnceSigned'
  BY <1>2 DEF OneHolder, NoHolderOnceSigned
<1>6. NothingUnused'
  BY <1>1, <1>2 DEF NothingUnused, Exists
<1>7. AtMostOneSignature' /\ SignedNonceIsBurned'
  BY <1>0, <1>1, KnownRequests DEF AtMostOneSignature, SignedNonceIsBurned, LiveNonce, Exists
<1>8. QED
  BY <1>3, <1>4, <1>5, <1>6, <1>7

LEMMA NewIntentSigning ==
    ASSUME Base, SigningInv, NewIntent
    PROVE  SigningInv'
BY NewIntentIsFresh, FreshIntentSigning

LEMMA BeginSigning ==
    ASSUME Base, SigningInv, NEW c \in Clients, NEW b \in Body,
           NEW stage \in {"getIntent", "getEscalation"}, Begin(c, b, stage)
    PROVE  SigningInv'
<1>1. /\ pc[c] = "idle" /\ pc' = [pc EXCEPT ![c] = stage]
      /\ body' = [body EXCEPT ![c] = b] /\ used' = used \cup {b.request}
      /\ UNCHANGED <<intents, signing, signatures, got>>
  BY DEF Begin, Goto, ledgerVars, signerVars
<1>2. /\ pc'[c] = stage /\ body'[c] = b /\ signing[c] = None
      /\ \A d \in Clients : d # c => pc'[d] = pc[d] /\ body'[d] = body[d]
  BY <1>1 DEF Base, ServiceTypeOK, SigningInv, AtKeyInv
<1>3. /\ \A d \in Clients : Holds(d)' => d # c /\ Holds(d)
      /\ \A d \in Clients : d # c => Req(d)' = Req(d) /\ NonceOf(d)' = NonceOf(d)
      /\ Req(c)' = b.request
  BY <1>1, <1>2 DEF Holds, Req, NonceOf, DomainOf, IsPayment
<1> USE DEF SigningInv
<1>4. HoldersAreKnown' /\ AtKeyInv'
  BY <1>1, <1>2, <1>3 DEF HoldersAreKnown, AtKeyInv, WithinRail, DomainMatches
<1>5. HeldNonceInv'
  BY <1>1, <1>2, <1>3 DEF HeldNonceInv, LiveNonce, Exists
<1>6. OneHolder' /\ NoHolderOnceSigned'
  BY <1>1, <1>3 DEF OneHolder, NoHolderOnceSigned
<1>7. NothingUnused'
  BY <1>1, <1>2, <1>3 DEF NothingUnused, Exists
<1>8. AtMostOneSignature' /\ SignedNonceIsBurned'
  BY <1>1 DEF AtMostOneSignature, SignedNonceIsBurned, LiveNonce, Exists
<1>9. QED
  BY <1>4, <1>5, <1>6, <1>7, <1>8

LEMMA EnvironmentSigning ==
    ASSUME Base, SigningInv, Environment
    PROVE  SigningInv'
<1>1. CASE NewIntent
  BY <1>1, NewIntentSigning
<1>2. ASSUME UNCHANGED <<signerVars, serviceVars>>, KeepsNonces
      PROVE  SigningInv'
  BY <1>2, QuietStep DEF signerVars, serviceVars, NoNewHolder
<1>3. CASE ChallengeQuoted
  BY <1>2, <1>3, ChallengeKeepsNonces DEF ChallengeQuoted, Base
<1>4. CASE OwnerRevokes
  BY <1>2, <1>4, SameIntents DEF OwnerRevokes, ledgerVars
<1>5. CASE PutPolicy
  BY <1>2, <1>5, SameIntents DEF PutPolicy, StorePolicy
<1>6. CASE TimePasses
  BY <1>2, <1>6, SameIntents DEF TimePasses, Tick
<1>7. ASSUME NEW c \in Clients, RequestPayment(c) \/ ResolveRequest(c)
      PROVE  SigningInv'
  BY <1>7, RequestPaymentBegins, ResolveRequestBegins, BeginSigning
<1>8. QED
  BY <1>1, <1>3, <1>4, <1>5, <1>6, <1>7 DEF Environment

(* The inductive invariant. *)
Inv == Base /\ SigningInv

LEMMA InvStep ==
    ASSUME Inv, [PaymentsNext]_vars
    PROVE  Inv'
<1>1. Base'
  BY BaseStep DEF Inv
<1>2. CASE UNCHANGED vars
  BY <1>1, <1>2, SameIntents, QuietStep
     DEF Inv, vars, ledgerVars, signerVars, serviceVars, NoNewHolder
<1>3. CASE PaymentsNext
  BY <1>1, <1>3, HandlerStepSigning, EnvironmentSigning, FaultSigning DEF Inv, PaymentsNext
<1>4. QED
  BY <1>1, <1>2, <1>3 DEF Inv

LEMMA InitInv == PaymentsInit => Inv
<1> SUFFICES ASSUME PaymentsInit PROVE SigningInv
  BY InitBase DEF Inv
<1> USE DEF PaymentsInit, SignerInit, LedgerInit, Empty, Holds, Exists
<1>1. HoldersAreKnown /\ AtKeyInv /\ HeldNonceInv /\ OneHolder
  BY DEF HoldersAreKnown, AtKeyInv, HeldNonceInv, OneHolder
<1>2. NoHolderOnceSigned /\ NothingUnused /\ AtMostOneSignature /\ SignedNonceIsBurned
  BY DEF NoHolderOnceSigned, NothingUnused, AtMostOneSignature, SignedNonceIsBurned
<1>3. QED
  BY <1>1, <1>2 DEF SigningInv

LEMMA InvHolds == PaymentsSpec => []Inv
BY InitInv, InvStep, PTL DEF PaymentsSpec

(* Whatever races, retries, dies, restarts or is lost between the          *)
(* services, a requestId is signed at most once. *)
THEOREM SignedAtMostOnce == PaymentsSpec => []AtMostOneSignature
<1>1. Inv => AtMostOneSignature
  BY DEF Inv, SigningInv
<1>2. QED
  BY <1>1, InvHolds, PTL

(* While the ledger remembers the intent of a signature, the nonce it      *)
(* holds is live and the one that was signed. *)
THEOREM SignedNonceStaysBurned == PaymentsSpec => []SignedNonceIsBurned
<1>1. Inv => SignedNonceIsBurned
  BY DEF Inv, SigningInv
<1>2. QED
  BY <1>1, InvHolds, PTL

(* Why at most one signature, as an invariant of its own: a live nonce is  *)
(* behind every holder, one handler at most holds it, a signed request has *)
(* no holder left, and nothing signed or held goes back into circulation. *)
THEOREM SigningStaysSound == PaymentsSpec => []SigningInv
<1>1. Inv => SigningInv
  BY DEF Inv
<1>2. QED
  BY <1>1, InvHolds, PTL
-----------------------------------------------------------------------------
(* The ledger and the signer keep in the composition what they promise by  *)
(* themselves: every step of it is one of their calls, or none. *)

LEMMA IntentIsCalled ==
    ASSUME NEW r \in Requests, IntentCall(r)
    PROVE  [LedgerCall]_ledgerVars
BY DEF LedgerCall

LEMMA EscalationIsCalled ==
    ASSUME NEW r \in Requests, EscalationStep(r)
    PROVE  [LedgerCall]_ledgerVars
BY DEF LedgerCall

LEMMA RecordIsCalled ==
    ASSUME Base, NEW c \in Clients, pc[c] # "idle", NEW decision \in Decisions,
           NEW terms \in Or(SignedTerms), decision = "signed" => terms # None,
           NEW next, RecordOrFail(c, decision, terms, next)
    PROVE  [LedgerCall]_ledgerVars
<1>1. Req(c) \in Requests
  BY Activation DEF Base
<1>2. CASE UNCHANGED ledgerVars
  BY <1>2
<1>3. CASE RecordDecision(Req(c), decision, terms)
  BY <1>1, <1>3, IntentIsCalled DEF IntentCall
<1>4. QED
  BY <1>2, <1>3 DEF RecordOrFail

LEMMA HandlerCallsLedger ==
    ASSUME Base, NEW c \in Clients, HandlerStep(c)
    PROVE  [LedgerCall]_ledgerVars
<1>0. pc[c] # "idle" => Req(c) \in Requests
  BY Activation DEF Base
<1>1. CASE \/ GetIntent(c) \/ GetPolicy(c) \/ GetWindowUsage(c) \/ RunChecks(c)
           \/ MatchIntent(c) \/ GetEscalation(c) \/ ResolvePolicy(c) \/ ResolveIntent(c)
           \/ CallSigner(c)
  <2>1. UNCHANGED ledgerVars
    BY <1>1 DEF GetIntent, GetPolicy, GetWindowUsage, RunChecks, MatchIntent,
                GetEscalation, ResolvePolicy, ResolveIntent, CallSigner, ReadsOnly
  <2>2. QED
    BY <2>1
<1>2. CASE Escalate(c)
  <2>1. /\ Ready("createEscalation", body[c], got[c])
        /\ body[c] \in Body /\ got[c] \in Got /\ Req(c) \in Requests
    BY <1>2, Activation DEF Base, Escalate, At
  <2>2. /\ body[c].mandateId \in Mandates /\ got[c].reason \in Reasons
        /\ body[c].domain \in Domains
    BY <2>1 DEF Ready, CheckStages, Body, Got, Or
  <2>3. QED
    BY <1>2, <2>1, <2>2, EscalationIsCalled DEF Escalate, EscalationStep
<1>3. CASE RecordEscalated(c) \/ RecordRefused(c)
  BY <1>3, RecordIsCalled DEF RecordEscalated, RecordRefused, At, Decisions, Or
<1>4. CASE Reserve(c)
  <2>1. pc[c] \in TailStages /\ pc[c] # "idle"
    BY <1>4 DEF Reserve, At, TailStages
  <2>2. NonceOf(c) \in Nonce
    BY <2>1, TailFacts DEF Base
  <2>3. CASE ReserveNonce(Req(c), NonceOf(c))
    BY <1>0, <2>1, <2>2, <2>3, IntentIsCalled DEF IntentCall
  <2>4. QED
    BY <1>4, <2>3 DEF Reserve
<1>5. CASE Release(c)
  <2>1. CASE ReleaseNonce(Req(c))
    BY <1>0, <1>5, <2>1, IntentIsCalled DEF IntentCall, Release, At
  <2>2. QED
    BY <1>5, <2>1 DEF Release
<1>6. CASE RecordSigned(c)
  <2> DEFINE terms == [policyHash |-> got[c].policy, merchantDomain |-> DomainOf(c)]
  <2>1. pc[c] \in TailStages /\ pc[c] # "idle"
    BY <1>6 DEF RecordSigned, At, TailStages
  <2>2. terms \in SignedTerms
    BY <2>1, TailFacts DEF Base, SignedTerms, Or
  <2>3. terms # None
    BY <2>2, LedgerAssumption DEF SignedTerms, Or
  <2>4. PICK next : RecordOrFail(c, "signed", terms, next)
    BY <1>6 DEF RecordSigned
  <2>5. QED
    BY <2>1, <2>2, <2>3, <2>4, RecordIsCalled DEF Decisions, Or
<1>7. CASE DenyStorage(c) \/ ApproveStorage(c)
  <2>1. PICK verdict \in {"approve", "deny"} :
              \E next \in Stages : StoreVerdict(c, verdict, next)
    BY <1>7 DEF DenyStorage, ApproveStorage, Stages
  <2>2. CASE ResolveEscalation(Req(c), verdict)
    BY <1>0, <1>7, <2>2, EscalationIsCalled
       DEF DenyStorage, ApproveStorage, At, EscalationStep
  <2>3. QED
    BY <2>1, <2>2 DEF StoreVerdict
<1>8. CASE SetStanding(c)
  <2>1. pc[c] \in TailStages
    BY <1>8 DEF SetStanding, At, TailStages
  <2>2. body[c] \in Body /\ got[c] \in Got /\ Ready("setStanding", body[c], got[c])
    BY <1>8, Activation DEF Base, SetStanding, At
  <2>3. got[c].escalation \in EscalationRecord
    BY <2>2 DEF Ready, TailStages, Body, Got, Or
  <2>4. now + got[c].policy.windowSeconds \in Int
    BY <2>1, TailFacts, ContractsAssumption DEF Base, LedgerTypeOK, PolicyBody
  <2>5. QED
    BY <1>8, <2>3, <2>4 DEF SetStanding, EscalationRecord, LedgerCall
<1>9. QED
  BY <1>1, <1>2, <1>3, <1>4, <1>5, <1>6, <1>7, <1>8 DEF HandlerStep

LEMMA EnvironmentCallsLedger ==
    ASSUME Base, Environment
    PROVE  [LedgerCall]_ledgerVars
<1>1. CASE NewIntent
  <2>1. PICK r \in Requests, m \in Mandates, i \in Instructions, t \in {now - 1, now} :
           CreateIntent(r, m, i, t)
    BY <1>1 DEF NewIntent
  <2>2. t \in Int
    BY DEF Base, LedgerTypeOK
  <2>3. QED
    BY <2>1, <2>2, IntentIsCalled DEF IntentCall
<1>2. CASE ChallengeQuoted
  BY <1>2, IntentIsCalled DEF ChallengeQuoted, IntentCall
<1>3. CASE PutPolicy
  BY <1>3 DEF PutPolicy, LedgerCall
<1>4. CASE TimePasses
  BY <1>4 DEF TimePasses, LedgerCall
<1>5. CASE OwnerRevokes
  BY <1>5 DEF OwnerRevokes
<1>6. ASSUME NEW c \in Clients, RequestPayment(c) \/ ResolveRequest(c)
      PROVE  [LedgerCall]_ledgerVars
  BY <1>6 DEF RequestPayment, ResolveRequest, Begin
<1>7. QED
  BY <1>1, <1>2, <1>3, <1>4, <1>5, <1>6 DEF Environment

LEMMA PaymentsCallLedger ==
    ASSUME Base, [PaymentsNext]_vars
    PROVE  [LedgerCall]_ledgerVars
<1>1. CASE UNCHANGED vars
  BY <1>1 DEF vars
<1>2. ASSUME NEW c \in Clients, SignerStep(c)
      PROVE  [LedgerCall]_ledgerVars
  BY <1>2 DEF SignerStep, SignerSigns, SignerFails
<1>3. CASE FaultStep
  BY <1>3 DEF FaultStep, HandlerDies, SignerUnreachable, SignerGoesDown, LedgerGoesDown,
              ReadsOnly, LedgerCall
<1>4. QED
  BY <1>1, <1>2, <1>3, HandlerCallsLedger, EnvironmentCallsLedger DEF PaymentsNext

(* Driven by the handlers of policy-service, whatever races or is lost, an *)
(* intent's state is still backed by the evidence it stands for. *)
THEOREM PaymentsStateStaysBacked == PaymentsSpec => []StateIsBacked
<1>1. PaymentsInit => StateIsBacked
  BY DEF PaymentsInit, LedgerInit, StateIsBacked, Exists, Empty
<1>2. Inv /\ StateIsBacked /\ [PaymentsNext]_vars => StateIsBacked'
  BY PaymentsCallLedger, BackedStep DEF Inv, Base
<1>3. QED
  BY <1>1, <1>2, InvHolds, PTL DEF PaymentsSpec

(* Receipt evidence and the question put to a human stay write-once when   *)
(* concurrent handlers, retries and restarts write them. *)
THEOREM PaymentsKeepEvidence == PaymentsSpec => EvidenceIsWriteOnce
<1>1. Inv /\ StateIsBacked /\ [PaymentsNext]_vars =>
         [\A r \in Requests :
            /\ (Exists(r) /\ intents'[r] # None)
                  => KeepsEvidence(intents[r], intents'[r])
            /\ (escalations[r] # None /\ escalations'[r] # None)
                  => KeepsQuestion(escalations[r], escalations'[r])]_ledgerVars
  BY PaymentsCallLedger, KeepsStep, QuestionStep DEF Inv, Base
<1>2. QED
  BY <1>1, InvHolds, PaymentsStateStaysBacked, PTL DEF PaymentsSpec, EvidenceIsWriteOnce

(* No handler replaces the live nonce of another, or frees a signed one. *)
THEOREM PaymentsKeepNonceExclusive == PaymentsSpec => LiveNonceIsExclusive
<1>1. Inv /\ StateIsBacked /\ [PaymentsNext]_vars =>
         [\A r \in Requests : (Exists(r) /\ intents'[r] # None)
             => KeepsNonce(intents[r], intents'[r])]_ledgerVars
  BY PaymentsCallLedger, KeepsStep DEF Inv, Base
<1>2. QED
  BY <1>1, InvHolds, PaymentsStateStaysBacked, PTL DEF PaymentsSpec, LiveNonceIsExclusive

LEMMA PaymentsCallSigner ==
    ASSUME Base, [PaymentsNext]_vars
    PROVE  [SignerNext]_signerVars
<1>1. CASE UNCHANGED vars
  BY <1>1 DEF vars
<1>2. ASSUME NEW c \in Clients, CallSigner(c)
      PROVE  [SignerNext]_signerVars
  <2>1. TypedData(c) \in SignRequest
    BY <1>2, TypedDataType DEF Base, CallSigner, At, TailStages
  <2>2. QED
    BY <1>2, <2>1 DEF CallSigner, SignerNext, ClientStep
<1>3. ASSUME NEW c \in Clients, HandlerStep(c), ~CallSigner(c)
      PROVE  UNCHANGED signerVars
  BY <1>3 DEF HandlerStep, GetIntent, GetPolicy, GetWindowUsage, RunChecks, MatchIntent,
              Escalate, RecordEscalated, RecordRefused, Reserve, Release,
              RecordSigned, GetEscalation, ResolvePolicy, ResolveIntent, DenyStorage,
              ApproveStorage, SetStanding, StoreVerdict, RecordOrFail,
              ReadsOnly, LedgerOnly
<1>4. ASSUME NEW c \in Clients, SignerStep(c)
      PROVE  SignerNext
  BY <1>4 DEF SignerStep, SignerSigns, SignerFails, SignerNext, ClientStep
<1>5. CASE FaultStep
  BY <1>5 DEF FaultStep, HandlerDies, SignerUnreachable, SignerGoesDown, LedgerGoesDown,
              ReadsOnly, SignerNext
<1>6. CASE Environment
  BY <1>6 DEF Environment, NewIntent, ChallengeQuoted, OwnerRevokes, PutPolicy,
              TimePasses, RequestPayment, ResolveRequest, Begin
<1>7. QED
  BY <1>1, <1>2, <1>3, <1>4, <1>5, <1>6 DEF PaymentsNext

(* The composed services do nothing to the signer that its own             *)
(* specification, with callers that may send anything, does not allow. *)
THEOREM PaymentsImplementSigner == PaymentsSpec => SignerSpec
<1>1. PaymentsInit => SignerInit
  BY DEF PaymentsInit
<1>2. Inv /\ [PaymentsNext]_vars => [SignerNext]_signerVars
  BY PaymentsCallSigner DEF Inv
<1>3. QED
  BY <1>1, <1>2, InvHolds, PTL DEF PaymentsSpec, SignerSpec

LEMMA RailKept ==
    ASSUME Inv, EverySignatureIsWithinRail, [SignerNext]_signerVars
    PROVE  EverySignatureIsWithinRail'
<1>1. ASSUME NEW s \in signatures', s \notin signatures
      PROVE  WithinRail(s.request) /\ DomainMatches(s.request)
  <2>1. PICK c \in Clients : KeySigns(c)
    BY <1>1 DEF SignerNext, ClientStep, Sign, KeyFails, SignerRestart, signerVars
  <2>2. s = [client |-> c, request |-> signing[c]]
    BY <1>1, <2>1 DEF KeySigns
  <2>3. s.request = signing[c]
    BY <2>2
  <2>4. QED
    BY <2>1, <2>3 DEF KeySigns, Inv, SigningInv, AtKeyInv
<1>2. QED
  BY <1>1 DEF EverySignatureIsWithinRail, WithinRail, DomainMatches

(* So whatever policy-service was made to ask for, the rail holds of every *)
(* signature it obtained. *)
THEOREM PaymentsStayWithinRail == PaymentsSpec => []EverySignatureIsWithinRail
<1>1. PaymentsInit => EverySignatureIsWithinRail
  BY DEF PaymentsInit, SignerInit, EverySignatureIsWithinRail
<1>2. Inv /\ EverySignatureIsWithinRail /\ [PaymentsNext]_vars
         => EverySignatureIsWithinRail'
  BY PaymentsCallSigner, RailKept DEF Inv
<1>3. QED
  BY <1>1, <1>2, InvHolds, PTL DEF PaymentsSpec
-----------------------------------------------------------------------------
(* The refinement.  The key's answer is the grant; a requestId that comes  *)
(* into circulation is asked for; all else is a stutter. *)

LEMMA OnlyTheKeyGrants ==
    ASSUME Inv, PaymentsNext
    PROVE  \/ \E c \in Clients : KeySigns(c) /\ used' = used
           \/ UNCHANGED signatures /\ \E r \in Requests : used' = used \cup {r}
           \/ UNCHANGED <<signatures, used>>
<1>1. ASSUME NEW c \in Clients, HandlerStep(c)
      PROVE  UNCHANGED <<signatures, used>>
  BY <1>1 DEF HandlerStep, GetIntent, GetPolicy, GetWindowUsage, RunChecks, MatchIntent,
              Escalate, RecordEscalated, RecordRefused, Reserve, CallSigner, Release,
              RecordSigned, GetEscalation, ResolvePolicy, ResolveIntent, DenyStorage,
              ApproveStorage, SetStanding, StoreVerdict, RecordOrFail, Sign, Proceed,
              ReadsOnly, LedgerOnly, signerVars
<1>2. ASSUME NEW c \in Clients, SignerStep(c)
      PROVE  \/ KeySigns(c) /\ used' = used
             \/ UNCHANGED <<signatures, used>>
  BY <1>2 DEF SignerStep, SignerSigns, SignerFails, KeyFails, Hears, Proceed, serviceVars
<1>3. CASE FaultStep
  BY <1>3 DEF FaultStep, HandlerDies, SignerUnreachable, SignerGoesDown, LedgerGoesDown,
              Stop, SignerRestart, ReadsOnly, signerVars, serviceVars
<1>4. CASE Environment
  <2>1. ASSUME NEW c \in Clients, RequestPayment(c) \/ ResolveRequest(c)
        PROVE  UNCHANGED signatures /\ \E r \in Requests : used' = used \cup {r}
    <3>1. PICK b \in Body, stage \in {"getIntent", "getEscalation"} : Begin(c, b, stage)
      BY <2>1, RequestPaymentBegins, ResolveRequestBegins DEF Inv
    <3>2. b.request \in Requests
      BY DEF Body
    <3>3. QED
      BY <3>1, <3>2 DEF Begin, signerVars
  <2>2. QED
    BY <1>4, <2>1 DEF Environment, NewIntent, ChallengeQuoted, OwnerRevokes, PutPolicy,
                      TimePasses, signerVars, serviceVars
<1>5. QED
  BY <1>1, <1>2, <1>3, <1>4 DEF PaymentsNext

LEMMA KeyGrants ==
    ASSUME Inv, NEW c \in Clients, KeySigns(c), used' = used
    PROVE  Abstract!AuthNext
<1> DEFINE r == signing[c].requestId
           g == [client |-> c, request |-> signing[c]]
<1>1. /\ signing[c] \in SignRequest /\ r \in Requests /\ r = Req(c)
      /\ signing[c].nonce.request = r /\ body[c] # None /\ Holds(c)
      /\ WithinRail(signing[c]) /\ DomainMatches(signing[c])
  BY DEF Inv, Base, SignerTypeOK, KeySigns, SigningInv, AtKeyInv, HoldersAreKnown, Holds,
         SignRequest
<1>2. r \in used
  BY <1>1 DEF Inv, SigningInv, NothingUnused
<1>3. SignedFor(r) = {}
  BY <1>1 DEF SignedFor, Inv, SigningInv, NoHolderOnceSigned
<1>4. g.request = signing[c] /\ g \in [client : Clients, request : SignRequest]
  BY <1>1
<1>5. HonoursRequest(r, g)
  BY <1>1, <1>4 DEF HonoursRequest
<1>6. signatures' = signatures \cup {g}
  BY DEF KeySigns
<1>7. ASSUME NEW q \in Requests
      PROVE  SignedFor(q)' = IF q = r THEN {g} ELSE SignedFor(q)
  <2>1. SignedFor(q)' = SignedFor(q) \cup {s \in {g} : s.request.requestId = q}
    BY <1>6 DEF SignedFor
  <2>2. QED
    BY <2>1, <1>3, <1>4
<1>8. [q \in Requests |-> SignedFor(q)]'
         = [[q \in Requests |-> SignedFor(q)] EXCEPT ![r] = {g}]
  BY <1>1, <1>7
<1>9. Abstract!Grant(r, g)
  BY <1>1, <1>2, <1>3, <1>5, <1>8 DEF Abstract!Grant
<1>10. QED
  BY <1>1, <1>4, <1>9 DEF Abstract!AuthNext

LEMMA AbstractStep ==
    ASSUME Inv, [PaymentsNext]_vars
    PROVE  [Abstract!AuthNext]_Abstract!authVars
<1>1. ASSUME UNCHANGED signatures
      PROVE  [r \in Requests |-> SignedFor(r)]' = [r \in Requests |-> SignedFor(r)]
  BY <1>1 DEF SignedFor
<1>2. ASSUME UNCHANGED <<signatures, used>>
      PROVE  UNCHANGED Abstract!authVars
  BY <1>1, <1>2 DEF Abstract!authVars
<1>3. ASSUME UNCHANGED signatures, NEW r \in Requests, used' = used \cup {r}
      PROVE  Abstract!AuthNext
  BY <1>1, <1>3 DEF Abstract!AuthNext, Abstract!Ask
<1>4. CASE UNCHANGED vars
  BY <1>2, <1>4 DEF vars, signerVars, serviceVars
<1>5. CASE PaymentsNext
  BY <1>2, <1>3, <1>5, OnlyTheKeyGrants, KeyGrants
<1>6. QED
  BY <1>4, <1>5

LEMMA AbstractInit == PaymentsInit => Abstract!AuthInit
BY DEF PaymentsInit, SignerInit, SignedFor, Abstract!AuthInit

(* The services implement Authorization, so whatever the interleaving: a   *)
(* request is granted money once, after it was asked for, within the rail, *)
(* by a nonce that commits to it. *)
THEOREM PaymentsImplementAuthorization == PaymentsSpec => ImplementsAuthorization
<1>1. Inv /\ [PaymentsNext]_vars => [Abstract!AuthNext]_Abstract!authVars
  BY AbstractStep
<1>2. QED
  BY <1>1, AbstractInit, InvHolds, PTL
     DEF PaymentsSpec, ImplementsAuthorization, Abstract!AuthSpec
-----------------------------------------------------------------------------
(* Receipts and approvals                                                 *)

(* Stages of a handler that has heard of a signature. *)
Heard == {"approveStorage", "recordSigned", "setStanding"}

(* Why the ledger can be believed: a handler that writes "approve" or the  *)
(* terms of a signature has heard of one, over the nonce that its locals   *)
(* still give, and the instruction among them is the one on record. *)
HeardIsSigned ==
    \A c \in Clients : pc[c] \in Heard =>
        \E s \in SignedFor(Req(c)) : s.request.nonce = NonceOf(c)

AtKeyIsOwn ==
    \A c \in Clients : (pc[c] = "signing" /\ signing[c] # None) =>
        signing[c].nonce = NonceOf(c)

ReadIsOnRecord ==
    \A c \in Clients :
        /\ pc[c] = "idle" => got[c].intent = None
        /\ (body[c] # None /\ got[c].intent # None /\ Exists(Req(c))) =>
               got[c].intent.instruction = intents[Req(c)].instruction

EvidenceInv ==
    /\ HeardIsSigned /\ AtKeyIsOwn /\ ReadIsOnRecord
    /\ ReceiptRecomputesNonce /\ ApprovalIsBacked

(* What a step may do to a handler, to a receipt and to a verdict. *)
HandlerMoves(c) ==
    \/ /\ pc'[c] = pc[c] /\ got'[c] = got[c]
       /\ signing'[c] \in {signing[c], None}
    \/ /\ pc'[c] \notin Heard \cup {"signing", "idle"}
       /\ got'[c].intent \in {None, got[c].intent, intents[Req(c)]}
    \/ /\ pc'[c] \in Heard /\ got'[c] = got[c]
       /\ \/ pc[c] \in Heard
          \/ /\ pc[c] = "signing" /\ signing[c] # None
             /\ [client |-> c, request |-> signing[c]] \in signatures'
    \/ /\ pc'[c] = "signing" /\ got'[c] = got[c]
       /\ signing'[c].nonce = NonceOf(c)

TermsOf(c) == [policyHash |-> got[c].policy, merchantDomain |-> DomainOf(c)]

ReceiptMoves(r) ==
    intents'[r] # None =>
        /\ intents[r] # None
        /\ intents'[r].instruction = intents[r].instruction
        /\ \/ intents'[r].terms = intents[r].terms
           \/ \E c \in Clients : pc[c] \in Heard /\ Req(c) = r
                                 /\ intents'[r].terms = TermsOf(c)

VerdictMoves(r) ==
    (escalations'[r] # None /\ escalations'[r].decision = "approve") =>
        \/ escalations[r] # None /\ escalations[r].decision = "approve"
        \/ \E c \in Clients : pc[c] \in Heard /\ Req(c) = r

LEMMA SignaturesStay ==
    ASSUME signatures \subseteq signatures', NEW r
    PROVE  SignedFor(r) \subseteq SignedFor(r)'
BY DEF SignedFor

LEMMA EvidenceFrame ==
    ASSUME Inv, EvidenceInv, signatures \subseteq signatures', body' = body,
           \A c \in Clients : HandlerMoves(c),
           \A r \in Requests : ReceiptMoves(r) /\ VerdictMoves(r)
    PROVE  EvidenceInv'
<1>1. \A c \in Clients :
          /\ Req(c)' = Req(c)
          /\ got'[c] = got[c] => NonceOf(c)' = NonceOf(c)
  BY DEF Req, NonceOf, DomainOf, IsPayment
<1>2. HeardIsSigned'
  <2> SUFFICES ASSUME NEW c \in Clients, pc'[c] \in Heard
               PROVE  \E s \in SignedFor(Req(c))' : s.request.nonce = NonceOf(c)'
    BY DEF HeardIsSigned
  <2>1. got'[c] = got[c] /\ NonceOf(c)' = NonceOf(c) /\ Req(c)' = Req(c)
    BY <1>1 DEF HandlerMoves, Heard
  <2>2. CASE pc[c] \in Heard
    BY <2>1, <2>2, SignaturesStay DEF EvidenceInv, HeardIsSigned
  <2>3. CASE pc[c] \notin Heard
    <3> DEFINE s == [client |-> c, request |-> signing[c]]
    <3>1. pc[c] = "signing" /\ signing[c] # None /\ s \in signatures'
      BY <2>3 DEF HandlerMoves, Heard
    <3>2. signing[c].requestId = Req(c) /\ signing[c].nonce = NonceOf(c)
      BY <3>1 DEF EvidenceInv, AtKeyIsOwn, Inv, SigningInv, AtKeyInv
    <3>3. s \in SignedFor(Req(c))'
      BY <2>1, <3>1, <3>2 DEF SignedFor
    <3>4. QED
      BY <2>1, <3>2, <3>3
  <2>4. QED
    BY <2>2, <2>3
<1>3. AtKeyIsOwn'
  <2> SUFFICES ASSUME NEW c \in Clients, pc'[c] = "signing", signing'[c] # None
               PROVE  signing'[c].nonce = NonceOf(c)'
    BY DEF AtKeyIsOwn
  <2>1. QED
    BY <1>1 DEF HandlerMoves, Heard, EvidenceInv, AtKeyIsOwn
<1>4. ReadIsOnRecord'
  <2> SUFFICES ASSUME NEW c \in Clients
               PROVE  /\ pc'[c] = "idle" => got'[c].intent = None
                      /\ (body'[c] # None /\ got'[c].intent # None /\ Exists(Req(c))') =>
                            got'[c].intent.instruction = intents'[Req(c)'].instruction
    BY DEF ReadIsOnRecord
  <2>1. pc'[c] = "idle" => got'[c].intent = None
    BY DEF HandlerMoves, Heard, EvidenceInv, ReadIsOnRecord
  <2>2. ASSUME body[c] # None, got'[c].intent # None, Exists(Req(c))'
        PROVE  got'[c].intent.instruction = intents'[Req(c)].instruction
    <3>1. Req(c) \in Requests /\ intents'[Req(c)] # None
      BY <1>1, <2>2, KnownRequests DEF Inv, Exists
    <3>2. intents[Req(c)] # None /\ intents'[Req(c)].instruction = intents[Req(c)].instruction
      BY <3>1 DEF ReceiptMoves
    <3>3. got'[c].intent \in {got[c].intent, intents[Req(c)]}
      BY <2>2 DEF HandlerMoves
    <3>4. QED
      BY <2>2, <3>2, <3>3 DEF EvidenceInv, ReadIsOnRecord, Exists
  <2>3. QED
    BY <1>1, <2>1, <2>2
<1>5. ReceiptRecomputesNonce'
  <2> SUFFICES ASSUME NEW r \in Requests, intents'[r] # None, intents'[r].terms # None
               PROVE  \E s \in SignedFor(r)' :
                          s.request.nonce = CommitmentNonce(r, intents'[r].terms.policyHash,
                              intents'[r].instruction, intents'[r].terms.merchantDomain)
    BY DEF ReceiptRecomputesNonce, Exists
  <2>1. intents[r] # None /\ intents'[r].instruction = intents[r].instruction
    BY DEF ReceiptMoves
  <2>2. CASE intents'[r].terms = intents[r].terms
    BY <2>1, <2>2, SignaturesStay DEF EvidenceInv, ReceiptRecomputesNonce, Exists
  <2>3. CASE intents'[r].terms # intents[r].terms
    <3>1. PICK c \in Clients : pc[c] \in Heard /\ Req(c) = r /\ intents'[r].terms = TermsOf(c)
      BY <2>3 DEF ReceiptMoves
    <3>2. PICK s \in SignedFor(r) : s.request.nonce = NonceOf(c)
      BY <3>1 DEF EvidenceInv, HeardIsSigned
    <3>3. got[c].intent # None /\ body[c] # None
      <4>1. pc[c] \in TailStages /\ pc[c] # "idle"
        BY <3>1 DEF Heard, TailStages
      <4>2. body[c] \in Body /\ body[c] # None /\ Ready(pc[c], body[c], got[c])
        BY <4>1, Activation DEF Inv, Base
      <4>3. QED
        BY <4>1, <4>2 DEF Ready, Body
    <3>4. got[c].intent.instruction = intents[r].instruction
      BY <2>1, <3>1, <3>3 DEF EvidenceInv, ReadIsOnRecord, Exists
    <3>5. NonceOf(c) = CommitmentNonce(r, intents'[r].terms.policyHash,
                            intents'[r].instruction, intents'[r].terms.merchantDomain)
      BY <2>1, <3>1, <3>4 DEF NonceOf, TermsOf
    <3>6. QED
      BY <3>2, <3>5, SignaturesStay
  <2>4. QED
    BY <2>2, <2>3
<1>6. ApprovalIsBacked'
  <2> SUFFICES ASSUME NEW r \in Requests, escalations'[r] # None,
                      escalations'[r].decision = "approve"
               PROVE  SignedFor(r)' # {}
    BY DEF ApprovalIsBacked
  <2>1. SignedFor(r) # {}
    BY DEF VerdictMoves, EvidenceInv, ApprovalIsBacked, HeardIsSigned
  <2>2. QED
    BY <2>1, SignaturesStay
<1>7. QED
  BY <1>2, <1>3, <1>4, <1>5, <1>6 DEF EvidenceInv

(* Each step makes such moves.  First the ledger's side: most writes leave *)
(* instruction, terms and verdicts alone. *)
LEMMA SameRecordsMove ==
    ASSUME UNCHANGED <<intents, escalations>>
    PROVE  \A r \in Requests : ReceiptMoves(r) /\ VerdictMoves(r)
BY DEF ReceiptMoves, VerdictMoves

LEMMA NewRecordMoves ==
    ASSUME LedgerTypeOK, NEW q \in Requests, NEW record, Exists(q),
           intents' = [intents EXCEPT ![q] = record], UNCHANGED escalations,
           record.instruction = intents[q].instruction,
           \/ record.terms = intents[q].terms
           \/ \E c \in Clients : pc[c] \in Heard /\ Req(c) = q /\ record.terms = TermsOf(c)
    PROVE  \A r \in Requests : ReceiptMoves(r) /\ VerdictMoves(r)
BY DEF LedgerTypeOK, Exists, ReceiptMoves, VerdictMoves

LEMMA DecisionMoves ==
    ASSUME LedgerTypeOK, NEW q \in Requests, NEW d, NEW terms, RecordDecision(q, d, terms),
           \/ d # "signed"
           \/ \E c \in Clients : pc[c] \in Heard /\ Req(c) = q /\ terms = TermsOf(c)
    PROVE  \A r \in Requests : ReceiptMoves(r) /\ VerdictMoves(r)
<1>1. intents[q] \in IntentRecord /\ Exists(q)
  BY IntentIsRecord DEF RecordDecision
<1> DEFINE record ==
      IF d = "signed"
      THEN [intents[q] EXCEPT !.decision = d, !.decidedAt = now,
                              !.terms = terms, !.state = "SIGNED"]
      ELSE [intents[q] EXCEPT !.decision = d, !.decidedAt = now]
<1>2. /\ record.instruction = intents[q].instruction
      /\ record.terms = IF d = "signed" THEN terms ELSE intents[q].terms
  BY <1>1 DEF IntentRecord
<1>3. intents' = [intents EXCEPT ![q] = record] /\ UNCHANGED escalations
  BY DEF RecordDecision
<1> HIDE DEF record
<1>4. QED
  BY <1>1, <1>2, <1>3, NewRecordMoves

LEMMA ChallengeMoves ==
    ASSUME LedgerTypeOK, NEW q \in Requests, NEW ch, AttachChallenge(q, ch)
    PROVE  \A r \in Requests : ReceiptMoves(r) /\ VerdictMoves(r)
<1>1. intents[q] \in IntentRecord /\ Exists(q)
  BY IntentIsRecord DEF AttachChallenge
<1> DEFINE record == [intents[q] EXCEPT !.challenge = ch, !.challengeAttachedAt = now,
                                        !.state = "CHALLENGE_ATTACHED"]
<1>2. record.instruction = intents[q].instruction /\ record.terms = intents[q].terms
  BY <1>1 DEF IntentRecord
<1>3. intents' = [intents EXCEPT ![q] = record] /\ UNCHANGED escalations
  BY DEF AttachChallenge, UpdateIntent
<1> HIDE DEF record
<1>4. QED
  BY <1>1, <1>2, <1>3, NewRecordMoves

LEMMA NonceMoves ==
    ASSUME LedgerTypeOK, NEW q \in Requests, NEW nonce, ReserveNonce(q, nonce) \/ ReleaseNonce(q)
    PROVE  \A r \in Requests : ReceiptMoves(r) /\ VerdictMoves(r)
<1>1. intents[q] \in IntentRecord /\ Exists(q)
  BY IntentIsRecord DEF ReserveNonce, ReleaseNonce, CanReserve, CanRelease
<1>2. CASE ReserveNonce(q, nonce)
  <2> DEFINE record == [intents[q] EXCEPT !.nonce = nonce, !.nonceReleased = FALSE,
                                          !.state = "NONCE_RESERVED"]
  <2>1. record.instruction = intents[q].instruction /\ record.terms = intents[q].terms
    BY <1>1 DEF IntentRecord
  <2>2. intents' = [intents EXCEPT ![q] = record] /\ UNCHANGED escalations
    BY <1>2 DEF ReserveNonce, UpdateIntent
  <2> HIDE DEF record
  <2>3. QED
    BY <1>1, <2>1, <2>2, NewRecordMoves
<1>3. CASE ReleaseNonce(q)
  <2> DEFINE record == [intents[q] EXCEPT !.nonce = None, !.nonceReleased = TRUE,
                                          !.state = "CHALLENGE_ATTACHED"]
  <2>1. record.instruction = intents[q].instruction /\ record.terms = intents[q].terms
    BY <1>1 DEF IntentRecord
  <2>2. intents' = [intents EXCEPT ![q] = record] /\ UNCHANGED escalations
    BY <1>3 DEF ReleaseNonce, UpdateIntent
  <2> HIDE DEF record
  <2>3. QED
    BY <1>1, <2>1, <2>2, NewRecordMoves
<1>4. QED
  BY <1>2, <1>3

LEMMA RestartMoves ==
    ASSUME LedgerRestart
    PROVE  \A r \in Requests : ReceiptMoves(r) /\ VerdictMoves(r)
BY DEF LedgerRestart, Empty, ReceiptMoves, VerdictMoves

(* A question is put once and answered by who has heard, or denied. *)
LEMMA EscalationMoves ==
    ASSUME LedgerTypeOK, NEW q \in Requests,
           \/ \E m, reason, domain : CreateEscalation(q, m, reason, Ttl, domain)
           \/ ResolveEscalation(q, "deny")
           \/ /\ ResolveEscalation(q, "approve")
              /\ \E c \in Clients : pc[c] \in Heard /\ Req(c) = q
    PROVE  \A r \in Requests : ReceiptMoves(r) /\ VerdictMoves(r)
<1>1. UNCHANGED intents
  BY DEF CreateEscalation, ResolveEscalation
<1>2. ASSUME NEW r \in Requests PROVE VerdictMoves(r)
  <2>1. CASE \E m, reason, domain : CreateEscalation(q, m, reason, Ttl, domain)
    BY <2>1, LedgerAssumption DEF CreateEscalation, VerdictMoves, LedgerTypeOK
  <2>2. CASE ResolveEscalation(q, "deny")
    <3>1. escalations[q] \in EscalationRecord
      BY <2>2 DEF ResolveEscalation, LedgerTypeOK, Or
    <3>2. /\ escalations'[q].decision = "deny"
          /\ r # q => escalations'[r] = escalations[r]
      BY <2>2, <3>1 DEF ResolveEscalation, LedgerTypeOK, EscalationRecord
    <3>3. QED
      BY <3>2 DEF VerdictMoves
  <2>3. CASE /\ ResolveEscalation(q, "approve")
             /\ \E c \in Clients : pc[c] \in Heard /\ Req(c) = q
    <3>1. r # q => escalations'[r] = escalations[r]
      BY <2>3 DEF ResolveEscalation, LedgerTypeOK
    <3>2. QED
      BY <2>3, <3>1 DEF VerdictMoves
  <2>4. QED
    BY <2>1, <2>2, <2>3
<1>3. QED
  BY <1>1, <1>2 DEF ReceiptMoves

(* Then the handler's. *)
LEMMA ProceedMoves ==
    ASSUME Base, NEW c \in Clients, NEW stage, NEW locals, Proceed(c, stage, locals),
           UNCHANGED signing,
           \/ /\ stage \notin Heard \cup {"signing", "idle"}
              /\ locals.intent \in {None, got[c].intent, intents[Req(c)]}
           \/ stage \in Heard /\ pc[c] \in Heard /\ locals = got[c]
    PROVE  (\A d \in Clients : HandlerMoves(d)) /\ body' = body
<1>1. /\ pc'[c] = stage /\ got'[c] = IF stage \in Final THEN Nothing ELSE locals
      /\ \A d \in Clients : d # c => pc'[d] = pc[d] /\ got'[d] = got[d]
  BY DEF Proceed, Goto, Base, ServiceTypeOK
<1>2. stage \in Heard => stage \notin Final
  BY DEF Heard, Final
<1>3. HandlerMoves(c)
  BY <1>1, <1>2 DEF HandlerMoves, Nothing
<1>4. \A d \in Clients : d # c => HandlerMoves(d)
  BY <1>1 DEF HandlerMoves
<1>5. QED
  BY <1>3, <1>4 DEF Proceed

(* The step of one handler that leaves the key source alone. *)
LEMMA HandlerEvidence ==
    ASSUME Inv, EvidenceInv, NEW c \in Clients, NEW stage, NEW locals,
           Proceed(c, stage, locals), UNCHANGED signerVars,
           \/ /\ stage \notin Heard \cup {"signing", "idle"}
              /\ locals.intent \in {None, got[c].intent, intents[Req(c)]}
           \/ stage \in Heard /\ pc[c] \in Heard /\ locals = got[c],
           \A r \in Requests : ReceiptMoves(r) /\ VerdictMoves(r)
    PROVE  EvidenceInv'
<1>1. UNCHANGED <<signing, signatures>>
  BY DEF signerVars
<1>2. (\A d \in Clients : HandlerMoves(d)) /\ body' = body
  BY <1>1, ProceedMoves DEF Inv
<1>3. QED
  BY <1>1, <1>2, EvidenceFrame

LEMMA ReadsEvidence ==
    ASSUME Inv, EvidenceInv, NEW c \in Clients,
           \/ GetIntent(c) \/ GetPolicy(c) \/ GetWindowUsage(c) \/ RunChecks(c)
           \/ MatchIntent(c) \/ GetEscalation(c) \/ ResolvePolicy(c) \/ ResolveIntent(c)
    PROVE  EvidenceInv'
<1> DEFINE Quiet(stage, locals) ==
      /\ stage \notin Heard \cup {"signing", "idle"}
      /\ locals.intent \in {None, got[c].intent, intents[Req(c)]}
      Leads == \E stage, locals : Proceed(c, stage, locals) /\ Quiet(stage, locals)
<1>1. ReadsOnly
  BY DEF GetIntent, GetPolicy, GetWindowUsage, RunChecks, MatchIntent, GetEscalation,
         ResolvePolicy, ResolveIntent
<1>2. UNCHANGED signerVars /\ \A r \in Requests : ReceiptMoves(r) /\ VerdictMoves(r)
  BY <1>1, SameRecordsMove DEF ReadsOnly, ledgerVars
<1>3. got[c] \in Got
  BY DEF Inv, Base, ServiceTypeOK
<1>4. Leads
  <2>a. \A stage, locals :
            (/\ Proceed(c, stage, locals) /\ stage \notin Heard \cup {"signing", "idle"}
             /\ locals.intent \in {None, got[c].intent, intents[Req(c)]}) => Leads
    OBVIOUS
  <2>b. \A x : /\ [got[c] EXCEPT !.policy = x].intent = got[c].intent
               /\ [got[c] EXCEPT !.window = x].intent = got[c].intent
               /\ [got[c] EXCEPT !.reason = x].intent = got[c].intent
               /\ [got[c] EXCEPT !.because = x].intent = got[c].intent
               /\ [got[c] EXCEPT !.intent = x].intent = x
    BY <1>3 DEF Got
  <2> HIDE DEF Leads
  <2> USE DEF Heard
  <2>1. CASE GetIntent(c)
    BY <2>1, <2>a, <2>b DEF GetIntent
  <2>2. CASE GetPolicy(c)
    <3>1. \/ Proceed(c, "rejected", got[c])
          \/ \E p : Proceed(c, "getWindow", [got[c] EXCEPT !.policy = p])
      BY <2>2 DEF GetPolicy
    <3>2. QED
      BY <3>1, <2>a, <2>b
  <2>3. CASE GetWindowUsage(c)
    <3>1. \E w : Proceed(c, "getMandate", [got[c] EXCEPT !.window = w])
      BY <2>3 DEF GetWindowUsage
    <3>2. QED
      BY <3>1, <2>a, <2>b
  <2>4. CASE RunChecks(c)
    BY <2>4, <2>a, <2>b DEF RunChecks
  <2>5. CASE MatchIntent(c)
    BY <2>5, <2>a, <2>b DEF MatchIntent
  <2>6. CASE GetEscalation(c)
    <3> DEFINE read == [got[c] EXCEPT !.escalation = escalations[Req(c)]]
    <3>1. \/ Proceed(c, "rejected", got[c])
          \/ Proceed(c, "denyStorage", [read EXCEPT !.because = "expired"])
          \/ Proceed(c, "resolvePolicy", read)
      BY <2>6 DEF GetEscalation
    <3>2. /\ read.intent = got[c].intent
          /\ [read EXCEPT !.because = "expired"].intent = got[c].intent
      BY <1>3 DEF Got
    <3> HIDE DEF read
    <3>3. QED
      BY <3>1, <3>2, <2>a
  <2>7. CASE ResolvePolicy(c)
    <3>1. \/ Proceed(c, "rejected", got[c])
          \/ Proceed(c, "denyStorage", [got[c] EXCEPT !.because = "denied"])
          \/ \E p : Proceed(c, "resolveIntent", [got[c] EXCEPT !.policy = p])
      BY <2>7 DEF ResolvePolicy
    <3>2. QED
      BY <3>1, <2>a, <2>b
  <2>8. CASE ResolveIntent(c)
    BY <2>8, <2>a, <2>b DEF ResolveIntent
  <2>9. QED
    BY <2>1, <2>2, <2>3, <2>4, <2>5, <2>6, <2>7, <2>8
<1>5. QED
  BY <1>2, <1>4, HandlerEvidence

(* A decision other than "signed" says nothing of terms. *)
LEMMA RecordEvidence ==
    ASSUME Inv, EvidenceInv, NEW c \in Clients, pc[c] # "idle",
           NEW decision, NEW terms, NEW next,
           RecordOrFail(c, decision, terms, next),
           \/ decision # "signed" /\ next \notin Heard \cup {"signing", "idle"}
           \/ /\ pc[c] \in Heard /\ terms = TermsOf(c)
              /\ next \notin {"signing", "idle"}
    PROVE  EvidenceInv'
<1>1. Req(c) \in Requests /\ got[c] \in Got
  BY Activation DEF Inv, Base
<1>2. UNCHANGED signerVars
  BY DEF RecordOrFail, LedgerOnly
<1>3. CASE Exists(Req(c))
  <2>1. RecordDecision(Req(c), decision, terms) /\ Proceed(c, next, got[c])
    BY <1>3 DEF RecordOrFail
  <2>2. \A r \in Requests : ReceiptMoves(r) /\ VerdictMoves(r)
    BY <1>1, <2>1, DecisionMoves DEF Inv, Base
  <2>3. QED
    BY <1>2, <2>1, <2>2, HandlerEvidence
<1>4. CASE ~Exists(Req(c))
  <2>1. UNCHANGED ledgerVars /\ Proceed(c, "failed", got[c])
    BY <1>4 DEF RecordOrFail
  <2>2. \A r \in Requests : ReceiptMoves(r) /\ VerdictMoves(r)
    BY <2>1, SameRecordsMove DEF ledgerVars
  <2>3. QED
    BY <1>2, <2>1, <2>2, HandlerEvidence DEF Heard
<1>5. QED
  BY <1>3, <1>4

LEMMA VerdictEvidence ==
    ASSUME Inv, EvidenceInv, NEW c \in Clients, pc[c] # "idle",
           NEW verdict, NEW next, StoreVerdict(c, verdict, next),
           \/ verdict = "deny" /\ next \notin Heard \cup {"signing", "idle"}
           \/ verdict = "approve" /\ pc[c] \in Heard /\ next \in Heard
    PROVE  EvidenceInv'
<1>1. Req(c) \in Requests
  BY Activation DEF Inv, Base
<1>2. UNCHANGED signerVars
  BY DEF StoreVerdict, LedgerOnly
<1>3. CASE escalations[Req(c)] # None
  <2>1. ResolveEscalation(Req(c), verdict) /\ Proceed(c, next, got[c])
    BY <1>3 DEF StoreVerdict
  <2>2. \A r \in Requests : ReceiptMoves(r) /\ VerdictMoves(r)
    BY <1>1, <2>1, EscalationMoves DEF Inv, Base
  <2>3. QED
    BY <1>2, <2>1, <2>2, HandlerEvidence
<1>4. CASE escalations[Req(c)] = None
  <2>1. UNCHANGED ledgerVars /\ Proceed(c, "failed", got[c])
    BY <1>4 DEF StoreVerdict
  <2>2. \A r \in Requests : ReceiptMoves(r) /\ VerdictMoves(r)
    BY <2>1, SameRecordsMove DEF ledgerVars
  <2>3. QED
    BY <1>2, <2>1, <2>2, HandlerEvidence DEF Heard
<1>5. QED
  BY <1>3, <1>4

LEMMA WritesEvidence ==
    ASSUME Inv, EvidenceInv, NEW c \in Clients,
           \/ Escalate(c) \/ RecordEscalated(c) \/ RecordRefused(c) \/ RecordSigned(c)
           \/ DenyStorage(c) \/ ApproveStorage(c) \/ SetStanding(c)
    PROVE  EvidenceInv'
<1>1. CASE Escalate(c)
  <2>1. Req(c) \in Requests
    BY <1>1, Activation DEF Escalate, At, Inv, Base
  <2>2. \A r \in Requests : ReceiptMoves(r) /\ VerdictMoves(r)
    BY <1>1, <2>1, EscalationMoves DEF Escalate, Inv, Base
  <2>3. QED
    BY <1>1, <2>2, HandlerEvidence DEF Escalate, LedgerOnly, Heard
<1>2. CASE RecordEscalated(c)
  BY <1>2, RecordEvidence DEF RecordEscalated, At, Heard
<1>3. CASE RecordRefused(c)
  <2>1. RefusalOf(got[c].because) \in {"refused", "expired", "rejected"}
    BY DEF RefusalOf, Inv, Base, ServiceTypeOK, Got
  <2>2. /\ pc[c] = "recordRefused"
        /\ RecordOrFail(c, "refused", None, RefusalOf(got[c].because))
    BY <1>3 DEF RecordRefused, At
  <2>3. QED
    BY <2>1, <2>2, RecordEvidence DEF Heard
<1>4. CASE RecordSigned(c)
  <2> DEFINE next == IF body[c].standing /\ got[c].escalation.reason = "INTENT_MISMATCH"
                     THEN "setStanding" ELSE "signed"
  <2>1. pc[c] = "recordSigned" /\ RecordOrFail(c, "signed", TermsOf(c), next)
    BY <1>4 DEF RecordSigned, At, TermsOf
  <2>2. next \notin {"signing", "idle"}
    OBVIOUS
  <2> HIDE DEF next
  <2>3. QED
    BY <2>1, <2>2, RecordEvidence DEF Heard
<1>5. CASE DenyStorage(c)
  BY <1>5, VerdictEvidence DEF DenyStorage, At, Heard
<1>6. CASE ApproveStorage(c)
  BY <1>6, VerdictEvidence DEF ApproveStorage, At, Heard
<1>7. CASE SetStanding(c)
  <2>1. UNCHANGED <<intents, escalations>> /\ UNCHANGED signerVars
    BY <1>7 DEF SetStanding, SetStandingApproval, LedgerOnly
  <2>2. QED
    BY <1>7, <2>1, SameRecordsMove, HandlerEvidence DEF SetStanding, Heard
<1>8. QED
  BY <1>1, <1>2, <1>3, <1>4, <1>5, <1>6, <1>7

LEMMA TailEvidence ==
    ASSUME Inv, EvidenceInv, NEW c \in Clients, Reserve(c) \/ Release(c)
    PROVE  EvidenceInv'
<1>1. Req(c) \in Requests /\ got[c] \in Got
  BY Activation DEF Reserve, Release, At, Inv, Base
<1>2. /\ AfterRefusedSigning(c) \in {"recordRefused", "denyStorage"}
      /\ [got[c] EXCEPT !.because = "signer"].intent = got[c].intent
  BY <1>1 DEF AfterRefusedSigning, Got
<1>3. UNCHANGED signerVars
  BY DEF Reserve, Release, LedgerOnly
<1>4. \A r \in Requests : ReceiptMoves(r) /\ VerdictMoves(r)
  <2>1. \/ \E nonce : ReserveNonce(Req(c), nonce) \/ ReleaseNonce(Req(c))
        \/ UNCHANGED ledgerVars
    BY DEF Reserve, Release
  <2>2. QED
    BY <1>1, <2>1, NonceMoves, SameRecordsMove DEF Inv, Base, ledgerVars
<1>5. \/ Proceed(c, "sign", got[c])
      \/ Proceed(c, AfterRefusedSigning(c), [got[c] EXCEPT !.because = "signer"])
  BY DEF Reserve, Release
<1>6. QED
  BY <1>2, <1>3, <1>4, <1>5, HandlerEvidence DEF Heard

LEMMA CallSignerEvidence ==
    ASSUME Inv, EvidenceInv, NEW c \in Clients, CallSigner(c)
    PROVE  EvidenceInv'
<1>1. \A r \in Requests : ReceiptMoves(r) /\ VerdictMoves(r)
  BY SameRecordsMove DEF CallSigner, ledgerVars
<1>2. CASE ~Accepts(TypedData(c))
  BY <1>1, <1>2, HandlerEvidence DEF CallSigner, Heard
<1>3. CASE Accepts(TypedData(c))
  <2>1. /\ signing' = [signing EXCEPT ![c] = TypedData(c)] /\ signatures' = signatures
        /\ pc' = [pc EXCEPT ![c] = "signing"] /\ got' = [got EXCEPT ![c] = got[c]]
        /\ body' = body
    BY <1>3 DEF CallSigner, Sign, Proceed, Goto, Final
  <2>2. /\ signing'[c].nonce = NonceOf(c) /\ pc'[c] = "signing" /\ got'[c] = got[c]
        /\ \A d \in Clients : d # c =>
              pc'[d] = pc[d] /\ got'[d] = got[d] /\ signing'[d] = signing[d]
    BY <2>1 DEF Inv, Base, ServiceTypeOK, SignerTypeOK, TypedData
  <2>3. \A d \in Clients : HandlerMoves(d)
    BY <2>2 DEF HandlerMoves
  <2>4. QED
    BY <1>1, <2>1, <2>3, EvidenceFrame
<1>4. QED
  BY <1>2, <1>3

(* Only the handler that waits for it hears of a signature. *)
LEMMA KeyEvidence ==
    ASSUME Inv, EvidenceInv, NEW c \in Clients, SignerStep(c)
    PROVE  EvidenceInv'
<1>1. \A r \in Requests : ReceiptMoves(r) /\ VerdictMoves(r)
  BY SameRecordsMove DEF SignerStep, SignerSigns, SignerFails, ledgerVars
<1>2. /\ signing[c] # None /\ signing' = [signing EXCEPT ![c] = None]
      /\ signatures \subseteq signatures'
  BY DEF SignerStep, SignerSigns, SignerFails, KeySigns, KeyFails
<1>3. /\ signing'[c] = None
      /\ \A d \in Clients : d # c => signing'[d] = signing[d]
  BY <1>2 DEF Inv, Base, SignerTypeOK
<1>4. \E stage \in {"recordSigned", "approveStorage", "release"} :
          /\ Hears(c, stage)
          /\ stage # "release" => [client |-> c, request |-> signing[c]] \in signatures'
  BY DEF SignerStep, SignerSigns, SignerFails, KeySigns
<1>5. PICK stage \in {"recordSigned", "approveStorage", "release"} :
          /\ Hears(c, stage)
          /\ stage # "release" => [client |-> c, request |-> signing[c]] \in signatures'
  BY <1>4
<1>6. CASE pc[c] = "signing"
  <2>1. /\ pc' = [pc EXCEPT ![c] = stage] /\ got' = [got EXCEPT ![c] = got[c]]
        /\ body' = body
    BY <1>5, <1>6 DEF Hears, At, Proceed, Goto, Final
  <2>2. /\ pc'[c] = stage /\ got'[c] = got[c]
        /\ \A d \in Clients : d # c => pc'[d] = pc[d] /\ got'[d] = got[d]
    BY <2>1 DEF Inv, Base, ServiceTypeOK
  <2>3. HandlerMoves(c)
    BY <1>2, <1>5, <1>6, <2>2 DEF HandlerMoves, Heard
  <2>4. \A d \in Clients : d # c => HandlerMoves(d)
    BY <1>3, <2>2 DEF HandlerMoves
  <2>5. QED
    BY <1>1, <1>2, <2>1, <2>3, <2>4, EvidenceFrame
<1>7. CASE pc[c] # "signing"
  <2>1. UNCHANGED <<pc, got, body>>
    BY <1>5, <1>7 DEF Hears, At, serviceVars
  <2>2. \A d \in Clients : HandlerMoves(d)
    BY <1>3, <2>1 DEF HandlerMoves
  <2>3. QED
    BY <1>1, <1>2, <2>1, <2>2, EvidenceFrame
<1>8. QED
  BY <1>6, <1>7

LEMMA FaultEvidence ==
    ASSUME Inv, EvidenceInv, FaultStep
    PROVE  EvidenceInv'
<1>1. /\ signatures' = signatures /\ body' = body
      /\ \A c \in Clients : signing'[c] \in {signing[c], None}
  BY DEF FaultStep, HandlerDies, SignerUnreachable, SignerGoesDown, LedgerGoesDown, Stop,
         SignerRestart, ReadsOnly, signerVars, serviceVars
<1>2. \A c \in Clients : \/ pc'[c] = pc[c] /\ got'[c] = got[c]
                         \/ pc'[c] = "failed" /\ got'[c].intent = None
  BY DEF FaultStep, HandlerDies, SignerUnreachable, SignerGoesDown, LedgerGoesDown, Stop,
         serviceVars, Nothing
<1>3. \A c \in Clients : HandlerMoves(c)
  BY <1>1, <1>2 DEF HandlerMoves, Heard
<1>4. \A r \in Requests : ReceiptMoves(r) /\ VerdictMoves(r)
  <2>1. LedgerRestart \/ UNCHANGED ledgerVars
    BY DEF FaultStep, HandlerDies, SignerUnreachable, SignerGoesDown, LedgerGoesDown, ReadsOnly
  <2>2. QED
    BY <2>1, RestartMoves, SameRecordsMove DEF ledgerVars
<1>5. QED
  BY <1>1, <1>3, <1>4, EvidenceFrame

LEMMA FreshIntentEvidence ==
    ASSUME Inv, EvidenceInv, NEW r \in Requests, Unheard(r),
           NEW m, NEW i, NEW t, CreateIntent(r, m, i, t),
           UNCHANGED <<signing, signatures, body, got, pc>>
    PROVE  EvidenceInv'
<1>2. /\ intents'[r].terms = None /\ UNCHANGED escalations
      /\ \A q \in Requests : q # r => intents'[q] = intents[q]
  BY DEF CreateIntent, Inv, Base, LedgerTypeOK
<1>3. UNCHANGED <<signing, signatures, body, got, pc>>
  OBVIOUS
<1>4. \A c \in Clients : Req(c)' = Req(c) /\ NonceOf(c)' = NonceOf(c)
  BY <1>3 DEF Req, NonceOf, DomainOf, IsPayment
<1>5. \A q : SignedFor(q)' = SignedFor(q)
  BY <1>3 DEF SignedFor
<1>6. \A c \in Clients : body[c] # None => Req(c) \in Requests /\ Req(c) # r
  BY KnownRequests DEF Inv, Unheard
<1> USE DEF EvidenceInv
<1>7. HeardIsSigned' /\ AtKeyIsOwn'
  BY <1>3, <1>4, <1>5 DEF HeardIsSigned, AtKeyIsOwn
<1>8. ReadIsOnRecord'
  BY <1>2, <1>3, <1>4, <1>6 DEF ReadIsOnRecord, Exists
<1>9. ReceiptRecomputesNonce' /\ ApprovalIsBacked'
  BY <1>2, <1>5 DEF ReceiptRecomputesNonce, ApprovalIsBacked, Exists
<1>10. QED
  BY <1>7, <1>8, <1>9

LEMMA NewIntentEvidence ==
    ASSUME Inv, EvidenceInv, NewIntent
    PROVE  EvidenceInv'
BY NewIntentIsFresh, FreshIntentEvidence DEF Inv

LEMMA BeginEvidence ==
    ASSUME Inv, EvidenceInv, NEW c \in Clients, NEW b \in Body,
           NEW stage \in {"getIntent", "getEscalation"}, Begin(c, b, stage)
    PROVE  EvidenceInv'
<1>1. /\ pc[c] = "idle" /\ pc' = [pc EXCEPT ![c] = stage]
      /\ body' = [body EXCEPT ![c] = b]
      /\ UNCHANGED <<intents, escalations, signing, signatures, got>>
  BY DEF Begin, Goto, ledgerVars, signerVars
<1>2. /\ pc'[c] = stage
      /\ \A d \in Clients : d # c => pc'[d] = pc[d] /\ body'[d] = body[d]
  BY <1>1 DEF Inv, Base, ServiceTypeOK
<1>3. \A d \in Clients : d # c => Req(d)' = Req(d) /\ NonceOf(d)' = NonceOf(d)
  BY <1>1, <1>2 DEF Req, NonceOf, DomainOf, IsPayment
<1>4. \A q : SignedFor(q)' = SignedFor(q)
  BY <1>1 DEF SignedFor
<1> USE DEF EvidenceInv
<1>5. HeardIsSigned' /\ AtKeyIsOwn'
  BY <1>1, <1>2, <1>3, <1>4 DEF HeardIsSigned, AtKeyIsOwn, Heard
<1>6. ReadIsOnRecord'
  BY <1>1, <1>2, <1>3 DEF ReadIsOnRecord, Exists
<1>7. ReceiptRecomputesNonce' /\ ApprovalIsBacked'
  BY <1>1, <1>4 DEF ReceiptRecomputesNonce, ApprovalIsBacked, Exists
<1>8. QED
  BY <1>5, <1>6, <1>7

LEMMA EnvironmentEvidence ==
    ASSUME Inv, EvidenceInv, Environment
    PROVE  EvidenceInv'
<1>1. CASE NewIntent
  BY <1>1, NewIntentEvidence
<1>2. ASSUME UNCHANGED <<signerVars, serviceVars>>,
             \A r \in Requests : ReceiptMoves(r) /\ VerdictMoves(r)
      PROVE  EvidenceInv'
  BY <1>2, EvidenceFrame DEF signerVars, serviceVars, HandlerMoves
<1>3. CASE ChallengeQuoted
  BY <1>2, <1>3, ChallengeMoves DEF ChallengeQuoted, Inv, Base
<1>4. CASE OwnerRevokes
  BY <1>2, <1>4, SameRecordsMove DEF OwnerRevokes, ledgerVars
<1>5. CASE PutPolicy
  BY <1>2, <1>5, SameRecordsMove DEF PutPolicy, StorePolicy
<1>6. CASE TimePasses
  BY <1>2, <1>6, SameRecordsMove DEF TimePasses, Tick
<1>7. ASSUME NEW c \in Clients, RequestPayment(c) \/ ResolveRequest(c)
      PROVE  EvidenceInv'
  BY <1>7, RequestPaymentBegins, ResolveRequestBegins, BeginEvidence DEF Inv
<1>8. QED
  BY <1>1, <1>3, <1>4, <1>5, <1>6, <1>7 DEF Environment

LEMMA EvidenceStep ==
    ASSUME Inv, EvidenceInv, [PaymentsNext]_vars
    PROVE  EvidenceInv'
<1>1. CASE UNCHANGED vars
  <2>1. /\ UNCHANGED <<signatures, body>> /\ \A c \in Clients : HandlerMoves(c)
        /\ UNCHANGED <<intents, escalations>>
    BY <1>1 DEF vars, ledgerVars, signerVars, serviceVars, HandlerMoves
  <2>2. QED
    BY <2>1, SameRecordsMove, EvidenceFrame
<1>2. CASE PaymentsNext
  <2>1. ASSUME NEW c \in Clients, HandlerStep(c) \/ SignerStep(c)
        PROVE  EvidenceInv'
    BY <2>1, ReadsEvidence, WritesEvidence, TailEvidence, CallSignerEvidence, KeyEvidence
       DEF HandlerStep
  <2>2. QED
    BY <1>2, <2>1, EnvironmentEvidence, FaultEvidence DEF PaymentsNext
<1>3. QED
  BY <1>1, <1>2

LEMMA EvidenceInit == PaymentsInit => EvidenceInv
BY DEF PaymentsInit, LedgerInit, SignerInit, Empty, Nothing, EvidenceInv, HeardIsSigned, Heard,
       AtKeyIsOwn, ReadIsOnRecord, ReceiptRecomputesNonce, ApprovalIsBacked, Exists

LEMMA EvidenceHolds == PaymentsSpec => []EvidenceInv
BY EvidenceInit, EvidenceStep, InvHolds, PTL DEF PaymentsSpec

(* A receipt's terms are those of a real signature, whichever handler      *)
(* recorded them and whatever it had read by then. *)
THEOREM ReceiptAlwaysRecomputesNonce == PaymentsSpec => []ReceiptRecomputesNonce
<1>1. EvidenceInv => ReceiptRecomputesNonce
  BY DEF EvidenceInv
<1>2. QED
  BY <1>1, EvidenceHolds, PTL

(* No approval is stored that no signature stands behind. *)
THEOREM ApprovalAlwaysBacked == PaymentsSpec => []ApprovalIsBacked
<1>1. EvidenceInv => ApprovalIsBacked
  BY DEF EvidenceInv
<1>2. QED
  BY <1>1, EvidenceHolds, PTL
-----------------------------------------------------------------------------
(* Quotes and signatures                                                  *)

(* What the loop over CHECKS makes of a pass, and of a mandate not live.   *)
LEMMA FirstFailureIsFirst ==
    ASSUME NEW ctx
    PROVE  /\ FirstFailure(ctx) = 0 => \A i \in 1..8 : ~Fails(i, ctx)
           /\ Fails(1, ctx) => FirstFailure(ctx) = 1
           /\ FirstFailure(ctx) # 0 =>
                  \A j \in 1..(FirstFailure(ctx) - 1) : ~Fails(j, ctx)
<1> DEFINE First(i) == Fails(i, ctx) /\ \A j \in 1..(i-1) : ~Fails(j, ctx)
           failed == CHOOSE i \in 1..8 : First(i)
           Failing(i) == Fails(i, ctx)
<1>1. (\E i \in 1..8 : Failing(i)) =>
          \E i \in 1..8 : Failing(i) /\ \A j \in 1..(i-1) : ~Failing(j)
  <2> HIDE DEF Failing
  <2>1. \A i \in 1..8 : i \in {1, 2, 3, 4, 5, 6, 7, 8}
    OBVIOUS
  <2>2. \A i \in 1..8 : \A j \in 1..(i-1) : j \in {1, 2, 3, 4, 5, 6, 7, 8} /\ j < i
    OBVIOUS
  <2>3. QED
    BY <2>1, <2>2
<1>2. (\E i \in 1..8 : Fails(i, ctx)) => failed \in 1..8 /\ First(failed)
  BY <1>1
<1>3. FirstFailure(ctx) = IF \E i \in 1..8 : Fails(i, ctx) THEN failed ELSE 0
  BY DEF FirstFailure
<1>4. FirstFailure(ctx) = 0 => \A i \in 1..8 : ~Fails(i, ctx)
  BY <1>2, <1>3
<1>5. ASSUME Fails(1, ctx) PROVE FirstFailure(ctx) = 1
  <2>1. failed \in 1..8 /\ First(failed)
    BY <1>2, <1>5
  <2>2. failed # 1 => 1 \in 1..(failed - 1)
    BY <2>1
  <2>3. failed = 1
    BY <1>5, <2>1, <2>2
  <2>4. QED
    BY <1>3, <1>5, <2>3
<1>6. FirstFailure(ctx) # 0 =>
          \A j \in 1..(FirstFailure(ctx) - 1) : ~Fails(j, ctx)
  BY <1>2, <1>3
<1>7. QED
  BY <1>4, <1>5, <1>6

LEMMA PassChecksAmount ==
    ASSUME NEW ctx, Verdict(ctx) = "pass"
    PROVE  ctx.challenge.amount = ctx.requestedAmount
<1>1. FirstFailure(ctx) = 0
  BY DEF Verdict
<1>2. 5 \in 1..8
  OBVIOUS
<1>3. ~Fails(5, ctx)
  BY <1>1, <1>2, FirstFailureIsFirst
<1>4. QED
  BY <1>3 DEF Fails, AmountOutOfBounds

LEMMA DeadMandateIsRefused ==
    ASSUME NEW ctx, MandateNotLive(ctx)
    PROVE  Verdict(ctx) = "refuse"
<1>1. Fails(1, ctx)
  BY DEF Fails
<1>2. QED
  BY <1>1, FirstFailureIsFirst DEF Verdict

(* Why what is signed is what was quoted: the body, the locals, the open   *)
(* question and the request at the key source all agree with the intent on *)
(* record, and past check 5 the amount asked for is the challenge's.       *)
BodyAsQuoted ==
    \A c \in Clients : (body[c] # None /\ IsPayment(c) /\ Exists(Req(c))) =>
        /\ intents[Req(c)].challenge # None
        /\ body[c].challenge.amount = intents[Req(c)].challenge.amount
        /\ body[c].challenge.token = intents[Req(c)].challenge.token
        /\ body[c].mandateId = intents[Req(c)].mandateId

LocalsAsRecorded ==
    \A c \in Clients :
        /\ pc[c] = "idle" => got[c] = Nothing
        /\ (body[c] # None /\ Exists(Req(c))) =>
              /\ (got[c].intent # None /\ got[c].intent.challenge # None) =>
                    intents[Req(c)].challenge = got[c].intent.challenge
              /\ got[c].escalation # None =>
                    got[c].escalation.mandateId = intents[Req(c)].mandateId

PastCheck5 == {"getStanding", "reserve", "sign"}

AmountIsChecked ==
    \A c \in Clients : (pc[c] \in PastCheck5 /\ IsPayment(c)) =>
        body[c].requested = body[c].challenge.amount

QuestionAsAsked ==
    \A r \in Requests : escalations[r] # None =>
        /\ r \in used
        /\ Exists(r) => escalations[r].mandateId = intents[r].mandateId

OnRecord(q) ==
    Exists(q.requestId) =>
        /\ intents[q.requestId].challenge # None
        /\ q.value = intents[q.requestId].challenge.amount
        /\ q.token = intents[q.requestId].challenge.token
        /\ q.mandateId = intents[q.requestId].mandateId

KeyAsQuoted == \A c \in Clients : signing[c] # None => OnRecord(signing[c])

PinnedAndOnRecord ==
    \A s \in signatures : WithinRail(s.request) /\ OnRecord(s.request)

QuoteInv ==
    /\ BodyAsQuoted /\ LocalsAsRecorded /\ AmountIsChecked
    /\ QuestionAsAsked /\ KeyAsQuoted /\ PinnedAndOnRecord

(* What a step may do to a handler, an intent and a question. *)
HandlerAsks(c) ==
    /\ \/ pc'[c] = pc[c]
       \/ /\ pc'[c] # "idle"
          /\ (pc'[c] \in PastCheck5 /\ IsPayment(c)) =>
                 body[c].requested = body[c].challenge.amount
    /\ \/ got'[c] = got[c]
       \/ /\ pc'[c] # "idle"
          /\ got'[c].intent \in {None, got[c].intent, intents[Req(c)]}
          /\ got'[c].escalation \in {None, got[c].escalation, escalations[Req(c)]}
    /\ \/ signing'[c] \in {signing[c], None}
       \/ pc[c] = "sign" /\ signing'[c] = TypedData(c)

QuoteStays(r) ==
    intents'[r] # None =>
        /\ intents[r] # None
        /\ intents'[r].mandateId = intents[r].mandateId
        /\ intents'[r].challenge = intents[r].challenge \/ intents[r].challenge = None

QuestionStays(r) ==
    escalations'[r] # None =>
        \/ escalations[r] # None /\ escalations'[r].mandateId = escalations[r].mandateId
        \/ \E c \in Clients : /\ body[c] # None /\ IsPayment(c) /\ Req(c) = r
                              /\ escalations'[r].mandateId = body[c].mandateId

LEMMA TypedDataOnRecord ==
    ASSUME Inv, QuoteInv, NEW c \in Clients, pc[c] = "sign"
    PROVE  OnRecord(TypedData(c))
<1>1. /\ body[c] \in Body /\ body[c] # None /\ Ready("sign", body[c], got[c])
      /\ TypedData(c).requestId = Req(c)
  BY Activation DEF Inv, Base, TypedData
<1>2. CASE IsPayment(c)
  <2>1. body[c].requested = body[c].challenge.amount
    BY <1>2 DEF QuoteInv, AmountIsChecked, PastCheck5
  <2>2. QED
    BY <1>1, <1>2, <2>1
       DEF QuoteInv, BodyAsQuoted, OnRecord, TypedData, AmountOf, MandateOf, ChallengeOf, Req
<1>3. CASE ~IsPayment(c)
  <2>1. /\ got[c].intent # None /\ got[c].intent.challenge # None
        /\ got[c].escalation # None
    BY <1>1, <1>3 DEF Ready, TailStages, CheckStages, IsPayment, Body
  <2>2. QED
    BY <1>1, <1>3, <2>1
       DEF QuoteInv, LocalsAsRecorded, OnRecord, TypedData, AmountOf, MandateOf, ChallengeOf
<1>4. QED
  BY <1>2, <1>3

LEMMA QuoteFrame ==
    ASSUME Inv, QuoteInv, body' = body, used \subseteq used',
           \A c \in Clients : HandlerAsks(c),
           \A r \in Requests : QuoteStays(r) /\ QuestionStays(r),
           \A s \in signatures' : s \in signatures \/ \E c \in Clients :
               signing[c] # None /\ s.request = signing[c]
    PROVE  QuoteInv'
<1>1. \A c \in Clients : Req(c)' = Req(c) /\ IsPayment(c)' = IsPayment(c)
  BY DEF Req, IsPayment
<1>2. \A c \in Clients : body[c] # None => Req(c) \in Requests /\ Req(c) \in used
  BY KnownRequests DEF Inv, SigningInv, NothingUnused
<1> DEFINE StaysOnRecord(q) ==
      intents'[q.requestId] # None =>
          /\ intents'[q.requestId].challenge # None
          /\ q.value = intents'[q.requestId].challenge.amount
          /\ q.token = intents'[q.requestId].challenge.token
          /\ q.mandateId = intents'[q.requestId].mandateId
<1>a. ASSUME NEW q, q.requestId \in Requests, OnRecord(q)
      PROVE  StaysOnRecord(q)
  BY <1>a DEF OnRecord, QuoteStays, Exists
<1>3. BodyAsQuoted'
  BY <1>1, <1>2 DEF QuoteInv, BodyAsQuoted, QuoteStays, Exists
<1>4. LocalsAsRecorded'
  <2> SUFFICES ASSUME NEW c \in Clients
      PROVE  /\ pc'[c] = "idle" => got'[c] = Nothing
             /\ (body[c] # None /\ intents'[Req(c)] # None) =>
                /\ (got'[c].intent # None /\ got'[c].intent.challenge # None) =>
                      intents'[Req(c)].challenge = got'[c].intent.challenge
                /\ got'[c].escalation # None =>
                      got'[c].escalation.mandateId = intents'[Req(c)].mandateId
    BY <1>1 DEF LocalsAsRecorded, Exists
  <2>1. pc'[c] = "idle" => got'[c] = Nothing
    BY DEF HandlerAsks, QuoteInv, LocalsAsRecorded
  <2>2. ASSUME body[c] # None, intents'[Req(c)] # None
        PROVE  /\ (got'[c].intent # None /\ got'[c].intent.challenge # None) =>
                      intents'[Req(c)].challenge = got'[c].intent.challenge
               /\ got'[c].escalation # None =>
                      got'[c].escalation.mandateId = intents'[Req(c)].mandateId
    <3>1. /\ Req(c) \in Requests /\ intents[Req(c)] # None
          /\ intents'[Req(c)].mandateId = intents[Req(c)].mandateId
          /\ \/ intents'[Req(c)].challenge = intents[Req(c)].challenge
             \/ intents[Req(c)].challenge = None
      BY <1>2, <2>2 DEF QuoteStays
    <3>2. /\ got'[c].intent \in {None, got[c].intent, intents[Req(c)]}
          /\ got'[c].escalation \in {None, got[c].escalation, escalations[Req(c)]}
      BY DEF HandlerAsks
    <3>3. /\ (got[c].intent # None /\ got[c].intent.challenge # None) =>
                intents[Req(c)].challenge = got[c].intent.challenge
          /\ got[c].escalation # None =>
                got[c].escalation.mandateId = intents[Req(c)].mandateId
      BY <2>2, <3>1 DEF QuoteInv, LocalsAsRecorded, Exists
    <3>4. escalations[Req(c)] # None =>
              escalations[Req(c)].mandateId = intents[Req(c)].mandateId
      BY <3>1 DEF QuoteInv, QuestionAsAsked, Exists
    <3>5. (got'[c].intent # None /\ got'[c].intent.challenge # None) =>
                      intents'[Req(c)].challenge = got'[c].intent.challenge
      BY <3>1, <3>2, <3>3
    <3>6. QED
      BY <3>1, <3>2, <3>3, <3>4, <3>5
  <2>3. QED
    BY <2>1, <2>2
<1>5. AmountIsChecked'
  BY <1>1 DEF QuoteInv, AmountIsChecked, HandlerAsks
<1>6. QuestionAsAsked'
  <2> SUFFICES ASSUME NEW r \in Requests, escalations'[r] # None
               PROVE  /\ r \in used'
                      /\ intents'[r] # None => escalations'[r].mandateId = intents'[r].mandateId
    BY DEF QuestionAsAsked, Exists
  <2>1. CASE escalations[r] # None /\ escalations'[r].mandateId = escalations[r].mandateId
    BY <2>1 DEF QuoteInv, QuestionAsAsked, QuoteStays, Exists
  <2>2. CASE \E c \in Clients : /\ body[c] # None /\ IsPayment(c) /\ Req(c) = r
                                /\ escalations'[r].mandateId = body[c].mandateId
    BY <1>2, <2>2 DEF QuoteInv, BodyAsQuoted, QuoteStays, Exists
  <2>3. QED
    BY <2>1, <2>2 DEF QuestionStays
<1>7. KeyAsQuoted'
  <2> SUFFICES ASSUME NEW c \in Clients, signing'[c] # None
               PROVE  StaysOnRecord(signing'[c])
    BY DEF KeyAsQuoted, OnRecord, Exists
  <2>1. CASE signing'[c] = signing[c]
    <3>1. signing[c].requestId \in Requests /\ OnRecord(signing[c])
      BY <2>1 DEF QuoteInv, KeyAsQuoted, Inv, Base, SignerTypeOK, SignRequest
    <3>2. QED
      BY <1>a, <2>1, <3>1
  <2>2. CASE pc[c] = "sign" /\ signing'[c] = TypedData(c)
    <3>1. TypedData(c).requestId \in Requests
      BY <2>2, Activation DEF TypedData, Inv, Base
    <3>2. QED
      BY <1>a, <2>2, <3>1, TypedDataOnRecord
  <2>3. QED
    BY <2>1, <2>2 DEF HandlerAsks
<1>8. PinnedAndOnRecord'
  <2> SUFFICES ASSUME NEW s \in signatures'
               PROVE  WithinRail(s.request) /\ StaysOnRecord(s.request)
    BY DEF PinnedAndOnRecord, OnRecord, Exists, WithinRail
  <2>1. /\ s.request.requestId \in Requests
        /\ WithinRail(s.request) /\ OnRecord(s.request)
    BY KnownRequests DEF QuoteInv, KeyAsQuoted, PinnedAndOnRecord, Inv, SigningInv, AtKeyInv,
                         Base, SignerTypeOK, SignRequest
  <2>2. QED
    BY <1>a, <2>1
<1>9. QED
  BY <1>3, <1>4, <1>5, <1>6, <1>7, <1>8 DEF QuoteInv

LEMMA SameRecordsQuote ==
    ASSUME UNCHANGED <<intents, escalations>>
    PROVE  \A r \in Requests : QuoteStays(r) /\ QuestionStays(r)
BY DEF QuoteStays, QuestionStays

LEMMA NewRecordQuote ==
    ASSUME LedgerTypeOK, NEW q \in Requests, NEW record, Exists(q),
           intents' = [intents EXCEPT ![q] = record], UNCHANGED escalations,
           record.mandateId = intents[q].mandateId,
           record.challenge = intents[q].challenge \/ intents[q].challenge = None
    PROVE  \A r \in Requests : QuoteStays(r) /\ QuestionStays(r)
BY DEF LedgerTypeOK, Exists, QuoteStays, QuestionStays

LEMMA WritesQuote ==
    ASSUME LedgerTypeOK, NEW q \in Requests, NEW v, NEW terms,
           \/ RecordDecision(q, v, terms) \/ AttachChallenge(q, v)
           \/ ReserveNonce(q, v) \/ ReleaseNonce(q)
    PROVE  \A r \in Requests : QuoteStays(r) /\ QuestionStays(r)
<1>1. Exists(q)
  BY DEF RecordDecision, AttachChallenge, ReserveNonce, ReleaseNonce, CanReserve, CanRelease
<1>2. intents[q] \in IntentRecord
  BY <1>1, IntentIsRecord
<1>3. CASE RecordDecision(q, v, terms)
  <2> DEFINE record ==
        IF v = "signed"
        THEN [intents[q] EXCEPT !.decision = v, !.decidedAt = now,
                                !.terms = terms, !.state = "SIGNED"]
        ELSE [intents[q] EXCEPT !.decision = v, !.decidedAt = now]
  <2>1. record.mandateId = intents[q].mandateId /\ record.challenge = intents[q].challenge
    BY <1>2 DEF IntentRecord
  <2>2. intents' = [intents EXCEPT ![q] = record] /\ UNCHANGED escalations
    BY <1>3 DEF RecordDecision
  <2> HIDE DEF record
  <2>3. QED
    BY <1>1, <2>1, <2>2, NewRecordQuote
<1>4. CASE AttachChallenge(q, v)
  <2> DEFINE record == [intents[q] EXCEPT !.challenge = v, !.challengeAttachedAt = now,
                                          !.state = "CHALLENGE_ATTACHED"]
  <2>1. record.mandateId = intents[q].mandateId /\ intents[q].challenge = None
    BY <1>2, <1>4 DEF IntentRecord, AttachChallenge
  <2>2. intents' = [intents EXCEPT ![q] = record] /\ UNCHANGED escalations
    BY <1>4 DEF AttachChallenge, UpdateIntent
  <2> HIDE DEF record
  <2>3. QED
    BY <1>1, <2>1, <2>2, NewRecordQuote
<1>5. CASE ReserveNonce(q, v)
  <2> DEFINE record == [intents[q] EXCEPT !.nonce = v, !.nonceReleased = FALSE,
                                          !.state = "NONCE_RESERVED"]
  <2>1. record.mandateId = intents[q].mandateId /\ record.challenge = intents[q].challenge
    BY <1>2 DEF IntentRecord
  <2>2. intents' = [intents EXCEPT ![q] = record] /\ UNCHANGED escalations
    BY <1>5 DEF ReserveNonce, UpdateIntent
  <2> HIDE DEF record
  <2>3. QED
    BY <1>1, <2>1, <2>2, NewRecordQuote
<1>6. CASE ReleaseNonce(q)
  <2> DEFINE record == [intents[q] EXCEPT !.nonce = None, !.nonceReleased = TRUE,
                                          !.state = "CHALLENGE_ATTACHED"]
  <2>1. record.mandateId = intents[q].mandateId /\ record.challenge = intents[q].challenge
    BY <1>2 DEF IntentRecord
  <2>2. intents' = [intents EXCEPT ![q] = record] /\ UNCHANGED escalations
    BY <1>6 DEF ReleaseNonce, UpdateIntent
  <2> HIDE DEF record
  <2>3. QED
    BY <1>1, <2>1, <2>2, NewRecordQuote
<1>7. QED
  BY <1>3, <1>4, <1>5, <1>6

LEMMA RestartQuote ==
    ASSUME LedgerRestart
    PROVE  \A r \in Requests : QuoteStays(r) /\ QuestionStays(r)
BY DEF LedgerRestart, Empty, QuoteStays, QuestionStays

LEMMA QuestionsQuote ==
    ASSUME LedgerTypeOK, NEW q \in Requests, NEW m, NEW v, NEW domain,
           \/ ResolveEscalation(q, v)
           \/ /\ CreateEscalation(q, m, v, Ttl, domain)
              /\ \E c \in Clients : /\ body[c] # None /\ IsPayment(c) /\ Req(c) = q
                                    /\ m = body[c].mandateId
    PROVE  \A r \in Requests : QuoteStays(r) /\ QuestionStays(r)
<1>1. UNCHANGED intents
  BY DEF CreateEscalation, ResolveEscalation
<1>2. ASSUME NEW r \in Requests PROVE QuestionStays(r)
  <2>1. CASE ResolveEscalation(q, v)
    <3>1. escalations[q] \in EscalationRecord /\ escalations[q] # None
      BY <2>1 DEF ResolveEscalation, LedgerTypeOK, Or
    <3>2. /\ escalations'[q].mandateId = escalations[q].mandateId
          /\ r # q => escalations'[r] = escalations[r]
      BY <2>1, <3>1 DEF ResolveEscalation, LedgerTypeOK, EscalationRecord
    <3>3. QED
      BY <3>1, <3>2 DEF QuestionStays
  <2>2. CASE /\ CreateEscalation(q, m, v, Ttl, domain)
             /\ \E c \in Clients : /\ body[c] # None /\ IsPayment(c) /\ Req(c) = q
                                   /\ m = body[c].mandateId
    <3>1. /\ r # q => escalations'[r] = escalations[r]
          /\ escalations[q] # None => escalations'[q] = escalations[q]
          /\ escalations[q] = None => escalations'[q].mandateId = m
      BY <2>2 DEF CreateEscalation, LedgerTypeOK
    <3>2. QED
      BY <2>2, <3>1 DEF QuestionStays
  <2>3. QED
    BY <2>1, <2>2
<1>3. QED
  BY <1>1, <1>2 DEF QuoteStays

LEMMA HandlerQuote ==
    ASSUME Inv, QuoteInv, NEW c \in Clients, NEW stage, NEW locals,
           Proceed(c, stage, locals), UNCHANGED signerVars, stage # "idle",
           (stage \in PastCheck5 /\ IsPayment(c)) =>
               body[c].requested = body[c].challenge.amount,
           locals.intent \in {None, got[c].intent, intents[Req(c)]},
           locals.escalation \in {None, got[c].escalation, escalations[Req(c)]},
           \A r \in Requests : QuoteStays(r) /\ QuestionStays(r)
    PROVE  QuoteInv'
<1>1. UNCHANGED <<signing, signatures, body, used>>
  BY DEF signerVars, Proceed
<1>2. /\ pc'[c] = stage /\ got'[c] = IF stage \in Final THEN Nothing ELSE locals
      /\ \A d \in Clients : d # c => pc'[d] = pc[d] /\ got'[d] = got[d]
  BY DEF Proceed, Goto, Inv, Base, ServiceTypeOK
<1>3. HandlerAsks(c)
  BY <1>1, <1>2 DEF HandlerAsks, Nothing
<1>4. \A d \in Clients : d # c => HandlerAsks(d)
  BY <1>1, <1>2 DEF HandlerAsks
<1>5. QED
  BY <1>1, <1>3, <1>4, QuoteFrame

LEMMA ReadsQuote ==
    ASSUME Inv, QuoteInv, NEW c \in Clients,
           \/ GetIntent(c) \/ GetPolicy(c) \/ GetWindowUsage(c) \/ RunChecks(c)
           \/ MatchIntent(c) \/ GetEscalation(c) \/ ResolvePolicy(c) \/ ResolveIntent(c)
    PROVE  QuoteInv'
<1> DEFINE Checked == IsPayment(c) => body[c].requested = body[c].challenge.amount
      Quiet(stage, locals) ==
      /\ stage # "idle"
      /\ stage \in PastCheck5 => Checked
      /\ locals.intent \in {None, got[c].intent, intents[Req(c)]}
      /\ locals.escalation \in {None, got[c].escalation, escalations[Req(c)]}
      Leads == \E stage, locals : Proceed(c, stage, locals) /\ Quiet(stage, locals)
<1>1. ReadsOnly
  BY DEF GetIntent, GetPolicy, GetWindowUsage, RunChecks, MatchIntent, GetEscalation,
         ResolvePolicy, ResolveIntent
<1>2. UNCHANGED signerVars /\ \A r \in Requests : QuoteStays(r) /\ QuestionStays(r)
  BY <1>1, SameRecordsQuote DEF ReadsOnly, ledgerVars
<1>3. got[c] \in Got
  BY DEF Inv, Base, ServiceTypeOK
<1>4. Leads
  <2>a. \A stage, locals : (Proceed(c, stage, locals) /\ Quiet(stage, locals)) => Leads
    OBVIOUS
  <2>b. \A x : /\ Quiet("getPolicy", got[c]) /\ Quiet("recordRefused", got[c])
               /\ Quiet("rejected", got[c])
               /\ Quiet("getWindow", [got[c] EXCEPT !.policy = x])
               /\ Quiet("getMandate", [got[c] EXCEPT !.window = x])
               /\ Quiet("createEscalation", [got[c] EXCEPT !.reason = x])
               /\ Quiet("denyStorage", [got[c] EXCEPT !.because = x])
               /\ Quiet("resolveIntent", [got[c] EXCEPT !.policy = x])
    BY <1>3 DEF Got, PastCheck5
  <2>c. /\ Checked => Quiet("getStanding", got[c]) /\ Quiet("reserve", got[c])
        /\ \A stage \in {"getPolicy", "recordRefused"} :
              Quiet(stage, [got[c] EXCEPT !.intent = intents[Req(c)]])
        /\ Checked => Quiet("reserve", [got[c] EXCEPT !.intent = intents[Req(c)]])
    BY <1>3 DEF Got, PastCheck5
  <2>d. pc[c] \in PastCheck5 => Checked
    BY DEF QuoteInv, AmountIsChecked
  <2> HIDE DEF Leads, Quiet
  <2>1. CASE GetIntent(c)
    BY <2>1, <2>a, <2>c DEF GetIntent
  <2>2. CASE GetPolicy(c)
    <3>1. \/ Proceed(c, "rejected", got[c])
          \/ \E p : Proceed(c, "getWindow", [got[c] EXCEPT !.policy = p])
      BY <2>2 DEF GetPolicy
    <3>2. QED
      BY <3>1, <2>a, <2>b
  <2>3. CASE GetWindowUsage(c)
    <3>1. \E w : Proceed(c, "getMandate", [got[c] EXCEPT !.window = w])
      BY <2>3 DEF GetWindowUsage
    <3>2. QED
      BY <3>1, <2>a, <2>b
  <2>4. CASE RunChecks(c)
    <3>1. \/ Verdict(CheckContext(c)) = "pass" /\ Proceed(c, "getStanding", got[c])
          \/ Proceed(c, "recordRefused", got[c])
          \/ \E x : Proceed(c, "createEscalation", [got[c] EXCEPT !.reason = x])
      BY <2>4 DEF RunChecks
    <3>2. Verdict(CheckContext(c)) = "pass" => Checked
      BY PassChecksAmount DEF CheckContext
    <3>3. QED
      BY <3>1, <3>2, <2>a, <2>b, <2>c
  <2>5. CASE MatchIntent(c)
    <3>1. pc[c] \in PastCheck5
      BY <2>5 DEF MatchIntent, At, PastCheck5
    <3>2. \/ \E x : Proceed(c, "createEscalation", [got[c] EXCEPT !.reason = x])
          \/ Proceed(c, "reserve", got[c])
      BY <2>5 DEF MatchIntent
    <3>3. QED
      BY <3>1, <3>2, <2>a, <2>b, <2>c, <2>d
  <2>6. CASE GetEscalation(c)
    <3> DEFINE read == [got[c] EXCEPT !.escalation = escalations[Req(c)]]
    <3>1. \/ Proceed(c, "rejected", got[c])
          \/ Proceed(c, "denyStorage", [read EXCEPT !.because = "expired"])
          \/ Proceed(c, "resolvePolicy", read)
      BY <2>6 DEF GetEscalation
    <3>2. Quiet("denyStorage", [read EXCEPT !.because = "expired"]) /\ Quiet("resolvePolicy", read)
      BY <1>3 DEF Got, PastCheck5, Quiet
    <3> HIDE DEF read
    <3>3. QED
      BY <3>1, <3>2, <2>a, <2>b
  <2>7. CASE ResolvePolicy(c)
    <3>1. \/ Proceed(c, "rejected", got[c])
          \/ Proceed(c, "denyStorage", [got[c] EXCEPT !.because = "denied"])
          \/ \E p : Proceed(c, "resolveIntent", [got[c] EXCEPT !.policy = p])
      BY <2>7 DEF ResolvePolicy
    <3>2. QED
      BY <3>1, <2>a, <2>b
  <2>8. CASE ResolveIntent(c)
    <3>1. Checked
      <4>1. pc[c] = "resolveIntent"
        BY <2>8 DEF ResolveIntent, At
      <4>2. body[c].kind = "resolve"
        BY <4>1, Activation DEF Inv, Base, Ready
      <4>3. QED
        BY <4>2 DEF IsPayment
    <3>2. \/ Proceed(c, "reserve", [got[c] EXCEPT !.intent = intents[Req(c)]])
          \/ Proceed(c, "rejected", got[c])
      BY <2>8 DEF ResolveIntent
    <3>3. QED
      BY <3>1, <3>2, <2>a, <2>b, <2>c
  <2>9. QED
    BY <2>1, <2>2, <2>3, <2>4, <2>5, <2>6, <2>7, <2>8
<1>5. QED
  BY <1>2, <1>4, HandlerQuote

(* A write after which the handler goes on, or has failed. *)
LEMMA WritesAsQuoted ==
    ASSUME Inv, QuoteInv, NEW c \in Clients,
           \/ Escalate(c) \/ RecordEscalated(c) \/ RecordRefused(c) \/ RecordSigned(c)
           \/ DenyStorage(c) \/ ApproveStorage(c) \/ SetStanding(c)
    PROVE  QuoteInv'
<1>1. /\ pc[c] # "idle" /\ UNCHANGED signerVars
      /\ Req(c) \in Requests /\ got[c] \in Got
  <2>1. pc[c] # "idle" /\ UNCHANGED signerVars
    BY DEF Escalate, RecordEscalated, RecordRefused, RecordSigned, DenyStorage, ApproveStorage,
           SetStanding, RecordOrFail, StoreVerdict, LedgerOnly, At
  <2>2. QED
    BY <2>1, Activation DEF Inv, Base
<1>2. \A r \in Requests : QuoteStays(r) /\ QuestionStays(r)
  <2>1. CASE Escalate(c)
    <3>1. pc[c] = "createEscalation"
      BY <2>1 DEF Escalate, At
    <3>2. body[c] # None /\ IsPayment(c)
      BY <3>1, Activation DEF Inv, Base, Ready, CheckStages, IsPayment
    <3>3. CreateEscalation(Req(c), body[c].mandateId, got[c].reason, Ttl, body[c].domain)
      BY <2>1 DEF Escalate
    <3>4. QED
      BY <1>1, <3>2, <3>3, QuestionsQuote DEF Inv, Base
  <2>2. \/ Escalate(c)
        \/ \E v, terms : RecordDecision(Req(c), v, terms)
        \/ \E v : ResolveEscalation(Req(c), v)
        \/ UNCHANGED <<intents, escalations>>
    BY DEF RecordEscalated, RecordRefused, RecordSigned, DenyStorage, ApproveStorage,
           SetStanding, RecordOrFail, StoreVerdict, ledgerVars, SetStandingApproval
  <2>3. QED
    BY <1>1, <2>1, <2>2, WritesQuote, QuestionsQuote, SameRecordsQuote DEF Inv, Base
<1>3. \E stage : /\ Proceed(c, stage, got[c])
                 /\ stage # "idle" /\ stage \notin PastCheck5
  <2>1. RefusalOf(got[c].because) \in {"refused", "expired", "rejected"}
    BY <1>1 DEF RefusalOf, Got
  <2>2. CASE RecordRefused(c)
    BY <2>1, <2>2 DEF RecordRefused, RecordOrFail, PastCheck5
  <2>3. CASE RecordSigned(c)
    BY <2>3 DEF RecordSigned, RecordOrFail, PastCheck5
  <2>4. QED
    BY <2>2, <2>3 DEF Escalate, RecordEscalated, DenyStorage, ApproveStorage, SetStanding,
                      RecordOrFail, StoreVerdict, PastCheck5
<1>4. QED
  BY <1>1, <1>2, <1>3, HandlerQuote

LEMMA TailAsQuoted ==
    ASSUME Inv, QuoteInv, NEW c \in Clients, Reserve(c) \/ Release(c)
    PROVE  QuoteInv'
<1>1. Req(c) \in Requests /\ got[c] \in Got
  BY Activation DEF Reserve, Release, At, Inv, Base
<1>2. UNCHANGED signerVars
  BY DEF Reserve, Release, LedgerOnly
<1>3. \A r \in Requests : QuoteStays(r) /\ QuestionStays(r)
  <2>1. \/ \E nonce : ReserveNonce(Req(c), nonce)
        \/ ReleaseNonce(Req(c))
        \/ UNCHANGED <<intents, escalations>>
    BY DEF Reserve, Release, ledgerVars
  <2>2. QED
    BY <1>1, <2>1, WritesQuote, SameRecordsQuote DEF Inv, Base
<1>4. CASE Proceed(c, "sign", got[c]) /\ pc[c] = "reserve"
  <2>1. IsPayment(c) => body[c].requested = body[c].challenge.amount
    BY <1>4 DEF QuoteInv, AmountIsChecked, PastCheck5
  <2>2. QED
    BY <1>2, <1>3, <1>4, <2>1, HandlerQuote
<1>5. CASE Proceed(c, AfterRefusedSigning(c), [got[c] EXCEPT !.because = "signer"])
  <2>1. /\ AfterRefusedSigning(c) \in {"recordRefused", "denyStorage"}
        /\ [got[c] EXCEPT !.because = "signer"].intent = got[c].intent
        /\ [got[c] EXCEPT !.because = "signer"].escalation = got[c].escalation
    BY <1>1 DEF AfterRefusedSigning, Got
  <2>2. QED
    BY <1>2, <1>3, <1>5, <2>1, HandlerQuote DEF PastCheck5
<1>6. QED
  BY <1>4, <1>5 DEF Reserve, Release, At

LEMMA CallSignerAsQuoted ==
    ASSUME Inv, QuoteInv, NEW c \in Clients, CallSigner(c)
    PROVE  QuoteInv'
<1>1. \A r \in Requests : QuoteStays(r) /\ QuestionStays(r)
  BY SameRecordsQuote DEF CallSigner, ledgerVars
<1>2. CASE ~Accepts(TypedData(c))
  BY <1>1, <1>2, HandlerQuote DEF CallSigner, PastCheck5
<1>3. CASE Accepts(TypedData(c))
  <2>1. /\ signing' = [signing EXCEPT ![c] = TypedData(c)] /\ signatures' = signatures
        /\ pc' = [pc EXCEPT ![c] = "signing"] /\ got' = [got EXCEPT ![c] = got[c]]
        /\ body' = body /\ used' = used /\ pc[c] = "sign"
    BY <1>3 DEF CallSigner, Sign, Proceed, Goto, Final, At
  <2>2. /\ signing'[c] = TypedData(c) /\ pc'[c] = "signing" /\ got'[c] = got[c]
        /\ \A d \in Clients : d # c =>
              pc'[d] = pc[d] /\ got'[d] = got[d] /\ signing'[d] = signing[d]
    BY <2>1 DEF Inv, Base, ServiceTypeOK, SignerTypeOK
  <2>3. \A d \in Clients : HandlerAsks(d)
    BY <2>1, <2>2 DEF HandlerAsks, PastCheck5
  <2>4. QED
    BY <1>1, <2>1, <2>3, QuoteFrame
<1>4. QED
  BY <1>2, <1>3

LEMMA KeyAsksNothing ==
    ASSUME Inv, QuoteInv, NEW c \in Clients, SignerStep(c)
    PROVE  QuoteInv'
<1>1. \A r \in Requests : QuoteStays(r) /\ QuestionStays(r)
  BY SameRecordsQuote DEF SignerStep, SignerSigns, SignerFails, ledgerVars
<1>2. /\ signing[c] # None /\ signing' = [signing EXCEPT ![c] = None]
      /\ \/ signatures' = signatures
         \/ signatures' = signatures \cup {[client |-> c, request |-> signing[c]]}
  BY DEF SignerStep, SignerSigns, SignerFails, KeySigns, KeyFails
<1>3. \A d \in Clients : signing'[d] \in {signing[d], None}
  BY <1>2 DEF Inv, Base, SignerTypeOK
<1>4. \E stage \in {"recordSigned", "approveStorage", "release"} : Hears(c, stage)
  BY DEF SignerStep, SignerSigns, SignerFails
<1>5. /\ UNCHANGED <<used, body>>
      /\ \A d \in Clients : got'[d] = got[d] /\
            (pc'[d] = pc[d] \/ pc'[d] \in {"recordSigned", "approveStorage", "release"})
  BY <1>4 DEF Hears, Proceed, Goto, Final, serviceVars, Inv, Base, ServiceTypeOK
<1>6. \A d \in Clients : HandlerAsks(d)
  BY <1>3, <1>5 DEF HandlerAsks, PastCheck5
<1>7. QED
  BY <1>1, <1>2, <1>5, <1>6, QuoteFrame

LEMMA FaultAsQuoted ==
    ASSUME Inv, QuoteInv, FaultStep
    PROVE  QuoteInv'
<1>1. /\ signatures' = signatures /\ body' = body /\ used' = used
      /\ \A c \in Clients : signing'[c] \in {signing[c], None}
  BY DEF FaultStep, HandlerDies, SignerUnreachable, SignerGoesDown, LedgerGoesDown, Stop,
         SignerRestart, ReadsOnly, signerVars, serviceVars
<1>2. \A c \in Clients : \/ pc'[c] = pc[c] /\ got'[c] = got[c]
                         \/ /\ pc'[c] = "failed"
                            /\ got'[c].intent = None /\ got'[c].escalation = None
  BY DEF FaultStep, HandlerDies, SignerUnreachable, SignerGoesDown, LedgerGoesDown, Stop,
         serviceVars, Nothing
<1>3. \A c \in Clients : HandlerAsks(c)
  BY <1>1, <1>2 DEF HandlerAsks, PastCheck5
<1>4. \A r \in Requests : QuoteStays(r) /\ QuestionStays(r)
  <2>1. LedgerRestart \/ UNCHANGED ledgerVars
    BY DEF FaultStep, HandlerDies, SignerUnreachable, SignerGoesDown, LedgerGoesDown, ReadsOnly
  <2>2. QED
    BY <2>1, RestartQuote, SameRecordsQuote DEF ledgerVars
<1>5. QED
  BY <1>1, <1>3, <1>4, QuoteFrame

(* Nothing was asked for, escalated or signed under the requestId yet. *)
LEMMA FreshIntentAsQuoted ==
    ASSUME Inv, QuoteInv, NEW r \in Requests, Unheard(r), escalations[r] = None,
           NEW m, NEW i, NEW t, CreateIntent(r, m, i, t),
           used' = used \cup {r}, UNCHANGED <<signing, signatures, body, got, pc>>
    PROVE  QuoteInv'
<1>1. used' = used \cup {r}
  OBVIOUS
<1>2. /\ UNCHANGED escalations
      /\ \A q \in Requests : q # r => intents'[q] = intents[q]
  BY DEF CreateIntent, Inv, Base, LedgerTypeOK
<1>3. UNCHANGED <<signing, signatures, body, got, pc>>
  OBVIOUS
<1>4. \A c \in Clients : Req(c)' = Req(c) /\ IsPayment(c)' = IsPayment(c)
  BY <1>3 DEF Req, IsPayment
<1>5. \A c \in Clients : body[c] # None => Req(c) \in Requests /\ Req(c) # r
  BY KnownRequests DEF Inv, Unheard
<1> DEFINE StaysOnRecord(q) ==
      intents'[q.requestId] # None =>
          /\ intents'[q.requestId].challenge # None
          /\ q.value = intents'[q.requestId].challenge.amount
          /\ q.token = intents'[q.requestId].challenge.token
          /\ q.mandateId = intents'[q.requestId].mandateId
<1>6. ASSUME NEW q, q.requestId \in Requests, q.requestId # r, OnRecord(q)
      PROVE  StaysOnRecord(q)
  BY <1>2, <1>6 DEF OnRecord, Exists
<1> USE DEF QuoteInv
<1>7. BodyAsQuoted' /\ LocalsAsRecorded' /\ AmountIsChecked'
  BY <1>2, <1>3, <1>4, <1>5 DEF BodyAsQuoted, LocalsAsRecorded, AmountIsChecked, Exists
<1>8. QuestionAsAsked'
  BY <1>1, <1>2 DEF QuestionAsAsked, Exists
<1>9. KeyAsQuoted'
  <2> SUFFICES ASSUME NEW c \in Clients, signing[c] # None PROVE StaysOnRecord(signing[c])
    BY <1>3 DEF KeyAsQuoted, OnRecord, Exists
  <2>1. /\ signing[c].requestId \in Requests /\ signing[c].requestId # r
        /\ OnRecord(signing[c])
    BY <1>5 DEF KeyAsQuoted, Inv, SigningInv, AtKeyInv, HoldersAreKnown, Holds, Base,
                SignerTypeOK, SignRequest
  <2>2. QED
    BY <1>6, <2>1
<1>10. PinnedAndOnRecord'
  <2> SUFFICES ASSUME NEW s \in signatures
               PROVE  WithinRail(s.request) /\ StaysOnRecord(s.request)
    BY <1>3 DEF PinnedAndOnRecord, OnRecord, Exists, WithinRail
  <2>1. /\ s.request.requestId \in Requests /\ s.request.requestId # r
        /\ WithinRail(s.request) /\ OnRecord(s.request)
    BY KnownRequests DEF PinnedAndOnRecord, Inv, Unheard
  <2>2. QED
    BY <1>6, <2>1
<1>11. QED
  BY <1>7, <1>8, <1>9, <1>10

LEMMA NewIntentAsQuoted ==
    ASSUME Inv, QuoteInv, NewIntent
    PROVE  QuoteInv'
<1>1. PICK r \in Requests \ used, m \in Mandates, i \in Instructions, t \in {now - 1, now} :
          /\ CreateIntent(r, m, i, t) /\ used' = used \cup {r} /\ Unheard(r)
          /\ UNCHANGED <<signing, signatures, body, got, pc>>
  BY NewIntentIsFresh DEF Inv
<1>2. escalations[r] = None
  BY DEF QuoteInv, QuestionAsAsked
<1>3. QED
  BY <1>1, <1>2, FreshIntentAsQuoted

(* A handler begins with the quote on record, if any is. *)
LEMMA BeginAsQuoted ==
    ASSUME Inv, QuoteInv, NEW c \in Clients, NEW b \in Body,
           NEW stage \in {"getIntent", "getEscalation"}, Begin(c, b, stage),
           (b.kind = "payment" /\ Exists(b.request)) =>
               /\ intents[b.request].challenge # None
               /\ b.challenge.amount = intents[b.request].challenge.amount
               /\ b.challenge.token = intents[b.request].challenge.token
               /\ b.mandateId = intents[b.request].mandateId
    PROVE  QuoteInv'
<1>1. /\ pc[c] = "idle" /\ pc' = [pc EXCEPT ![c] = stage]
      /\ body' = [body EXCEPT ![c] = b] /\ used \subseteq used'
      /\ UNCHANGED <<intents, escalations, signing, signatures, got>>
  BY DEF Begin, Goto, ledgerVars, signerVars
<1>2. /\ pc'[c] = stage /\ body'[c] = b
      /\ \A d \in Clients : d # c => pc'[d] = pc[d] /\ body'[d] = body[d]
  BY <1>1 DEF Inv, Base, ServiceTypeOK
<1>3. /\ Req(c)' = b.request /\ (IsPayment(c)' <=> b.kind = "payment")
      /\ \A d \in Clients : d # c => Req(d)' = Req(d) /\ IsPayment(d)' = IsPayment(d)
  BY <1>2 DEF Req, IsPayment
<1>4. \A r : Exists(r)' = Exists(r)
  BY <1>1 DEF Exists
<1> USE DEF QuoteInv
<1>5. BodyAsQuoted'
  BY <1>1, <1>2, <1>3, <1>4 DEF BodyAsQuoted
<1>6. LocalsAsRecorded'
  <2> DEFINE Local(d) ==
        /\ pc[d] = "idle" => got[d] = Nothing
        /\ (body[d] # None /\ Exists(Req(d))) =>
              /\ (got[d].intent # None /\ got[d].intent.challenge # None) =>
                    intents[Req(d)].challenge = got[d].intent.challenge
              /\ got[d].escalation # None =>
                    got[d].escalation.mandateId = intents[Req(d)].mandateId
  <2>1. Local(c)'
    <3>1. got'[c] = Nothing
      BY <1>1 DEF LocalsAsRecorded
    <3>2. got'[c].intent = None /\ got'[c].escalation = None
      BY <3>1 DEF Nothing
    <3>3. QED
      BY <3>1, <3>2
  <2>2. ASSUME NEW d \in Clients, d # c PROVE Local(d)'
    <3>1. Local(d)
      BY DEF LocalsAsRecorded
    <3>2. QED
      BY <1>1, <1>2, <1>3, <1>4, <2>2, <3>1
  <2>3. QED
    BY <2>1, <2>2 DEF LocalsAsRecorded
<1>7. AmountIsChecked'
  BY <1>1, <1>2, <1>3 DEF AmountIsChecked, PastCheck5
<1>8. QuestionAsAsked' /\ KeyAsQuoted' /\ PinnedAndOnRecord'
  BY <1>1 DEF QuestionAsAsked, KeyAsQuoted, PinnedAndOnRecord, OnRecord, Exists, WithinRail
<1>9. QED
  BY <1>5, <1>6, <1>7, <1>8

LEMMA RequestAsQuoted ==
    ASSUME Inv, QuoteInv, NEW c \in Clients, RequestPayment(c)
    PROVE  QuoteInv'
<1>1. PICK r \in Requests, m \in Mandates, dom \in SentDomains, matches \in BOOLEAN :
          \E quote \in Quoted(r) : \E ch \in Poisoned(quote) :
              \E a \in {ch.amount} \cup AmountOverrides :
                 /\ Exists(r) => m = intents[r].mandateId
                 /\ Begin(c, PaymentBody(r, m, ch, a, dom, matches), "getIntent")
  BY DEF RequestPayment
<1>2. PICK quote \in Quoted(r) : \E ch \in Poisoned(quote) :
              \E a \in {ch.amount} \cup AmountOverrides :
                 /\ Exists(r) => m = intents[r].mandateId
                 /\ Begin(c, PaymentBody(r, m, ch, a, dom, matches), "getIntent")
  BY <1>1
<1>3. PICK ch \in Poisoned(quote) : \E a \in {ch.amount} \cup AmountOverrides :
                 /\ Exists(r) => m = intents[r].mandateId
                 /\ Begin(c, PaymentBody(r, m, ch, a, dom, matches), "getIntent")
  BY <1>2
<1>4. PICK a \in {ch.amount} \cup AmountOverrides :
                 /\ Exists(r) => m = intents[r].mandateId
                 /\ Begin(c, PaymentBody(r, m, ch, a, dom, matches), "getIntent")
  BY <1>3
<1> DEFINE b == PaymentBody(r, m, ch, a, dom, matches)
<1>5. \E other \in Body : Begin(c, other, "getIntent")
  BY RequestPaymentBegins DEF Inv
<1>6. b \in Body
  BY <1>4, <1>5 DEF Begin, Inv, Base, ServiceTypeOK
<1>7. Exists(r) =>
          /\ intents[r].challenge # None
          /\ ch.amount = intents[r].challenge.amount
          /\ ch.token = intents[r].challenge.token
          /\ m = intents[r].mandateId
  <2> SUFFICES ASSUME Exists(r)
               PROVE  /\ intents[r].challenge # None
                      /\ ch.amount = intents[r].challenge.amount
                      /\ ch.token = intents[r].challenge.token
    BY <1>4
  <2>1. quote = intents[r].challenge /\ quote # None
    BY DEF Quoted
  <2>2. intents[r] \in IntentRecord
    BY IntentIsRecord DEF Inv, Base
  <2>3. quote \in Challenge
    BY <2>1, <2>2, ContractsAssumption DEF IntentRecord, Or
  <2>4. ch.amount = quote.amount /\ ch.token = quote.token
    BY <2>3 DEF Poisoned, Challenge
  <2>5. QED
    BY <2>1, <2>4
<1>8. /\ b.request = r /\ b.challenge = ch /\ b.mandateId = m
      /\ Begin(c, b, "getIntent")
  BY <1>4 DEF PaymentBody
<1> HIDE DEF b
<1>9. QED
  BY <1>6, <1>7, <1>8, BeginAsQuoted

LEMMA ResolveAsQuoted ==
    ASSUME Inv, QuoteInv, NEW c \in Clients, ResolveRequest(c)
    PROVE  QuoteInv'
<1>1. PICK r \in used, verdict \in {"approve", "deny"}, byOwner \in BOOLEAN,
           standing \in BOOLEAN :
           Begin(c, ResolveBody(r, verdict, byOwner, standing), "getEscalation")
  BY DEF ResolveRequest
<1> DEFINE b == ResolveBody(r, verdict, byOwner, standing)
<1>2. r \in Requests
  BY DEF Inv, Base, ServiceTypeOK
<1>3. b \in Body
  BY <1>2 DEF Body, Or, ResolveBody
<1>4. b.kind = "resolve" /\ Begin(c, b, "getEscalation")
  BY <1>1 DEF ResolveBody
<1> HIDE DEF b
<1>5. QED
  BY <1>3, <1>4, BeginAsQuoted

LEMMA EnvironmentAsQuoted ==
    ASSUME Inv, QuoteInv, Environment
    PROVE  QuoteInv'
<1>1. CASE NewIntent
  BY <1>1, NewIntentAsQuoted
<1>2. ASSUME UNCHANGED <<signerVars, serviceVars>>,
             \A r \in Requests : QuoteStays(r) /\ QuestionStays(r)
      PROVE  QuoteInv'
  BY <1>2, QuoteFrame DEF signerVars, serviceVars, HandlerAsks
<1>3. CASE ChallengeQuoted
  BY <1>2, <1>3, WritesQuote DEF ChallengeQuoted, Inv, Base
<1>4. CASE OwnerRevokes
  BY <1>2, <1>4, SameRecordsQuote DEF OwnerRevokes, ledgerVars
<1>5. CASE PutPolicy
  BY <1>2, <1>5, SameRecordsQuote DEF PutPolicy, StorePolicy
<1>6. CASE TimePasses
  BY <1>2, <1>6, SameRecordsQuote DEF TimePasses, Tick
<1>7. QED
  BY <1>1, <1>3, <1>4, <1>5, <1>6, RequestAsQuoted, ResolveAsQuoted DEF Environment

LEMMA QuoteStep ==
    ASSUME Inv, QuoteInv, [PaymentsNext]_vars
    PROVE  QuoteInv'
<1>1. CASE UNCHANGED vars
  <2>1. /\ UNCHANGED <<signatures, body, used>> /\ \A c \in Clients : HandlerAsks(c)
        /\ UNCHANGED <<intents, escalations>>
    BY <1>1 DEF vars, ledgerVars, signerVars, serviceVars, HandlerAsks
  <2>2. QED
    BY <2>1, SameRecordsQuote, QuoteFrame
<1>2. CASE PaymentsNext
  <2>1. ASSUME NEW c \in Clients, HandlerStep(c) \/ SignerStep(c)
        PROVE  QuoteInv'
    BY <2>1, ReadsQuote, WritesAsQuoted, TailAsQuoted, CallSignerAsQuoted, KeyAsksNothing
       DEF HandlerStep
  <2>2. QED
    BY <1>2, <2>1, EnvironmentAsQuoted, FaultAsQuoted DEF PaymentsNext
<1>3. QED
  BY <1>1, <1>2

LEMMA QuoteInit == PaymentsInit => QuoteInv
BY DEF PaymentsInit, LedgerInit, SignerInit, Empty, Nothing, QuoteInv, BodyAsQuoted,
       LocalsAsRecorded, AmountIsChecked, PastCheck5, QuestionAsAsked, KeyAsQuoted,
       PinnedAndOnRecord, Exists

LEMMA QuoteHolds == PaymentsSpec => []QuoteInv
BY QuoteInit, QuoteStep, InvHolds, PTL DEF PaymentsSpec

(* What was signed is the amount on record, under the mandate on record,   *)
(* to that mandate's pinned recipient, whatever the handler was asked for. *)
THEOREM SignedStaysAsQuoted == PaymentsSpec => []SignedAsQuoted
<1>1. QuoteInv => SignedAsQuoted
  BY DEF QuoteInv, PinnedAndOnRecord, OnRecord, WithinRail, SignedAsQuoted
<1>2. QED
  BY <1>1, QuoteHolds, PTL
-----------------------------------------------------------------------------
(* Revocation                                                             *)

(* Why a revoked mandate pays nothing more: the registry never forgets a   *)
(* revocation, and a handler that began after it reads it in time, before  *)
(* check 1, and is refused. *)
RefusalPath ==
    {"getIntent", "getPolicy", "getWindow", "getMandate", "recordRefused"}
        \cup (Final \ {"signed"})

TooLate(c) == body[c] # None /\ IsPayment(c) /\ body[c].afterRevoke

RevokedInv ==
    \A c \in Clients : TooLate(c) =>
        registry[body[c].mandateId].revoked /\ pc[c] \in RefusalPath

StaysRevoked == \A m \in Mandates : registry[m].revoked => registry'[m].revoked

LEMMA PaysForKnown ==
    ASSUME Inv, NEW c \in Clients, TooLate(c)
    PROVE  body[c].mandateId \in Mandates
BY DEF Inv, Base, HandlerInv, Ready, ServiceTypeOK, Body, Or, TooLate, IsPayment

LEMMA RevokedFrame ==
    ASSUME Inv, RevokedInv, body' = body, StaysRevoked,
           \A c \in Clients : TooLate(c) => pc'[c] \in RefusalPath
    PROVE  RevokedInv'
<1> SUFFICES ASSUME NEW c \in Clients, TooLate(c)'
             PROVE  registry'[body[c].mandateId].revoked /\ pc'[c] \in RefusalPath
  BY DEF RevokedInv, RefusalPath, Final
<1>1. TooLate(c)
  BY DEF TooLate, IsPayment
<1>2. QED
  BY <1>1, PaysForKnown DEF RevokedInv, StaysRevoked

(* One handler goes on. *)
LEMMA RevokedHandler ==
    ASSUME Inv, RevokedInv, NEW c \in Clients, HandlerStep(c)
    PROVE  RevokedInv'
<1>1. /\ registry' = registry /\ body' = body
      /\ \E stage : pc' = [pc EXCEPT ![c] = stage]
  BY DEF HandlerStep, GetIntent, GetPolicy, GetWindowUsage, RunChecks, MatchIntent, Escalate,
         RecordEscalated, RecordRefused, Reserve, CallSigner, Release, RecordSigned,
         GetEscalation, ResolvePolicy, ResolveIntent, DenyStorage, ApproveStorage, SetStanding,
         RecordOrFail, StoreVerdict, ReadsOnly, LedgerOnly, Proceed, Goto
<1>2. \A d \in Clients : d # c => pc'[d] = pc[d]
  BY <1>1 DEF Inv, Base, ServiceTypeOK
<1>3. ASSUME TooLate(c) PROVE pc'[c] \in RefusalPath
  <2>1. pc[c] \in RefusalPath /\ registry[body[c].mandateId].revoked
    BY <1>3 DEF RevokedInv
  <2>2. \A stage, locals : Proceed(c, stage, locals) => pc'[c] = stage
    BY DEF Proceed, Goto, Inv, Base, ServiceTypeOK
  <2>3. \/ GetIntent(c) \/ GetPolicy(c) \/ GetWindowUsage(c)
        \/ RunChecks(c) \/ RecordRefused(c)
    BY <2>1 DEF HandlerStep, MatchIntent, Escalate, RecordEscalated, Reserve, CallSigner, Release,
                RecordSigned, GetEscalation, ResolvePolicy, ResolveIntent, DenyStorage,
                ApproveStorage, SetStanding, At, RefusalPath, Final
  <2>4. CASE GetIntent(c) \/ GetPolicy(c) \/ GetWindowUsage(c)
    <3>1. \E stage \in {"getPolicy", "recordRefused", "rejected", "getWindow", "getMandate"} :
              \E locals : Proceed(c, stage, locals)
      BY <2>4 DEF GetIntent, GetPolicy, GetWindowUsage
    <3>2. QED
      BY <2>2, <3>1 DEF RefusalPath, Final
  <2>5. CASE RunChecks(c)
    <3>1. MandateNotLive(CheckContext(c))
      BY <2>1 DEF MandateNotLive, CheckContext, ChainMandate
    <3>2. Verdict(CheckContext(c)) = "refuse"
      BY <3>1, DeadMandateIsRefused
    <3>3. Proceed(c, "recordRefused", got[c])
      BY <2>5, <3>2 DEF RunChecks
    <3>4. QED
      BY <2>2, <3>3 DEF RefusalPath
  <2>6. CASE RecordRefused(c)
    <3>1. RefusalOf(got[c].because) \in {"refused", "expired", "rejected"}
      BY DEF RefusalOf, Inv, Base, ServiceTypeOK, Got
    <3>2. \/ Proceed(c, RefusalOf(got[c].because), got[c])
          \/ Proceed(c, "failed", got[c])
      BY <2>6 DEF RecordRefused, RecordOrFail
    <3>3. QED
      BY <2>2, <3>1, <3>2 DEF RefusalPath, Final
  <2>7. QED
    BY <2>3, <2>4, <2>5, <2>6
<1>4. \A d \in Clients : TooLate(d) => pc'[d] \in RefusalPath
  BY <1>2, <1>3 DEF RevokedInv
<1>5. QED
  BY <1>1, <1>4, RevokedFrame DEF StaysRevoked

(* The key source answers nobody who began too late, and a fault ends him. *)
LEMMA RevokedElsewhere ==
    ASSUME Inv, RevokedInv, (\E c \in Clients : SignerStep(c)) \/ FaultStep
    PROVE  RevokedInv'
<1>1. body' = body /\ registry' = registry
  BY DEF SignerStep, SignerSigns, SignerFails, Hears, Proceed, FaultStep, HandlerDies,
         SignerUnreachable, SignerGoesDown, LedgerGoesDown, Stop, ReadsOnly, serviceVars
<1>2. \A d \in Clients : pc'[d] = pc[d] \/ pc'[d] = "failed" \/ pc[d] = "signing"
  BY DEF SignerStep, SignerSigns, SignerFails, Hears, Proceed, Goto, At, FaultStep, HandlerDies,
         SignerUnreachable, SignerGoesDown, LedgerGoesDown, Stop, ReadsOnly, serviceVars,
         Inv, Base, ServiceTypeOK
<1>3. \A d \in Clients : TooLate(d) => pc'[d] \in RefusalPath
  BY <1>2 DEF RevokedInv, RefusalPath, Final
<1>4. QED
  BY <1>1, <1>3, RevokedFrame DEF StaysRevoked

LEMMA RevokedBegin ==
    ASSUME Inv, RevokedInv, NEW c \in Clients, NEW b, NEW stage \in {"getIntent", "getEscalation"},
           Begin(c, b, stage),
           b.kind = "payment" =>
               stage = "getIntent" /\ (b.afterRevoke => registry[b.mandateId].revoked)
    PROVE  RevokedInv'
<1>1. /\ pc'[c] = stage /\ body'[c] = b /\ registry' = registry
      /\ \A d \in Clients : d # c => pc'[d] = pc[d] /\ body'[d] = body[d]
  BY DEF Begin, Goto, Inv, Base, ServiceTypeOK
<1>2. \A d \in Clients : d # c => (TooLate(d)' <=> TooLate(d))
  BY <1>1 DEF TooLate, IsPayment
<1>3. TooLate(c)' => b.kind = "payment" /\ b.afterRevoke
  BY <1>1 DEF TooLate, IsPayment
<1>4. QED
  BY <1>1, <1>2, <1>3 DEF RevokedInv, RefusalPath, Final

LEMMA RevokedEnvironment ==
    ASSUME Inv, RevokedInv, Environment
    PROVE  RevokedInv'
<1>1. CASE NewIntent \/ ChallengeQuoted \/ OwnerRevokes \/ PutPolicy \/ TimePasses
  <2>1. UNCHANGED <<body, pc>>
    BY <1>1 DEF NewIntent, ChallengeQuoted, OwnerRevokes, PutPolicy, TimePasses, serviceVars
  <2>2. registry' = registry \/ \E m \in Mandates : Revoke(Owner, m)
    BY <1>1 DEF NewIntent, ChallengeQuoted, OwnerRevokes, PutPolicy, TimePasses
  <2>3. StaysRevoked
    BY <2>2 DEF StaysRevoked, Revoke, Inv, Base, RegistryOK, RegistryEntry
  <2>4. QED
    BY <2>1, <2>3, RevokedFrame DEF RevokedInv
<1>2. ASSUME NEW c \in Clients, RequestPayment(c) PROVE RevokedInv'
  <2>1. \E r, m, ch, a, dom, matches :
            Begin(c, PaymentBody(r, m, ch, a, dom, matches), "getIntent")
    BY <1>2 DEF RequestPayment
  <2>2. PICK r, m, ch, a, dom, matches :
            Begin(c, PaymentBody(r, m, ch, a, dom, matches), "getIntent")
    BY <2>1
  <2>3. QED
    BY <2>2, RevokedBegin DEF PaymentBody
<1>3. ASSUME NEW c \in Clients, ResolveRequest(c) PROVE RevokedInv'
  <2>1. \E r, verdict, byOwner, standing :
            Begin(c, ResolveBody(r, verdict, byOwner, standing), "getEscalation")
    BY <1>3 DEF ResolveRequest
  <2>2. QED
    BY <2>1, RevokedBegin DEF ResolveBody
<1>4. QED
  BY <1>1, <1>2, <1>3 DEF Environment

LEMMA RevokedStep ==
    ASSUME Inv, RevokedInv, [PaymentsNext]_vars
    PROVE  RevokedInv'
<1>1. CASE UNCHANGED vars
  BY <1>1, RevokedFrame DEF vars, serviceVars, StaysRevoked, RevokedInv
<1>2. CASE PaymentsNext
  BY <1>2, RevokedHandler, RevokedElsewhere, RevokedEnvironment DEF PaymentsNext
<1>3. QED
  BY <1>1, <1>2

LEMMA RevokedHolds == PaymentsSpec => []RevokedInv
<1>1. PaymentsInit => RevokedInv
  BY DEF PaymentsInit, RevokedInv, TooLate
<1>2. QED
  BY <1>1, RevokedStep, InvHolds, PTL DEF PaymentsSpec

(* Whatever order the calls of a handler and of others come in, a payment  *)
(* first requested after the revocation gets no further than check 1. *)
THEOREM RevocationAlwaysStops == PaymentsSpec => []RevocationStopsPayments
<1>1. RevokedInv => RevocationStopsPayments
  BY DEF RevokedInv, TooLate, RefusalPath, Final, RevocationStopsPayments
<1>2. QED
  BY <1>1, RevokedHolds, PTL
-----------------------------------------------------------------------------
(* Live nonces                                                            *)

(* Why a reserved nonce is in somebody's hands: without the faults that    *)
(* stop a handler between reservation and answer, what is at the key       *)
(* source is waited for, and a decision that would forbid the release was  *)
(* written by a handler that has heard of a signature. *)
HandlersStay == Faults \subseteq {"keyFails", "ledgerRestart"}

Awaited == \A c \in Clients : signing[c] # None => pc[c] = "signing"

SignedIsSigned ==
    \A r \in Requests : (Exists(r) /\ intents[r].decision = "signed") => SignedFor(r) # {}

AccountedInv == Awaited /\ SignedIsSigned /\ LiveNonceIsAccountedFor

(* What a step may do to a decision, to a live nonce and to its holder. *)
SignedMoves(r) ==
    (intents'[r] # None /\ intents'[r].decision = "signed") =>
        \/ intents[r] # None /\ intents[r].decision = "signed"
        \/ \E c \in Clients : pc[c] \in Heard /\ Req(c) = r

LiveAfter(r) == intents'[r] # None /\ intents'[r].nonce # None /\ ~intents'[r].nonceReleased

NonceIsTaken(r) ==
    LiveAfter(r) => \/ Exists(r) /\ LiveNonce(r)
                    \/ \E c \in Clients : pc'[c] = "sign" /\ body[c] # None /\ Req(c) = r

HolderMoves(c) ==
    /\ signing'[c] # None => pc'[c] = "signing"
    /\ (Holds(c) /\ LiveAfter(Req(c))) =>
          \/ pc'[c] \in {"sign", "signing", "release"}
          \/ SignedFor(Req(c)) # {}
          \/ \E s \in signatures' : s.request.requestId = Req(c)

LEMMA AccountedFrame ==
    ASSUME Inv, EvidenceInv, AccountedInv, signatures \subseteq signatures', body' = body,
           \A c \in Clients : HolderMoves(c),
           \A r \in Requests : SignedMoves(r) /\ NonceIsTaken(r)
    PROVE  AccountedInv'
<1>1. \A c \in Clients : Req(c)' = Req(c)
  BY DEF Req
<1>2. Awaited'
  BY DEF Awaited, HolderMoves
<1>3. SignedIsSigned'
  <2> SUFFICES ASSUME NEW r \in Requests, intents'[r] # None, intents'[r].decision = "signed"
               PROVE  SignedFor(r)' # {}
    BY DEF SignedIsSigned, Exists
  <2>1. SignedFor(r) # {}
    BY DEF SignedMoves, AccountedInv, SignedIsSigned, Exists, EvidenceInv, HeardIsSigned
  <2>2. QED
    BY <2>1, SignaturesStay
<1>4. LiveNonceIsAccountedFor'
  <2> SUFFICES ASSUME NEW r \in Requests, LiveAfter(r)
               PROVE  \/ SignedFor(r)' # {}
                      \/ \E c \in Clients : body[c] # None /\ Req(c) = r /\ Holds(c)'
    BY <1>1 DEF LiveNonceIsAccountedFor, LiveAfter, LiveNonce, Exists
  <2>1. CASE \E c \in Clients : pc'[c] = "sign" /\ body[c] # None /\ Req(c) = r
    BY <2>1 DEF Holds
  <2>2. CASE Exists(r) /\ LiveNonce(r)
    <3>1. CASE SignedFor(r) # {}
      BY <3>1, SignaturesStay
    <3>2. CASE \E c \in Clients : body[c] # None /\ Req(c) = r /\ Holds(c)
      <4>1. PICK c \in Clients : body[c] # None /\ Req(c) = r /\ Holds(c)
        BY <3>2
      <4>2. CASE pc'[c] \in {"sign", "signing", "release"}
        BY <4>1, <4>2 DEF Holds
      <4>3. CASE SignedFor(r) # {} \/ \E s \in signatures' : s.request.requestId = r
        <5>1. SignedFor(r)' # {}
          BY <4>3, SignaturesStay DEF SignedFor
        <5>2. QED
          BY <5>1
      <4>4. QED
        BY <4>1, <4>2, <4>3 DEF HolderMoves
    <3>3. QED
      BY <2>2, <3>1, <3>2 DEF AccountedInv, LiveNonceIsAccountedFor
  <2>3. QED
    BY <2>1, <2>2 DEF NonceIsTaken
<1>5. QED
  BY <1>2, <1>3, <1>4 DEF AccountedInv

LEMMA SameIntentsAccounted ==
    ASSUME UNCHANGED intents
    PROVE  \A r \in Requests : SignedMoves(r) /\ NonceIsTaken(r)
BY DEF SignedMoves, NonceIsTaken, LiveAfter, Exists, LiveNonce

LEMMA RestartAccounted ==
    ASSUME LedgerRestart
    PROVE  \A r \in Requests : SignedMoves(r) /\ NonceIsTaken(r)
BY DEF LedgerRestart, Empty, SignedMoves, NonceIsTaken, LiveAfter

(* A handler that holds nothing writes, and leaves the nonce alone. *)
LEMMA NewRecordAccounted ==
    ASSUME LedgerTypeOK, NEW q \in Requests, NEW record, Exists(q),
           intents' = [intents EXCEPT ![q] = record],
           record.decision = "signed" =>
               \/ intents[q].decision = "signed"
               \/ \E c \in Clients : pc[c] \in Heard /\ Req(c) = q,
           \/ /\ record.nonce = intents[q].nonce
              /\ record.nonceReleased = intents[q].nonceReleased
           \/ record.nonceReleased
           \/ \E c \in Clients : pc'[c] = "sign" /\ body[c] # None /\ Req(c) = q
    PROVE  \A r \in Requests : SignedMoves(r) /\ NonceIsTaken(r)
BY DEF LedgerTypeOK, Exists, SignedMoves, NonceIsTaken, LiveAfter, LiveNonce

LEMMA DecisionAccounted ==
    ASSUME LedgerTypeOK, NEW q \in Requests, NEW d, NEW terms, RecordDecision(q, d, terms),
           d = "signed" => \E c \in Clients : pc[c] \in Heard /\ Req(c) = q
    PROVE  \A r \in Requests : SignedMoves(r) /\ NonceIsTaken(r)
<1>1. intents[q] \in IntentRecord /\ Exists(q)
  BY IntentIsRecord DEF RecordDecision
<1> DEFINE record ==
      IF d = "signed"
      THEN [intents[q] EXCEPT !.decision = d, !.decidedAt = now,
                              !.terms = terms, !.state = "SIGNED"]
      ELSE [intents[q] EXCEPT !.decision = d, !.decidedAt = now]
<1>2. /\ record.decision = d /\ record.nonce = intents[q].nonce
      /\ record.nonceReleased = intents[q].nonceReleased
  BY <1>1 DEF IntentRecord
<1>3. intents' = [intents EXCEPT ![q] = record]
  BY DEF RecordDecision
<1> HIDE DEF record
<1>4. QED
  BY <1>1, <1>2, <1>3, NewRecordAccounted

LEMMA ChallengeAccounted ==
    ASSUME LedgerTypeOK, NEW q \in Requests, NEW ch, AttachChallenge(q, ch)
    PROVE  \A r \in Requests : SignedMoves(r) /\ NonceIsTaken(r)
<1>1. intents[q] \in IntentRecord /\ Exists(q)
  BY IntentIsRecord DEF AttachChallenge
<1> DEFINE record == [intents[q] EXCEPT !.challenge = ch, !.challengeAttachedAt = now,
                                        !.state = "CHALLENGE_ATTACHED"]
<1>2. /\ record.decision = intents[q].decision /\ record.nonce = intents[q].nonce
      /\ record.nonceReleased = intents[q].nonceReleased
  BY <1>1 DEF IntentRecord
<1>3. intents' = [intents EXCEPT ![q] = record]
  BY DEF AttachChallenge, UpdateIntent
<1> HIDE DEF record
<1>4. QED
  BY <1>1, <1>2, <1>3, NewRecordAccounted

(* The step of a handler other than in performSigning holds nothing. *)
LEMMA FreeHandlerAccounted ==
    ASSUME Inv, EvidenceInv, AccountedInv, NEW c \in Clients, NEW stage, NEW locals,
           Proceed(c, stage, locals), UNCHANGED signerVars,
           pc[c] \notin {"sign", "signing", "release"},
           \A r \in Requests : SignedMoves(r) /\ NonceIsTaken(r)
    PROVE  AccountedInv'
<1>1. UNCHANGED <<signing, signatures, body>>
  BY DEF signerVars, Proceed
<1>2. \A d \in Clients : d # c => pc'[d] = pc[d]
  BY DEF Proceed, Goto, Inv, Base, ServiceTypeOK
<1>3. signing[c] = None /\ ~Holds(c)
  BY DEF AccountedInv, Awaited, Holds
<1>4. \A d \in Clients : HolderMoves(d)
  BY <1>1, <1>2, <1>3 DEF HolderMoves, Holds, AccountedInv, Awaited
<1>5. QED
  BY <1>1, <1>4, AccountedFrame

LEMMA HandlerAccounted ==
    ASSUME Inv, EvidenceInv, AccountedInv, NEW c \in Clients,
           \/ GetIntent(c) \/ GetPolicy(c) \/ GetWindowUsage(c) \/ RunChecks(c)
           \/ MatchIntent(c) \/ GetEscalation(c) \/ ResolvePolicy(c) \/ ResolveIntent(c)
           \/ Escalate(c) \/ RecordEscalated(c) \/ RecordRefused(c) \/ RecordSigned(c)
           \/ DenyStorage(c) \/ ApproveStorage(c) \/ SetStanding(c)
    PROVE  AccountedInv'
<1>1. pc[c] \notin {"idle", "sign", "signing", "release"}
  BY DEF GetIntent, GetPolicy, GetWindowUsage, RunChecks, MatchIntent, GetEscalation,
         ResolvePolicy, ResolveIntent, Escalate, RecordEscalated, RecordRefused, RecordSigned,
         DenyStorage, ApproveStorage, SetStanding, At
<1>2. UNCHANGED signerVars
  BY DEF GetIntent, GetPolicy, GetWindowUsage, RunChecks, MatchIntent, GetEscalation,
         ResolvePolicy, ResolveIntent, Escalate, RecordEscalated, RecordRefused, RecordSigned,
         DenyStorage, ApproveStorage, SetStanding, RecordOrFail, StoreVerdict,
         ReadsOnly, LedgerOnly
<1>3. \E stage, locals : Proceed(c, stage, locals)
  BY DEF GetIntent, GetPolicy, GetWindowUsage, RunChecks, MatchIntent, GetEscalation,
         ResolvePolicy, ResolveIntent, Escalate, RecordEscalated, RecordRefused, RecordSigned,
         DenyStorage, ApproveStorage, SetStanding, RecordOrFail, StoreVerdict
<1>4. Req(c) \in Requests
  BY <1>1, Activation DEF Inv, Base
<1>5. \A r \in Requests : SignedMoves(r) /\ NonceIsTaken(r)
  <2>1. \/ UNCHANGED intents
        \/ \E d, terms : /\ RecordDecision(Req(c), d, terms)
                         /\ d = "signed" => pc[c] \in Heard
    BY DEF GetIntent, GetPolicy, GetWindowUsage, RunChecks, MatchIntent, GetEscalation,
           ResolvePolicy, ResolveIntent, Escalate, RecordEscalated, RecordRefused, RecordSigned,
           DenyStorage, ApproveStorage, SetStanding, RecordOrFail, StoreVerdict, At, Heard,
           ReadsOnly, ledgerVars, CreateEscalation, ResolveEscalation, SetStandingApproval
  <2>2. QED
    BY <1>4, <2>1, SameIntentsAccounted, DecisionAccounted DEF Inv, Base
<1>6. QED
  BY <1>1, <1>2, <1>3, <1>5, FreeHandlerAccounted

LEMMA ReserveAccounted ==
    ASSUME Inv, EvidenceInv, AccountedInv, NEW c \in Clients, Reserve(c)
    PROVE  AccountedInv'
<1>1. pc[c] = "reserve" /\ Req(c) \in Requests /\ body[c] # None
  BY Activation DEF Reserve, At, Inv, Base
<1>2. UNCHANGED signerVars
  BY DEF Reserve, LedgerOnly
<1>3. CASE ~CanReserve(Req(c))
  <2>1. UNCHANGED intents /\ \E stage, locals : Proceed(c, stage, locals)
    BY <1>3 DEF Reserve, ledgerVars
  <2>2. QED
    BY <1>1, <1>2, <2>1, SameIntentsAccounted, FreeHandlerAccounted
<1>4. CASE CanReserve(Req(c))
  <2>1. ReserveNonce(Req(c), NonceOf(c)) /\ Proceed(c, "sign", got[c])
    BY <1>4 DEF Reserve
  <2>2. intents[Req(c)] \in IntentRecord /\ Exists(Req(c))
    BY <1>1, <1>4, IntentIsRecord DEF CanReserve, Inv, Base
  <2> DEFINE record == [intents[Req(c)] EXCEPT !.nonce = NonceOf(c), !.nonceReleased = FALSE,
                                               !.state = "NONCE_RESERVED"]
  <2>3. record.decision = intents[Req(c)].decision
    BY <2>2 DEF IntentRecord
  <2>4. intents' = [intents EXCEPT ![Req(c)] = record]
    BY <2>1 DEF ReserveNonce, UpdateIntent
  <2>5. pc'[c] = "sign"
    BY <2>1 DEF Proceed, Goto, Inv, Base, ServiceTypeOK
  <2> HIDE DEF record
  <2>6. \A r \in Requests : SignedMoves(r) /\ NonceIsTaken(r)
    BY <1>1, <2>2, <2>3, <2>4, <2>5, NewRecordAccounted DEF Inv, Base
  <2>7. QED
    BY <1>1, <1>2, <2>1, <2>6, FreeHandlerAccounted
<1>5. QED
  BY <1>3, <1>4

(* A release frees the nonce, or it was signed for. *)
LEMMA ReleaseAccounted ==
    ASSUME Inv, EvidenceInv, AccountedInv, NEW c \in Clients, Release(c)
    PROVE  AccountedInv'
<1>1. pc[c] = "release" /\ Req(c) \in Requests /\ body[c] # None
  BY Activation DEF Release, At, Inv, Base
<1>2. UNCHANGED <<signing, signatures, body>> /\ signing[c] = None
      /\ \A d \in Clients : d # c => pc'[d] = pc[d]
  BY <1>1 DEF Release, LedgerOnly, signerVars, Proceed, Goto, Inv, Base, ServiceTypeOK,
              AccountedInv, Awaited
<1>3. CASE CanRelease(Req(c))
  <2>1. intents[Req(c)] \in IntentRecord /\ Exists(Req(c))
    BY <1>1, <1>3, IntentIsRecord DEF CanRelease, Inv, Base
  <2> DEFINE record == [intents[Req(c)] EXCEPT !.nonce = None, !.nonceReleased = TRUE,
                                               !.state = "CHALLENGE_ATTACHED"]
  <2>2. record.decision = intents[Req(c)].decision /\ record.nonceReleased
    BY <2>1 DEF IntentRecord
  <2>3. intents' = [intents EXCEPT ![Req(c)] = record]
    BY <1>3 DEF Release, ReleaseNonce, UpdateIntent
  <2> HIDE DEF record
  <2>4. \A r \in Requests : SignedMoves(r) /\ NonceIsTaken(r)
    BY <1>1, <2>1, <2>2, <2>3, NewRecordAccounted DEF Inv, Base
  <2>5. ~LiveAfter(Req(c))
    BY <1>1, <2>2, <2>3 DEF LiveAfter, Inv, Base, LedgerTypeOK
  <2>6. HolderMoves(c)
    BY <1>2, <2>5 DEF HolderMoves
  <2>7. \A d \in Clients : d # c => HolderMoves(d)
    BY <1>2 DEF HolderMoves, Holds, AccountedInv, Awaited
  <2>8. QED
    BY <1>2, <2>4, <2>6, <2>7, AccountedFrame
<1>4. CASE ~CanRelease(Req(c))
  <2>1. UNCHANGED intents
    BY <1>4 DEF Release, ledgerVars
  <2>2. LiveAfter(Req(c)) => SignedFor(Req(c)) # {}
    BY <1>1, <1>4, <2>1 DEF LiveAfter, CanRelease, LiveNonce, Exists, AccountedInv, SignedIsSigned
  <2>3. \A d \in Clients : HolderMoves(d)
    BY <1>2, <2>2 DEF HolderMoves, Holds, AccountedInv, Awaited
  <2>4. QED
    BY <1>2, <2>1, <2>3, SameIntentsAccounted, AccountedFrame
<1>5. QED
  BY <1>3, <1>4

LEMMA CallSignerAccounted ==
    ASSUME Inv, EvidenceInv, AccountedInv, NEW c \in Clients, CallSigner(c)
    PROVE  AccountedInv'
<1>1. UNCHANGED <<intents, signatures, body>> /\ pc[c] = "sign" /\ signing[c] = None
  BY DEF CallSigner, ledgerVars, Sign, signerVars, Proceed, At, AccountedInv, Awaited
<1>2. /\ \A d \in Clients : d # c => pc'[d] = pc[d] /\ signing'[d] = signing[d]
      /\ pc'[c] = "signing" \/ (pc'[c] = "release" /\ signing'[c] = None)
  <2>1. \/ /\ pc' = [pc EXCEPT ![c] = "signing"]
           /\ \E q : signing' = [signing EXCEPT ![c] = q]
        \/ /\ pc' = [pc EXCEPT ![c] = "release"]
           /\ signing' = signing
    BY DEF CallSigner, Sign, signerVars, Proceed, Goto
  <2>2. QED
    BY <1>1, <2>1 DEF Inv, Base, ServiceTypeOK, SignerTypeOK
<1>3. \A d \in Clients : HolderMoves(d)
  BY <1>1, <1>2 DEF HolderMoves, Holds, AccountedInv, Awaited
<1>4. QED
  BY <1>1, <1>3, SameIntentsAccounted, AccountedFrame

(* The key source's answer is heard, and passes the nonce on. *)
LEMMA KeyAccounted ==
    ASSUME Inv, EvidenceInv, AccountedInv, NEW c \in Clients, SignerStep(c)
    PROVE  AccountedInv'
<1>1. /\ UNCHANGED intents /\ signing[c] # None /\ pc[c] = "signing"
      /\ signing' = [signing EXCEPT ![c] = None]
      /\ signatures \subseteq signatures'
  BY DEF SignerStep, SignerSigns, SignerFails, KeySigns, KeyFails, ledgerVars,
         AccountedInv, Awaited
<1>2. /\ signing'[c] = None
      /\ \A d \in Clients : d # c => signing'[d] = signing[d]
  BY <1>1 DEF Inv, Base, SignerTypeOK
<1>3. /\ body' = body
      /\ \A d \in Clients : d # c => pc'[d] = pc[d]
      /\ \/ pc'[c] = "release"
         \/ [client |-> c, request |-> signing[c]] \in signatures'
  BY <1>1 DEF SignerStep, SignerSigns, SignerFails, KeySigns, Hears, At, Proceed, Goto,
              Inv, Base, ServiceTypeOK
<1>4. signing[c].requestId = Req(c)
  BY <1>1 DEF Inv, SigningInv, AtKeyInv
<1>5. HolderMoves(c)
  BY <1>2, <1>3, <1>4 DEF HolderMoves
<1>6. \A d \in Clients : d # c => HolderMoves(d)
  BY <1>2, <1>3 DEF HolderMoves, Holds, AccountedInv, Awaited
<1>7. QED
  BY <1>1, <1>3, <1>5, <1>6, SameIntentsAccounted, AccountedFrame

LEMMA ElsewhereAccounted ==
    ASSUME Inv, EvidenceInv, AccountedInv, UNCHANGED <<signerVars, body, pc>>,
           \A r \in Requests : SignedMoves(r) /\ NonceIsTaken(r)
    PROVE  AccountedInv'
<1>1. UNCHANGED <<signing, signatures>>
  BY DEF signerVars
<1>2. \A d \in Clients : HolderMoves(d)
  BY <1>1 DEF HolderMoves, Holds, AccountedInv, Awaited
<1>3. QED
  BY <1>1, <1>2, AccountedFrame

LEMMA BeginAccounted ==
    ASSUME Inv, EvidenceInv, AccountedInv, NEW c \in Clients, NEW b,
           NEW stage \in {"getIntent", "getEscalation"}, Begin(c, b, stage)
    PROVE  AccountedInv'
<1>1. /\ pc[c] = "idle" /\ UNCHANGED <<intents, signing, signatures>>
      /\ \A d \in Clients : d # c => pc'[d] = pc[d] /\ body'[d] = body[d]
  BY DEF Begin, Goto, ledgerVars, signerVars, Inv, Base, ServiceTypeOK
<1>2. signing[c] = None /\ ~Holds(c)
  BY <1>1 DEF AccountedInv, Awaited, Holds
<1>3. \A d \in Clients : d # c => (Holds(d)' <=> Holds(d)) /\ Req(d)' = Req(d)
  BY <1>1 DEF Holds, Req
<1>4. \A r : SignedFor(r)' = SignedFor(r) /\ Exists(r)' = Exists(r) /\ LiveNonce(r)' = LiveNonce(r)
  BY <1>1 DEF SignedFor, Exists, LiveNonce
<1> USE DEF AccountedInv
<1>5. Awaited' /\ SignedIsSigned'
  BY <1>1, <1>2, <1>4 DEF Awaited, SignedIsSigned
<1>6. LiveNonceIsAccountedFor'
  <2> SUFFICES ASSUME NEW r \in Requests, Exists(r), LiveNonce(r), SignedFor(r) = {}
               PROVE  \E d \in Clients : body'[d] # None /\ Req(d)' = r /\ Holds(d)'
    BY <1>4 DEF LiveNonceIsAccountedFor
  <2>1. PICK d \in Clients : body[d] # None /\ Req(d) = r /\ Holds(d)
    BY DEF LiveNonceIsAccountedFor
  <2>2. QED
    BY <1>1, <1>2, <1>3, <2>1
<1>7. QED
  BY <1>5, <1>6

LEMMA FreshIntentAccounted ==
    ASSUME LedgerTypeOK, NEW r \in Requests, NEW m, NEW i, NEW t, CreateIntent(r, m, i, t)
    PROVE  \A q \in Requests : SignedMoves(q) /\ NonceIsTaken(q)
<1>1. /\ intents'[r].decision = None /\ intents'[r].nonce = None
      /\ \A q \in Requests : q # r => intents'[q] = intents[q]
  BY DEF CreateIntent, LedgerTypeOK
<1>2. None # "signed"
  BY LedgerAssumption
<1>3. QED
  BY <1>1, <1>2 DEF SignedMoves, NonceIsTaken, LiveAfter, Exists, LiveNonce

LEMMA EnvironmentAccounted ==
    ASSUME Inv, EvidenceInv, AccountedInv, Environment
    PROVE  AccountedInv'
<1>1. CASE NewIntent
  <2>1. PICK r \in Requests \ used, m \in Mandates, i \in Instructions, t \in {now - 1, now} :
            CreateIntent(r, m, i, t)
    BY <1>1 DEF NewIntent
  <2>2. \A q \in Requests : SignedMoves(q) /\ NonceIsTaken(q)
    BY <2>1, FreshIntentAccounted DEF Inv, Base
  <2>3. QED
    BY <1>1, <2>2, ElsewhereAccounted DEF NewIntent
<1>2. CASE ChallengeQuoted
  BY <1>2, ChallengeAccounted, ElsewhereAccounted DEF ChallengeQuoted, serviceVars, Inv, Base
<1>3. CASE OwnerRevokes \/ PutPolicy \/ TimePasses
  BY <1>3, SameIntentsAccounted, ElsewhereAccounted
     DEF OwnerRevokes, PutPolicy, TimePasses, StorePolicy, Tick, ledgerVars, serviceVars
<1>4. ASSUME NEW c \in Clients, RequestPayment(c) \/ ResolveRequest(c)
      PROVE  AccountedInv'
  BY <1>4, RequestPaymentBegins, ResolveRequestBegins, BeginAccounted DEF Inv
<1>5. QED
  BY <1>1, <1>2, <1>3, <1>4 DEF Environment

LEMMA AccountedStep ==
    ASSUME HandlersStay, Inv, EvidenceInv, AccountedInv, [PaymentsNext]_vars
    PROVE  AccountedInv'
<1>1. CASE UNCHANGED vars
  BY <1>1, SameIntentsAccounted, ElsewhereAccounted DEF vars, ledgerVars, serviceVars
<1>2. ASSUME NEW c \in Clients, HandlerStep(c) \/ SignerStep(c)
      PROVE  AccountedInv'
  BY <1>2, HandlerAccounted, ReserveAccounted, ReleaseAccounted, CallSignerAccounted, KeyAccounted
     DEF HandlerStep
<1>3. CASE FaultStep
  <2>1. LedgerGoesDown
    BY <1>3 DEF HandlersStay, FaultStep, HandlerDies, SignerUnreachable, SignerGoesDown
  <2>2. QED
    BY <2>1, RestartAccounted, ElsewhereAccounted DEF LedgerGoesDown, serviceVars
<1>4. QED
  BY <1>1, <1>2, <1>3, EnvironmentAccounted DEF PaymentsNext

LEMMA AccountedInit == PaymentsInit => AccountedInv
BY DEF PaymentsInit, LedgerInit, SignerInit, Empty, AccountedInv, Awaited, SignedIsSigned,
       LiveNonceIsAccountedFor, Exists

(* Unless a handler is stopped on its way, whatever the key source answers *)
(* and whenever the ledger restarts, no nonce is locked for nothing. *)
THEOREM LiveNonceStaysAccounted ==
    ASSUME HandlersStay
    PROVE  PaymentsSpec => []LiveNonceIsAccountedFor
<1>1. AccountedInv /\ Inv /\ EvidenceInv /\ [PaymentsNext]_vars => AccountedInv'
  BY AccountedStep
<1>2. AccountedInv => LiveNonceIsAccountedFor
  BY DEF AccountedInv
<1>3. QED
  BY <1>1, <1>2, AccountedInit, InvHolds, EvidenceHolds, PTL DEF PaymentsSpec
=============================================================================
