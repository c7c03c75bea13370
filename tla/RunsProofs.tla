----------------------------- MODULE RunsProofs -----------------------------
(* What a run of the orchestrator guarantees, for any number of runs,      *)
(* answers, timers and restarts, over services that fail in any way: the   *)
(* header is presented once and is on record, silence never becomes a      *)
(* signature, and an expiry is claimed only when it is recorded.  The      *)
(* services promise it what PaymentsProofs shows of them, and a run that   *)
(* is DONE settled what the card API quoted and the wallet signed.         *)
EXTENDS AgentRuns, PaymentsProofs

(* Stages of a handler that has heard of a signature, and what it can      *)
(* still become. *)
Told == {"approveStorage", "recordSigned", "setStanding"}
Sealed == Told \cup {"signed", "failed"}

IsFor(c, r) == body[c] # None /\ Req(c) = r
PaysFor(c, r) == IsFor(c, r) /\ IsPayment(c)
Resolves(c) == body[c] # None /\ ~IsPayment(c)
Answered(r) == escalations[r] # None => escalations[r].resolved
-----------------------------------------------------------------------------
(* The services under one orchestrator                                    *)

(* A request is paid for by one handler, which is over before anybody      *)
(* answers an escalation of it. *)
OnePayment ==
    \A c, d \in Clients : \A r \in Requests : PaysFor(c, r) /\ PaysFor(d, r) => c = d

PaymentFirst ==
    \A c, d \in Clients : \A r \in Requests :
        Resolves(c) /\ IsFor(c, r) /\ PaysFor(d, r) => pc[d] \in Final

AskedByPayment ==
    \A r \in Requests : escalations[r] # None =>
        \E c \in Clients : PaysFor(c, r) /\ pc[c] # "idle"

VerdictIsGiven == \A c \in Clients : Resolves(c) => body[c].verdict # None

(* A signature belongs to the handler that asked for it. *)
SignerIsTold ==
    \A s \in signatures :
        IsFor(s.client, s.request.requestId) /\ pc[s.client] \in Sealed

ToldIsSigner ==
    \A c \in Clients : pc[c] \in Told \cup {"signed"} =>
        \E s \in signatures : s.client = c /\ s.request.requestId = Req(c)

Asking(c) == signing[c] # None \/ \E s \in signatures : s.client = c

(* Who signs for an escalation has the owner's approval; who pays without  *)
(* one was not escalated. *)
ApprovedByOwner ==
    \A c \in Clients :
        (Resolves(c) /\ (pc[c] \in TailStages \cup {"resolveIntent"} \/ Asking(c))) =>
            body[c].verdict = "approve" /\ body[c].byOwner

EscalatedOnly ==
    \A c \in Clients : \A r \in Requests : (PaysFor(c, r) /\ escalations[r] # None) =>
        pc[c] \in {"recordEscalated", "escalated", "failed"} /\ ~Asking(c)

(* What a handler answers is on record. *)
SignedIsRecorded ==
    \A c \in Clients : \A r \in Requests :
        (pc[c] \in {"setStanding", "signed"} /\ IsFor(c, r) /\ Exists(r)) =>
            intents[r].terms # None

DenialIsRecorded ==
    \A c \in Clients : \A r \in Requests :
        (Resolves(c) /\ IsFor(c, r) /\ pc[c] \in {"recordRefused", "refused", "expired"}) =>
            Answered(r)

ServedInv ==
    /\ OnePayment /\ PaymentFirst /\ AskedByPayment /\ VerdictIsGiven
    /\ SignerIsTold /\ ToldIsSigner
    /\ ApprovedByOwner /\ EscalatedOnly /\ SignedIsRecorded /\ DenialIsRecorded
-----------------------------------------------------------------------------
(* The orchestrator                                                       *)

Early == {"createIntent", "getCard", "attachChallenge", "requestPayment"}

(* What a task has in hand by the time it needs it. *)
TaskReady(t, run) ==
    t.stage # "ended" =>
        /\ run # None
        /\ t.stage \in {"attachChallenge", "requestPayment"} => run.challenge # None
        /\ t.stage \in AfterSignature \ {"payAndIssue"} => t.tx # None
        /\ t.stage \in AfterSignature \ {"payAndIssue", "checkout"} => t.order # None

TasksReady == \A c \in Clients : task[c] # None => TaskReady(task[c], runs[RunOf(c)])

MemoryTypeOK ==
    /\ runs \in [Requests -> Or(RunRecord)]
    /\ pending \subseteq Requests
    /\ timers \in [Requests -> Or(Int)]
    /\ task \in [Clients -> Or(Task)]
    /\ presented \subseteq [client : Clients, request : Requests]

(* A request belongs to one activation of executeRun, which is the only    *)
(* one to pay for it; until it does, nobody else knows the request. *)
OneRun ==
    \A c, d \in Clients :
        (task[c] # None /\ task[d] # None /\ task[c].does = "run" /\ task[d].does = "run"
            /\ RunOf(c) = RunOf(d)) => c = d

TasksAreUsed == \A c \in Clients : task[c] # None => RunOf(c) \in used

PaymentIsRun ==
    \A c \in Clients : (body[c] # None /\ IsPayment(c)) =>
        task[c] # None /\ task[c].does = "run" /\ RunOf(c) = Req(c)

EarlyIsAlone ==
    \A c \in Clients : (task[c] # None /\ task[c].stage \in Early) =>
        /\ task[c].does = "run"
        /\ runs[RunOf(c)].state = "RUNNING" /\ runs[RunOf(c)].outcome = None
        /\ \A d \in Clients : ~IsFor(d, RunOf(c))

(* A task that has called policy-service is the caller of its handler. *)
CallerIsServed ==
    \A c \in Clients : (task[c] # None /\ task[c].stage \notin Early \cup {"ended"}) =>
        /\ IsFor(c, RunOf(c)) /\ pc[c] # "idle"
        /\ IsPayment(c) <=> task[c].does = "run"

PresentedIsSigned ==
    \A p \in presented : IsFor(p.client, p.request) /\ pc[p.client] = "signed"

Suspended(r) == runs[r] # None /\ (runs[r].state = "ESCALATED" \/ runs[r].outcome = "expired")

SuspendedIsOver ==
    \A r \in Requests, c \in Clients : Suspended(r) /\ PaysFor(c, r) => pc[c] \in Final

RunInv ==
    /\ MemoryTypeOK /\ TasksReady /\ OneRun /\ TasksAreUsed /\ PaymentIsRun
    /\ EarlyIsAlone /\ CallerIsServed /\ PresentedIsSigned /\ SuspendedIsOver
    /\ ExpiryClaimIsRecorded

RunsInv == Inv /\ ServedInv /\ RunInv
-----------------------------------------------------------------------------
(* Steps of the services *)

(* What most steps do to a handler: it moves, is stopped, or its request   *)
(* at the key source is forgotten; nobody hears of a signature. *)
HandlerGoesOn(c) ==
    /\ pc[c] \notin Final \cup {"idle"} /\ pc'[c] # "idle"
    /\ signing'[c] \in {signing[c], None} \/ pc'[c] = "signing"
    /\ pc'[c] \in Told \cup {"signed"} => pc[c] \in Told
    /\ pc[c] \in Told => pc'[c] \in Sealed
    /\ IsPayment(c) => (pc[c] = "recordEscalated" =>
                           pc'[c] \in {"recordEscalated", "escalated", "failed"})
    /\ ~IsPayment(c) =>
          /\ pc'[c] \in TailStages \cup {"resolveIntent"} =>
                \/ pc[c] \in TailStages \cup {"resolveIntent"}
                \/ body[c].verdict = "approve" /\ body[c].byOwner
          /\ pc'[c] \in {"recordRefused", "refused", "expired"} =>
                pc[c] = "recordRefused" \/ Answered(Req(c))'
    /\ pc'[c] \in {"setStanding", "signed"} =>
          \/ pc[c] = "setStanding"
          \/ intents'[Req(c)] # None => intents'[Req(c)].terms # None

HandlerStays(c) == pc'[c] = pc[c] /\ signing'[c] \in {signing[c], None}

(* What most steps do to the records of a request. *)
KeepsRecords(r) ==
    /\ intents'[r] # None => /\ intents[r] # None
                             /\ intents[r].terms # None => intents'[r].terms # None
    /\ escalations'[r] # None => /\ escalations[r] # None
                                 /\ escalations[r].resolved => escalations'[r].resolved

LEMMA ServedFrame ==
    ASSUME Inv, ServedInv, UNCHANGED <<body, signatures>>,
           \A c \in Clients : HandlerStays(c) \/ HandlerGoesOn(c),
           \A r \in Requests :
               \/ KeepsRecords(r)
               \/ escalations'[r] = escalations[r] /\ \A c \in Clients : ~IsFor(c, r)
    PROVE  ServedInv'
<1>1. \A c \in Clients : /\ Req(c)' = Req(c) /\ (IsPayment(c)' <=> IsPayment(c))
                         /\ Resolves(c)' <=> Resolves(c)
                         /\ \A r \in Requests : /\ IsFor(c, r)' <=> IsFor(c, r)
                                                /\ PaysFor(c, r)' <=> PaysFor(c, r)
  BY DEF Req, IsPayment, Resolves, IsFor, PaysFor
<1>2. \A s \in signatures : s.client \in Clients /\ s.request.requestId \in Requests
  BY DEF Inv, Base, SignerTypeOK, SignRequest
<1>3. \A c \in Clients : pc[c] \in Final => pc'[c] = pc[c]
  BY DEF HandlerStays, HandlerGoesOn
<1>4. \A c \in Clients : \A r \in Requests : IsFor(c, r) => KeepsRecords(r)
  BY DEF IsFor
<1> USE DEF ServedInv
<1>5. OnePayment' /\ PaymentFirst' /\ VerdictIsGiven'
  BY <1>1, <1>3 DEF OnePayment, PaymentFirst, VerdictIsGiven
<1>6. AskedByPayment'
  BY <1>1 DEF AskedByPayment, HandlerStays, HandlerGoesOn, KeepsRecords
<1>7. SignerIsTold'
  BY <1>1, <1>2, <1>3 DEF SignerIsTold, HandlerStays, HandlerGoesOn, Sealed, Final
<1>8. ToldIsSigner'
  BY <1>1 DEF ToldIsSigner, HandlerStays, HandlerGoesOn
<1>9. ApprovedByOwner'
  <2> SUFFICES ASSUME NEW c \in Clients, Resolves(c),
                      pc'[c] \in TailStages \cup {"resolveIntent"} \/ Asking(c)'
               PROVE  body[c].verdict = "approve" /\ body[c].byOwner
    BY <1>1 DEF ApprovedByOwner
  <2>1. Asking(c)' => Asking(c) \/ pc'[c] = "signing"
    BY DEF Asking, HandlerStays, HandlerGoesOn
  <2>2. \/ pc[c] \in TailStages \cup {"resolveIntent"} \/ Asking(c)
        \/ body[c].verdict = "approve" /\ body[c].byOwner
    BY <2>1 DEF HandlerStays, HandlerGoesOn, Resolves, TailStages
  <2>3. QED
    BY <2>2 DEF ApprovedByOwner
<1>10. EscalatedOnly'
  <2> SUFFICES ASSUME NEW c \in Clients, NEW r \in Requests, PaysFor(c, r),
                      escalations'[r] # None
               PROVE  pc'[c] \in {"recordEscalated", "escalated", "failed"} /\ ~Asking(c)'
    BY <1>1 DEF EscalatedOnly
  <2>1. escalations[r] # None
    BY <1>4 DEF PaysFor, KeepsRecords
  <2>2. pc[c] \in {"recordEscalated", "escalated", "failed"} /\ ~Asking(c)
    BY <2>1 DEF EscalatedOnly
  <2>3. pc'[c] \in {"recordEscalated", "escalated", "failed"}
    BY <2>2 DEF HandlerStays, HandlerGoesOn, PaysFor, Final
  <2>4. QED
    BY <2>2, <2>3 DEF Asking, HandlerStays, HandlerGoesOn
<1>11. SignedIsRecorded'
  <2> SUFFICES ASSUME NEW c \in Clients, NEW r \in Requests, IsFor(c, r),
                      pc'[c] \in {"setStanding", "signed"}, intents'[r] # None
               PROVE  intents'[r].terms # None
    BY <1>1 DEF SignedIsRecorded, Exists
  <2>1. KeepsRecords(r) /\ Req(c) = r
    BY <1>4 DEF IsFor
  <2>2. CASE pc[c] \in {"setStanding", "signed"}
    BY <2>1, <2>2 DEF SignedIsRecorded, Exists, KeepsRecords
  <2>3. CASE pc[c] \notin {"setStanding", "signed"}
    BY <2>1, <2>3 DEF HandlerStays, HandlerGoesOn
  <2>4. QED
    BY <2>2, <2>3
<1>12. DenialIsRecorded'
  <2> SUFFICES ASSUME NEW c \in Clients, NEW r \in Requests, Resolves(c), IsFor(c, r),
                      pc'[c] \in {"recordRefused", "refused", "expired"}
               PROVE  Answered(r)'
    BY <1>1 DEF DenialIsRecorded
  <2>1. KeepsRecords(r) /\ Req(c) = r
    BY <1>4 DEF IsFor
  <2>2. CASE pc[c] \in {"recordRefused", "refused", "expired"}
    BY <2>1, <2>2 DEF DenialIsRecorded, Answered, KeepsRecords
  <2>3. CASE pc[c] \notin {"recordRefused", "refused", "expired"}
    BY <1>1, <2>1, <2>3 DEF HandlerStays, HandlerGoesOn, Resolves
  <2>4. QED
    BY <2>2, <2>3
<1>13. QED
  BY <1>5, <1>6, <1>7, <1>8, <1>9, <1>10, <1>11, <1>12

(* One handler goes on, and the others with their records stay. *)
LEMMA OneGoesOn ==
    ASSUME Inv, ServedInv, NEW c \in Clients, NEW stage, NEW locals,
           Proceed(c, stage, locals), pc'[c] = stage => HandlerGoesOn(c),
           signatures' = signatures,
           \A d \in Clients : d # c => signing'[d] = signing[d],
           \A r \in Requests : KeepsRecords(r)
    PROVE  ServedInv'
<1>1. body' = body /\ pc'[c] = stage /\ \A d \in Clients : d # c => pc'[d] = pc[d]
  BY DEF Proceed, Goto, Inv, Base, ServiceTypeOK
<1>2. \A d \in Clients : HandlerStays(d) \/ HandlerGoesOn(d)
  BY <1>1 DEF HandlerStays
<1>3. QED
  BY <1>1, <1>2, ServedFrame

LEMMA SameLedgerRecords ==
    ASSUME UNCHANGED <<intents, escalations>>
    PROVE  \A r : KeepsRecords(r)
BY DEF KeepsRecords

(* Which handler is at a stage. *)
LEMMA WhoIsAt ==
    ASSUME Inv, NEW c \in Clients
    PROVE  /\ pc[c] \in CheckStages \cup {"getIntent", "recordEscalated"} => IsPayment(c)
           /\ pc[c] \in {"getEscalation", "resolvePolicy", "resolveIntent", "denyStorage",
                         "approveStorage", "setStanding"} => ~IsPayment(c)
           /\ pc[c] # "idle" => body[c] # None /\ Req(c) \in Requests
BY DEF Inv, Base, HandlerInv, Ready, IsPayment, ServiceTypeOK, Body, Or, Req

LEMMA ChecksServed ==
    ASSUME Inv, ServedInv, NEW c \in Clients,
           GetIntent(c) \/ GetPolicy(c) \/ GetWindowUsage(c) \/ RunChecks(c) \/ MatchIntent(c)
    PROVE  ServedInv'
<1>1. PICK stage \in {"getPolicy", "recordRefused", "rejected", "getWindow", "getMandate",
                      "getStanding", "createEscalation", "reserve"} :
          \E locals : Proceed(c, stage, locals)
  BY DEF GetIntent, GetPolicy, GetWindowUsage, RunChecks, MatchIntent
<1>2. pc[c] \in {"getIntent", "getPolicy", "getWindow", "getMandate", "getStanding"}
  BY DEF GetIntent, GetPolicy, GetWindowUsage, RunChecks, MatchIntent, At
<1>3. ReadsOnly
  BY DEF GetIntent, GetPolicy, GetWindowUsage, RunChecks, MatchIntent
<1>4. IsPayment(c)
  BY <1>2, WhoIsAt DEF CheckStages
<1>5. signing' = signing /\ signatures' = signatures /\ \A r : KeepsRecords(r)
  BY <1>3, SameLedgerRecords DEF ReadsOnly, ledgerVars, signerVars
<1>6. pc'[c] = stage => HandlerGoesOn(c)
  BY <1>1, <1>2, <1>4, <1>5 DEF HandlerGoesOn, Told, Final
<1>7. QED
  BY <1>1, <1>5, <1>6, OneGoesOn

LEMMA AnswersServed ==
    ASSUME Inv, ServedInv, NEW c \in Clients,
           GetEscalation(c) \/ ResolvePolicy(c) \/ ResolveIntent(c)
    PROVE  ServedInv'
<1>1. PICK stage \in {"rejected", "denyStorage", "resolvePolicy", "resolveIntent", "reserve"} :
          /\ \E locals : Proceed(c, stage, locals)
          /\ stage = "reserve" => pc[c] = "resolveIntent"
          /\ stage = "resolveIntent" => /\ body[c].byOwner /\ body[c].verdict # "deny"
                                        /\ pc[c] = "resolvePolicy"
  BY DEF GetEscalation, ResolvePolicy, ResolveIntent, At
<1>2. pc[c] \in {"getEscalation", "resolvePolicy", "resolveIntent"}
  BY DEF GetEscalation, ResolvePolicy, ResolveIntent, At
<1>3. ReadsOnly
  BY DEF GetEscalation, ResolvePolicy, ResolveIntent
<1>4. ~IsPayment(c) /\ body[c] \in Body
  BY <1>2, WhoIsAt DEF Inv, Base, ServiceTypeOK, Or
<1>5. signing' = signing /\ signatures' = signatures /\ \A r : KeepsRecords(r)
  BY <1>3, SameLedgerRecords DEF ReadsOnly, ledgerVars, signerVars
<1>6. stage = "resolveIntent" => body[c].verdict = "approve"
  BY <1>1, <1>2, <1>4, WhoIsAt DEF Body, Or, ServedInv, VerdictIsGiven, Resolves
<1>7. pc'[c] = stage => HandlerGoesOn(c)
  BY <1>1, <1>2, <1>4, <1>5, <1>6 DEF HandlerGoesOn, Told, Final, TailStages
<1>8. QED
  BY <1>1, <1>5, <1>7, OneGoesOn

LEMMA UpdateKeepsRecords ==
    ASSUME LedgerTypeOK, NEW r \in Requests, NEW record, Exists(r),
           intents' = [intents EXCEPT ![r] = record], escalations' = escalations,
           intents[r].terms # None => record.terms # None
    PROVE  \A q \in Requests : KeepsRecords(q)
BY DEF LedgerTypeOK, KeepsRecords, Exists

LEMMA DecisionKeepsRecords ==
    ASSUME LedgerTypeOK, NEW r \in Requests, NEW d, NEW terms, RecordDecision(r, d, terms),
           d = "signed" => terms # None
    PROVE  /\ \A q \in Requests : KeepsRecords(q)
           /\ d = "signed" => intents'[r].terms # None
<1>1. intents[r] \in IntentRecord /\ Exists(r)
  BY IntentIsRecord DEF RecordDecision
<1> DEFINE record ==
      IF d = "signed"
      THEN [intents[r] EXCEPT !.decision = d, !.decidedAt = now,
                              !.terms = terms, !.state = "SIGNED"]
      ELSE [intents[r] EXCEPT !.decision = d, !.decidedAt = now]
<1>2. /\ intents[r].terms # None => record.terms # None
      /\ d = "signed" => record.terms # None
  BY <1>1 DEF IntentRecord
<1>3. intents' = [intents EXCEPT ![r] = record] /\ escalations' = escalations
  BY DEF RecordDecision
<1>4. intents'[r] = record
  BY <1>3 DEF LedgerTypeOK
<1> HIDE DEF record
<1>5. QED
  BY <1>1, <1>2, <1>3, <1>4, UpdateKeepsRecords

LEMMA NonceKeepsRecords ==
    ASSUME LedgerTypeOK, NEW r \in Requests,
           ReleaseNonce(r) \/ \E n : ReserveNonce(r, n)
    PROVE  \A q \in Requests : KeepsRecords(q)
<1>1. intents[r] \in IntentRecord /\ Exists(r)
  BY IntentIsRecord DEF ReleaseNonce, ReserveNonce, CanReserve, CanRelease
<1>2. CASE ReleaseNonce(r)
  <2> DEFINE record == [intents[r] EXCEPT !.nonce = None, !.nonceReleased = TRUE,
                                          !.state = "CHALLENGE_ATTACHED"]
  <2>1. record.terms = intents[r].terms
    BY <1>1 DEF IntentRecord
  <2>2. intents' = [intents EXCEPT ![r] = record] /\ escalations' = escalations
    BY <1>2 DEF ReleaseNonce, UpdateIntent
  <2>3. QED
    BY <1>1, <2>1, <2>2, UpdateKeepsRecords
<1>3. ASSUME NEW n, ReserveNonce(r, n)
      PROVE  \A q \in Requests : KeepsRecords(q)
  <2> DEFINE record == [intents[r] EXCEPT !.nonce = n, !.nonceReleased = FALSE,
                                          !.state = "NONCE_RESERVED"]
  <2>1. record.terms = intents[r].terms
    BY <1>1 DEF IntentRecord
  <2>2. intents' = [intents EXCEPT ![r] = record] /\ escalations' = escalations
    BY <1>3 DEF ReserveNonce, UpdateIntent
  <2>3. QED
    BY <1>1, <2>1, <2>2, UpdateKeepsRecords
<1>4. QED
  BY <1>2, <1>3

LEMMA VerdictKeepsRecords ==
    ASSUME LedgerTypeOK, NEW r \in Requests, NEW verdict, ResolveEscalation(r, verdict)
    PROVE  /\ \A q \in Requests : KeepsRecords(q)
           /\ escalations'[r].resolved
<1>1. escalations[r] \in EscalationRecord
  BY DEF LedgerTypeOK, Or, ResolveEscalation
<1>2. escalations' = [escalations EXCEPT ![r] =
          [escalations[r] EXCEPT !.resolved = TRUE, !.decision = verdict]]
      /\ intents' = intents
  BY DEF ResolveEscalation
<1>3. escalations'[r].resolved
  BY <1>1, <1>2 DEF LedgerTypeOK, EscalationRecord
<1>4. QED
  BY <1>2, <1>3 DEF KeepsRecords, LedgerTypeOK, ResolveEscalation

LEMMA RecordsServed ==
    ASSUME Inv, ServedInv, NEW c \in Clients, RecordEscalated(c) \/ RecordRefused(c)
    PROVE  ServedInv'
<1>1. LedgerOnly /\ pc[c] \in {"recordEscalated", "recordRefused"}
  BY DEF RecordEscalated, RecordRefused, RecordOrFail, At
<1>2. Req(c) \in Requests
  BY <1>1, WhoIsAt
<1>3. RefusalOf(got[c].because) \in {"refused", "expired", "rejected"}
  BY DEF RefusalOf, Inv, Base, ServiceTypeOK, Got
<1>4. PICK stage \in {"escalated", "refused", "expired", "rejected", "failed"} :
          /\ Proceed(c, stage, got[c])
          /\ stage = "escalated" => pc[c] = "recordEscalated"
          /\ stage \in {"refused", "expired"} => pc[c] = "recordRefused"
          /\ pc[c] = "recordEscalated" => stage \in {"escalated", "failed"}
  BY <1>3 DEF RecordEscalated, RecordRefused, RecordOrFail, At
<1>5. \A q \in Requests : KeepsRecords(q)
  BY <1>2, DecisionKeepsRecords, SameLedgerRecords
     DEF RecordEscalated, RecordRefused, RecordOrFail, Inv, Base, ledgerVars
<1>6. signing' = signing /\ signatures' = signatures
  BY <1>1 DEF LedgerOnly, signerVars
<1>7. pc'[c] = stage => HandlerGoesOn(c)
  BY <1>1, <1>4, <1>6 DEF HandlerGoesOn, Told, Final, TailStages
<1>8. QED
  BY <1>4, <1>5, <1>6, <1>7, OneGoesOn

LEMMA NonceServed ==
    ASSUME Inv, ServedInv, NEW c \in Clients, Reserve(c) \/ Release(c)
    PROVE  ServedInv'
<1>1. LedgerOnly /\ pc[c] \in {"reserve", "release"}
  BY DEF Reserve, Release, At
<1>2. Req(c) \in Requests /\ body[c] # None
  BY <1>1, WhoIsAt
<1>3. PICK stage \in {"sign", "recordRefused", "denyStorage"} :
          /\ \E locals : Proceed(c, stage, locals)
          /\ stage = "recordRefused" => IsPayment(c)
  BY DEF Reserve, Release, AfterRefusedSigning
<1>4. \A q \in Requests : KeepsRecords(q)
  BY <1>2, NonceKeepsRecords, SameLedgerRecords DEF Reserve, Release, Inv, Base, ledgerVars
<1>5. signing' = signing /\ signatures' = signatures
  BY <1>1 DEF LedgerOnly, signerVars
<1>6. pc'[c] = stage => HandlerGoesOn(c)
  BY <1>1, <1>3, <1>5 DEF HandlerGoesOn, Told, Final, TailStages
<1>7. QED
  BY <1>3, <1>4, <1>5, <1>6, OneGoesOn

LEMMA CallSignerServed ==
    ASSUME Inv, ServedInv, NEW c \in Clients, CallSigner(c)
    PROVE  ServedInv'
<1>1. pc[c] = "sign" /\ \A r : KeepsRecords(r)
  BY SameLedgerRecords DEF CallSigner, At, ledgerVars
<1>2. PICK stage \in {"signing", "release"} :
          /\ Proceed(c, stage, got[c])
          /\ stage = "release" => UNCHANGED signerVars
          /\ stage = "signing" => Sign(c, TypedData(c))
  BY DEF CallSigner
<1>3. signatures' = signatures /\ \A d \in Clients : d # c => signing'[d] = signing[d]
  BY <1>2 DEF Sign, signerVars, Inv, Base, SignerTypeOK
<1>4. pc'[c] = stage => HandlerGoesOn(c)
  BY <1>1, <1>2 DEF HandlerGoesOn, Told, Final, TailStages, signerVars
<1>5. QED
  BY <1>1, <1>2, <1>3, <1>4, OneGoesOn

LEMMA RecordSignedServed ==
    ASSUME Inv, ServedInv, NEW c \in Clients, RecordSigned(c)
    PROVE  ServedInv'
<1>1. LedgerOnly /\ pc[c] = "recordSigned"
  BY DEF RecordSigned, RecordOrFail, At
<1>2. Req(c) \in Requests /\ body[c] # None
  BY <1>1, WhoIsAt
<1> DEFINE terms == [policyHash |-> got[c].policy, merchantDomain |-> DomainOf(c)]
<1>3. terms # None
  <2>1. terms \in SignedTerms
    BY <1>1, TailFacts DEF SignedTerms, Inv, Base, TailStages, Or
  <2>2. QED
    BY <2>1, LedgerAssumption DEF SignedTerms, Or
<1> HIDE DEF terms
<1>4. \/ /\ RecordDecision(Req(c), "signed", terms)
         /\ \E stage \in {"setStanding", "signed"} : Proceed(c, stage, got[c])
      \/ UNCHANGED ledgerVars /\ Proceed(c, "failed", got[c])
  BY DEF RecordSigned, RecordOrFail, terms
<1>5. \A q \in Requests : KeepsRecords(q)
  BY <1>2, <1>3, <1>4, DecisionKeepsRecords, SameLedgerRecords DEF Inv, Base, ledgerVars
<1>6. PICK stage \in {"setStanding", "signed", "failed"} :
          /\ Proceed(c, stage, got[c])
          /\ stage # "failed" => intents'[Req(c)].terms # None
  BY <1>2, <1>3, <1>4, DecisionKeepsRecords DEF Inv, Base
<1>7. signing' = signing /\ signatures' = signatures
  BY <1>1 DEF LedgerOnly, signerVars
<1>8. pc'[c] = stage => HandlerGoesOn(c)
  BY <1>1, <1>6, <1>7 DEF HandlerGoesOn, Told, Sealed, Final, TailStages
<1>9. QED
  BY <1>5, <1>6, <1>7, <1>8, OneGoesOn

LEMMA VerdictServed ==
    ASSUME Inv, ServedInv, NEW c \in Clients,
           DenyStorage(c) \/ ApproveStorage(c) \/ SetStanding(c)
    PROVE  ServedInv'
<1>1. LedgerOnly /\ pc[c] \in {"denyStorage", "approveStorage", "setStanding"}
  BY DEF DenyStorage, ApproveStorage, StoreVerdict, SetStanding, At
<1>2. Req(c) \in Requests /\ body[c] # None /\ ~IsPayment(c)
  BY <1>1, WhoIsAt
<1>3. \A q \in Requests : KeepsRecords(q)
  BY <1>2, VerdictKeepsRecords, SameLedgerRecords
     DEF DenyStorage, ApproveStorage, StoreVerdict, SetStanding, SetStandingApproval,
         Inv, Base, ledgerVars
<1>4. PICK stage \in {"recordRefused", "recordSigned", "signed", "failed"} :
          /\ Proceed(c, stage, got[c])
          /\ stage = "recordRefused" => pc[c] = "denyStorage" /\ escalations'[Req(c)].resolved
          /\ stage = "recordSigned" => pc[c] = "approveStorage"
          /\ stage = "signed" => pc[c] = "setStanding"
          /\ stage = "failed" => pc[c] # "setStanding"
  BY <1>2, VerdictKeepsRecords
     DEF DenyStorage, ApproveStorage, StoreVerdict, SetStanding, At, Inv, Base
<1>5. signing' = signing /\ signatures' = signatures /\ body' = body
  BY <1>1, <1>4 DEF LedgerOnly, signerVars, Proceed
<1>6. Req(c)' = Req(c)
  BY <1>5 DEF Req
<1>7. pc'[c] = stage => HandlerGoesOn(c)
  BY <1>1, <1>2, <1>4, <1>5, <1>6
     DEF HandlerGoesOn, Told, Sealed, Final, TailStages, Answered
<1>8. QED
  BY <1>3, <1>4, <1>5, <1>7, OneGoesOn

(* The key source answers: whoever asked is told, or nobody is. *)
LEMMA KeySignsServed ==
    ASSUME Inv, ServedInv, NEW c \in Clients, SignerSigns(c)
    PROVE  ServedInv'
<1> DEFINE s == [client |-> c, request |-> signing[c]]
<1>1. /\ signing[c] # None /\ signatures' = signatures \cup {s}
      /\ signing' = [signing EXCEPT ![c] = None]
      /\ UNCHANGED <<intents, escalations, body>>
  BY DEF SignerSigns, KeySigns, ledgerVars, Hears, Proceed, serviceVars
<1>2. /\ pc[c] \in {"signing", "failed"} /\ body[c] # None
      /\ Req(c) \in Requests /\ signing[c].requestId = Req(c)
  BY <1>1 DEF Inv, SigningInv, AtKeyInv, HoldersAreKnown, Holds, Base, ServiceTypeOK, Body, Or, Req
<1>3. /\ \A d \in Clients : d # c => pc'[d] = pc[d]
      /\ \/ pc[c] = "signing" /\ pc'[c] = IF IsPayment(c) THEN "recordSigned" ELSE "approveStorage"
         \/ pc[c] = "failed" /\ pc'[c] = "failed"
  BY <1>2 DEF SignerSigns, Hears, At, Proceed, Goto, serviceVars, Inv, Base, ServiceTypeOK
<1>4. /\ \A d \in Clients : signing'[d] \in {signing[d], None}
      /\ \A d \in Clients : Asking(d)' => Asking(d)
  BY <1>1 DEF Asking, Inv, Base, SignerTypeOK
<1>5. \A d \in Clients : /\ Req(d)' = Req(d) /\ (IsPayment(d)' <=> IsPayment(d))
                         /\ Resolves(d)' <=> Resolves(d)
                         /\ \A r \in Requests : /\ IsFor(d, r)' <=> IsFor(d, r)
                                                /\ PaysFor(d, r)' <=> PaysFor(d, r)
  BY <1>1 DEF Req, IsPayment, Resolves, IsFor, PaysFor
<1>6. \A t \in signatures : t.client \in Clients /\ t.request.requestId \in Requests
  BY DEF Inv, Base, SignerTypeOK, SignRequest
<1>7. Asking(c) /\ (IsPayment(c) => escalations[Req(c)] = None)
  BY <1>1, <1>2 DEF Asking, ServedInv, EscalatedOnly, PaysFor, IsFor
<1> HIDE DEF s
<1> USE DEF ServedInv
<1>8. OnePayment' /\ PaymentFirst' /\ AskedByPayment' /\ VerdictIsGiven'
  BY <1>1, <1>3, <1>5 DEF OnePayment, PaymentFirst, AskedByPayment, VerdictIsGiven, Final
<1>9. SignerIsTold'
  <2> SUFFICES ASSUME NEW t \in signatures'
               PROVE  IsFor(t.client, t.request.requestId)' /\ pc'[t.client] \in Sealed
    BY DEF SignerIsTold
  <2>1. CASE t = s
    <3>1. t.client = c /\ t.request.requestId = Req(c)
      BY <1>2, <2>1 DEF s
    <3>2. QED
      BY <1>2, <1>3, <1>5, <3>1 DEF IsFor, Sealed, Told
  <2>2. CASE t # s
    BY <1>1, <1>3, <1>5, <1>6, <2>2 DEF SignerIsTold, Sealed, Told
  <2>3. QED
    BY <2>1, <2>2
<1>10. ToldIsSigner'
  <2> SUFFICES ASSUME NEW d \in Clients, pc'[d] \in Told \cup {"signed"}
               PROVE  \E t \in signatures' : t.client = d /\ t.request.requestId = Req(d)
    BY <1>5 DEF ToldIsSigner
  <2>1. CASE d = c
    <3>1. s.client = c /\ s.request.requestId = Req(c) /\ s \in signatures'
      BY <1>1, <1>2 DEF s
    <3>2. QED
      BY <2>1, <3>1
  <2>2. CASE d # c
    BY <1>1, <1>3, <2>2 DEF ToldIsSigner
  <2>3. QED
    BY <2>1, <2>2
<1>11. ApprovedByOwner'
  BY <1>1, <1>3, <1>4, <1>5, <1>7 DEF ApprovedByOwner, TailStages
<1>12. EscalatedOnly'
  BY <1>1, <1>2, <1>3, <1>4, <1>5, <1>7 DEF EscalatedOnly, PaysFor, IsFor
<1>13. SignedIsRecorded' /\ DenialIsRecorded'
  BY <1>1, <1>3, <1>5 DEF SignedIsRecorded, DenialIsRecorded, Answered, Exists
<1>14. QED
  BY <1>8, <1>9, <1>10, <1>11, <1>12, <1>13

LEMMA KeyFailsServed ==
    ASSUME Inv, ServedInv, NEW c \in Clients, SignerFails(c)
    PROVE  ServedInv'
<1>1. /\ signing' = [signing EXCEPT ![c] = None] /\ body' = body /\ signatures' = signatures
      /\ \A r : KeepsRecords(r)
  BY SameLedgerRecords DEF SignerFails, KeyFails, ledgerVars, Hears, Proceed, serviceVars
<1>2. /\ \A d \in Clients : d # c => pc'[d] = pc[d]
      /\ (pc'[c] = pc[c]) \/ (pc[c] = "signing" /\ pc'[c] = "release")
  BY DEF SignerFails, Hears, At, Proceed, Goto, serviceVars, Inv, Base, ServiceTypeOK
<1>3. \A d \in Clients : signing'[d] \in {signing[d], None}
  BY <1>1 DEF Inv, Base, SignerTypeOK
<1>4. \A d \in Clients : HandlerStays(d) \/ HandlerGoesOn(d)
  BY <1>1, <1>2, <1>3 DEF HandlerStays, HandlerGoesOn, Told, Final, TailStages
<1>5. QED
  BY <1>1, <1>4, ServedFrame

LEMMA FaultServed ==
    ASSUME Inv, ServedInv, FaultStep
    PROVE  ServedInv'
<1>1. body' = body /\ signatures' = signatures
  BY DEF FaultStep, HandlerDies, SignerUnreachable, SignerGoesDown, LedgerGoesDown, Stop,
         SignerRestart, ReadsOnly, signerVars, serviceVars
<1>2. \A r \in Requests : KeepsRecords(r)
  BY SameLedgerRecords
     DEF FaultStep, HandlerDies, SignerUnreachable, SignerGoesDown, LedgerGoesDown,
         ReadsOnly, ledgerVars, LedgerRestart, Empty, KeepsRecords
<1>3. /\ \A d \in Clients : signing'[d] \in {signing[d], None}
      /\ \A d \in Clients : \/ pc'[d] = pc[d]
                            \/ pc[d] \notin Final \cup {"idle"} /\ pc'[d] = "failed"
  BY DEF FaultStep, HandlerDies, SignerUnreachable, SignerGoesDown, LedgerGoesDown, Stop,
         SignerRestart, ReadsOnly, signerVars, serviceVars, At, Final
<1>4. \A d \in Clients : HandlerStays(d) \/ HandlerGoesOn(d)
  BY <1>3 DEF HandlerStays, HandlerGoesOn, Told, Sealed, TailStages
<1>5. QED
  BY <1>1, <1>2, <1>4, ServedFrame

(* A question is put to the human by the one payment of its request, which *)
(* has signed nothing and will not; nobody has answered it yet. *)
LEMMA EscalateServed ==
    ASSUME Inv, ServedInv, NEW c \in Clients, Escalate(c)
    PROVE  ServedInv'
<1>1. /\ pc[c] = "createEscalation" /\ body' = body
      /\ pc' = [pc EXCEPT ![c] = "recordEscalated"]
      /\ UNCHANGED <<signing, signatures, intents>>
  BY DEF Escalate, At, LedgerOnly, CreateEscalation, Proceed, Goto, signerVars
<1>2. body[c] # None /\ Req(c) \in Requests /\ IsPayment(c) /\ PaysFor(c, Req(c))
  BY <1>1, WhoIsAt DEF CheckStages, PaysFor, IsFor
<1>3. \A r \in Requests : r # Req(c) => escalations'[r] = escalations[r]
  BY <1>2 DEF Escalate, CreateEscalation, Inv, Base, LedgerTypeOK
<1>4. /\ pc'[c] = "recordEscalated"
      /\ \A d \in Clients : d # c => pc'[d] = pc[d]
  BY <1>1 DEF Inv, Base, ServiceTypeOK
<1>5. \A d \in Clients : /\ Req(d)' = Req(d) /\ (IsPayment(d)' <=> IsPayment(d))
                         /\ (Resolves(d)' <=> Resolves(d)) /\ (Asking(d)' <=> Asking(d))
                         /\ \A r \in Requests : /\ IsFor(d, r)' <=> IsFor(d, r)
                                                /\ PaysFor(d, r)' <=> PaysFor(d, r)
  BY <1>1 DEF Req, IsPayment, Resolves, IsFor, PaysFor, Asking
<1>6. ~Asking(c)
  BY <1>1 DEF Asking, ServedInv, SignerIsTold, Sealed, Told, Inv, SigningInv, AtKeyInv
<1>7. \A d \in Clients : IsFor(d, Req(c)) /\ d # c => ~Resolves(d) /\ ~IsPayment(d)
  BY <1>1, <1>2 DEF ServedInv, OnePayment, PaymentFirst, PaysFor, IsFor, Final
<1>8. \A d \in Clients : ~(d # c /\ IsFor(d, Req(c)))
  BY <1>7 DEF Resolves, IsFor
<1> USE DEF ServedInv
<1>9. OnePayment' /\ PaymentFirst' /\ AskedByPayment' /\ VerdictIsGiven'
  BY <1>1, <1>2, <1>3, <1>4, <1>5
     DEF OnePayment, PaymentFirst, AskedByPayment, VerdictIsGiven, Final
<1>10. \A t \in signatures : t.client \in Clients /\ t.request.requestId \in Requests
  BY DEF Inv, Base, SignerTypeOK, SignRequest
<1>11. SignerIsTold' /\ ToldIsSigner'
  BY <1>1, <1>4, <1>5, <1>10 DEF SignerIsTold, ToldIsSigner, Sealed, Told
<1>12. ApprovedByOwner'
  BY <1>1, <1>2, <1>4, <1>5 DEF ApprovedByOwner, Resolves, TailStages
<1>13. EscalatedOnly'
  BY <1>3, <1>4, <1>5, <1>6, <1>8 DEF EscalatedOnly, PaysFor, IsFor
<1>14. SignedIsRecorded' /\ DenialIsRecorded'
  BY <1>1, <1>2, <1>3, <1>4, <1>5, <1>8
     DEF SignedIsRecorded, DenialIsRecorded, Exists, Answered, Resolves, IsFor
<1>15. QED
  BY <1>9, <1>11, <1>12, <1>13, <1>14

LEMMA ServiceServed ==
    ASSUME Inv, ServedInv, NEW c \in Clients, HandlerStep(c) \/ SignerStep(c)
    PROVE  ServedInv'
BY ChecksServed, AnswersServed, RecordsServed, NonceServed, CallSignerServed,
   RecordSignedServed, VerdictServed, EscalateServed, KeySignsServed, KeyFailsServed
   DEF HandlerStep, SignerStep

-----------------------------------------------------------------------------
(* Steps of the orchestrator, as the services see them *)

LEMMA QuietServed ==
    ASSUME Inv, ServedInv, UNCHANGED <<body, pc, signing, signatures>>,
           \A r \in Requests : KeepsRecords(r)
    PROVE  ServedInv'
BY ServedFrame DEF HandlerStays

(* A handler begins: the only payment of a request nobody has heard of, or *)
(* an answer to an escalation whose payment is over. *)
LEMMA BeginServed ==
    ASSUME Inv, ServedInv, NEW c \in Clients, NEW b \in Body,
           NEW stage \in {"getIntent", "getEscalation"}, Begin(c, b, stage),
           IF b.kind = "payment"
           THEN \A d \in Clients : ~IsFor(d, b.request)
           ELSE /\ b.verdict # None
                /\ \A d \in Clients : PaysFor(d, b.request) => pc[d] \in Final
    PROVE  ServedInv'
<1>1. /\ pc[c] = "idle" /\ pc'[c] = stage /\ body'[c] = b /\ b # None
      /\ \A d \in Clients : d # c => pc'[d] = pc[d] /\ body'[d] = body[d]
      /\ UNCHANGED <<intents, escalations, signing, signatures>>
  BY PaymentsAssumption DEF Begin, Goto, ledgerVars, signerVars, Inv, Base, ServiceTypeOK
<1>2. /\ \A d \in Clients : Asking(d)' <=> Asking(d)
      /\ ~Asking(c)
  BY <1>1 DEF Asking, ServedInv, SignerIsTold, Sealed, Told, Inv, SigningInv, AtKeyInv
<1>3. \A d \in Clients : d # c =>
          /\ Req(d)' = Req(d) /\ (IsPayment(d)' <=> IsPayment(d)) /\ (Resolves(d)' <=> Resolves(d))
          /\ \A r \in Requests : (IsFor(d, r)' <=> IsFor(d, r)) /\ (PaysFor(d, r)' <=> PaysFor(d, r))
  BY <1>1 DEF Req, IsPayment, Resolves, IsFor, PaysFor
<1>4. /\ Resolves(c)' <=> b.kind # "payment"
      /\ \A r \in Requests : /\ IsFor(c, r)' <=> r = b.request
                             /\ PaysFor(c, r)' <=> r = b.request /\ b.kind = "payment"
  BY <1>1 DEF Req, IsPayment, Resolves, IsFor, PaysFor
<1>5. \A s \in signatures : s.client \in Clients /\ s.request.requestId \in Requests
  BY DEF Inv, Base, SignerTypeOK, SignRequest
<1>6. \A d \in Clients, r \in Requests : PaysFor(d, r) => IsFor(d, r)
  BY DEF PaysFor
<1> USE DEF ServedInv
<1>7. OnePayment'
  BY <1>3, <1>4, <1>6 DEF OnePayment
<1>8. PaymentFirst'
  <2> SUFFICES ASSUME NEW d \in Clients, NEW e \in Clients, NEW r \in Requests,
                      Resolves(d)', IsFor(d, r)', PaysFor(e, r)'
               PROVE  pc'[e] \in Final
    BY DEF PaymentFirst
  <2>1. CASE e = c
    BY <1>3, <1>4, <2>1
  <2>2. CASE e # c
    BY <1>1, <1>3, <1>4, <1>6, <2>2 DEF PaymentFirst
  <2>3. QED
    BY <2>1, <2>2
<1>9. AskedByPayment'
  BY <1>1, <1>3 DEF AskedByPayment
<1>10. VerdictIsGiven'
  BY <1>1, <1>3, <1>4 DEF VerdictIsGiven
<1>11. SignerIsTold'
  BY <1>1, <1>3, <1>5 DEF SignerIsTold, Sealed, Told
<1>12. ToldIsSigner'
  BY <1>1, <1>3 DEF ToldIsSigner, Told
<1>13. ApprovedByOwner'
  BY <1>1, <1>2, <1>3 DEF ApprovedByOwner, TailStages
<1>14. EscalatedOnly'
  BY <1>1, <1>2, <1>3, <1>4, <1>6 DEF EscalatedOnly, AskedByPayment
<1>15. SignedIsRecorded' /\ DenialIsRecorded'
  BY <1>1, <1>3 DEF SignedIsRecorded, DenialIsRecorded, Exists, Answered
<1>16. QED
  BY <1>7, <1>8, <1>9, <1>11, <1>12, <1>13, <1>14, <1>15, <1>10

(* The services' own steps, the owner's, the clock's and the faults. *)
LEMMA OutsideStep ==
    ASSUME Inv, ServedInv,
           \/ \E c \in Clients : HandlerStep(c) \/ SignerStep(c)
           \/ OwnerRevokes \/ PutPolicy \/ TimePasses \/ FaultStep
    PROVE  Inv' /\ ServedInv'
<1>1. Inv'
  BY InvStep DEF PaymentsNext, Environment
<1>2. CASE OwnerRevokes \/ PutPolicy \/ TimePasses
  <2>1. UNCHANGED <<signerVars, serviceVars, intents, escalations>>
    BY <1>2 DEF OwnerRevokes, PutPolicy, StorePolicy, TimePasses, Tick, ledgerVars
  <2>2. UNCHANGED <<body, pc, signing, signatures>>
    BY <2>1 DEF signerVars, serviceVars
  <2>3. \A r \in Requests : KeepsRecords(r)
    BY <2>1, SameLedgerRecords
  <2>4. QED
    BY <1>1, <2>2, <2>3, QuietServed
<1>3. QED
  BY <1>1, <1>2, ServiceServed, FaultServed

LEMMA ElsewhereInv ==
    ASSUME Inv, UNCHANGED <<registry, signerVars, serviceVars>>, LedgerTypeOK', KeepsNonces
    PROVE  Inv'
<1>1. Base'
  BY DEF Inv, Base, ServiceTypeOK, HandlerInv, Ready, RegistryOK, SignerTypeOK, signerVars,
         serviceVars
<1>2. SigningInv'
  BY QuietStep DEF Inv, signerVars, serviceVars, NoNewHolder
<1>3. QED
  BY <1>1, <1>2 DEF Inv

(* The calls by which a run adds to its intent. *)
AddsEvidence(r) ==
    \/ \E ch \in Challenges : AttachChallenge(r, ch)
    \/ \E o \in Orders : RecordSpend(r, o)
    \/ \E tx \in Transactions : RecordSettlement(r, tx)
    \/ \E o \in Orders, tx \in Transactions : RecordCapture(r, o, tx)

AddsTo(r) ==
    /\ escalations' = escalations
    /\ \E record : /\ intents' = [intents EXCEPT ![r] = record]
                   /\ record.nonce = intents[r].nonce
                   /\ record.nonceReleased = intents[r].nonceReleased
                   /\ record.terms = intents[r].terms

LEMMA EvidenceAdded ==
    ASSUME Inv, ServedInv, NEW r \in Requests, AddsEvidence(r),
           UNCHANGED <<registry, signerVars, serviceVars>>
    PROVE  Inv' /\ ServedInv' /\ escalations' = escalations
<1>1. LedgerTypeOK /\ LedgerTypeOK'
  BY AttachChallengeType, RecordSpendType, RecordSettlementType, RecordCaptureType
     DEF AddsEvidence, Inv, Base
<1>2. intents[r] \in IntentRecord /\ Exists(r)
  BY <1>1, IntentIsRecord
     DEF AddsEvidence, AttachChallenge, RecordSpend, RecordSettlement, RecordCapture
<1>3. AddsTo(r)
  <2>1. ASSUME NEW ch, AttachChallenge(r, ch)
        PROVE  AddsTo(r)
    <3> DEFINE new == [intents[r] EXCEPT !.challenge = ch, !.challengeAttachedAt = now,
                                         !.state = "CHALLENGE_ATTACHED"]
    <3>1. /\ new.nonce = intents[r].nonce /\ new.terms = intents[r].terms
          /\ new.nonceReleased = intents[r].nonceReleased
      BY <1>2 DEF IntentRecord
    <3>2. intents' = [intents EXCEPT ![r] = new] /\ escalations' = escalations
      BY <2>1 DEF AttachChallenge, UpdateIntent
    <3> HIDE DEF new
    <3>3. QED
      BY <3>1, <3>2 DEF AddsTo
  <2>2. ASSUME NEW o, RecordSpend(r, o)
        PROVE  AddsTo(r)
    <3> DEFINE new == [intents[r] EXCEPT !.spend = o]
    <3>1. /\ new.nonce = intents[r].nonce /\ new.terms = intents[r].terms
          /\ new.nonceReleased = intents[r].nonceReleased
      BY <1>2 DEF IntentRecord
    <3>2. intents' = [intents EXCEPT ![r] = new] /\ escalations' = escalations
      BY <2>2 DEF RecordSpend, UpdateIntent
    <3> HIDE DEF new
    <3>3. QED
      BY <3>1, <3>2 DEF AddsTo
  <2>3. ASSUME NEW tx, RecordSettlement(r, tx)
        PROVE  AddsTo(r)
    <3> DEFINE new == [intents[r] EXCEPT !.settlement = tx, !.state = "SETTLED"]
    <3>1. /\ new.nonce = intents[r].nonce /\ new.terms = intents[r].terms
          /\ new.nonceReleased = intents[r].nonceReleased
      BY <1>2 DEF IntentRecord
    <3>2. intents' = [intents EXCEPT ![r] = new] /\ escalations' = escalations
      BY <2>3 DEF RecordSettlement, UpdateIntent
    <3> HIDE DEF new
    <3>3. QED
      BY <3>1, <3>2 DEF AddsTo
  <2>4. ASSUME NEW o, NEW tx, RecordCapture(r, o, tx)
        PROVE  AddsTo(r)
    <3> DEFINE new == [intents[r] EXCEPT
                           !.capture = [order |-> o, tx |-> intents[r].settlement],
                           !.state = "CAPTURED"]
    <3>1. /\ new.nonce = intents[r].nonce /\ new.terms = intents[r].terms
          /\ new.nonceReleased = intents[r].nonceReleased
      BY <1>2 DEF IntentRecord
    <3>2. intents' = [intents EXCEPT ![r] = new] /\ escalations' = escalations
      BY <2>4 DEF RecordCapture, UpdateIntent
    <3> HIDE DEF new
    <3>3. QED
      BY <3>1, <3>2 DEF AddsTo
  <2>5. QED
    BY <2>1, <2>2, <2>3, <2>4 DEF AddsEvidence
<1>4. KeepsNonces
  BY <1>1, <1>2, <1>3, SameRecords DEF AddsTo
<1>5. \A q \in Requests : KeepsRecords(q)
  BY <1>1, <1>2, <1>3, UpdateKeepsRecords DEF AddsTo
<1>6. UNCHANGED <<body, pc, signing, signatures>>
  BY DEF signerVars, serviceVars
<1>7. QED
  BY <1>1, <1>3, <1>4, <1>5, <1>6, ElsewhereInv, QuietServed DEF AddsTo

(* The first call of a run creates the intent of a request that is new. *)
LEMMA IntentCreated ==
    ASSUME Inv, ServedInv, NEW r \in used, NEW m \in Mandates, NEW i \in Instructions,
           NEW t \in {now - 1, now}, CreateIntent(r, m, i, t),
           \A d \in Clients : ~IsFor(d, r),
           UNCHANGED <<registry, signerVars, serviceVars>>
    PROVE  Inv' /\ ServedInv' /\ escalations' = escalations
<1>1. r \in Requests /\ t \in Int /\ LedgerTypeOK
  BY DEF Inv, Base, ServiceTypeOK, LedgerTypeOK
<1>2. LedgerTypeOK' /\ escalations' = escalations
  BY <1>1, CreateIntentType DEF CreateIntent
<1>3. Unheard(r)
  BY DEF Unheard, IsFor, ServedInv, SignerIsTold, Inv, Base, SignerTypeOK
<1>4. UNCHANGED <<signing, signatures, body, got, pc, used>> /\ used' = used \cup {r}
  BY DEF signerVars, serviceVars
<1>5. Base'
  BY <1>2 DEF Inv, Base, ServiceTypeOK, HandlerInv, Ready, RegistryOK, SignerTypeOK, signerVars,
              serviceVars
<1>6. SigningInv'
  BY <1>1, <1>3, <1>4, FreshIntentSigning DEF Inv
<1>7. \A q \in Requests : KeepsRecords(q) \/ (escalations'[q] = escalations[q] /\ q = r)
  BY <1>1, <1>2 DEF CreateIntent, KeepsRecords, LedgerTypeOK
<1>8. ServedInv'
  BY <1>4, <1>7, ServedFrame DEF HandlerStays
<1>9. QED
  BY <1>2, <1>5, <1>6, <1>8 DEF Inv

-----------------------------------------------------------------------------
(* Steps of the orchestrator *)

(* A task moves on, and with it what is stored of its run; the services    *)
(* change nothing that it relies on. *)
LEMMA TaskMoves ==
    ASSUME Inv, ServedInv, RunInv, NEW c \in Clients, task[c] # None,
           NEW t \in Task, task' = [task EXCEPT ![c] = t],
           NEW run \in RunRecord, runs' = [runs EXCEPT ![RunOf(c)] = run],
           t.does = task[c].does, t.request = task[c].request,
           task[c].stage # "ended", TaskReady(t, run),
           run.challenge = None => runs[RunOf(c)].challenge = None,
           t.stage \notin Early \cup {"ended"} => task[c].stage \notin Early,
           t.stage \in Early => /\ task[c].stage \in Early
                                /\ run.state = runs[RunOf(c)].state
                                /\ run.outcome = runs[RunOf(c)].outcome,
           (run.state = "ESCALATED" \/ run.outcome = "expired") =>
               \/ Suspended(RunOf(c))
               \/ \A d \in Clients : PaysFor(d, RunOf(c)) => pc[d] \in Final,
           run.outcome = "expired" =>
               runs[RunOf(c)].outcome = "expired" \/ Answered(RunOf(c)),
           UNCHANGED <<used, body, pc, escalations>>,
           pending' \subseteq Requests, timers' \in [Requests -> Or(Int)],
           \/ presented' = presented
           \/ /\ presented' = presented \cup {[client |-> c, request |-> RunOf(c)]}
              /\ pc[c] = "signed" /\ task[c].stage \notin Early
    PROVE  RunInv'
<1> DEFINE r == RunOf(c)
<1>1. r \in Requests /\ runs[r] # None /\ task[c] \in Task /\ t # None /\ run # None
  BY RunsAssumption DEF RunInv, MemoryTypeOK, Or, Task, RunOf, TasksReady, TaskReady
<1>2. /\ task'[c] = t /\ \A d \in Clients : d # c => task'[d] = task[d]
      /\ runs'[r] = run /\ \A q \in Requests : q # r => runs'[q] = runs[q]
      /\ \A d \in Clients : RunOf(d)' = RunOf(d)
  BY <1>1 DEF RunInv, MemoryTypeOK, RunOf
<1>3. \A d \in Clients : task[d] # None => RunOf(d) \in Requests
  BY DEF RunInv, MemoryTypeOK, Or, Task, RunOf
<1>4. /\ \A d \in Clients : IsPayment(d)' <=> IsPayment(d)
      /\ \A d \in Clients : Req(d)' = Req(d)
      /\ \A d, q : (IsFor(d, q)' <=> IsFor(d, q)) /\ (PaysFor(d, q)' <=> PaysFor(d, q))
  BY DEF Req, IsPayment, IsFor, PaysFor
<1>5. ASSUME NEW d \in Clients, d # c, task[d] # None, task[d].stage \in Early
      PROVE  RunOf(d) # r
  <2> SUFFICES ASSUME RunOf(d) = r PROVE FALSE
    OBVIOUS
  <2>1. task[d].does = "run" /\ \A e \in Clients : ~IsFor(e, r)
    BY <1>5 DEF RunInv, EarlyIsAlone
  <2>2. task[c].does # "run"
    BY <1>5, <2>1 DEF RunInv, OneRun
  <2>3. task[c].stage \notin Early
    BY <2>2 DEF RunInv, EarlyIsAlone
  <2>4. IsFor(c, r)
    BY <2>3 DEF RunInv, CallerIsServed
  <2>5. QED
    BY <2>1, <2>4
<1> USE DEF RunInv
<1>6. MemoryTypeOK'
  <2>1. runs' \in [Requests -> Or(RunRecord)] /\ task' \in [Clients -> Or(Task)]
    BY <1>1 DEF MemoryTypeOK, Or
  <2>2. presented' \subseteq [client : Clients, request : Requests]
    BY <1>1 DEF MemoryTypeOK
  <2>3. QED
    BY <2>1, <2>2 DEF MemoryTypeOK
<1>7. TasksReady'
  <2> SUFFICES ASSUME NEW d \in Clients, task'[d] # None
               PROVE  TaskReady(task'[d], runs'[RunOf(d)])
    BY <1>2 DEF TasksReady
  <2>1. CASE d = c
    BY <1>2, <2>1
  <2>2. CASE d # c /\ RunOf(d) = r
    BY <1>1, <1>2, <2>2 DEF TasksReady, TaskReady
  <2>3. CASE d # c /\ RunOf(d) # r
    BY <1>2, <1>3, <2>3 DEF TasksReady
  <2>4. QED
    BY <2>1, <2>2, <2>3
<1>8. OneRun' /\ TasksAreUsed'
  BY <1>1, <1>2 DEF OneRun, TasksAreUsed
<1>9. PaymentIsRun'
  BY <1>1, <1>2, <1>4 DEF PaymentIsRun
<1>10. EarlyIsAlone'
  <2> SUFFICES ASSUME NEW d \in Clients, task'[d] # None, task'[d].stage \in Early
               PROVE  /\ task'[d].does = "run"
                      /\ runs'[RunOf(d)].state = "RUNNING" /\ runs'[RunOf(d)].outcome = None
                      /\ \A e \in Clients : ~IsFor(e, RunOf(d))
    BY <1>2, <1>4 DEF EarlyIsAlone
  <2>1. CASE d = c
    BY <1>2, <2>1 DEF EarlyIsAlone
  <2>2. CASE d # c
    BY <1>2, <1>3, <1>5, <2>2 DEF EarlyIsAlone
  <2>3. QED
    BY <2>1, <2>2
<1>11. CallerIsServed'
  BY <1>1, <1>2, <1>4 DEF CallerIsServed
<1>12. PresentedIsSigned'
  <2>1. presented' # presented => IsFor(c, r)
    BY DEF CallerIsServed
  <2>2. QED
    BY <1>4, <2>1 DEF PresentedIsSigned
<1>13. SuspendedIsOver'
  BY <1>1, <1>2, <1>4 DEF SuspendedIsOver, Suspended
<1>14. ExpiryClaimIsRecorded'
  BY <1>1, <1>2 DEF ExpiryClaimIsRecorded, Answered
<1>15. QED
  BY <1>6, <1>7, <1>8, <1>9, <1>10, <1>11, <1>12, <1>13, <1>14

LEMMA TaskFacts ==
    ASSUME RunInv, NEW c \in Clients, task[c] # None, task[c].stage # "ended"
    PROVE  /\ task[c] \in Task /\ RunOf(c) \in Requests /\ RunOf(c) \in used
           /\ runs[RunOf(c)] \in RunRecord /\ runs[RunOf(c)] # None
           /\ TaskReady(task[c], runs[RunOf(c)])
<1>1. task[c] \in Task /\ RunOf(c) \in Requests /\ RunOf(c) \in used
  BY DEF RunInv, MemoryTypeOK, Or, Task, RunOf, TasksAreUsed
<1>2. TaskReady(task[c], runs[RunOf(c)]) /\ runs[RunOf(c)] # None
  BY DEF RunInv, TasksReady, TaskReady
<1>3. QED
  BY <1>1, <1>2 DEF RunInv, MemoryTypeOK, Or

LEMMA Untouched ==
    ASSUME Inv, ServedInv, UNCHANGED vars
    PROVE  Inv' /\ ServedInv' /\ UNCHANGED <<used, body, pc, escalations>>
<1>1. UNCHANGED <<used, body, pc, signing, signatures, intents, escalations>>
  BY DEF vars, serviceVars, signerVars, ledgerVars
<1>2. QED
  BY <1>1, InvStep, SameLedgerRecords, QuietServed

LEMMA SetRunRecord ==
    ASSUME runs \in [Requests -> Or(RunRecord)], NEW r \in Requests, runs[r] \in RunRecord,
           NEW state \in RunStates, NEW outcome \in Or(Outcomes), SetRun(r, state, outcome)
    PROVE  \E run \in RunRecord :
               /\ runs' = [runs EXCEPT ![r] = run]
               /\ run.challenge = runs[r].challenge
               /\ run.state = state /\ run.outcome = outcome
<1> DEFINE run == [runs[r] EXCEPT !.state = state, !.outcome = outcome]
<1>1. /\ run \in RunRecord /\ run.challenge = runs[r].challenge
      /\ run.state = state /\ run.outcome = outcome
  BY DEF RunRecord
<1>2. runs' = [runs EXCEPT ![r] = run]
  BY DEF SetRun
<1> HIDE DEF run
<1>3. QED
  BY <1>1, <1>2

(* A task ends, and the run is told how. *)
LEMMA TaskEnds ==
    ASSUME Inv, ServedInv, RunInv, NEW c \in Clients, task[c] # None,
           task[c].stage # "ended", NEW state \in RunStates, NEW outcome \in Outcomes,
           SetRun(RunOf(c), state, outcome), Become(c, "ended"),
           (state = "ESCALATED" \/ outcome = "expired") =>
               \A d \in Clients : PaysFor(d, RunOf(c)) => pc[d] \in Final,
           outcome = "expired" => Answered(RunOf(c)),
           UNCHANGED <<used, body, pc, escalations, presented>>,
           pending' \subseteq Requests, timers' \in [Requests -> Or(Int)]
    PROVE  RunInv'
<1>1. /\ task[c] \in Task /\ RunOf(c) \in Requests /\ runs[RunOf(c)] \in RunRecord
  BY TaskFacts
<1>2. PICK run \in RunRecord :
          /\ runs' = [runs EXCEPT ![RunOf(c)] = run]
          /\ run.challenge = runs[RunOf(c)].challenge
          /\ run.state = state /\ run.outcome = outcome
  BY <1>1, SetRunRecord DEF RunInv, MemoryTypeOK, Or
<1> DEFINE t == [task[c] EXCEPT !.stage = "ended"]
<1>3. /\ t \in Task /\ t.does = task[c].does /\ t.request = task[c].request
      /\ t.stage = "ended"
  BY <1>1 DEF Task, TaskStages
<1>4. task' = [task EXCEPT ![c] = t]
  BY DEF Become
<1>5. TaskReady(t, run)
  BY <1>3 DEF TaskReady
<1> HIDE DEF t
<1>6. QED
  BY <1>2, <1>3, <1>4, <1>5, TaskMoves DEF Early

LEMMA TaskFails ==
    ASSUME Inv, ServedInv, RunInv, NEW c \in Clients, task[c] # None,
           task[c].stage # "ended", Fail(c),
           UNCHANGED <<used, body, pc, escalations, presented>>,
           pending' \subseteq Requests, timers' \in [Requests -> Or(Int)]
    PROVE  RunInv'
<1>1. PICK outcome \in {"failed", "fresh"} :
          SetRun(RunOf(c), "FAILED", outcome) /\ Become(c, "ended")
  BY DEF Fail
<1>2. outcome \in Outcomes /\ outcome # "expired" /\ "FAILED" \in RunStates
  BY DEF Outcomes, RunStates
<1>3. QED
  BY <1>1, <1>2, TaskEnds

(* A task goes on, and its run is as it was. *)
LEMMA TaskGoesOn ==
    ASSUME Inv, ServedInv, RunInv, NEW c \in Clients, task[c] # None,
           task[c].stage # "ended",
           NEW t \in Task, task' = [task EXCEPT ![c] = t], runs' = runs,
           t.does = task[c].does, t.request = task[c].request,
           TaskReady(t, runs[RunOf(c)]),
           t.stage \notin Early \cup {"ended"} => task[c].stage \notin Early,
           t.stage \in Early => task[c].stage \in Early,
           UNCHANGED <<used, body, pc, escalations>>,
           pending' \subseteq Requests, timers' \in [Requests -> Or(Int)],
           \/ presented' = presented
           \/ /\ presented' = presented \cup {[client |-> c, request |-> RunOf(c)]}
              /\ pc[c] = "signed" /\ task[c].stage \notin Early
    PROVE  RunInv'
<1> DEFINE run == runs[RunOf(c)]
<1>1. run \in RunRecord /\ run # None /\ RunOf(c) \in Requests
  BY TaskFacts
<1>2. runs' = [runs EXCEPT ![RunOf(c)] = run]
  BY <1>1 DEF RunInv, MemoryTypeOK
<1>3. run.state = "ESCALATED" \/ run.outcome = "expired" => Suspended(RunOf(c))
  BY <1>1 DEF Suspended
<1> HIDE DEF run
<1>4. /\ TaskReady(t, run) /\ run.state = runs[RunOf(c)].state
      /\ run.outcome = runs[RunOf(c)].outcome /\ run.challenge = runs[RunOf(c)].challenge
  BY DEF run
<1>5. QED
  BY <1>1, <1>2, <1>3, <1>4, TaskMoves

LEMMA Becomes ==
    ASSUME RunInv, NEW c \in Clients, task[c] # None, task[c].stage # "ended",
           NEW stage \in TaskStages, Become(c, stage)
    PROVE  \E t \in Task :
               /\ task' = [task EXCEPT ![c] = t]
               /\ t.does = task[c].does /\ t.request = task[c].request /\ t.stage = stage
               /\ t.tx = task[c].tx /\ t.order = task[c].order
<1> DEFINE t == [task[c] EXCEPT !.stage = stage]
<1>1. /\ t \in Task /\ t.does = task[c].does /\ t.request = task[c].request
      /\ t.stage = stage /\ t.tx = task[c].tx /\ t.order = task[c].order
  BY TaskFacts DEF Task
<1>2. task' = [task EXCEPT ![c] = t]
  BY DEF Become
<1> HIDE DEF t
<1>3. QED
  BY <1>1, <1>2

(* The ledger's answer to a call of a task. *)
LEMMA LedgerAnswered ==
    ASSUME Inv, ServedInv, RunInv, NEW c \in Clients, task[c] # None,
           NEW stage \in TaskStages, LedgerAnswers(c, stage), escalations' = escalations,
           task[c].stage # "ended", stage # "ended",
           \A t \in Task : t.stage = stage /\ t.tx = task[c].tx /\ t.order = task[c].order
                               => TaskReady(t, runs[RunOf(c)]),
           stage \in Early <=> task[c].stage \in Early
    PROVE  RunInv'
<1>1. UNCHANGED <<used, body, pc, escalations, presented>> /\ pending' = pending
      /\ timers' = timers
  BY DEF LedgerAnswers, serviceVars
<1>2. pending' \subseteq Requests /\ timers' \in [Requests -> Or(Int)]
  BY <1>1 DEF RunInv, MemoryTypeOK
<1>3. CASE Fail(c)
  BY <1>1, <1>2, <1>3, TaskFails
<1>4. CASE Become(c, stage) /\ UNCHANGED runs
  <2>1. PICK t \in Task :
            /\ task' = [task EXCEPT ![c] = t]
            /\ t.does = task[c].does /\ t.request = task[c].request /\ t.stage = stage
            /\ t.tx = task[c].tx /\ t.order = task[c].order
    BY <1>4, Becomes
  <2>2. QED
    BY <1>1, <1>2, <1>4, <2>1, TaskGoesOn
<1>5. QED
  BY <1>3, <1>4 DEF LedgerAnswers

LEMMA CreateIntentStep ==
    ASSUME RunsInv, NEW c \in Clients, CallCreateIntent(c)
    PROVE  RunsInv'
<1> USE DEF RunsInv
<1>1. task[c] # None /\ task[c].stage = "createIntent"
  BY DEF CallCreateIntent, Calling
<1>2. /\ RunOf(c) \in used /\ runs[RunOf(c)] \in RunRecord
      /\ TaskReady(task[c], runs[RunOf(c)])
  BY <1>1, TaskFacts
<1>3. \A d \in Clients : ~IsFor(d, RunOf(c))
  BY <1>1 DEF RunInv, EarlyIsAlone, Early
<1>4. UNCHANGED <<registry, signerVars, serviceVars>> /\ LedgerAnswers(c, "getCard")
  BY DEF CallCreateIntent, LedgerAnswers
<1>5. /\ runs[RunOf(c)].mandate \in Mandates
      /\ runs[RunOf(c)].instruction \in Instructions
  BY <1>2 DEF RunRecord
<1>6. PICK t \in {now - 1, now} :
          CreateIntent(RunOf(c), runs[RunOf(c)].mandate, runs[RunOf(c)].instruction, t)
  BY DEF CallCreateIntent
<1>7. Inv' /\ ServedInv' /\ escalations' = escalations
  BY <1>2, <1>3, <1>4, <1>5, <1>6, IntentCreated
<1>8. \A u \in Task : u.stage = "getCard" => TaskReady(u, runs[RunOf(c)])
  BY <1>1, <1>2 DEF TaskReady, AfterSignature
<1>9. RunInv'
  BY <1>1, <1>4, <1>7, <1>8, LedgerAnswered DEF Early, TaskStages
<1>10. QED
  BY <1>7, <1>9

LEMMA GetCardStep ==
    ASSUME RunsInv, NEW c \in Clients, CallGetCard(c)
    PROVE  RunsInv'
<1> USE DEF RunsInv
<1>1. task[c] # None /\ task[c].stage = "getCard" /\ UNCHANGED vars
  BY DEF CallGetCard, Calling
<1>2. Inv' /\ ServedInv' /\ UNCHANGED <<used, body, pc, escalations>>
  BY <1>1, Untouched
<1>3. runs[RunOf(c)] \in RunRecord /\ runs[RunOf(c)] # None
  BY <1>1, TaskFacts
<1>4. PICK ch \in Challenges : runs' = [runs EXCEPT ![RunOf(c)].challenge = ch]
  BY DEF CallGetCard
<1> DEFINE run == [runs[RunOf(c)] EXCEPT !.challenge = ch]
<1>5. /\ run \in RunRecord /\ run.challenge = ch
      /\ run.state = runs[RunOf(c)].state /\ run.outcome = runs[RunOf(c)].outcome
  BY <1>3 DEF RunRecord, Or
<1>6. ch # None /\ run # None
  BY <1>5, ContractsAssumption, RunsAssumption
<1>7. runs' = [runs EXCEPT ![RunOf(c)] = run]
  BY <1>4
<1> HIDE DEF run
<1>8. PICK t \in Task :
          /\ task' = [task EXCEPT ![c] = t]
          /\ t.does = task[c].does /\ t.request = task[c].request
          /\ t.stage = "attachChallenge"
  BY <1>1, Becomes DEF CallGetCard, TaskStages
<1>9. TaskReady(t, run)
  BY <1>5, <1>6, <1>8 DEF TaskReady, AfterSignature
<1>10. run.state = "ESCALATED" \/ run.outcome = "expired" => Suspended(RunOf(c))
  BY <1>3, <1>5 DEF Suspended
<1>11. /\ presented' = presented /\ pending' \subseteq Requests
       /\ timers' \in [Requests -> Or(Int)]
  BY DEF CallGetCard, RunInv, MemoryTypeOK
<1>12. RunInv'
  BY <1>1, <1>2, <1>5, <1>6, <1>7, <1>8, <1>9, <1>10, <1>11, TaskMoves DEF Early
<1>13. QED
  BY <1>2, <1>12

LEMMA RunEvidenceStep ==
    ASSUME RunsInv, NEW c \in Clients,
           CallAttachChallenge(c) \/ CallRecordSpend(c) \/ CallRecordSettlement(c)
    PROVE  RunsInv'
<1> USE DEF RunsInv
<1>1. /\ task[c] # None
      /\ task[c].stage \in {"attachChallenge", "recordSpend", "recordSettlement"}
  BY DEF CallAttachChallenge, CallRecordSpend, CallRecordSettlement, Calling
<1>2. /\ task[c] \in Task /\ RunOf(c) \in Requests /\ runs[RunOf(c)] \in RunRecord
      /\ TaskReady(task[c], runs[RunOf(c)])
  BY <1>1, TaskFacts
<1>3. /\ runs[RunOf(c)].challenge # None => runs[RunOf(c)].challenge \in Challenges
      /\ task[c].tx # None => task[c].tx \in Transactions
      /\ task[c].order # None => task[c].order \in Orders
  BY <1>2 DEF RunRecord, Task, Or
<1>4. AddsEvidence(RunOf(c))
  BY <1>1, <1>2, <1>3
     DEF CallAttachChallenge, CallRecordSpend, CallRecordSettlement, Calling, AddsEvidence,
         TaskReady, AfterSignature
<1>5. UNCHANGED <<registry, signerVars, serviceVars>>
  BY DEF CallAttachChallenge, CallRecordSpend, CallRecordSettlement, LedgerAnswers
<1>6. Inv' /\ ServedInv' /\ escalations' = escalations
  BY <1>2, <1>4, <1>5, EvidenceAdded
<1>7. PICK stage \in {"requestPayment", "confirm", "recordCapture"} :
          /\ LedgerAnswers(c, stage)
          /\ stage = "requestPayment" <=> task[c].stage = "attachChallenge"
  BY <1>1 DEF CallAttachChallenge, CallRecordSpend, CallRecordSettlement, Calling
<1>8. \A t \in Task : t.stage = stage /\ t.tx = task[c].tx /\ t.order = task[c].order
                          => TaskReady(t, runs[RunOf(c)])
  BY <1>1, <1>2, <1>7 DEF TaskReady, AfterSignature
<1>9. stage \in TaskStages /\ (stage \in Early <=> task[c].stage \in Early)
  BY <1>1, <1>7 DEF TaskStages, AfterSignature, Early
<1>10. RunInv'
  BY <1>1, <1>6, <1>7, <1>8, <1>9, LedgerAnswered
<1>11. QED
  BY <1>6, <1>10

LEMMA CaptureStep ==
    ASSUME RunsInv, NEW c \in Clients, CallRecordCapture(c)
    PROVE  RunsInv'
<1> USE DEF RunsInv
<1>1. task[c] # None /\ task[c].stage = "recordCapture"
  BY DEF CallRecordCapture, Calling
<1>2. /\ task[c] \in Task /\ RunOf(c) \in Requests
      /\ TaskReady(task[c], runs[RunOf(c)])
  BY <1>1, TaskFacts
<1>3. task[c].tx \in Transactions /\ task[c].order \in Orders
  BY <1>1, <1>2 DEF Task, Or, TaskReady, AfterSignature
<1>4. AddsEvidence(RunOf(c)) /\ UNCHANGED <<registry, signerVars, serviceVars>>
  BY <1>3 DEF AddsEvidence, CallRecordCapture
<1>5. Inv' /\ ServedInv' /\ escalations' = escalations
  BY <1>2, <1>4, EvidenceAdded
<1>6. /\ UNCHANGED <<used, body, pc, escalations, presented>>
      /\ pending' \subseteq Requests /\ timers' \in [Requests -> Or(Int)]
  BY <1>5 DEF CallRecordCapture, serviceVars, RunInv, MemoryTypeOK
<1>7. CASE Fail(c)
  BY <1>1, <1>5, <1>6, <1>7, TaskFails
<1>8. CASE SetRun(RunOf(c), "DONE", "signed") /\ Become(c, "ended")
  <2>1. RunInv'
    BY <1>1, <1>6, <1>8, TaskEnds DEF RunStates, Outcomes
  <2>2. QED
    BY <1>5, <2>1
<1>9. QED
  BY <1>5, <1>7, <1>8 DEF CallRecordCapture

(* The calls that touch no service's state. *)
LEMMA SettledStep ==
    ASSUME RunsInv, NEW c \in Clients,
           CardIssued(c) \/ CheckedOut(c) \/ ConfirmSettlement(c) \/ CallFails(c)
    PROVE  RunsInv'
<1> USE DEF RunsInv
<1>1. /\ task[c] # None /\ task[c].stage # "ended"
      /\ UNCHANGED vars /\ presented' = presented
      /\ pending' \subseteq Requests /\ timers' \in [Requests -> Or(Int)]
  BY DEF CardIssued, CheckedOut, ConfirmSettlement, CallFails, Calling, RunInv, MemoryTypeOK
<1>2. Inv' /\ ServedInv' /\ UNCHANGED <<used, body, pc, escalations>>
  BY <1>1, Untouched
<1>3. /\ task[c] \in Task /\ RunOf(c) \in Requests /\ runs[RunOf(c)] \in RunRecord
      /\ runs[RunOf(c)] # None /\ TaskReady(task[c], runs[RunOf(c)])
  BY <1>1, TaskFacts
<1>4. CASE Fail(c)
  BY <1>1, <1>2, <1>4, TaskFails
<1>5. CASE CardIssued(c)
  <2>1. PICK tx \in Transactions :
            task' = [task EXCEPT ![c].stage = "checkout", ![c].tx = tx]
    BY <1>5 DEF CardIssued
  <2> DEFINE t == [task[c] EXCEPT !.stage = "checkout", !.tx = tx]
  <2>2. /\ t \in Task /\ t.does = task[c].does /\ t.request = task[c].request
        /\ t.stage = "checkout" /\ t.tx = tx
    BY <1>3 DEF Task, TaskStages, AfterSignature, Or
  <2>3. task' = [task EXCEPT ![c] = t]
    BY <2>1
  <2> HIDE DEF t
  <2>4. task[c].stage = "payAndIssue"
    BY <1>5 DEF CardIssued, Calling
  <2>5. /\ SetRun(RunOf(c), "AWAITING_CHECKOUT", "checkout-pending")
        /\ "AWAITING_CHECKOUT" \in RunStates /\ "checkout-pending" \in Or(Outcomes)
        /\ runs \in [Requests -> Or(RunRecord)]
    BY <1>5 DEF CardIssued, RunStates, Outcomes, Or, RunInv, MemoryTypeOK
  <2>6. PICK run \in RunRecord :
            /\ runs' = [runs EXCEPT ![RunOf(c)] = run]
            /\ run.challenge = runs[RunOf(c)].challenge
            /\ run.state = "AWAITING_CHECKOUT" /\ run.outcome = "checkout-pending"
    BY <1>3, <2>5, SetRunRecord
  <2>7. tx # None
    BY LedgerAssumption
  <2>8. TaskReady(t, run)
    BY <1>3, <2>2, <2>4, <2>6, <2>7, RunsAssumption DEF TaskReady, AfterSignature
  <2>9. RunInv'
    BY <1>1, <1>2, <2>2, <2>3, <2>4, <2>6, <2>8, TaskMoves DEF Early
  <2>10. QED
    BY <1>2, <2>9
<1>6. CASE CheckedOut(c)
  <2>1. PICK o \in Orders :
            task' = [task EXCEPT ![c].stage = "recordSpend", ![c].order = o]
    BY <1>6 DEF CheckedOut
  <2> DEFINE t == [task[c] EXCEPT !.stage = "recordSpend", !.order = o]
  <2>2. /\ t \in Task /\ t.does = task[c].does /\ t.request = task[c].request
        /\ t.stage = "recordSpend" /\ t.tx = task[c].tx /\ t.order = o
    BY <1>3 DEF Task, TaskStages, AfterSignature, Or
  <2>3. task' = [task EXCEPT ![c] = t]
    BY <2>1
  <2> HIDE DEF t
  <2>4. task[c].stage = "checkout" /\ runs' = runs
    BY <1>6 DEF CheckedOut, Calling
  <2>5. o # None
    BY LedgerAssumption
  <2>6. TaskReady(t, runs[RunOf(c)])
    BY <1>3, <2>2, <2>4, <2>5 DEF TaskReady, AfterSignature
  <2>7. RunInv'
    BY <1>1, <1>2, <2>2, <2>3, <2>4, <2>6, TaskGoesOn DEF Early
  <2>8. QED
    BY <1>2, <2>7
<1>7. CASE ConfirmSettlement(c) /\ Become(c, "recordSettlement") /\ runs' = runs
  <2>1. PICK t \in Task :
            /\ task' = [task EXCEPT ![c] = t]
            /\ t.does = task[c].does /\ t.request = task[c].request
            /\ t.stage = "recordSettlement"
            /\ t.tx = task[c].tx /\ t.order = task[c].order
    BY <1>1, <1>7, Becomes DEF TaskStages, AfterSignature
  <2>2. task[c].stage = "confirm"
    BY <1>7 DEF ConfirmSettlement, Calling
  <2>3. TaskReady(t, runs[RunOf(c)])
    BY <1>3, <2>1, <2>2 DEF TaskReady, AfterSignature
  <2>4. RunInv'
    BY <1>1, <1>2, <1>7, <2>1, <2>2, <2>3, TaskGoesOn DEF Early
  <2>5. QED
    BY <1>2, <2>4
<1>8. QED
  BY <1>4, <1>5, <1>6, <1>7 DEF ConfirmSettlement, CallFails

(* The answers of policy-service: a signed header is presented, a verdict  *)
(* ends the task. *)
LEMMA Caller ==
    ASSUME ServedInv, RunInv, NEW c \in Clients, task[c] # None,
           task[c].stage = "awaitPolicy"
    PROVE  /\ IsFor(c, RunOf(c)) /\ (IsPayment(c) <=> task[c].does = "run")
           /\ task[c].does # "run" => Resolves(c)
           /\ pc[c] \in Final => \A d \in Clients : PaysFor(d, RunOf(c)) => pc[d] \in Final
<1>1. IsFor(c, RunOf(c)) /\ (IsPayment(c) <=> task[c].does = "run")
  BY DEF RunInv, CallerIsServed, Early
<1>2. RunOf(c) \in Requests
  BY TaskFacts
<1>3. Resolves(c) \/ PaysFor(c, RunOf(c))
  BY <1>1 DEF Resolves, PaysFor, IsFor
<1>4. QED
  BY <1>1, <1>2, <1>3 DEF ServedInv, OnePayment, PaymentFirst, Resolves, IsFor

LEMMA PaymentAnsweredStep ==
    ASSUME RunsInv, NEW c \in Clients, PaymentAnswered(c)
    PROVE  RunsInv'
<1> USE DEF RunsInv
<1>1. /\ task[c] # None /\ task[c].does = "run" /\ task[c].stage = "awaitPolicy"
      /\ pc[c] \in Final /\ UNCHANGED vars
  BY DEF PaymentAnswered, Doing
<1>2. Inv' /\ ServedInv' /\ UNCHANGED <<used, body, pc, escalations>>
  BY <1>1, Untouched
<1>3. /\ RunOf(c) \in Requests /\ TaskReady(task[c], runs[RunOf(c)])
  BY <1>1, TaskFacts
<1>4. CASE pc[c] = "signed"
  <2>1. PICK t \in Task :
            /\ task' = [task EXCEPT ![c] = t]
            /\ t.does = task[c].does /\ t.request = task[c].request
            /\ t.stage = "payAndIssue"
    BY <1>1, <1>4, Becomes DEF PaymentAnswered, PresentHeader, TaskStages, AfterSignature
  <2>2. TaskReady(t, runs[RunOf(c)])
    BY <1>1, <1>3, <2>1 DEF TaskReady, AfterSignature
  <2>3. /\ runs' = runs /\ pending' = pending /\ timers' = timers
        /\ presented' = presented \cup {[client |-> c, request |-> RunOf(c)]}
    BY <1>4 DEF PaymentAnswered, PresentHeader
  <2>4. pending' \subseteq Requests /\ timers' \in [Requests -> Or(Int)]
    BY <2>3 DEF RunInv, MemoryTypeOK
  <2>5. RunInv'
    BY <1>1, <1>2, <1>4, <2>1, <2>2, <2>3, <2>4, TaskGoesOn DEF Early
  <2>6. QED
    BY <1>2, <2>5
<1>5. CASE pc[c] = "escalated"
  <2>1. /\ SetRun(RunOf(c), "ESCALATED", "escalated") /\ Become(c, "ended")
        /\ pending' = pending \cup {RunOf(c)} /\ presented' = presented
        /\ \E deadline \in IF escalations[RunOf(c)] # None
                           THEN {escalations[RunOf(c)].expiresAt} ELSE now..(now + Ttl) :
               timers' = [timers EXCEPT ![RunOf(c)] = deadline]
    BY <1>5 DEF PaymentAnswered
  <2>2. escalations[RunOf(c)] # None => escalations[RunOf(c)].expiresAt \in Int
    BY <1>3 DEF Inv, Base, LedgerTypeOK, Or, EscalationRecord
  <2>3. pending' \subseteq Requests /\ timers' \in [Requests -> Or(Int)]
    BY <1>3, <2>1, <2>2 DEF RunInv, MemoryTypeOK, Or, Inv, Base, LedgerTypeOK
  <2>4. \A d \in Clients : PaysFor(d, RunOf(c)) => pc[d] \in Final
    BY <1>1, Caller
  <2>5. "ESCALATED" \in RunStates /\ "escalated" \in Outcomes
    BY DEF RunStates, Outcomes
  <2>6. RunInv'
    BY <1>1, <1>2, <2>1, <2>3, <2>4, <2>5, TaskEnds
  <2>7. QED
    BY <1>2, <2>6
<1>6. CASE pc[c] \notin {"signed", "escalated"}
  <2>1. Fail(c) /\ UNCHANGED <<pending, timers, presented>>
    BY <1>6 DEF PaymentAnswered
  <2>2. pending' \subseteq Requests /\ timers' \in [Requests -> Or(Int)]
    BY <2>1 DEF RunInv, MemoryTypeOK
  <2>3. RunInv'
    BY <1>1, <1>2, <2>1, <2>2, TaskFails
  <2>4. QED
    BY <1>2, <2>3
<1>7. QED
  BY <1>4, <1>5, <1>6

LEMMA EscalationAnsweredStep ==
    ASSUME RunsInv, NEW c \in Clients, EscalationAnswered(c)
    PROVE  RunsInv'
<1> USE DEF RunsInv
<1>1. /\ task[c] # None /\ task[c].does = "resolve" /\ task[c].stage = "awaitPolicy"
      /\ pc[c] \in Final /\ UNCHANGED vars
  BY DEF EscalationAnswered, Doing
<1>2. Inv' /\ ServedInv' /\ UNCHANGED <<used, body, pc, escalations>>
  BY <1>1, Untouched
<1>3. /\ RunOf(c) \in Requests /\ TaskReady(task[c], runs[RunOf(c)])
      /\ runs[RunOf(c)] \in RunRecord
  BY <1>1, TaskFacts
<1>4. pending' \subseteq Requests /\ timers' \in [Requests -> Or(Int)]
  BY <1>3 DEF EscalationAnswered, RunInv, MemoryTypeOK, Or
<1>5. CASE pc[c] = "signed"
  <2>1. PICK t \in Task :
            /\ task' = [task EXCEPT ![c] = t]
            /\ t.does = task[c].does /\ t.request = task[c].request
            /\ t.stage = "payAndIssue"
    BY <1>1, <1>5, Becomes DEF EscalationAnswered, PresentHeader, TaskStages, AfterSignature
  <2>2. /\ SetRun(RunOf(c), "RUNNING", "checkout-pending")
        /\ "RUNNING" \in RunStates /\ "checkout-pending" \in Or(Outcomes)
        /\ runs \in [Requests -> Or(RunRecord)]
    BY <1>5 DEF EscalationAnswered, RunStates, Outcomes, Or, RunInv, MemoryTypeOK
  <2>3. PICK run \in RunRecord :
            /\ runs' = [runs EXCEPT ![RunOf(c)] = run]
            /\ run.challenge = runs[RunOf(c)].challenge
            /\ run.state = "RUNNING" /\ run.outcome = "checkout-pending"
    BY <1>3, <2>2, SetRunRecord
  <2>4. TaskReady(t, run)
    BY <1>1, <1>3, <2>1, <2>3, RunsAssumption DEF TaskReady, AfterSignature
  <2>5. presented' = presented \cup {[client |-> c, request |-> RunOf(c)]}
    BY <1>5 DEF EscalationAnswered, PresentHeader
  <2>6. RunInv'
    BY <1>1, <1>2, <1>4, <1>5, <2>1, <2>3, <2>4, <2>5, TaskMoves DEF Early
  <2>7. QED
    BY <1>2, <2>6
<1>6. CASE pc[c] \in {"refused", "expired"}
  <2>1. /\ SetRun(RunOf(c), "REFUSED", pc[c]) /\ Become(c, "ended")
        /\ presented' = presented
    BY <1>6 DEF EscalationAnswered
  <2>2. /\ \A d \in Clients : PaysFor(d, RunOf(c)) => pc[d] \in Final
        /\ Resolves(c) /\ IsFor(c, RunOf(c))
    BY <1>1, Caller
  <2>3. Answered(RunOf(c))
    BY <1>3, <1>6, <2>2 DEF ServedInv, DenialIsRecorded
  <2>4. "REFUSED" \in RunStates /\ pc[c] \in Outcomes
    BY <1>6 DEF RunStates, Outcomes
  <2>5. RunInv'
    BY <1>1, <1>2, <1>4, <2>1, <2>2, <2>3, <2>4, TaskEnds
  <2>6. QED
    BY <1>2, <2>5
<1>7. CASE pc[c] \notin {"signed", "refused", "expired"}
  <2>1. Become(c, "ended") /\ UNCHANGED <<runs, presented>>
    BY <1>7 DEF EscalationAnswered
  <2>2. PICK t \in Task :
            /\ task' = [task EXCEPT ![c] = t]
            /\ t.does = task[c].does /\ t.request = task[c].request /\ t.stage = "ended"
    BY <1>1, <2>1, Becomes DEF TaskStages
  <2>3. TaskReady(t, runs[RunOf(c)])
    BY <2>2 DEF TaskReady
  <2>4. RunInv'
    BY <1>1, <1>2, <1>4, <2>1, <2>2, <2>3, TaskGoesOn DEF Early
  <2>5. QED
    BY <1>2, <2>4
<1>8. QED
  BY <1>5, <1>6, <1>7

LEMMA ExpiryAnsweredStep ==
    ASSUME RunsInv, NEW c \in Clients, ExpiryAnswered(c)
    PROVE  RunsInv'
<1> USE DEF RunsInv
<1>1. /\ task[c] # None /\ task[c].does = "expire" /\ task[c].stage = "awaitPolicy"
      /\ pc[c] \in Final /\ UNCHANGED vars /\ presented' = presented
  BY DEF ExpiryAnswered, Doing
<1>2. Inv' /\ ServedInv' /\ UNCHANGED <<used, body, pc, escalations>>
  BY <1>1, Untouched
<1>3. RunOf(c) \in Requests
  BY <1>1, TaskFacts
<1>4. pending' \subseteq Requests /\ timers' \in [Requests -> Or(Int)]
  BY DEF ExpiryAnswered, RunInv, MemoryTypeOK
<1>5. CASE pc[c] \in {"expired", "refused"}
  <2>1. SetRun(RunOf(c), "REFUSED", "expired") /\ Become(c, "ended")
    BY <1>5 DEF ExpiryAnswered
  <2>2. /\ \A d \in Clients : PaysFor(d, RunOf(c)) => pc[d] \in Final
        /\ Resolves(c) /\ IsFor(c, RunOf(c))
    BY <1>1, Caller
  <2>3. Answered(RunOf(c))
    BY <1>3, <1>5, <2>2 DEF ServedInv, DenialIsRecorded
  <2>4. "REFUSED" \in RunStates /\ "expired" \in Outcomes
    BY DEF RunStates, Outcomes
  <2>5. RunInv'
    BY <1>1, <1>2, <1>4, <2>1, <2>2, <2>3, <2>4, TaskEnds
  <2>6. QED
    BY <1>2, <2>5
<1>6. CASE pc[c] \notin {"expired", "refused"}
  <2>1. Fail(c)
    BY <1>6 DEF ExpiryAnswered
  <2>2. RunInv'
    BY <1>1, <1>2, <1>4, <2>1, TaskFails
  <2>3. QED
    BY <1>2, <2>2
<1>7. QED
  BY <1>5, <1>6

(* An answer that never comes ends the task that waits for it. *)
LEMMA PolicyUnheardStep ==
    ASSUME RunsInv, NEW c \in Clients, PolicyUnheard(c)
    PROVE  RunsInv'
<1> USE DEF RunsInv
<1>1. /\ task[c] # None /\ task[c].stage = "awaitPolicy"
      /\ UNCHANGED <<vars, timers, presented>>
  BY DEF PolicyUnheard, Calling
<1>2. Inv' /\ ServedInv' /\ UNCHANGED <<used, body, pc, escalations>>
  BY <1>1, Untouched
<1>3. pending' \subseteq Requests /\ timers' \in [Requests -> Or(Int)]
  BY <1>1 DEF PolicyUnheard, RunInv, MemoryTypeOK
<1>4. CASE task[c].does = "resolve"
  <2>1. Become(c, "ended") /\ UNCHANGED runs
    BY <1>4 DEF PolicyUnheard
  <2>2. PICK t \in Task :
            /\ task' = [task EXCEPT ![c] = t]
            /\ t.does = task[c].does /\ t.request = task[c].request /\ t.stage = "ended"
    BY <1>1, <2>1, Becomes DEF TaskStages
  <2>3. TaskReady(t, runs[RunOf(c)])
    BY <2>2 DEF TaskReady
  <2>4. RunInv'
    BY <1>1, <1>2, <1>3, <2>1, <2>2, <2>3, TaskGoesOn DEF Early
  <2>5. QED
    BY <1>2, <2>4
<1>5. CASE task[c].does # "resolve"
  <2>1. Fail(c)
    BY <1>5 DEF PolicyUnheard
  <2>2. RunInv'
    BY <1>1, <1>2, <1>3, <2>1, TaskFails
  <2>3. QED
    BY <1>2, <2>2
<1>6. QED
  BY <1>4, <1>5

(* What the steps of the services leave to the orchestrator. *)
KeepsEscalation(r) ==
    escalations'[r] # None => /\ escalations[r] # None
                              /\ escalations[r].resolved => escalations'[r].resolved

ServicesMove ==
    /\ body' = body /\ used' = used
    /\ \A c \in Clients : /\ pc[c] \in Final => pc'[c] = pc[c]
                          /\ pc[c] # "idle" => pc'[c] # "idle"
    /\ \A r \in Requests : \/ KeepsEscalation(r)
                           \/ \E c \in Clients : PaysFor(c, r) /\ pc[c] \notin Final

LEMMA ProceedShapes ==
    ASSUME Inv, NEW c \in Clients, pc[c] \notin Final, NEW stage, stage # "idle", NEW locals,
           Proceed(c, stage, locals),
           \A r \in Requests : KeepsRecords(r) \/ (PaysFor(c, r) /\ pc[c] \notin Final)
    PROVE  ServicesMove
BY DEF Proceed, Goto, ServicesMove, KeepsRecords, KeepsEscalation, Inv, Base, ServiceTypeOK

LEMMA CallerMoves ==
    ASSUME Inv, NEW c \in Clients, HandlerStep(c)
    PROVE  ServicesMove
<1>1. CASE \/ GetIntent(c) \/ GetPolicy(c) \/ GetWindowUsage(c) \/ RunChecks(c)
           \/ MatchIntent(c) \/ GetEscalation(c) \/ ResolvePolicy(c) \/ ResolveIntent(c)
  <2>1. PICK stage \in {"getPolicy", "recordRefused", "rejected", "getWindow", "getMandate",
                        "getStanding", "createEscalation", "reserve", "denyStorage",
                        "resolvePolicy", "resolveIntent"} :
            \E locals : Proceed(c, stage, locals)
    BY <1>1 DEF GetIntent, GetPolicy, GetWindowUsage, RunChecks, MatchIntent,
                GetEscalation, ResolvePolicy, ResolveIntent
  <2>2. pc[c] \notin Final
    BY <1>1 DEF GetIntent, GetPolicy, GetWindowUsage, RunChecks, MatchIntent,
                GetEscalation, ResolvePolicy, ResolveIntent, At, Final
  <2>3. \A r : KeepsRecords(r)
    BY <1>1, SameLedgerRecords
       DEF GetIntent, GetPolicy, GetWindowUsage, RunChecks, MatchIntent,
           GetEscalation, ResolvePolicy, ResolveIntent, ReadsOnly, ledgerVars
  <2>4. QED
    BY <2>1, <2>2, <2>3, ProceedShapes
<1>2. CASE RecordEscalated(c) \/ RecordRefused(c) \/ RecordSigned(c)
  <2>1. pc[c] \in {"recordEscalated", "recordRefused", "recordSigned"}
    BY <1>2 DEF RecordEscalated, RecordRefused, RecordSigned, At
  <2>2. RefusalOf(got[c].because) \in {"refused", "expired", "rejected"}
    BY DEF RefusalOf, Inv, Base, ServiceTypeOK, Got
  <2>3. PICK stage \in {"escalated", "refused", "expired", "rejected", "failed", "setStanding",
                        "signed"} : Proceed(c, stage, got[c])
    BY <1>2, <2>2 DEF RecordEscalated, RecordRefused, RecordSigned, RecordOrFail
  <2>4. escalations' = escalations
    BY <1>2 DEF RecordEscalated, RecordRefused, RecordSigned, RecordOrFail, RecordDecision,
                ledgerVars
  <2>5. QED
    BY <2>1, <2>3, <2>4 DEF Proceed, Goto, ServicesMove, KeepsEscalation, Final,
                           Inv, Base, ServiceTypeOK
<1>3. CASE Reserve(c) \/ Release(c)
  <2>1. pc[c] \in {"reserve", "release"}
    BY <1>3 DEF Reserve, Release, At
  <2>2. PICK stage \in {"sign", "recordRefused", "denyStorage"} :
            \E locals : Proceed(c, stage, locals)
    BY <1>3 DEF Reserve, Release, AfterRefusedSigning
  <2>3. escalations' = escalations
    BY <1>3 DEF Reserve, Release, ReserveNonce, ReleaseNonce, UpdateIntent, ledgerVars
  <2>4. QED
    BY <2>1, <2>2, <2>3 DEF Proceed, Goto, ServicesMove, KeepsEscalation, Final,
                           Inv, Base, ServiceTypeOK
<1>4. CASE CallSigner(c)
  <2>1. PICK stage \in {"signing", "release"} : Proceed(c, stage, got[c])
    BY <1>4 DEF CallSigner
  <2>2. pc[c] = "sign" /\ escalations' = escalations
    BY <1>4 DEF CallSigner, At, ledgerVars
  <2>3. QED
    BY <2>1, <2>2 DEF Proceed, Goto, ServicesMove, KeepsEscalation, Final,
                     Inv, Base, ServiceTypeOK
<1>5. CASE DenyStorage(c) \/ ApproveStorage(c) \/ SetStanding(c)
  <2>1. pc[c] \in {"denyStorage", "approveStorage", "setStanding"}
    BY <1>5 DEF DenyStorage, ApproveStorage, SetStanding, At
  <2>2. PICK stage \in {"recordRefused", "recordSigned", "signed", "failed"} :
            Proceed(c, stage, got[c])
    BY <1>5 DEF DenyStorage, ApproveStorage, StoreVerdict, SetStanding
  <2>3. Req(c) \in Requests
    BY <2>1, WhoIsAt
  <2>4. \A q \in Requests : KeepsRecords(q)
    BY <1>5, <2>3, VerdictKeepsRecords, SameLedgerRecords
       DEF DenyStorage, ApproveStorage, StoreVerdict, SetStanding, SetStandingApproval,
           Inv, Base, ledgerVars
  <2>5. QED
    BY <2>1, <2>2, <2>4, ProceedShapes DEF Final
<1>6. CASE Escalate(c)
  <2>1. pc[c] = "createEscalation" /\ Proceed(c, "recordEscalated", got[c])
    BY <1>6 DEF Escalate, At
  <2>2. body[c] # None /\ Req(c) \in Requests /\ IsPayment(c)
    BY <2>1, WhoIsAt DEF CheckStages
  <2>3. \A r \in Requests : r # Req(c) => KeepsRecords(r)
    BY <1>6, <2>2 DEF Escalate, CreateEscalation, Inv, Base, LedgerTypeOK, KeepsRecords
  <2>4. \A r \in Requests : KeepsRecords(r) \/ (PaysFor(c, r) /\ pc[c] \notin Final)
    BY <2>1, <2>2, <2>3 DEF PaysFor, IsFor, Final
  <2>5. QED
    BY <2>1, <2>4, ProceedShapes DEF Final
<1>7. QED
  BY <1>1, <1>2, <1>3, <1>4, <1>5, <1>6 DEF HandlerStep

LEMMA OutsideMoves ==
    ASSUME Inv,
           \/ \E c \in Clients : HandlerStep(c) \/ SignerStep(c)
           \/ OwnerRevokes \/ PutPolicy \/ TimePasses \/ FaultStep
    PROVE  ServicesMove
<1>1. CASE \E c \in Clients : HandlerStep(c)
  BY <1>1, CallerMoves
<1>2. ASSUME NEW c \in Clients, SignerStep(c)
      PROVE  ServicesMove
  <2>1. escalations' = escalations /\ body' = body /\ used' = used
    BY <1>2 DEF SignerStep, SignerSigns, SignerFails, Hears, Proceed, ledgerVars, serviceVars
  <2>2. \/ pc' = pc
        \/ /\ pc[c] = "signing"
           /\ \E stage \in {"recordSigned", "approveStorage", "release"} :
                  pc' = [pc EXCEPT ![c] = stage]
    BY <1>2 DEF SignerStep, SignerSigns, SignerFails, Hears, Proceed, Goto, At, serviceVars
  <2>3. QED
    BY <2>1, <2>2 DEF ServicesMove, KeepsEscalation, Final, Inv, Base, ServiceTypeOK
<1>3. CASE OwnerRevokes \/ PutPolicy \/ TimePasses
  <2>1. UNCHANGED <<serviceVars, escalations>>
    BY <1>3 DEF OwnerRevokes, PutPolicy, StorePolicy, TimePasses, Tick, ledgerVars
  <2>2. QED
    BY <2>1 DEF serviceVars, ServicesMove, KeepsEscalation
<1>4. CASE FaultStep
  <2>1. \A r \in Requests : KeepsEscalation(r)
    BY <1>4 DEF FaultStep, HandlerDies, SignerUnreachable, SignerGoesDown, LedgerGoesDown,
                ReadsOnly, ledgerVars, LedgerRestart, Empty, KeepsEscalation
  <2>2. /\ body' = body /\ used' = used
        /\ \A d \in Clients : \/ pc'[d] = pc[d]
                              \/ pc[d] \notin Final \cup {"idle"} /\ pc'[d] = "failed"
    BY <1>4 DEF FaultStep, HandlerDies, SignerUnreachable, SignerGoesDown, LedgerGoesDown,
                Stop, ReadsOnly, serviceVars, At, Final
  <2>3. QED
    BY <2>1, <2>2 DEF ServicesMove, Final
<1>5. QED
  BY <1>1, <1>2, <1>3, <1>4

LEMMA ServicesStep ==
    ASSUME RunsInv, UNCHANGED runVars,
           \/ \E c \in Clients : HandlerStep(c) \/ SignerStep(c)
           \/ OwnerRevokes \/ PutPolicy \/ TimePasses \/ FaultStep
    PROVE  RunsInv'
<1> USE DEF RunsInv
<1>1. Inv' /\ ServedInv'
  BY OutsideStep
<1>2. ServicesMove
  BY OutsideMoves
<1>3. UNCHANGED <<runs, pending, timers, task, presented>>
  BY DEF runVars
<1>4. /\ \A d \in Clients : RunOf(d)' = RunOf(d) /\ (IsPayment(d)' <=> IsPayment(d))
      /\ \A d, q : (IsFor(d, q)' <=> IsFor(d, q)) /\ (PaysFor(d, q)' <=> PaysFor(d, q))
  BY <1>2, <1>3 DEF RunOf, IsPayment, IsFor, PaysFor, Req, ServicesMove
<1> USE DEF RunInv
<1>5. MemoryTypeOK' /\ TasksReady' /\ OneRun' /\ TasksAreUsed'
  BY <1>2, <1>3, <1>4 DEF MemoryTypeOK, TasksReady, OneRun, TasksAreUsed, ServicesMove
<1>6. PaymentIsRun' /\ EarlyIsAlone' /\ CallerIsServed'
  BY <1>2, <1>3, <1>4 DEF PaymentIsRun, EarlyIsAlone, CallerIsServed, ServicesMove, Req
<1>7. PresentedIsSigned'
  BY <1>2, <1>3, <1>4 DEF PresentedIsSigned, ServicesMove, Final, MemoryTypeOK
<1>8. SuspendedIsOver'
  BY <1>2, <1>3, <1>4 DEF SuspendedIsOver, Suspended, ServicesMove
<1>9. ExpiryClaimIsRecorded'
  BY <1>2, <1>3 DEF ExpiryClaimIsRecorded, ServicesMove, KeepsEscalation, SuspendedIsOver,
                    Suspended
<1>10. QED
  BY <1>1, <1>5, <1>6, <1>7, <1>8, <1>9

(* A handler begins for a task: for a run that nobody else knows of, or    *)
(* for the answer to a run that waits for one. *)
LEMMA TaskBegins ==
    ASSUME RunsInv, NEW c \in Clients, NEW b \in Body,
           NEW stage \in {"getIntent", "getEscalation"}, Begin(c, b, stage),
           Ready(stage, b, got[c]),
           NEW t \in Task, task' = [task EXCEPT ![c] = t],
           t.stage = "awaitPolicy", t.request = b.request,
           t.does = "run" <=> b.kind = "payment",
           IF b.kind = "payment"
           THEN /\ task[c] # None /\ task[c].stage = "requestPayment"
                /\ RunOf(c) = b.request
           ELSE /\ task[c] = None /\ b.verdict # None
                /\ runs[b.request] # None /\ runs[b.request].state = "ESCALATED",
           TaskReady(t, runs[b.request]),
           UNCHANGED <<runs, pending, presented>>, timers' \in [Requests -> Or(Int)]
    PROVE  RunsInv'
<1> USE DEF RunsInv
<1> DEFINE r == b.request
<1>1. r \in Requests /\ b # None /\ t # None /\ stage \in Stages
  BY PaymentsAssumption, RunsAssumption DEF Body, Stages
<1>2. Inv'
  BY <1>1, BeginType, BeginSigning DEF Inv
<1>3. /\ b.kind = "payment" =>
             /\ task[c].does = "run" /\ \A d \in Clients : ~IsFor(d, r)
             /\ runs[r].state = "RUNNING" /\ runs[r].outcome = None
      /\ b.kind # "payment" => \A d \in Clients : PaysFor(d, r) => pc[d] \in Final
  BY <1>1 DEF RunInv, EarlyIsAlone, Early, SuspendedIsOver, Suspended
<1>4. ServedInv'
  BY <1>3, BeginServed
<1>5. /\ pc[c] = "idle" /\ pc'[c] = stage /\ body'[c] = b
      /\ \A d \in Clients : d # c => pc'[d] = pc[d] /\ body'[d] = body[d]
      /\ used' = used \cup {r} /\ UNCHANGED escalations
  BY <1>2 DEF Begin, Goto, ledgerVars, Inv, Base, ServiceTypeOK
<1>6. task'[c] = t /\ \A d \in Clients : d # c => task'[d] = task[d]
  BY DEF RunInv, MemoryTypeOK
<1>7. /\ \A d \in Clients : d # c =>
             /\ RunOf(d)' = RunOf(d) /\ (IsPayment(d)' <=> IsPayment(d)) /\ Req(d)' = Req(d)
             /\ \A q \in Requests : (IsFor(d, q)' <=> IsFor(d, q)) /\ (PaysFor(d, q)' <=> PaysFor(d, q))
      /\ RunOf(c)' = r /\ (IsPayment(c)' <=> b.kind = "payment") /\ Req(c)' = r
      /\ \A q \in Requests : /\ IsFor(c, q)' <=> q = r
                             /\ PaysFor(c, q)' <=> q = r /\ b.kind = "payment"
  BY <1>1, <1>5, <1>6 DEF RunOf, IsPayment, IsFor, PaysFor, Req
<1> USE DEF RunInv
<1>8. \A d \in Clients : task[d] # None => RunOf(d) \in Requests
  BY DEF MemoryTypeOK, Or, Task, RunOf
<1>9. MemoryTypeOK'
  BY DEF MemoryTypeOK, Or
<1>10. TasksReady'
  BY <1>6, <1>7 DEF TasksReady
<1>11. OneRun'
  BY <1>3, <1>6, <1>7 DEF OneRun
<1>12. TasksAreUsed'
  BY <1>5, <1>6, <1>7 DEF TasksAreUsed
<1>13. PaymentIsRun'
  BY <1>1, <1>5, <1>6, <1>7 DEF PaymentIsRun
<1>14. EarlyIsAlone'
  <2> SUFFICES ASSUME NEW d \in Clients, task'[d] # None, task'[d].stage \in Early
               PROVE  /\ task'[d].does = "run"
                      /\ runs[RunOf(d)'].state = "RUNNING" /\ runs[RunOf(d)'].outcome = None
                      /\ \A e \in Clients : ~IsFor(e, RunOf(d))'
    BY DEF EarlyIsAlone
  <2>1. d # c
    BY <1>6 DEF Early
  <2>2. /\ task[d] # None /\ task[d].stage \in Early /\ task[d].does = "run"
        /\ RunOf(d) \in Requests /\ RunOf(d)' = RunOf(d)
        /\ runs[RunOf(d)].state = "RUNNING" /\ runs[RunOf(d)].outcome = None
        /\ \A e \in Clients : ~IsFor(e, RunOf(d))
    BY <1>6, <1>7, <1>8, <2>1 DEF EarlyIsAlone
  <2>3. RunOf(d) # r
    BY <1>3, <2>1, <2>2 DEF OneRun
  <2>4. \A e \in Clients : ~IsFor(e, RunOf(d))'
    BY <1>5, <1>7, <2>2, <2>3 DEF IsFor, Req
  <2>5. QED
    BY <1>6, <2>1, <2>2, <2>4
<1>15. CallerIsServed'
  BY <1>1, <1>5, <1>6, <1>7, <1>8 DEF CallerIsServed
<1>16. PresentedIsSigned'
  BY <1>5, <1>7 DEF PresentedIsSigned, MemoryTypeOK
<1>17. SuspendedIsOver'
  <2> SUFFICES ASSUME NEW q \in Requests, NEW d \in Clients, Suspended(q)', PaysFor(d, q)'
               PROVE  pc'[d] \in Final
    BY DEF SuspendedIsOver
  <2>1. Suspended(q)
    BY DEF Suspended
  <2>2. CASE d = c
    <3>1. None # "expired"
      BY RunsAssumption DEF Outcomes
    <3>2. QED
      BY <1>3, <1>7, <2>1, <2>2, <3>1 DEF Suspended
  <2>3. CASE d # c
    BY <1>5, <1>7, <2>1, <2>3 DEF SuspendedIsOver
  <2>4. QED
    BY <2>2, <2>3
<1>18. ExpiryClaimIsRecorded'
  BY <1>5 DEF ExpiryClaimIsRecorded
<1>19. QED
  BY <1>2, <1>4, <1>9, <1>10, <1>11, <1>12, <1>13, <1>14, <1>15, <1>16, <1>17, <1>18

LEMMA RequestPaymentStep ==
    ASSUME RunsInv, NEW c \in Clients, CallRequestPayment(c)
    PROVE  RunsInv'
<1> DEFINE run == runs[RunOf(c)]
<1>1. task[c] # None /\ task[c].stage = "requestPayment"
  BY DEF CallRequestPayment, Calling
<1>2. /\ task[c] \in Task /\ RunOf(c) \in Requests /\ run \in RunRecord
      /\ TaskReady(task[c], run) /\ RunInv
  BY <1>1, TaskFacts DEF RunsInv
<1>3. run.challenge \in Challenges /\ run.challenge \in Challenge /\ run.mandate \in Mandates
  BY <1>1, <1>2, ContractsAssumption DEF TaskReady, RunRecord, Or
<1>4. PICK dom \in SentDomains, matches \in BOOLEAN, ch \in Poisoned(run.challenge),
           a \in {run.challenge.amount} \cup AmountOverrides :
          Begin(c, PaymentBody(RunOf(c), run.mandate, ch, a, dom, matches), "getIntent")
  BY DEF CallRequestPayment
<1>5. ch \in Challenge /\ a \in Amounts
  BY <1>3, PaymentsAssumption DEF Poisoned, Challenge
<1> DEFINE b == PaymentBody(RunOf(c), run.mandate, ch, a, dom, matches)
<1>6. registry[run.mandate].revoked \in BOOLEAN
  BY <1>3 DEF RunsInv, Inv, Base, RegistryOK, RegistryEntry
<1>7. b \in Body
  BY <1>2, <1>3, <1>5, <1>6, PaymentsAssumption DEF Body, Or, PaymentBody
<1>8. b.kind = "payment" /\ b.request = RunOf(c)
  BY DEF PaymentBody
<1>9. Ready("getIntent", b, got[c])
  BY <1>3, <1>5, <1>7, ContractsAssumption, PaymentsAssumption
     DEF Ready, CheckStages, TailStages, PaymentBody
<1>10. PICK t \in Task :
          /\ task' = [task EXCEPT ![c] = t]
          /\ t.does = task[c].does /\ t.request = task[c].request
          /\ t.stage = "awaitPolicy"
  BY <1>1, <1>2, Becomes DEF CallRequestPayment, TaskStages
<1>11. t.does = "run" /\ t.request = b.request
  BY <1>1, <1>8, <1>10 DEF RunsInv, RunInv, EarlyIsAlone, Early, RunOf
<1>12. TaskReady(t, run)
  BY <1>1, <1>2, <1>10 DEF TaskReady, AfterSignature
<1>13. UNCHANGED <<runs, pending, presented>> /\ timers' \in [Requests -> Or(Int)]
  BY DEF CallRequestPayment, RunsInv, RunInv, MemoryTypeOK
<1> HIDE DEF b
<1>14. QED
  BY <1>1, <1>4, <1>7, <1>8, <1>9, <1>10, <1>11, <1>12, <1>13, TaskBegins DEF b

(* An answer to a run that waits for one, from a human or from the timer. *)
LEMMA AnswerBegins ==
    ASSUME RunsInv, NEW c \in Clients, task[c] = None, NEW r \in Requests,
           NEW verdict \in {"approve", "deny"}, NEW byOwner \in BOOLEAN,
           NEW standing \in BOOLEAN, NEW does \in {"resolve", "expire"},
           Begin(c, ResolveBody(r, verdict, byOwner, standing), "getEscalation"),
           task' = [task EXCEPT ![c] = NewTask(does, r, "awaitPolicy")],
           runs[r] # None, runs[r].state = "ESCALATED",
           UNCHANGED <<runs, pending, presented>>, timers' \in [Requests -> Or(Int)]
    PROVE  RunsInv'
<1> DEFINE b == ResolveBody(r, verdict, byOwner, standing)
           t == NewTask(does, r, "awaitPolicy")
<1>1. b \in Body
  BY DEF Body, Or, ResolveBody
<1>2. b.kind = "resolve" /\ b.request = r /\ b.verdict = verdict
  BY DEF ResolveBody
<1>3. verdict # None
  BY LedgerAssumption
<1>4. Ready("getEscalation", b, got[c])
  BY <1>1, PaymentsAssumption DEF Ready, CheckStages, TailStages, ResolveBody
<1>5. /\ t \in Task /\ t.does = does /\ t.request = r /\ t.stage = "awaitPolicy"
  BY DEF NewTask, Task, TaskStages, Or
<1>6. TaskReady(t, runs[r])
  BY <1>5 DEF TaskReady, AfterSignature
<1> HIDE DEF b, t
<1>7. QED
  BY <1>1, <1>2, <1>3, <1>4, <1>5, <1>6, TaskBegins DEF b, t

LEMMA AnswerEscalationStep ==
    ASSUME RunsInv, NEW c \in Clients, AnswerEscalation(c)
    PROVE  RunsInv'
<1>1. PICK r \in Requests, verdict \in {"approve", "deny"}, byOwner \in BOOLEAN,
           standing \in BOOLEAN :
          /\ Awaiting(r)
          /\ Begin(c, ResolveBody(r, verdict, byOwner, standing), "getEscalation")
          /\ task' = [task EXCEPT ![c] = NewTask("resolve", r, "awaitPolicy")]
  BY DEF AnswerEscalation
<1>2. /\ task[c] = None /\ UNCHANGED <<runs, pending, presented>>
      /\ timers' \in [Requests -> Or(Int)]
  BY DEF AnswerEscalation, RunsInv, RunInv, MemoryTypeOK
<1>3. runs[r] # None /\ runs[r].state = "ESCALATED"
  BY <1>1 DEF Awaiting
<1>4. QED
  BY <1>1, <1>2, <1>3, AnswerBegins

LEMMA TimerStep ==
    ASSUME RunsInv, NEW r \in Requests, TimerFires(r)
    PROVE  RunsInv'
<1>1. timers' \in [Requests -> Or(Int)] /\ UNCHANGED <<runs, pending, presented>>
  BY DEF TimerFires, RunsInv, RunInv, MemoryTypeOK, Or
<1>2. CASE runs[r] # None /\ runs[r].state = "ESCALATED"
  <2>1. PICK c \in Clients :
            /\ task[c] = None
            /\ Begin(c, ResolveBody(r, "deny", FALSE, FALSE), "getEscalation")
            /\ task' = [task EXCEPT ![c] = NewTask("expire", r, "awaitPolicy")]
    BY <1>2 DEF TimerFires
  <2>2. QED
    BY <1>1, <1>2, <2>1, AnswerBegins
<1>3. CASE ~(runs[r] # None /\ runs[r].state = "ESCALATED")
  <2> USE DEF RunsInv
  <2>1. UNCHANGED <<vars, task>>
    BY <1>3 DEF TimerFires
  <2>2. Inv' /\ ServedInv' /\ UNCHANGED <<used, body, pc, escalations>>
    BY <2>1, Untouched
  <2>3. RunInv'
    BY <1>1, <2>1, <2>2
       DEF RunInv, MemoryTypeOK, TasksReady, OneRun, TasksAreUsed, PaymentIsRun, EarlyIsAlone,
           CallerIsServed, PresentedIsSigned, SuspendedIsOver, Suspended,
           ExpiryClaimIsRecorded, RunOf, Req, IsPayment, IsFor, PaysFor
  <2>4. QED
    BY <2>2, <2>3
<1>4. QED
  BY <1>2, <1>3

LEMMA StartRunStep ==
    ASSUME RunsInv, NEW c \in Clients, StartRun(c)
    PROVE  RunsInv'
<1> USE DEF RunsInv
<1>1. PICK r \in Requests \ used, m \in Mandates, i \in Instructions :
          /\ used' = used \cup {r}
          /\ runs' = [runs EXCEPT ![r] =
                 [mandate |-> m, instruction |-> i, challenge |-> None,
                  state |-> "RUNNING", outcome |-> None]]
          /\ task' = [task EXCEPT ![c] = NewTask("run", r, "createIntent")]
  BY DEF StartRun
<1> DEFINE run == [mandate |-> m, instruction |-> i, challenge |-> None,
                   state |-> "RUNNING", outcome |-> None]
           t == NewTask("run", r, "createIntent")
<1>2. /\ run \in RunRecord /\ run # None /\ run.state = "RUNNING" /\ run.outcome = None
      /\ t \in Task /\ t # None /\ t.does = "run" /\ t.request = r /\ t.stage = "createIntent"
  BY RunsAssumption DEF RunRecord, RunStates, Or, NewTask, Task, TaskStages
<1>3. /\ task[c] = None /\ pc[c] = "idle"
      /\ UNCHANGED <<registry, ledgerVars, signerVars, body, got, pc, pending, timers, presented>>
  BY DEF StartRun
<1>4. /\ \A d \in Clients : ~IsFor(d, r)
      /\ \A d \in Clients : task[d] # None => RunOf(d) # r /\ RunOf(d) \in Requests
  BY DEF IsFor, Inv, SigningInv, NothingUnused, RunInv, TasksAreUsed, MemoryTypeOK, Or,
         Task, RunOf
<1>5. UNCHANGED <<intents, escalations, signing, signatures, body, pc>>
  BY <1>3 DEF ledgerVars, signerVars
<1>6. SigningInv'
  <2>1. KeepsNonces /\ used \subseteq used'
    BY <1>1, <1>5, SameIntents
  <2>2. UNCHANGED <<signing, signatures, body>> /\ \A d \in Clients : NoNewHolder(d)
    BY <1>3, <1>5 DEF NoNewHolder
  <2>3. QED
    BY <2>1, <2>2, QuietStep DEF Inv
<1>7. Base'
  <2>1. RegistryOK' /\ LedgerTypeOK' /\ SignerTypeOK'
    BY <1>3, ReadsOnlyTypes DEF ReadsOnly, Inv, Base
  <2>2. ServiceTypeOK' /\ HandlerInv'
    BY <1>1, <1>3 DEF Inv, Base, ServiceTypeOK, HandlerInv, Ready
  <2>3. QED
    BY <2>1, <2>2 DEF Base
<1>8. Inv' /\ ServedInv'
  BY <1>5, <1>6, <1>7, SameLedgerRecords, QuietServed DEF Inv
<1> HIDE DEF run, t
<1>9. /\ task'[c] = t /\ \A d \in Clients : d # c => task'[d] = task[d]
      /\ runs'[r] = run /\ \A q \in Requests : q # r => runs'[q] = runs[q]
      /\ RunOf(c)' = r /\ \A d \in Clients : d # c => RunOf(d)' = RunOf(d)
  BY <1>1, <1>2 DEF RunInv, MemoryTypeOK, RunOf, run, t
<1>10. /\ \A d \in Clients : (IsPayment(d)' <=> IsPayment(d)) /\ Req(d)' = Req(d)
       /\ \A d, q : (IsFor(d, q)' <=> IsFor(d, q)) /\ (PaysFor(d, q)' <=> PaysFor(d, q))
  BY <1>5 DEF Req, IsPayment, IsFor, PaysFor
<1> USE DEF RunInv
<1>11. MemoryTypeOK'
  <2>1. runs' = [runs EXCEPT ![r] = run] /\ task' = [task EXCEPT ![c] = t]
    BY <1>1 DEF run, t
  <2>2. QED
    BY <1>2, <1>3, <2>1 DEF MemoryTypeOK, Or
<1>12. TasksReady'
  BY <1>2, <1>4, <1>9 DEF TasksReady, TaskReady, AfterSignature
<1>13. OneRun' /\ TasksAreUsed'
  BY <1>1, <1>2, <1>4, <1>9 DEF OneRun, TasksAreUsed
<1>14. PaymentIsRun'
  BY <1>3, <1>5, <1>9, <1>10 DEF PaymentIsRun
<1>15. EarlyIsAlone'
  BY <1>2, <1>4, <1>9, <1>10 DEF EarlyIsAlone
<1>16. CallerIsServed'
  BY <1>2, <1>5, <1>9, <1>10 DEF CallerIsServed, Early
<1>17. PresentedIsSigned'
  BY <1>3, <1>5, <1>10 DEF PresentedIsSigned
<1>18. SuspendedIsOver'
  BY <1>2, <1>4, <1>5, <1>9, <1>10 DEF SuspendedIsOver, Suspended, PaysFor
<1>19. ExpiryClaimIsRecorded'
  BY <1>2, <1>5, <1>9, RunsAssumption DEF ExpiryClaimIsRecorded, Outcomes
<1>20. QED
  BY <1>8, <1>11, <1>12, <1>13, <1>14, <1>15, <1>16, <1>17, <1>18, <1>19

(* After a restart no task goes on, and no run is known. *)
LEMMA RestartStep ==
    ASSUME RunsInv, OrchestratorRestart
    PROVE  RunsInv'
<1> USE DEF RunsInv
<1>1. /\ runs' = Empty(Requests) /\ pending' = {} /\ timers' = Empty(Requests)
      /\ task' = [c \in Clients |->
                     IF task[c] = None THEN None ELSE [task[c] EXCEPT !.stage = "ended"]]
      /\ UNCHANGED vars /\ presented' = presented
  BY DEF OrchestratorRestart
<1>2. Inv' /\ ServedInv' /\ UNCHANGED <<used, body, pc, escalations>>
  BY <1>1, Untouched
<1> USE DEF RunInv
<1>3. /\ \A d \in Clients : task[d] = None => task'[d] = None
      /\ \A d \in Clients : task[d] # None =>
             /\ task'[d] \in Task /\ task'[d] # None /\ task'[d].stage = "ended"
             /\ task'[d].does = task[d].does /\ task'[d].request = task[d].request
  BY <1>1, RunsAssumption DEF MemoryTypeOK, Or, Task, TaskStages
<1>4. /\ \A d \in Clients : (IsPayment(d)' <=> IsPayment(d)) /\ Req(d)' = Req(d)
      /\ \A d \in Clients : task[d] # None => RunOf(d)' = RunOf(d)
      /\ \A d, q : (IsFor(d, q)' <=> IsFor(d, q)) /\ (PaysFor(d, q)' <=> PaysFor(d, q))
  BY <1>2, <1>3 DEF Req, IsPayment, IsFor, PaysFor, RunOf
<1>5. \A q \in Requests : runs'[q] = None
  BY <1>1 DEF Empty
<1>6. MemoryTypeOK'
  <2>1. task' \in [Clients -> Or(Task)]
    BY <1>1, <1>3 DEF Or
  <2>2. QED
    BY <1>1, <2>1 DEF MemoryTypeOK, Empty, Or
<1>7. TasksReady' /\ OneRun' /\ TasksAreUsed'
  BY <1>2, <1>3, <1>4 DEF TasksReady, TaskReady, OneRun, TasksAreUsed
<1>8. PaymentIsRun' /\ EarlyIsAlone' /\ CallerIsServed'
  BY <1>2, <1>3, <1>4 DEF PaymentIsRun, EarlyIsAlone, CallerIsServed, Early
<1>9. PresentedIsSigned' /\ SuspendedIsOver' /\ ExpiryClaimIsRecorded'
  BY <1>1, <1>2, <1>4, <1>5
     DEF PresentedIsSigned, SuspendedIsOver, Suspended, ExpiryClaimIsRecorded
<1>10. QED
  BY <1>2, <1>6, <1>7, <1>8, <1>9

LEMMA TaskStepInv ==
    ASSUME RunsInv, NEW c \in Clients, TaskStep(c)
    PROVE  RunsInv'
BY CreateIntentStep, GetCardStep, RunEvidenceStep, RequestPaymentStep, PaymentAnsweredStep,
   EscalationAnsweredStep, ExpiryAnsweredStep, SettledStep, CaptureStep
   DEF TaskStep

LEMMA RunsStep ==
    ASSUME RunsInv, [RunsNext]_allVars
    PROVE  RunsInv'
<1>1. CASE UNCHANGED allVars
  <2> USE DEF RunsInv
  <2>1. UNCHANGED <<vars, runs, pending, timers, task, presented>>
    BY <1>1 DEF allVars, runVars
  <2>2. Inv' /\ ServedInv' /\ UNCHANGED <<used, body, pc, escalations>>
    BY <2>1, Untouched
  <2>3. RunInv'
    BY <2>1, <2>2
       DEF RunInv, MemoryTypeOK, TasksReady, OneRun, TasksAreUsed, PaymentIsRun, EarlyIsAlone,
           CallerIsServed, PresentedIsSigned, SuspendedIsOver, Suspended,
           ExpiryClaimIsRecorded, RunOf, Req, IsPayment, IsFor, PaysFor
  <2>4. QED
    BY <2>2, <2>3
<1>2. CASE RunsNext
  <2>1. ASSUME NEW c \in Clients, ServiceStep(c)
        PROVE  RunsInv'
    BY <2>1, ServicesStep DEF ServiceStep
  <2>2. ASSUME ((OwnerRevokes \/ PutPolicy \/ FaultStep) /\ UNCHANGED runVars) \/ ClockStep
        PROVE  RunsInv'
    BY <2>2, ServicesStep DEF ClockStep
  <2>3. QED
    BY <1>2, <2>1, <2>2, StartRunStep, AnswerEscalationStep, TaskStepInv, TimerStep,
       PolicyUnheardStep, RestartStep DEF RunsNext
<1>3. QED
  BY <1>1, <1>2

LEMMA RunsInitInv == RunsInit => RunsInv
<1> SUFFICES ASSUME RunsInit PROVE RunsInv
  OBVIOUS
<1>1. Inv
  BY InitInv DEF RunsInit
<1>2. /\ \A c \in Clients : body[c] = None /\ pc[c] = "idle" /\ signing[c] = None
      /\ signatures = {} /\ \A r \in Requests : escalations[r] = None
  BY DEF RunsInit, PaymentsInit, SignerInit, LedgerInit, Empty
<1>3. ServedInv
  BY <1>2 DEF ServedInv, OnePayment, PaymentFirst, AskedByPayment, VerdictIsGiven,
              SignerIsTold, ToldIsSigner, ApprovedByOwner, EscalatedOnly, SignedIsRecorded,
              DenialIsRecorded, PaysFor, IsFor, Resolves, Told
<1>4. /\ runs = Empty(Requests) /\ pending = {} /\ timers = Empty(Requests)
      /\ task = Empty(Clients) /\ presented = {}
  BY DEF RunsInit
<1>5. RunInv
  BY <1>2, <1>4
     DEF RunInv, MemoryTypeOK, TasksReady, OneRun, TasksAreUsed, PaymentIsRun, EarlyIsAlone,
         CallerIsServed, PresentedIsSigned, SuspendedIsOver, Suspended,
         ExpiryClaimIsRecorded, Empty, Or
<1>6. QED
  BY <1>1, <1>3, <1>5 DEF RunsInv

LEMMA RunsInvHolds == RunsSpec => []RunsInv
BY RunsInitInv, RunsStep, PTL DEF RunsSpec

-----------------------------------------------------------------------------
(* Whatever the runs, answers, timers, restarts and faults, the            *)
(* orchestrator's memory and the services' stay well-typed: a task never   *)
(* reads a run, a challenge or a transaction that is not there. *)
THEOREM RunsTypeCorrect == RunsSpec => []RunsTypeOK
<1>1. RunsInv => RunsTypeOK
  BY TypeParts DEF RunsInv, Inv, Base, RunInv, MemoryTypeOK, RunsTypeOK
<1>2. QED
  BY <1>1, RunsInvHolds, PTL

(* An orchestrator that restarts, answers twice or races its own timer      *)
(* does not loosen what the services promise: a requestId is signed once. *)
THEOREM RunsSignAtMostOnce == RunsSpec => []AtMostOneSignature
<1>1. RunsInv => AtMostOneSignature
  BY DEF RunsInv, Inv, SigningInv
<1>2. QED
  BY <1>1, RunsInvHolds, PTL

(* Who presents a header is the handler's caller, and who signed it that   *)
(* handler; one signature per request makes it one presentation. *)
THEOREM HeaderAlwaysPresentedOnce == RunsSpec => []HeaderPresentedOnce
<1>1. ASSUME RunsInv
      PROVE  HeaderPresentedOnce
  <2> SUFFICES ASSUME NEW p \in presented, NEW q \in presented, p.request = q.request
               PROVE  p = q
    BY DEF HeaderPresentedOnce
  <2>1. /\ p \in [client : Clients, request : Requests]
        /\ q \in [client : Clients, request : Requests]
    BY <1>1 DEF RunsInv, RunInv, MemoryTypeOK
  <2>2. /\ IsFor(p.client, p.request) /\ pc[p.client] = "signed"
        /\ IsFor(q.client, q.request) /\ pc[q.client] = "signed"
    BY <1>1 DEF RunsInv, RunInv, PresentedIsSigned
  <2>3. PICK s \in signatures : s.client = p.client /\ s.request.requestId = p.request
    BY <1>1, <2>1, <2>2 DEF RunsInv, ServedInv, ToldIsSigner, IsFor
  <2>4. PICK u \in signatures : u.client = q.client /\ u.request.requestId = q.request
    BY <1>1, <2>1, <2>2 DEF RunsInv, ServedInv, ToldIsSigner, IsFor
  <2>5. s = u
    BY <1>1, <2>3, <2>4 DEF RunsInv, Inv, SigningInv, AtMostOneSignature
  <2>6. QED
    BY <2>1, <2>3, <2>4, <2>5
<1>2. QED
  BY <1>1, RunsInvHolds, PTL

(* A header is presented only after the ledger recorded it, so the window  *)
(* budget and the receipt know of every payment that can still happen. *)
THEOREM HeaderStaysOnRecord == RunsSpec => []HeaderIsOnRecord
<1>1. ASSUME RunsInv
      PROVE  HeaderIsOnRecord
  <2> SUFFICES ASSUME NEW p \in presented
               PROVE  /\ SignedFor(p.request) # {}
                      /\ Exists(p.request) => intents[p.request].terms # None
    BY DEF HeaderIsOnRecord
  <2>1. p.client \in Clients /\ p.request \in Requests
    BY <1>1 DEF RunsInv, RunInv, MemoryTypeOK
  <2>2. IsFor(p.client, p.request) /\ pc[p.client] = "signed"
    BY <1>1 DEF RunsInv, RunInv, PresentedIsSigned
  <2>3. \E s \in signatures : s.client = p.client /\ s.request.requestId = p.request
    BY <1>1, <2>1, <2>2 DEF RunsInv, ServedInv, ToldIsSigner, IsFor
  <2>4. Exists(p.request) => intents[p.request].terms # None
    BY <1>1, <2>1, <2>2 DEF RunsInv, ServedInv, SignedIsRecorded
  <2>5. QED
    BY <2>3, <2>4 DEF SignedFor
<1>2. QED
  BY <1>1, RunsInvHolds, PTL

(* An unanswered escalation never becomes a signature: the one payment of  *)
(* an escalated request signs nothing, and whoever else signs for it has   *)
(* an approval the owner signed. *)
THEOREM SilenceNeverSigns == RunsSpec => []UnansweredIsNeverSigned
<1>1. ASSUME RunsInv
      PROVE  UnansweredIsNeverSigned
  <2> SUFFICES ASSUME NEW s \in signatures, escalations[s.request.requestId] # None
               PROVE  \E c \in Clients :
                          /\ body[c] # None /\ Req(c) = s.request.requestId
                          /\ body[c].verdict = "approve" /\ body[c].byOwner
    BY DEF UnansweredIsNeverSigned
  <2>1. s.client \in Clients /\ s.request.requestId \in Requests
    BY <1>1 DEF RunsInv, Inv, Base, SignerTypeOK, SignRequest
  <2>2. IsFor(s.client, s.request.requestId) /\ Asking(s.client)
    BY <1>1 DEF RunsInv, ServedInv, SignerIsTold, Asking
  <2>3. ~PaysFor(s.client, s.request.requestId)
    BY <1>1, <2>1, <2>2 DEF RunsInv, ServedInv, EscalatedOnly
  <2>4. Resolves(s.client)
    BY <2>2, <2>3 DEF Resolves, PaysFor, IsFor
  <2>5. body[s.client].verdict = "approve" /\ body[s.client].byOwner
    BY <1>1, <2>1, <2>2, <2>4 DEF RunsInv, ServedInv, ApprovedByOwner
  <2>6. QED
    BY <2>1, <2>2, <2>5 DEF IsFor
<1>2. QED
  BY <1>1, RunsInvHolds, PTL

(* Whatever the timer races with, a run says that its escalation expired   *)
(* only when the resolution is on record. *)
THEOREM ExpiryClaimStaysRecorded == RunsSpec => []ExpiryClaimIsRecorded
<1>1. RunsInv => ExpiryClaimIsRecorded
  BY DEF RunsInv, RunInv
<1>2. QED
  BY <1>1, RunsInvHolds, PTL
-----------------------------------------------------------------------------
(* What the orchestrator asks for is what is on record                    *)

(* Why the orchestrator is a caller the services were proved about: its    *)
(* run and the intent on record agree, on the mandate from the start and   *)
(* on the quote from the moment it is attached, before any payment is      *)
(* requested. *)
RunsAreUsed == \A r \in Requests : runs[r] # None => r \in used

RunAgrees ==
    \A r \in Requests : (runs[r] # None /\ Exists(r)) =>
        /\ intents[r].mandateId = runs[r].mandate
        /\ intents[r].challenge \in {None, runs[r].challenge}

CardFirst ==
    \A c \in Clients :
        (task[c] # None /\ task[c].stage \in {"createIntent", "getCard"} /\ Exists(RunOf(c)))
            => intents[RunOf(c)].challenge = None

QuotedBeforeAsked ==
    \A c \in Clients :
        (task[c] # None /\ task[c].stage = "requestPayment" /\ Exists(RunOf(c)))
            => intents[RunOf(c)].challenge # None

RunQuoteInv == RunsAreUsed /\ RunAgrees /\ CardFirst /\ QuotedBeforeAsked

(* What the steps of the services do to the evidence in an intent: none    *)
(* but a handler that signs, releases or reserves touches its state. *)
Written(r) ==
    intents'[r] # None =>
        /\ intents[r] # None
        /\ intents'[r].mandateId = intents[r].mandateId
        /\ intents'[r].challenge = intents[r].challenge
        /\ intents'[r].spend = intents[r].spend
        /\ intents'[r].settlement = intents[r].settlement
        /\ intents'[r].capture = intents[r].capture
        /\ \/ intents'[r].state = intents[r].state
           \/ ~LiveNonce(r)
           \/ \E c \in Clients : IsFor(c, r) /\ pc[c] \in {"release", "recordSigned"}

LEMMA SameWritten ==
    ASSUME UNCHANGED intents
    PROVE  \A r \in Requests : Written(r)
BY DEF Written

LEMMA RecordWritten ==
    ASSUME LedgerTypeOK, NEW q \in Requests, NEW record, Exists(q),
           intents' = [intents EXCEPT ![q] = record],
           record.mandateId = intents[q].mandateId,
           record.challenge = intents[q].challenge, record.spend = intents[q].spend,
           record.settlement = intents[q].settlement, record.capture = intents[q].capture,
           \/ record.state = intents[q].state
           \/ ~LiveNonce(q)
           \/ \E c \in Clients : IsFor(c, q) /\ pc[c] \in {"release", "recordSigned"}
    PROVE  \A r \in Requests : Written(r)
BY DEF LedgerTypeOK, Exists, Written

LEMMA DecisionWritten ==
    ASSUME LedgerTypeOK, NEW q \in Requests, NEW d, NEW terms, RecordDecision(q, d, terms),
           d = "signed" => \E c \in Clients : IsFor(c, q) /\ pc[c] = "recordSigned"
    PROVE  \A r \in Requests : Written(r)
<1>1. intents[q] \in IntentRecord /\ Exists(q)
  BY IntentIsRecord DEF RecordDecision
<1> DEFINE record ==
      IF d = "signed"
      THEN [intents[q] EXCEPT !.decision = d, !.decidedAt = now,
                              !.terms = terms, !.state = "SIGNED"]
      ELSE [intents[q] EXCEPT !.decision = d, !.decidedAt = now]
<1>2. /\ record.mandateId = intents[q].mandateId /\ record.challenge = intents[q].challenge
      /\ record.spend = intents[q].spend /\ record.settlement = intents[q].settlement
      /\ record.capture = intents[q].capture
      /\ d # "signed" => record.state = intents[q].state
  BY <1>1 DEF IntentRecord
<1>3. intents' = [intents EXCEPT ![q] = record]
  BY DEF RecordDecision
<1> HIDE DEF record
<1>4. QED
  BY <1>1, <1>2, <1>3, RecordWritten

LEMMA NonceWritten ==
    ASSUME LedgerTypeOK, NEW q \in Requests,
           \/ \E n : ReserveNonce(q, n)
           \/ /\ ReleaseNonce(q)
              /\ \E c \in Clients : IsFor(c, q) /\ pc[c] = "release"
    PROVE  \A r \in Requests : Written(r)
<1>1. intents[q] \in IntentRecord /\ Exists(q)
  BY IntentIsRecord DEF ReserveNonce, ReleaseNonce, CanReserve, CanRelease
<1>2. ASSUME NEW n, ReserveNonce(q, n)
      PROVE  \A r \in Requests : Written(r)
  <2> DEFINE record == [intents[q] EXCEPT !.nonce = n, !.nonceReleased = FALSE,
                                          !.state = "NONCE_RESERVED"]
  <2>1. /\ record.mandateId = intents[q].mandateId /\ record.challenge = intents[q].challenge
        /\ record.spend = intents[q].spend /\ record.settlement = intents[q].settlement
        /\ record.capture = intents[q].capture
    BY <1>1 DEF IntentRecord
  <2>2. intents' = [intents EXCEPT ![q] = record] /\ ~LiveNonce(q)
    BY <1>2 DEF ReserveNonce, UpdateIntent, CanReserve
  <2> HIDE DEF record
  <2>3. QED
    BY <1>1, <2>1, <2>2, RecordWritten
<1>3. CASE ReleaseNonce(q) /\ \E c \in Clients : IsFor(c, q) /\ pc[c] = "release"
  <2> DEFINE record == [intents[q] EXCEPT !.nonce = None, !.nonceReleased = TRUE,
                                          !.state = "CHALLENGE_ATTACHED"]
  <2>1. /\ record.mandateId = intents[q].mandateId /\ record.challenge = intents[q].challenge
        /\ record.spend = intents[q].spend /\ record.settlement = intents[q].settlement
        /\ record.capture = intents[q].capture
    BY <1>1 DEF IntentRecord
  <2>2. intents' = [intents EXCEPT ![q] = record]
    BY <1>3 DEF ReleaseNonce, UpdateIntent
  <2> HIDE DEF record
  <2>3. QED
    BY <1>1, <1>3, <2>1, <2>2, RecordWritten
<1>4. QED
  BY <1>2, <1>3

LEMMA HandlerWrites ==
    ASSUME Inv, NEW c \in Clients, HandlerStep(c)
    PROVE  \A r \in Requests : Written(r)
<1>1. CASE \/ GetIntent(c) \/ GetPolicy(c) \/ GetWindowUsage(c) \/ RunChecks(c)
           \/ MatchIntent(c) \/ GetEscalation(c) \/ ResolvePolicy(c) \/ ResolveIntent(c)
           \/ CallSigner(c) \/ Escalate(c) \/ DenyStorage(c) \/ ApproveStorage(c)
           \/ SetStanding(c)
  <2>1. UNCHANGED intents
    BY <1>1 DEF GetIntent, GetPolicy, GetWindowUsage, RunChecks, MatchIntent,
                GetEscalation, ResolvePolicy, ResolveIntent, CallSigner, ReadsOnly, ledgerVars,
                Escalate, CreateEscalation, DenyStorage, ApproveStorage, StoreVerdict,
                ResolveEscalation, SetStanding, SetStandingApproval
  <2>2. QED
    BY <2>1, SameWritten
<1>2. CASE RecordEscalated(c) \/ RecordRefused(c) \/ RecordSigned(c)
  <2>1. pc[c] \in {"recordEscalated", "recordRefused", "recordSigned"}
    BY <1>2 DEF RecordEscalated, RecordRefused, RecordSigned, At
  <2>2. IsFor(c, Req(c)) /\ Req(c) \in Requests
    BY <2>1, WhoIsAt DEF IsFor
  <2>3. \/ UNCHANGED intents
        \/ \E d, terms : /\ RecordDecision(Req(c), d, terms)
                         /\ d = "signed" => pc[c] = "recordSigned"
    BY <1>2 DEF RecordEscalated, RecordRefused, RecordSigned, RecordOrFail, ledgerVars, At
  <2>4. QED
    BY <2>2, <2>3, SameWritten, DecisionWritten DEF Inv, Base
<1>3. CASE Reserve(c) \/ Release(c)
  <2>1. pc[c] \in {"reserve", "release"}
    BY <1>3 DEF Reserve, Release, At
  <2>2. IsFor(c, Req(c)) /\ Req(c) \in Requests
    BY <2>1, WhoIsAt DEF IsFor
  <2>3. \/ UNCHANGED intents \/ \E n : ReserveNonce(Req(c), n)
        \/ ReleaseNonce(Req(c)) /\ pc[c] = "release"
    BY <1>3 DEF Reserve, Release, ledgerVars, At
  <2>4. QED
    BY <2>2, <2>3, SameWritten, NonceWritten DEF Inv, Base
<1>4. QED
  BY <1>1, <1>2, <1>3 DEF HandlerStep

LEMMA OutsideWrites ==
    ASSUME Inv,
           \/ \E c \in Clients : HandlerStep(c) \/ SignerStep(c)
           \/ OwnerRevokes \/ PutPolicy \/ TimePasses \/ FaultStep
    PROVE  \A r \in Requests : Written(r)
<1>1. ASSUME NEW c \in Clients, SignerStep(c)
      PROVE  \A r \in Requests : Written(r)
  BY <1>1, SameWritten DEF SignerStep, SignerSigns, SignerFails, ledgerVars
<1>2. CASE OwnerRevokes \/ PutPolicy \/ TimePasses
  BY <1>2, SameWritten DEF OwnerRevokes, PutPolicy, StorePolicy, TimePasses, Tick, ledgerVars
<1>3. CASE FaultStep
  BY <1>3, SameWritten
     DEF FaultStep, HandlerDies, SignerUnreachable, SignerGoesDown, LedgerGoesDown,
         ReadsOnly, ledgerVars, LedgerRestart, Empty, Written
<1>4. QED
  BY <1>1, <1>2, <1>3, HandlerWrites
-----------------------------------------------------------------------------
(* What a step does to a run and to a task that has not paid yet. *)
RunKept(r) ==
    runs'[r] # None =>
        /\ runs[r] # None
        /\ runs'[r].mandate = runs[r].mandate
        /\ runs'[r].challenge = runs[r].challenge

QuoteKept(r) ==
    intents'[r] # None =>
        /\ intents[r] # None
        /\ intents'[r].mandateId = intents[r].mandateId
        /\ intents'[r].challenge = intents[r].challenge

Unpaid == {"createIntent", "getCard", "requestPayment"}

TaskKept(c) ==
    (task'[c] # None /\ task'[c].stage \in Unpaid) =>
        /\ task[c] # None /\ task'[c].request = task[c].request
        /\ task'[c].stage = task[c].stage

LEMMA RunQuoteFrame ==
    ASSUME RunsInv, RunQuoteInv, used \subseteq used',
           \A r \in Requests : QuoteKept(r) /\ RunKept(r),
           \A c \in Clients : TaskKept(c)
    PROVE  RunQuoteInv'
<1>1. \A c \in Clients : task[c] # None => RunOf(c) \in Requests
  BY DEF RunsInv, RunInv, MemoryTypeOK, Or, Task, RunOf
<1> USE DEF RunQuoteInv
<1>2. RunsAreUsed' /\ RunAgrees'
  BY DEF RunsAreUsed, RunAgrees, QuoteKept, RunKept, Exists
<1>3. CardFirst' /\ QuotedBeforeAsked'
  BY <1>1 DEF CardFirst, QuotedBeforeAsked, QuoteKept, TaskKept, Unpaid, Exists, RunOf
<1>4. QED
  BY <1>2, <1>3

LEMMA SetRunKeeps ==
    ASSUME RunInv, NEW r \in Requests, runs[r] \in RunRecord, runs[r] # None,
           NEW state, NEW outcome, SetRun(r, state, outcome)
    PROVE  \A q \in Requests : RunKept(q)
BY DEF RunInv, MemoryTypeOK, SetRun, RunKept, RunRecord

LEMMA SameRuns ==
    ASSUME runs' = runs
    PROVE  \A q \in Requests : RunKept(q)
BY DEF RunKept

LEMMA BecomesKeeps ==
    ASSUME RunInv, NEW c \in Clients, task[c] # None, task[c].stage # "ended",
           NEW stage \in TaskStages \ Unpaid, Become(c, stage)
    PROVE  \A d \in Clients : TaskKept(d)
<1>1. task[c] \in Task
  BY TaskFacts
<1>2. QED
  BY <1>1 DEF RunInv, MemoryTypeOK, Become, TaskKept, Task, Or

LEMMA FailKeeps ==
    ASSUME RunInv, NEW c \in Clients, task[c] # None, task[c].stage # "ended", Fail(c)
    PROVE  /\ \A d \in Clients : TaskKept(d)
           /\ \A q \in Requests : RunKept(q)
<1>1. "ended" \in TaskStages \ Unpaid
  BY DEF TaskStages, Unpaid
<1>2. RunOf(c) \in Requests /\ runs[RunOf(c)] \in RunRecord /\ runs[RunOf(c)] # None
  BY TaskFacts
<1>3. QED
  BY <1>1, <1>2, BecomesKeeps, SetRunKeeps DEF Fail

(* While a run is Early, every other task of its request is over. *)
LEMMA OthersAreOver ==
    ASSUME RunInv, NEW c \in Clients, task[c] # None, task[c].stage \in Early,
           NEW d \in Clients, d # c, task[d] # None, RunOf(d) = RunOf(c)
    PROVE  task[d].stage = "ended"
<1>1. task[c].does = "run" /\ ~IsFor(d, RunOf(d))
  BY DEF RunInv, EarlyIsAlone
<1>2. task[d].stage \notin Early
  BY <1>1 DEF RunInv, EarlyIsAlone, OneRun
<1>3. QED
  BY <1>1, <1>2 DEF RunInv, CallerIsServed

(* A task that awaits no ledger: it changes at most its own stage and the  *)
(* outcome of its run. *)
LEMMA QuietTasks ==
    ASSUME RunsInv, RunQuoteInv, NEW c \in Clients,
           \/ CallRequestPayment(c) \/ PaymentAnswered(c) \/ EscalationAnswered(c)
           \/ ExpiryAnswered(c) \/ CheckedOut(c) \/ CardIssued(c)
           \/ ConfirmSettlement(c) \/ CallFails(c) \/ PolicyUnheard(c)
    PROVE  RunQuoteInv'
<1>1. RunInv
  BY DEF RunsInv
<1>2. task[c] # None /\ task[c].stage # "ended"
  BY DEF CallRequestPayment, PaymentAnswered, EscalationAnswered, ExpiryAnswered, CheckedOut,
         CardIssued, ConfirmSettlement, CallFails, PolicyUnheard, Calling, Doing
<1>3. /\ RunOf(c) \in Requests /\ runs[RunOf(c)] \in RunRecord /\ runs[RunOf(c)] # None
      /\ task[c] \in Task
  BY <1>1, <1>2, TaskFacts
<1>4. (\A q \in Requests : QuoteKept(q)) /\ used \subseteq used'
  BY DEF CallRequestPayment, PaymentAnswered, EscalationAnswered, ExpiryAnswered, CheckedOut,
         CardIssued, ConfirmSettlement, CallFails, PolicyUnheard, vars, ledgerVars, serviceVars,
         Begin, QuoteKept
<1>5. \/ Fail(c)
      \/ /\ runs' = runs \/ \E state, outcome : SetRun(RunOf(c), state, outcome)
         /\ \/ \E stage \in TaskStages \ Unpaid : Become(c, stage)
            \/ CheckedOut(c) \/ CardIssued(c)
  BY DEF CallRequestPayment, PaymentAnswered, EscalationAnswered, ExpiryAnswered, CheckedOut,
         CardIssued, ConfirmSettlement, CallFails, PolicyUnheard, PresentHeader, TaskStages,
         AfterSignature, Unpaid
<1>6. CASE Fail(c)
  BY <1>1, <1>2, <1>4, <1>6, FailKeeps, RunQuoteFrame
<1>7. CASE ~Fail(c)
  <2>1. \A q \in Requests : RunKept(q)
    BY <1>1, <1>3, <1>5, <1>7, SameRuns, SetRunKeeps
  <2>2. \A d \in Clients : TaskKept(d)
    <3>1. CASE \E stage \in TaskStages \ Unpaid : Become(c, stage)
      BY <1>1, <1>2, <3>1, BecomesKeeps
    <3>2. CASE CheckedOut(c) \/ CardIssued(c)
      BY <1>1, <1>3, <3>2
         DEF CheckedOut, CardIssued, RunInv, MemoryTypeOK, TaskKept, Task, Or, Unpaid
    <3>3. QED
      BY <1>5, <1>7, <3>1, <3>2
  <2>3. QED
    BY <1>4, <2>1, <2>2, RunQuoteFrame
<1>8. QED
  BY <1>6, <1>7

(* The evidence a run adds after its payment leaves what was asked, quoted *)
(* and decided as it is. *)
AddsRecord(r) ==
    \/ \E o \in Orders : RecordSpend(r, o)
    \/ \E tx \in Transactions : RecordSettlement(r, tx)
    \/ \E o \in Orders, tx \in Transactions : RecordCapture(r, o, tx)

AddedTo(old, new) ==
    /\ new.mandateId = old.mandateId /\ new.instruction = old.instruction
    /\ new.challenge = old.challenge /\ new.terms = old.terms
    /\ new.nonce = old.nonce /\ new.nonceReleased = old.nonceReleased
    /\ new.decision = old.decision

LEMMA RecordAdds ==
    ASSUME LedgerTypeOK, NEW r \in Requests, AddsRecord(r)
    PROVE  /\ Exists(r) /\ escalations' = escalations
           /\ \E record : /\ intents' = [intents EXCEPT ![r] = record]
                         /\ AddedTo(intents[r], record)
<1>1. intents[r] \in IntentRecord /\ Exists(r)
  BY IntentIsRecord DEF AddsRecord, RecordSpend, RecordSettlement, RecordCapture
<1>2. ASSUME NEW o, RecordSpend(r, o)
      PROVE  \E record : /\ intents' = [intents EXCEPT ![r] = record]
                         /\ AddedTo(intents[r], record)
  <2> DEFINE record == [intents[r] EXCEPT !.spend = o]
  <2>1. AddedTo(intents[r], record)
    BY <1>1 DEF IntentRecord, AddedTo
  <2>2. intents' = [intents EXCEPT ![r] = record]
    BY <1>2 DEF RecordSpend, UpdateIntent
  <2> HIDE DEF record
  <2>3. QED
    BY <2>1, <2>2
<1>3. ASSUME NEW tx, RecordSettlement(r, tx)
      PROVE  \E record : /\ intents' = [intents EXCEPT ![r] = record]
                         /\ AddedTo(intents[r], record)
  <2> DEFINE record == [intents[r] EXCEPT !.settlement = tx, !.state = "SETTLED"]
  <2>1. AddedTo(intents[r], record)
    BY <1>1 DEF IntentRecord, AddedTo
  <2>2. intents' = [intents EXCEPT ![r] = record]
    BY <1>3 DEF RecordSettlement, UpdateIntent
  <2> HIDE DEF record
  <2>3. QED
    BY <2>1, <2>2
<1>4. ASSUME NEW o, NEW tx, RecordCapture(r, o, tx)
      PROVE  \E record : /\ intents' = [intents EXCEPT ![r] = record]
                         /\ AddedTo(intents[r], record)
  <2> DEFINE record == [intents[r] EXCEPT
                            !.capture = [order |-> o, tx |-> intents[r].settlement],
                            !.state = "CAPTURED"]
  <2>1. AddedTo(intents[r], record)
    BY <1>1 DEF IntentRecord, AddedTo
  <2>2. intents' = [intents EXCEPT ![r] = record]
    BY <1>4 DEF RecordCapture, UpdateIntent
  <2> HIDE DEF record
  <2>3. QED
    BY <2>1, <2>2
<1>5. QED
  BY <1>1, <1>2, <1>3, <1>4
     DEF AddsRecord, RecordSpend, RecordSettlement, RecordCapture, UpdateIntent

LEMMA CallsAdd ==
    ASSUME RunInv, NEW c \in Clients,
           CallRecordSpend(c) \/ CallRecordSettlement(c) \/ CallRecordCapture(c)
    PROVE  /\ AddsRecord(RunOf(c)) /\ RunOf(c) \in Requests
           /\ UNCHANGED <<registry, signerVars, serviceVars>>
<1>1. /\ task[c] # None
      /\ task[c].stage \in {"recordSpend", "recordSettlement", "recordCapture"}
  BY DEF CallRecordSpend, CallRecordSettlement, CallRecordCapture, Calling
<1>2. /\ task[c] \in Task /\ RunOf(c) \in Requests /\ TaskReady(task[c], runs[RunOf(c)])
  BY <1>1, TaskFacts
<1>3. task[c].tx \in Transactions /\ (task[c].order \in Orders)
  BY <1>1, <1>2 DEF Task, Or, TaskReady, AfterSignature
<1>4. QED
  BY <1>2, <1>3 DEF CallRecordSpend, CallRecordSettlement, CallRecordCapture, AddsRecord,
                    LedgerAnswers

LEMMA EvidenceTasks ==
    ASSUME RunsInv, RunQuoteInv, NEW c \in Clients,
           CallRecordSpend(c) \/ CallRecordSettlement(c) \/ CallRecordCapture(c)
    PROVE  RunQuoteInv'
<1>1. RunInv /\ LedgerTypeOK
  BY DEF RunsInv, Inv, Base
<1>2. task[c] # None /\ task[c].stage # "ended"
  BY DEF CallRecordSpend, CallRecordSettlement, CallRecordCapture, Calling
<1>3. RunOf(c) \in Requests /\ runs[RunOf(c)] \in RunRecord /\ runs[RunOf(c)] # None
  BY <1>1, <1>2, TaskFacts
<1>4. \A q \in Requests : QuoteKept(q)
  <2>1. PICK record : /\ intents' = [intents EXCEPT ![RunOf(c)] = record]
                      /\ AddedTo(intents[RunOf(c)], record)
    BY <1>1, CallsAdd, RecordAdds
  <2>2. Exists(RunOf(c))
    BY <1>1, CallsAdd, RecordAdds
  <2>3. QED
    BY <1>1, <2>1, <2>2 DEF LedgerTypeOK, AddedTo, QuoteKept, Exists
<1>5. used' = used
  BY DEF CallRecordSpend, CallRecordSettlement, CallRecordCapture, LedgerAnswers, serviceVars
<1>6. \/ Fail(c)
      \/ /\ runs' = runs \/ SetRun(RunOf(c), "DONE", "signed")
         /\ \E stage \in TaskStages \ Unpaid : Become(c, stage)
  BY DEF CallRecordSpend, CallRecordSettlement, CallRecordCapture, LedgerAnswers, TaskStages,
         AfterSignature, Unpaid
<1>7. CASE Fail(c)
  BY <1>1, <1>2, <1>4, <1>5, <1>7, FailKeeps, RunQuoteFrame
<1>8. CASE ~Fail(c)
  BY <1>1, <1>2, <1>3, <1>4, <1>5, <1>6, <1>8, SameRuns, SetRunKeeps, BecomesKeeps,
     RunQuoteFrame
<1>9. QED
  BY <1>7, <1>8

(* The card is asked for before any quote is on record. *)
LEMMA GetCardTask ==
    ASSUME RunsInv, RunQuoteInv, NEW c \in Clients, CallGetCard(c)
    PROVE  RunQuoteInv'
<1> DEFINE r == RunOf(c)
<1>1. RunInv /\ task[c] # None /\ task[c].stage = "getCard"
  BY DEF RunsInv, CallGetCard, Calling
<1>2. r \in Requests /\ runs[r] \in RunRecord /\ runs[r] # None
  BY <1>1, TaskFacts
<1>3. intents' = intents /\ used' = used
  BY DEF CallGetCard, vars, ledgerVars, serviceVars
<1>4. /\ \A q \in Requests : q # r => runs'[q] = runs[q]
      /\ runs'[r].mandate = runs[r].mandate
  BY <1>1, <1>2 DEF CallGetCard, RunInv, MemoryTypeOK, RunRecord
<1>5. Exists(r) => intents[r].challenge = None
  BY <1>1 DEF RunQuoteInv, CardFirst
<1>6. \A d \in Clients : TaskKept(d)
  BY <1>1, BecomesKeeps DEF CallGetCard, TaskStages, Unpaid
<1>7. \A d \in Clients : task[d] # None => RunOf(d) \in Requests
  BY <1>1 DEF RunInv, MemoryTypeOK, Or, Task, RunOf
<1> USE DEF RunQuoteInv
<1>8. RunsAreUsed' /\ RunAgrees'
  BY <1>2, <1>3, <1>4, <1>5 DEF RunsAreUsed, RunAgrees, Exists
<1>9. CardFirst' /\ QuotedBeforeAsked'
  BY <1>3, <1>6, <1>7 DEF CardFirst, QuotedBeforeAsked, TaskKept, Unpaid, Exists, RunOf
<1>10. QED
  BY <1>8, <1>9

(* The two calls by which a run and its intent come to agree: at most one  *)
(* task goes on with them, and every other of the request is over. *)
LEMMA AgreesAnew ==
    ASSUME RunsInv, RunQuoteInv, NEW c \in Clients, task[c] # None, task[c].stage \in Early,
           used' = used, \A q \in Requests : RunKept(q),
           \A q \in Requests : q # RunOf(c) => intents'[q] = intents[q],
           intents'[RunOf(c)].mandateId = runs[RunOf(c)].mandate,
           intents'[RunOf(c)].challenge \in {None, runs[RunOf(c)].challenge},
           \A d \in Clients : d # c => task'[d] = task[d],
           RunOf(c)' = RunOf(c),
           task'[c].stage \in Unpaid =>
               /\ task'[c].stage = "getCard" => intents'[RunOf(c)].challenge = None
               /\ task'[c].stage = "requestPayment" => intents'[RunOf(c)].challenge # None
               /\ task'[c].stage # "createIntent"
    PROVE  RunQuoteInv'
<1>1. \A d \in Clients : task[d] # None => RunOf(d) \in Requests
  BY DEF RunsInv, RunInv, MemoryTypeOK, Or, Task, RunOf
<1>2. \A d \in Clients : (d # c /\ task[d] # None /\ RunOf(d) = RunOf(c))
                             => task[d].stage = "ended"
  BY OthersAreOver DEF RunsInv
<1> USE DEF RunQuoteInv
<1>3. RunsAreUsed' /\ RunAgrees'
  BY <1>1 DEF RunsAreUsed, RunAgrees, RunKept, Exists
<1>4. CardFirst'
  <2> SUFFICES ASSUME NEW d \in Clients, task'[d] # None,
                      task'[d].stage \in {"createIntent", "getCard"},
                      intents'[task'[d].request] # None
               PROVE  intents'[task'[d].request].challenge = None
    BY DEF CardFirst, Exists, RunOf
  <2>1. CASE d = c
    BY <2>1 DEF Unpaid, RunOf
  <2>2. CASE d # c
    BY <1>1, <1>2, <2>2 DEF CardFirst, Exists, RunOf
  <2>3. QED
    BY <2>1, <2>2
<1>5. QuotedBeforeAsked'
  <2> SUFFICES ASSUME NEW d \in Clients, task'[d] # None,
                      task'[d].stage = "requestPayment",
                      intents'[task'[d].request] # None
               PROVE  intents'[task'[d].request].challenge # None
    BY DEF QuotedBeforeAsked, Exists, RunOf
  <2>1. CASE d = c
    BY <2>1 DEF Unpaid, RunOf
  <2>2. CASE d # c
    BY <1>1, <1>2, <2>2 DEF QuotedBeforeAsked, Exists, RunOf
  <2>3. QED
    BY <2>1, <2>2
<1>6. QED
  BY <1>3, <1>4, <1>5

LEMMA AnsweredTask ==
    ASSUME RunInv, NEW c \in Clients, task[c] # None, task[c].stage # "ended",
           NEW stage \in TaskStages, LedgerAnswers(c, stage)
    PROVE  /\ used' = used /\ \A q \in Requests : RunKept(q)
           /\ \A d \in Clients : d # c => task'[d] = task[d]
           /\ RunOf(c)' = RunOf(c) /\ task'[c].stage \in {stage, "ended"}
<1>1. /\ RunOf(c) \in Requests /\ runs[RunOf(c)] \in RunRecord /\ runs[RunOf(c)] # None
      /\ task[c] \in Task
  BY TaskFacts
<1>2. used' = used
  BY DEF LedgerAnswers, serviceVars
<1>3. \A q \in Requests : RunKept(q)
  BY <1>1, SameRuns, FailKeeps DEF LedgerAnswers
<1>4. \E s \in {stage, "ended"} : Become(c, s)
  BY DEF LedgerAnswers, Fail
<1>5. QED
  BY <1>1, <1>2, <1>3, <1>4 DEF Become, RunInv, MemoryTypeOK, Task, RunOf

LEMMA CreateIntentTask ==
    ASSUME RunsInv, RunQuoteInv, NEW c \in Clients, CallCreateIntent(c)
    PROVE  RunQuoteInv'
<1> DEFINE r == RunOf(c)
<1>1. RunInv /\ LedgerTypeOK /\ task[c] # None /\ task[c].stage = "createIntent"
  BY DEF RunsInv, Inv, Base, CallCreateIntent, Calling
<1>2. r \in Requests
  BY <1>1, TaskFacts
<1>3. /\ intents'[r].mandateId = runs[r].mandate /\ intents'[r].challenge = None
      /\ \A q \in Requests : q # r => intents'[q] = intents[q]
  BY <1>1, <1>2 DEF CallCreateIntent, CreateIntent, LedgerTypeOK
<1>4. /\ used' = used /\ \A q \in Requests : RunKept(q)
      /\ \A d \in Clients : d # c => task'[d] = task[d]
      /\ RunOf(c)' = r /\ task'[c].stage \in {"getCard", "ended"}
  BY <1>1, AnsweredTask DEF CallCreateIntent, TaskStages
<1>5. QED
  BY <1>1, <1>3, <1>4, AgreesAnew DEF Early, Unpaid

LEMMA AttachChallengeTask ==
    ASSUME RunsInv, RunQuoteInv, NEW c \in Clients, CallAttachChallenge(c)
    PROVE  RunQuoteInv'
<1> DEFINE r == RunOf(c)
<1>1. RunInv /\ LedgerTypeOK /\ task[c] # None /\ task[c].stage = "attachChallenge"
  BY DEF RunsInv, Inv, Base, CallAttachChallenge, Calling
<1>2. r \in Requests /\ TaskReady(task[c], runs[r]) /\ runs[r] # None
  BY <1>1, TaskFacts
<1>3. runs[r].challenge # None
  BY <1>1, <1>2 DEF TaskReady
<1>4. Exists(r) /\ AttachChallenge(r, runs[r].challenge)
  BY DEF CallAttachChallenge, AttachChallenge
<1>5. intents[r] \in IntentRecord /\ intents[r].mandateId = runs[r].mandate
  BY <1>1, <1>2, <1>4, IntentIsRecord DEF RunQuoteInv, RunAgrees
<1>6. /\ intents'[r].mandateId = runs[r].mandate
      /\ intents'[r].challenge = runs[r].challenge
      /\ \A q \in Requests : q # r => intents'[q] = intents[q]
  BY <1>1, <1>2, <1>4, <1>5 DEF AttachChallenge, UpdateIntent, LedgerTypeOK, IntentRecord
<1>7. /\ used' = used /\ \A q \in Requests : RunKept(q)
      /\ \A d \in Clients : d # c => task'[d] = task[d]
      /\ RunOf(c)' = r /\ task'[c].stage \in {"requestPayment", "ended"}
  BY <1>1, AnsweredTask DEF CallAttachChallenge, TaskStages
<1>8. QED
  BY <1>1, <1>3, <1>6, <1>7, AgreesAnew DEF Early, Unpaid

LEMMA StartTask ==
    ASSUME RunsInv, RunQuoteInv, NEW c \in Clients, StartRun(c)
    PROVE  RunQuoteInv'
<1>1. PICK r \in Requests \ used, m \in Mandates, i \in Instructions :
          /\ used' = used \cup {r}
          /\ runs' = [runs EXCEPT ![r] =
                 [mandate |-> m, instruction |-> i, challenge |-> None,
                  state |-> "RUNNING", outcome |-> None]]
          /\ task' = [task EXCEPT ![c] = NewTask("run", r, "createIntent")]
  BY DEF StartRun
<1>2. intents' = intents /\ ~Exists(r)
  BY DEF StartRun, ledgerVars, RunsInv, Inv, SigningInv, NothingUnused
<1>3. /\ \A q \in Requests : q # r => runs'[q] = runs[q]
      /\ \A d \in Clients : d # c => task'[d] = task[d]
      /\ task'[c].request = r
      /\ \A d \in Clients : task[d] # None => RunOf(d) \in Requests
  BY <1>1 DEF RunsInv, RunInv, MemoryTypeOK, NewTask, Or, Task, RunOf
<1> USE DEF RunQuoteInv
<1>4. RunsAreUsed' /\ RunAgrees'
  BY <1>1, <1>2, <1>3 DEF RunsAreUsed, RunAgrees, Exists
<1>5. CardFirst' /\ QuotedBeforeAsked'
  BY <1>2, <1>3 DEF CardFirst, QuotedBeforeAsked, Exists, RunOf
<1>6. QED
  BY <1>4, <1>5

LEMMA RunQuoteStep ==
    ASSUME RunsInv, RunQuoteInv, [RunsNext]_allVars
    PROVE  RunQuoteInv'
<1>1. ASSUME UNCHANGED <<runs, task>>, used \subseteq used',
             \A r \in Requests : Written(r)
      PROVE  RunQuoteInv'
  BY <1>1, RunQuoteFrame DEF Written, QuoteKept, RunKept, TaskKept
<1>2. CASE UNCHANGED allVars
  BY <1>1, <1>2, SameWritten DEF allVars, runVars, vars, ledgerVars, serviceVars
<1>3. ASSUME UNCHANGED runVars,
             \/ \E c \in Clients : HandlerStep(c) \/ SignerStep(c)
             \/ OwnerRevokes \/ PutPolicy \/ TimePasses \/ FaultStep
      PROVE  RunQuoteInv'
  BY <1>1, <1>3, OutsideWrites, OutsideMoves DEF RunsInv, runVars, ServicesMove
<1>4. ASSUME NEW c \in Clients, TaskStep(c)
      PROVE  RunQuoteInv'
  BY <1>4, QuietTasks, EvidenceTasks, GetCardTask, CreateIntentTask, AttachChallengeTask
     DEF TaskStep
<1>5. ASSUME UNCHANGED <<intents, runs>>, used \subseteq used',
             \/ task' = task
             \/ \E c \in Clients, r \in Requests, does \in {"resolve", "expire"} :
                    task' = [task EXCEPT ![c] = NewTask(does, r, "awaitPolicy")]
      PROVE  RunQuoteInv'
  <2>1. \A d \in Clients : TaskKept(d)
    BY <1>5 DEF RunsInv, RunInv, MemoryTypeOK, TaskKept, NewTask, Unpaid
  <2>2. QED
    BY <1>5, <2>1, RunQuoteFrame DEF QuoteKept, RunKept
<1>6. ASSUME NEW c \in Clients, AnswerEscalation(c)
      PROVE  RunQuoteInv'
  BY <1>5, <1>6 DEF AnswerEscalation, Begin, ledgerVars
<1>7. ASSUME NEW r \in Requests, TimerFires(r)
      PROVE  RunQuoteInv'
  BY <1>5, <1>7 DEF TimerFires, Begin, ledgerVars, vars, serviceVars
<1>8. CASE OrchestratorRestart
  <2>1. /\ intents' = intents /\ used' = used
        /\ \A r \in Requests : runs'[r] = None
        /\ \A d \in Clients : task[d] = None => task'[d] = None
        /\ \A d \in Clients : task[d] # None => task'[d] = [task[d] EXCEPT !.stage = "ended"]
    BY <1>8 DEF OrchestratorRestart, vars, ledgerVars, serviceVars, Empty
  <2>2. \A d \in Clients : task[d] # None => task[d] \in Task
    BY DEF RunsInv, RunInv, MemoryTypeOK, Or
  <2>3. \A d \in Clients : TaskKept(d)
    BY <2>1, <2>2 DEF TaskKept, Task, Unpaid
  <2>4. QED
    BY <2>1, <2>3, RunQuoteFrame DEF QuoteKept, RunKept
<1>9. QED
  BY <1>2, <1>3, <1>4, <1>6, <1>7, <1>8, StartTask, QuietTasks
     DEF RunsNext, ServiceStep, ClockStep

LEMMA RunQuoteHolds == RunsSpec => []RunQuoteInv
<1>1. RunsInit => RunQuoteInv
  BY DEF RunsInit, RunQuoteInv, RunsAreUsed, RunAgrees, CardFirst, QuotedBeforeAsked, Empty
<1>2. QED
  BY <1>1, RunQuoteStep, RunsInvHolds, PTL DEF RunsSpec
-----------------------------------------------------------------------------
(* A run as a caller of the services                                      *)

(* What a step of the orchestrator is to the services: a step of theirs    *)
(* with the inputs they were proved about; or evidence added to an intent; *)
(* or a request minted; or the intent of a request minted before, which    *)
(* nobody has asked to pay. *)
Mints ==
    /\ \E r \in Requests : used' = used \cup {r}
    /\ UNCHANGED <<registry, ledgerVars, signerVars, body, got, pc>>

CreatesLate ==
    /\ UNCHANGED <<registry, signerVars, serviceVars>>
    /\ \E r \in used, m \in Mandates, i \in Instructions, t \in {now - 1, now} :
          CreateIntent(r, m, i, t) /\ Unheard(r) /\ escalations[r] = None

AddsToIntent ==
    /\ UNCHANGED <<registry, signerVars, serviceVars>>
    /\ \E r \in Requests : AddsRecord(r)

Serves == [PaymentsNext]_vars \/ Mints \/ CreatesLate \/ AddsToIntent

LEMMA CreateServes ==
    ASSUME RunsInv, NEW c \in Clients, CallCreateIntent(c)
    PROVE  CreatesLate
<1>1. RunInv /\ ServedInv /\ task[c] # None /\ task[c].stage = "createIntent"
  BY DEF RunsInv, CallCreateIntent, Calling
<1>2. /\ RunOf(c) \in used /\ RunOf(c) \in Requests /\ runs[RunOf(c)] \in RunRecord
  BY <1>1, TaskFacts
<1>3. \A d \in Clients : ~IsFor(d, RunOf(c))
  BY <1>1 DEF RunInv, EarlyIsAlone, Early
<1>4. Unheard(RunOf(c)) /\ escalations[RunOf(c)] = None
  BY <1>1, <1>2, <1>3 DEF Unheard, IsFor, PaysFor, ServedInv, SignerIsTold, AskedByPayment,
                          RunsInv, Inv, Base, SignerTypeOK
<1>5. runs[RunOf(c)].mandate \in Mandates /\ runs[RunOf(c)].instruction \in Instructions
  BY <1>2 DEF RunRecord
<1>6. QED
  BY <1>2, <1>4, <1>5 DEF CallCreateIntent, LedgerAnswers, CreatesLate

(* A payment is asked for under the mandate and by the quote on record. *)
LEMMA RequestServes ==
    ASSUME RunsInv, RunQuoteInv, NEW c \in Clients, CallRequestPayment(c)
    PROVE  RequestPayment(c)
<1> DEFINE r == RunOf(c)
           run == runs[r]
<1>1. RunInv /\ task[c] # None /\ task[c].stage = "requestPayment"
  BY DEF RunsInv, CallRequestPayment, Calling
<1>2. /\ r \in Requests /\ run \in RunRecord /\ run # None /\ TaskReady(task[c], run)
  BY <1>1, TaskFacts
<1>3. run.challenge \in Challenges /\ run.challenge \in Challenge /\ run.mandate \in Mandates
  BY <1>1, <1>2, ContractsAssumption DEF TaskReady, RunRecord, Or
<1>4. Exists(r) => /\ intents[r].challenge = run.challenge /\ intents[r].challenge # None
                   /\ run.mandate = intents[r].mandateId
  BY <1>1, <1>2 DEF RunQuoteInv, RunAgrees, QuotedBeforeAsked
<1>5. run.challenge \in Quoted(r)
  BY <1>3, <1>4 DEF Quoted
<1>6. PICK dom \in SentDomains, matches \in BOOLEAN, ch \in Poisoned(run.challenge),
           a \in {run.challenge.amount} \cup AmountOverrides :
          Begin(c, PaymentBody(r, run.mandate, ch, a, dom, matches), "getIntent")
  BY DEF CallRequestPayment
<1>7. ch.amount = run.challenge.amount
  BY <1>3 DEF Poisoned, Challenge
<1> HIDE DEF run
<1>8. QED
  BY <1>2, <1>3, <1>4, <1>5, <1>6, <1>7 DEF RequestPayment

LEMMA AnswersServe ==
    ASSUME RunsInv, RunQuoteInv,
           (\E c \in Clients : AnswerEscalation(c)) \/ \E r \in Requests : TimerFires(r)
    PROVE  [PaymentsNext]_vars
<1>1. ASSUME NEW c \in Clients, AnswerEscalation(c)
      PROVE  ResolveRequest(c)
  <2>1. PICK r \in Requests, verdict \in {"approve", "deny"}, byOwner \in BOOLEAN,
             standing \in BOOLEAN :
            /\ Awaiting(r)
            /\ Begin(c, ResolveBody(r, verdict, byOwner, standing), "getEscalation")
    BY <1>1 DEF AnswerEscalation
  <2>2. r \in used
    BY <2>1 DEF Awaiting, RunQuoteInv, RunsAreUsed
  <2>3. QED
    BY <2>1, <2>2 DEF ResolveRequest
<1>2. ASSUME NEW r \in Requests, TimerFires(r)
      PROVE  UNCHANGED vars \/ \E c \in Clients : ResolveRequest(c)
  <2>1. CASE runs[r] # None /\ runs[r].state = "ESCALATED"
    <3>1. r \in used
      BY <2>1 DEF RunQuoteInv, RunsAreUsed
    <3>2. PICK c \in Clients : Begin(c, ResolveBody(r, "deny", FALSE, FALSE), "getEscalation")
      BY <1>2, <2>1 DEF TimerFires
    <3>3. QED
      BY <3>1, <3>2 DEF ResolveRequest
  <2>2. QED
    BY <1>2, <2>1 DEF TimerFires
<1>3. QED
  BY <1>1, <1>2 DEF PaymentsNext, Environment

LEMMA RunsServe ==
    ASSUME RunsInv, RunQuoteInv, [RunsNext]_allVars
    PROVE  Serves
<1>1. CASE UNCHANGED allVars
  BY <1>1 DEF allVars, Serves
<1>2. ASSUME NEW c \in Clients, StartRun(c)
      PROVE  Serves
  BY <1>2 DEF StartRun, Mints, Serves
<1>3. ASSUME NEW c \in Clients, TaskStep(c)
      PROVE  Serves
  <2>1. CASE CallCreateIntent(c)
    BY <2>1, CreateServes DEF Serves
  <2>2. CASE CallAttachChallenge(c)
    <3>1. /\ RunOf(c) \in Requests /\ runs[RunOf(c)] \in RunRecord
          /\ TaskReady(task[c], runs[RunOf(c)])
      BY <2>2, TaskFacts DEF RunsInv, CallAttachChallenge, Calling
    <3>2. runs[RunOf(c)].challenge \in Challenges
      BY <2>2, <3>1 DEF TaskReady, RunRecord, Or, CallAttachChallenge, Calling
    <3>3. ChallengeQuoted
      BY <2>2, <3>1, <3>2 DEF CallAttachChallenge, LedgerAnswers, ChallengeQuoted
    <3>4. QED
      BY <3>3 DEF Serves, PaymentsNext, Environment
  <2>3. CASE CallRequestPayment(c)
    BY <2>3, RequestServes DEF Serves, PaymentsNext, Environment
  <2>4. CASE CallRecordSpend(c) \/ CallRecordSettlement(c) \/ CallRecordCapture(c)
    BY <2>4, CallsAdd DEF RunsInv, AddsToIntent, Serves
  <2>5. CASE \/ CallGetCard(c) \/ PaymentAnswered(c) \/ EscalationAnswered(c)
             \/ ExpiryAnswered(c) \/ CardIssued(c) \/ CheckedOut(c)
             \/ ConfirmSettlement(c) \/ CallFails(c)
    <3>1. UNCHANGED vars
      BY <2>5 DEF CallGetCard, PaymentAnswered, EscalationAnswered, ExpiryAnswered, CardIssued,
                  CheckedOut, ConfirmSettlement, CallFails
    <3>2. QED
      BY <3>1 DEF Serves
  <2>6. QED
    BY <1>3, <2>1, <2>2, <2>3, <2>4, <2>5 DEF TaskStep
<1>4. CASE OrchestratorRestart
  BY <1>4 DEF OrchestratorRestart, Serves
<1>5. ASSUME \/ \E c \in Clients : ServiceStep(c)
             \/ OwnerRevokes \/ PutPolicy \/ FaultStep \/ ClockStep
      PROVE  Serves
  BY <1>5 DEF ServiceStep, ClockStep, PaymentsNext, Environment, Serves
<1>6. ASSUME NEW c \in Clients, PolicyUnheard(c)
      PROVE  Serves
  BY <1>6 DEF PolicyUnheard, Serves
<1>7. QED
  BY <1>1, <1>2, <1>3, <1>4, <1>5, <1>6, AnswersServe DEF RunsNext, Serves
-----------------------------------------------------------------------------
(* What the services promise, with the orchestrator as their caller       *)

LEMMA EvidenceServed ==
    ASSUME Inv, EvidenceInv, Serves
    PROVE  EvidenceInv'
<1>1. CASE [PaymentsNext]_vars
  BY <1>1, EvidenceStep
<1>2. CASE Mints
  <2>1. /\ UNCHANGED <<signatures, body>> /\ \A c \in Clients : HandlerMoves(c)
        /\ UNCHANGED <<intents, escalations>>
    BY <1>2 DEF Mints, ledgerVars, signerVars, HandlerMoves
  <2>2. QED
    BY <2>1, SameRecordsMove, EvidenceFrame
<1>3. CASE CreatesLate
  BY <1>3, FreshIntentEvidence DEF CreatesLate, signerVars, serviceVars, Inv, SigningInv,
                                   NothingUnused, Base, ServiceTypeOK
<1>4. CASE AddsToIntent
  <2>1. PICK r \in Requests : AddsRecord(r)
    BY <1>4 DEF AddsToIntent
  <2>2. \A q \in Requests : ReceiptMoves(q) /\ VerdictMoves(q)
    BY <2>1, RecordAdds, NewRecordMoves DEF AddedTo, Inv, Base
  <2>3. /\ UNCHANGED <<signatures, body>> /\ \A c \in Clients : HandlerMoves(c)
    BY <1>4 DEF AddsToIntent, signerVars, serviceVars, HandlerMoves
  <2>4. QED
    BY <2>2, <2>3, EvidenceFrame
<1>5. QED
  BY <1>1, <1>2, <1>3, <1>4 DEF Serves

LEMMA QuoteServed ==
    ASSUME Inv, QuoteInv, Serves
    PROVE  QuoteInv'
<1>1. CASE [PaymentsNext]_vars
  BY <1>1, QuoteStep
<1>2. CASE Mints
  <2>1. /\ UNCHANGED <<signatures, body>> /\ \A c \in Clients : HandlerAsks(c)
        /\ UNCHANGED <<intents, escalations>> /\ used \subseteq used'
    BY <1>2 DEF Mints, ledgerVars, signerVars, HandlerAsks
  <2>2. QED
    BY <2>1, SameRecordsQuote, QuoteFrame
<1>3. CASE CreatesLate
  <2>1. PICK r \in used, m \in Mandates, i \in Instructions, t \in {now - 1, now} :
            CreateIntent(r, m, i, t) /\ Unheard(r) /\ escalations[r] = None
    BY <1>3 DEF CreatesLate
  <2>2. r \in Requests /\ used' = used \cup {r}
    BY <1>3 DEF CreatesLate, serviceVars, Inv, Base, ServiceTypeOK
  <2>3. UNCHANGED <<signing, signatures, body, got, pc>>
    BY <1>3 DEF CreatesLate, serviceVars, signerVars
  <2>4. QED
    BY <2>1, <2>2, <2>3, FreshIntentAsQuoted
<1>4. CASE AddsToIntent
  <2>1. PICK r \in Requests : AddsRecord(r)
    BY <1>4 DEF AddsToIntent
  <2>2. \A q \in Requests : QuoteStays(q) /\ QuestionStays(q)
    BY <2>1, RecordAdds, NewRecordQuote DEF AddedTo, Inv, Base
  <2>3. UNCHANGED <<signatures, body, used>> /\ \A c \in Clients : HandlerAsks(c)
    BY <1>4 DEF AddsToIntent, signerVars, serviceVars, HandlerAsks
  <2>4. QED
    BY <2>2, <2>3, QuoteFrame
<1>5. QED
  BY <1>1, <1>2, <1>3, <1>4 DEF Serves

LEMMA RevokedServed ==
    ASSUME Inv, RevokedInv, Serves
    PROVE  RevokedInv'
<1>1. CASE [PaymentsNext]_vars
  BY <1>1, RevokedStep
<1>2. CASE Mints \/ CreatesLate \/ AddsToIntent
  <2>1. UNCHANGED <<registry, body, pc>>
    BY <1>2 DEF Mints, CreatesLate, AddsToIntent, serviceVars
  <2>2. QED
    BY <2>1, RevokedFrame DEF StaysRevoked, RevokedInv
<1>3. QED
  BY <1>1, <1>2 DEF Serves

LEMMA AccountedServed ==
    ASSUME HandlersStay, Inv, EvidenceInv, AccountedInv, Serves
    PROVE  AccountedInv'
<1>1. CASE [PaymentsNext]_vars
  BY <1>1, AccountedStep
<1>2. CASE Mints
  BY <1>2, SameIntentsAccounted, ElsewhereAccounted DEF Mints, ledgerVars
<1>3. CASE CreatesLate
  <2>1. \A q \in Requests : SignedMoves(q) /\ NonceIsTaken(q)
    BY <1>3, FreshIntentAccounted DEF CreatesLate, Inv, Base, ServiceTypeOK
  <2>2. QED
    BY <1>3, <2>1, ElsewhereAccounted DEF CreatesLate, serviceVars
<1>4. CASE AddsToIntent
  <2>1. PICK r \in Requests : AddsRecord(r)
    BY <1>4 DEF AddsToIntent
  <2>2. \A q \in Requests : SignedMoves(q) /\ NonceIsTaken(q)
    BY <2>1, RecordAdds, NewRecordAccounted DEF AddedTo, Inv, Base
  <2>3. QED
    BY <1>4, <2>2, ElsewhereAccounted DEF AddsToIntent, serviceVars
<1>5. QED
  BY <1>1, <1>2, <1>3, <1>4 DEF Serves

LEMMA ServesCallsLedger ==
    ASSUME Base, Serves
    PROVE  [LedgerCall]_ledgerVars
<1>1. CASE [PaymentsNext]_vars
  BY <1>1, PaymentsCallLedger
<1>2. CASE Mints
  BY <1>2 DEF Mints
<1>3. CASE CreatesLate
  <2>1. PICK r \in used, m \in Mandates, i \in Instructions, t \in {now - 1, now} :
            CreateIntent(r, m, i, t)
    BY <1>3 DEF CreatesLate
  <2>2. r \in Requests /\ t \in Int
    BY DEF Base, LedgerTypeOK, ServiceTypeOK
  <2>3. QED
    BY <2>1, <2>2, IntentIsCalled DEF IntentCall
<1>4. CASE AddsToIntent
  BY <1>4, IntentIsCalled DEF AddsToIntent, AddsRecord, IntentCall, Or
<1>5. QED
  BY <1>1, <1>2, <1>3, <1>4 DEF Serves

LEMMA ServesCallsSigner ==
    ASSUME Base, Serves
    PROVE  [SignerNext]_signerVars
<1>1. CASE [PaymentsNext]_vars
  BY <1>1, PaymentsCallSigner
<1>2. CASE Mints \/ CreatesLate \/ AddsToIntent
  BY <1>2 DEF Mints, CreatesLate, AddsToIntent
<1>3. QED
  BY <1>1, <1>2 DEF Serves

LEMMA ServesAbstractly ==
    ASSUME Inv, Serves
    PROVE  [Abstract!AuthNext]_Abstract!authVars
<1>1. CASE [PaymentsNext]_vars
  BY <1>1, AbstractStep
<1>2. CASE Mints
  <2>1. [r \in Requests |-> SignedFor(r)]' = [r \in Requests |-> SignedFor(r)]
    BY <1>2 DEF Mints, signerVars, SignedFor
  <2>2. QED
    BY <1>2, <2>1 DEF Mints, Abstract!AuthNext, Abstract!Ask
<1>3. CASE CreatesLate \/ AddsToIntent
  <2>1. [r \in Requests |-> SignedFor(r)]' = [r \in Requests |-> SignedFor(r)]
    BY <1>3 DEF CreatesLate, AddsToIntent, signerVars, SignedFor
  <2>2. QED
    BY <1>3, <2>1 DEF CreatesLate, AddsToIntent, serviceVars, Abstract!authVars
<1>4. QED
  BY <1>1, <1>2, <1>3 DEF Serves

LEMMA RunsCallServices ==
    ASSUME RunsInv, RunQuoteInv, [RunsNext]_allVars
    PROVE  Inv /\ Base /\ Serves
BY RunsServe DEF RunsInv, Inv

LEMMA RunsStartServices ==
    RunsInit => /\ PaymentsInit /\ EvidenceInv /\ QuoteInv /\ RevokedInv /\ AccountedInv
                /\ StateIsBacked /\ EverySignatureIsWithinRail
<1>1. PaymentsInit => RevokedInv /\ StateIsBacked /\ EverySignatureIsWithinRail
  BY DEF PaymentsInit, SignerInit, LedgerInit, Empty, RevokedInv, TooLate, StateIsBacked, Exists,
         EverySignatureIsWithinRail
<1>2. QED
  BY <1>1, EvidenceInit, QuoteInit, AccountedInit DEF RunsInit

LEMMA RunsEvidenceHolds == RunsSpec => []EvidenceInv
<1>1. RunsInv /\ RunQuoteInv /\ EvidenceInv /\ [RunsNext]_allVars => EvidenceInv'
  BY RunsCallServices, EvidenceServed
<1>2. QED
  BY <1>1, RunsStartServices, RunsInvHolds, RunQuoteHolds, PTL DEF RunsSpec

LEMMA RunsAsQuoted == RunsSpec => []QuoteInv
<1>1. RunsInv /\ RunQuoteInv /\ QuoteInv /\ [RunsNext]_allVars => QuoteInv'
  BY RunsCallServices, QuoteServed
<1>2. QED
  BY <1>1, RunsStartServices, RunsInvHolds, RunQuoteHolds, PTL DEF RunsSpec

(* The orchestrator over the services still implements Authorization: its   *)
(* restarts, retries, timers and races add no grant that was not asked for, *)
(* no second one, and none outside the rail. *)
THEOREM RunsImplementAuthorization == RunsSpec => ImplementsAuthorization
<1>1. RunsInv /\ RunQuoteInv /\ [RunsNext]_allVars => [Abstract!AuthNext]_Abstract!authVars
  BY RunsCallServices, ServesAbstractly
<1>2. RunsInit => Abstract!AuthInit
  BY AbstractInit, RunsStartServices
<1>3. QED
  BY <1>1, <1>2, RunsInvHolds, RunQuoteHolds, PTL
     DEF RunsSpec, ImplementsAuthorization, Abstract!AuthSpec

(* A receipt a run leaves behind recomputes the nonce of a signature. *)
THEOREM RunsRecomputeNonce == RunsSpec => []ReceiptRecomputesNonce
<1>1. EvidenceInv => ReceiptRecomputesNonce
  BY DEF EvidenceInv
<1>2. QED
  BY <1>1, RunsEvidenceHolds, PTL

(* An escalation a run suspended on is stored as approved only with a      *)
(* signature behind it. *)
THEOREM RunsBackApprovals == RunsSpec => []ApprovalIsBacked
<1>1. EvidenceInv => ApprovalIsBacked
  BY DEF EvidenceInv
<1>2. QED
  BY <1>1, RunsEvidenceHolds, PTL

(* The orchestrator asks for the quote it attached, so what is signed for  *)
(* a run is the quote on record, to the pinned recipient. *)
THEOREM RunsSignAsQuoted == RunsSpec => []SignedAsQuoted
<1>1. QuoteInv => SignedAsQuoted
  BY DEF QuoteInv, PinnedAndOnRecord, OnRecord, WithinRail, SignedAsQuoted
<1>2. QED
  BY <1>1, RunsAsQuoted, PTL

(* A run's signed nonce stays burned through its settlement and capture. *)
THEOREM RunsBurnNonce == RunsSpec => []SignedNonceIsBurned
<1>1. RunsInv => SignedNonceIsBurned
  BY DEF RunsInv, Inv, SigningInv
<1>2. QED
  BY <1>1, RunsInvHolds, PTL

(* A run that asks for a payment after the mandate was revoked gets none. *)
THEOREM RunsStopOnRevocation == RunsSpec => []RevocationStopsPayments
<1>1. RunsInv /\ RunQuoteInv /\ RevokedInv /\ [RunsNext]_allVars => RevokedInv'
  BY RunsCallServices, RevokedServed
<1>2. RevokedInv => RevocationStopsPayments
  BY DEF RevokedInv, TooLate, RefusalPath, Final, RevocationStopsPayments
<1>3. QED
  BY <1>1, <1>2, RunsStartServices, RunsInvHolds, RunQuoteHolds, PTL DEF RunsSpec

(* An orchestrator that fails, restarts or stops listening locks no nonce:  *)
(* only a fault that stops the handler itself can. *)
THEOREM RunsAccountForNonces ==
    ASSUME HandlersStay
    PROVE  RunsSpec => []LiveNonceIsAccountedFor
<1>1. RunsInv /\ RunQuoteInv /\ EvidenceInv /\ AccountedInv /\ [RunsNext]_allVars
         => AccountedInv'
  BY RunsCallServices, AccountedServed
<1>2. AccountedInv => LiveNonceIsAccountedFor
  BY DEF AccountedInv
<1>3. QED
  BY <1>1, <1>2, RunsStartServices, RunsInvHolds, RunQuoteHolds, RunsEvidenceHolds, PTL
     DEF RunsSpec

(* Driven by runs, an intent's state is backed by the evidence it stands   *)
(* for, up to SETTLED and CAPTURED. *)
THEOREM RunsStateStaysBacked == RunsSpec => []StateIsBacked
<1>1. RunsInv /\ RunQuoteInv /\ StateIsBacked /\ [RunsNext]_allVars => StateIsBacked'
  BY RunsCallServices, ServesCallsLedger, BackedStep DEF Base
<1>2. QED
  BY <1>1, RunsStartServices, RunsInvHolds, RunQuoteHolds, PTL DEF RunsSpec

(* A run adds its spend, settlement and capture to what the services wrote *)
(* and replaces none of it. *)
THEOREM RunsKeepEvidence == RunsSpec => EvidenceIsWriteOnce
<1>1. RunsInv /\ RunQuoteInv /\ StateIsBacked /\ [RunsNext]_allVars =>
         [\A r \in Requests :
            /\ (Exists(r) /\ intents'[r] # None)
                  => KeepsEvidence(intents[r], intents'[r])
            /\ (escalations[r] # None /\ escalations'[r] # None)
                  => KeepsQuestion(escalations[r], escalations'[r])]_ledgerVars
  BY RunsCallServices, ServesCallsLedger, KeepsStep, QuestionStep DEF Base
<1>2. QED
  BY <1>1, RunsInvHolds, RunQuoteHolds, RunsStateStaysBacked, PTL
     DEF RunsSpec, EvidenceIsWriteOnce

(* Nor does it replace a live nonce, or free a signed one. *)
THEOREM RunsKeepNonceExclusive == RunsSpec => LiveNonceIsExclusive
<1>1. RunsInv /\ RunQuoteInv /\ StateIsBacked /\ [RunsNext]_allVars =>
         [\A r \in Requests : (Exists(r) /\ intents'[r] # None)
             => KeepsNonce(intents[r], intents'[r])]_ledgerVars
  BY RunsCallServices, ServesCallsLedger, KeepsStep DEF Base
<1>2. QED
  BY <1>1, RunsInvHolds, RunQuoteHolds, RunsStateStaysBacked, PTL
     DEF RunsSpec, LiveNonceIsExclusive

(* Every signature a run obtains is within the rail. *)
THEOREM RunsStayWithinRail == RunsSpec => []EverySignatureIsWithinRail
<1>1. RunsInv /\ RunQuoteInv /\ EverySignatureIsWithinRail /\ [RunsNext]_allVars
         => EverySignatureIsWithinRail'
  BY RunsCallServices, ServesCallsSigner, RailKept
<1>2. QED
  BY <1>1, RunsStartServices, RunsInvHolds, RunQuoteHolds, PTL DEF RunsSpec
-----------------------------------------------------------------------------
(* What a run that is DONE leaves on record                               *)

Done(r) == runs[r] # None /\ runs[r].state = "DONE"

(* A task past the signature is the caller of the handler that signed, and *)
(* what it checked and recorded so far is still there when it goes on. *)
PaidSoFar(c) ==
    (task[c] # None /\ task[c].stage \in AfterSignature) =>
        /\ pc[c] = "signed"
        /\ task[c].stage \in {"recordSettlement", "recordCapture"} =>
               MatchingTransfer(task[c].tx, runs[RunOf(c)].challenge)
        /\ Exists(RunOf(c)) =>
              /\ task[c].stage \in {"confirm", "recordSettlement", "recordCapture"} =>
                     intents[RunOf(c)].spend # None
              /\ task[c].stage = "recordCapture" => intents[RunOf(c)].settlement = task[c].tx

(* The one task that paid for the run is over. *)
Payer(c, r) ==
    /\ task[c] # None /\ RunOf(c) = r /\ task[c].stage = "ended"
    /\ IsFor(c, r) /\ pc[c] = "signed"

SettledAsQuoted(i, run) ==
    /\ i.state = "CAPTURED" /\ i.spend # None
    /\ i.settlement # None /\ i.capture.tx = i.settlement
    /\ MatchingTransfer(i.settlement, run.challenge)

DoneOnRecord(r) ==
    Done(r) => /\ \E c \in Clients : Payer(c, r)
               /\ Exists(r) => SettledAsQuoted(intents[r], runs[r])

SettledInv ==
    /\ \A c \in Clients : PaidSoFar(c)
    /\ \A r \in Requests : DoneOnRecord(r)

(* Whoever signed for a request is alone with it: nobody else signs,       *)
(* records or releases, and no task of an early stage is left. *)
LEMMA SignerIsAlone ==
    ASSUME RunsInv, NEW c \in Clients, NEW r \in Requests, IsFor(c, r), pc[c] = "signed"
    PROVE  /\ \A d \in Clients : IsFor(d, r) =>
                  /\ pc[d] \notin {"release", "recordSigned"}
                  /\ pc[d] = "signed" => d = c
           /\ Exists(r) => LiveNonce(r)
           /\ \A d \in Clients : task[d] # None /\ RunOf(d) = r => task[d].stage \notin Early
<1>1. PICK s \in signatures : s.client = c /\ s.request.requestId = r
  BY DEF RunsInv, ServedInv, ToldIsSigner, IsFor
<1>2. ASSUME NEW d \in Clients, IsFor(d, r), pc[d] \in Told \cup {"signed"}
      PROVE  d = c
  <2>1. PICK u \in signatures : u.client = d /\ u.request.requestId = r
    BY <1>2 DEF RunsInv, ServedInv, ToldIsSigner, IsFor
  <2>2. u = s
    BY <1>1, <2>1 DEF RunsInv, Inv, SigningInv, AtMostOneSignature
  <2>3. QED
    BY <1>1, <2>1, <2>2
<1>3. ASSUME NEW d \in Clients, IsFor(d, r)
      PROVE  pc[d] # "release"
  BY <1>1, <1>3 DEF RunsInv, Inv, SigningInv, NoHolderOnceSigned, Holds, IsFor
<1>4. Exists(r) => LiveNonce(r)
  BY <1>1 DEF RunsInv, Inv, SigningInv, SignedNonceIsBurned
<1>5. \A d \in Clients : task[d] # None /\ RunOf(d) = r => task[d].stage \notin Early
  BY DEF RunsInv, RunInv, EarlyIsAlone
<1>6. QED
  BY <1>2, <1>3, <1>4, <1>5 DEF Told

LEMMA PayerIsSigner ==
    ASSUME RunsInv, SettledInv, NEW c \in Clients, task[c] # None,
           task[c].stage \in AfterSignature
    PROVE  IsFor(c, RunOf(c)) /\ pc[c] = "signed" /\ RunOf(c) \in Requests
BY TaskFacts DEF RunsInv, RunInv, CallerIsServed, SettledInv, PaidSoFar, AfterSignature, Early

(* What a step leaves to a run that was paid for. *)
SettledKept(r) ==
    intents'[r] # None =>
        /\ intents[r] # None
        /\ intents'[r].state = intents[r].state /\ intents'[r].spend = intents[r].spend
        /\ intents'[r].settlement = intents[r].settlement
        /\ intents'[r].capture = intents[r].capture

PayingKept(c) ==
    (task'[c] # None /\ task'[c].stage \in AfterSignature) =>
        /\ task[c] # None /\ task'[c] = task[c]
        /\ SettledKept(RunOf(c)) /\ runs'[RunOf(c)] # None
        /\ runs'[RunOf(c)].challenge = runs[RunOf(c)].challenge

EndedKept(c) == (task[c] # None /\ task[c].stage = "ended") => task'[c] = task[c]

DoneKept(r) == Done(r)' => Done(r) /\ SettledKept(r) /\ runs'[r].challenge = runs[r].challenge

SignerKept(c) == pc[c] = "signed" => pc'[c] = "signed" /\ body'[c] = body[c]

LEMMA SettledFrame ==
    ASSUME SettledInv, \A c \in Clients : SignerKept(c),
           \A c \in Clients : PaidSoFar(c)' \/ PayingKept(c),
           \A r \in Requests : DoneOnRecord(r)' \/ DoneKept(r),
           (\A c \in Clients : EndedKept(c)) \/ \A r \in Requests : ~Done(r)'
    PROVE  SettledInv'
<1>1. ASSUME NEW c \in Clients, PayingKept(c)
      PROVE  PaidSoFar(c)'
  <2> SUFFICES ASSUME task'[c] # None, task'[c].stage \in AfterSignature
               PROVE  PaidSoFar(c)'
    BY DEF PaidSoFar
  <2>1. /\ task[c] # None /\ task'[c] = task[c] /\ task[c].stage \in AfterSignature
        /\ SettledKept(RunOf(c)) /\ RunOf(c)' = RunOf(c)
        /\ runs'[RunOf(c)].challenge = runs[RunOf(c)].challenge
    BY <1>1 DEF PayingKept, RunOf
  <2>2. PaidSoFar(c) /\ SignerKept(c)
    BY DEF SettledInv
  <2>3. QED
    BY <2>1, <2>2 DEF PaidSoFar, SettledKept, SignerKept, Exists, MatchingTransfer
<1>2. ASSUME NEW r \in Requests, DoneKept(r), Done(r)', \A c \in Clients : EndedKept(c)
      PROVE  DoneOnRecord(r)'
  <2>1. /\ Done(r) /\ SettledKept(r) /\ runs'[r].challenge = runs[r].challenge
        /\ DoneOnRecord(r)
    BY <1>2 DEF DoneKept, SettledInv
  <2>2. PICK c \in Clients : Payer(c, r)
    BY <2>1 DEF DoneOnRecord
  <2>3. Payer(c, r)'
    BY <1>2, <2>2 DEF Payer, EndedKept, SignerKept, IsFor, Req, RunOf
  <2>4. Exists(r)' => SettledAsQuoted(intents[r], runs[r])'
    BY <2>1 DEF DoneOnRecord, SettledKept, SettledAsQuoted, Exists, MatchingTransfer
  <2>5. QED
    BY <2>3, <2>4 DEF DoneOnRecord
<1>3. QED
  BY <1>1, <1>2 DEF SettledInv, DoneOnRecord

(* A task of an early stage, or one whose handler signed, is not over, and *)
(* so neither is its run. *)
LEMMA NotDoneYet ==
    ASSUME RunsInv, SettledInv, NEW c \in Clients, task[c] # None, task[c].stage # "ended",
           task[c].stage \in Early \/ pc[c] = "signed"
    PROVE  ~Done(RunOf(c))
<1>1. RunInv
  BY DEF RunsInv
<1>2. CASE task[c].stage \in Early
  BY <1>1, <1>2 DEF RunInv, EarlyIsAlone, Done
<1>3. CASE task[c].stage \notin Early /\ pc[c] = "signed"
  <2> SUFFICES ASSUME Done(RunOf(c)) PROVE FALSE
    OBVIOUS
  <2>1. IsFor(c, RunOf(c)) /\ RunOf(c) \in Requests
    BY <1>1, <1>3, TaskFacts DEF RunInv, CallerIsServed
  <2>2. PICK d \in Clients : Payer(d, RunOf(c))
    BY <2>1 DEF SettledInv, DoneOnRecord
  <2>3. d = c
    BY <1>3, <2>1, <2>2, SignerIsAlone DEF Payer
  <2>4. QED
    BY <2>2, <2>3 DEF Payer
<1>4. QED
  BY <1>2, <1>3

(* A step of one task leaves every other run that was paid for as it is. *)
LEMMA TaskSettles ==
    ASSUME RunsInv, SettledInv, NEW c \in Clients, task[c] # None, task[c].stage # "ended",
           NEW r \in Requests, r = RunOf(c),
           \A d \in Clients : SignerKept(d),
           \A d \in Clients : d # c => task'[d] = task[d],
           \A q \in Requests : q # r => runs'[q] = runs[q] /\ intents'[q] = intents[q],
           runs'[r] # None,
           \/ task[c].stage \in Early \cup AfterSignature
           \/ intents' = intents /\ runs'[r].challenge = runs[r].challenge,
           PaidSoFar(c)',
           DoneOnRecord(r)' \/ DoneKept(r)
    PROVE  SettledInv'
<1>1. RunInv
  BY DEF RunsInv
<1>2. \A q \in Requests : DoneOnRecord(q)' \/ DoneKept(q)
  BY DEF DoneKept, SettledKept, Done
<1>3. ASSUME NEW d \in Clients, d # c
      PROVE  PayingKept(d)
  <2> SUFFICES ASSUME task'[d] # None, task'[d].stage \in AfterSignature
               PROVE  /\ task[d] # None /\ task'[d] = task[d]
                      /\ SettledKept(RunOf(d)) /\ runs'[RunOf(d)] # None
                      /\ runs'[RunOf(d)].challenge = runs[RunOf(d)].challenge
    BY DEF PayingKept
  <2>1. task'[d] = task[d] /\ task[d] # None /\ task[d].stage \in AfterSignature
    BY <1>3
  <2>2. IsFor(d, RunOf(d)) /\ pc[d] = "signed" /\ RunOf(d) \in Requests
    BY <2>1, PayerIsSigner
  <2>3. runs[RunOf(d)] # None
    BY <1>1, <2>1, TaskFacts DEF AfterSignature
  <2>4. CASE RunOf(d) # r
    BY <2>1, <2>2, <2>3, <2>4 DEF SettledKept
  <2>5. CASE RunOf(d) = r
    <3>1. task[c].stage \notin Early
      BY <2>2, <2>5, SignerIsAlone
    <3>2. task[c].stage \notin AfterSignature
      BY <1>3, <2>2, <2>5, PayerIsSigner, SignerIsAlone
    <3>3. QED
      BY <2>1, <2>5, <3>1, <3>2 DEF SettledKept
  <2>6. QED
    BY <2>4, <2>5
<1>4. \A d \in Clients : EndedKept(d)
  BY DEF EndedKept
<1>5. QED
  BY <1>2, <1>3, <1>4, SettledFrame

(* A task that awaits no ledger settles nothing and ends no run as DONE.   *)
LEMMA QuietSettles ==
    ASSUME RunsInv, SettledInv, NEW c \in Clients,
           \/ PaymentAnswered(c) \/ EscalationAnswered(c) \/ ExpiryAnswered(c)
           \/ CheckedOut(c) \/ CardIssued(c) \/ ConfirmSettlement(c) \/ CallFails(c)
           \/ PolicyUnheard(c)
    PROVE  SettledInv'
<1>1. /\ RunInv /\ task[c] # None /\ task[c].stage # "ended" /\ UNCHANGED vars
  BY DEF RunsInv, PaymentAnswered, EscalationAnswered, ExpiryAnswered, CheckedOut, CardIssued,
         ConfirmSettlement, CallFails, PolicyUnheard, Calling, Doing
<1>2. PICK r \in Requests : r = RunOf(c)
  BY <1>1, TaskFacts
<1>3. task[c] \in Task /\ runs[r] \in RunRecord /\ runs[r] # None
  BY <1>1, <1>2, TaskFacts
<1>4. UNCHANGED <<intents, pc, body>>
  BY <1>1 DEF vars, ledgerVars, serviceVars
<1>5. \/ runs' = runs
      \/ \E state \in RunStates \ {"DONE"}, outcome \in Outcomes : SetRun(r, state, outcome)
  BY <1>2 DEF PaymentAnswered, EscalationAnswered, ExpiryAnswered, CheckedOut, CardIssued,
              ConfirmSettlement, CallFails, PolicyUnheard, PresentHeader, Fail, RunStates, Outcomes
<1>6. /\ \A q \in Requests : q # r => runs'[q] = runs[q] /\ intents'[q] = intents[q]
      /\ runs'[r] # None /\ runs'[r].challenge = runs[r].challenge
      /\ runs' = runs \/ runs'[r].state # "DONE"
  <2>1. CASE runs' = runs
    BY <1>3, <1>4, <2>1
  <2>2. ASSUME NEW state \in RunStates \ {"DONE"}, NEW outcome \in Outcomes,
               SetRun(r, state, outcome)
        PROVE  /\ \A q \in Requests : q # r => runs'[q] = runs[q]
               /\ runs'[r] # None /\ runs'[r].challenge = runs[r].challenge
               /\ runs'[r].state # "DONE"
    <3> DEFINE run == [runs[r] EXCEPT !.state = state, !.outcome = outcome]
    <3>1. run \in RunRecord /\ run.challenge = runs[r].challenge /\ run.state = state
      BY <1>3 DEF RunRecord, Or
    <3>2. runs' = [runs EXCEPT ![r] = run]
      BY <2>2 DEF SetRun
    <3> HIDE DEF run
    <3>3. QED
      BY <1>1, <3>1, <3>2, RunsAssumption DEF RunInv, MemoryTypeOK
  <2>3. QED
    BY <1>3, <1>4, <1>5, <2>1, <2>2
<1>7. DoneKept(r)
  BY <1>4, <1>6 DEF DoneKept, Done, SettledKept
<1>8. \A d \in Clients : d # c => task'[d] = task[d]
  BY <1>1 DEF PaymentAnswered, EscalationAnswered, ExpiryAnswered, CheckedOut, CardIssued,
         ConfirmSettlement, CallFails, PolicyUnheard, PresentHeader, Fail, Become, RunInv,
         MemoryTypeOK
<1>9. PaidSoFar(c)'
  <2>1. RunOf(c)' = r
    BY <1>1, <1>2, <1>3
       DEF PaymentAnswered, EscalationAnswered, ExpiryAnswered, CheckedOut, CardIssued,
           ConfirmSettlement, CallFails, PolicyUnheard, PresentHeader, Fail, Become, RunOf,
           Task, RunInv, MemoryTypeOK
  <2>2. CASE task'[c].stage = "ended"
    BY <2>2 DEF PaidSoFar, AfterSignature
  <2>3. CASE PaymentAnswered(c) \/ EscalationAnswered(c) \/ ExpiryAnswered(c)
    <3>1. task'[c].stage = "ended" \/ (task'[c].stage = "payAndIssue" /\ pc[c] = "signed")
      BY <1>1, <1>3, <2>3 DEF PaymentAnswered, EscalationAnswered, ExpiryAnswered,
         PresentHeader, Fail, Become, RunInv, MemoryTypeOK, Task
    <3>2. QED
      BY <1>4, <2>2, <3>1 DEF PaidSoFar, AfterSignature
  <2>4. CASE CheckedOut(c) \/ CardIssued(c)
    <3>1. task'[c].stage \in {"checkout", "recordSpend"} /\ task[c].stage \in AfterSignature
      BY <1>1, <1>3, <2>4 DEF CheckedOut, CardIssued, Calling, RunInv, MemoryTypeOK, Task,
         AfterSignature
    <3>2. QED
      BY <1>4, <3>1, PayerIsSigner, <1>1 DEF PaidSoFar
  <2>5. CASE ConfirmSettlement(c)
    <3>1. task'[c].stage # "ended" =>
              /\ task[c].stage = "confirm" /\ runs[r] = runs'[r]
              /\ task'[c] = [task[c] EXCEPT !.stage = "recordSettlement"]
              /\ MatchingTransfer(task[c].tx, runs[r].challenge)
      BY <1>1, <1>2, <1>3, <2>5 DEF ConfirmSettlement, Calling, Fail, Become, RunInv,
         MemoryTypeOK, Task
    <3>2. CASE task'[c].stage # "ended"
      <4>1. pc[c] = "signed" /\ (Exists(r) => intents[r].spend # None)
        BY <1>1, <1>2, <3>1, <3>2 DEF SettledInv, PaidSoFar, AfterSignature
      <4>2. task'[c].tx = task[c].tx /\ task'[c].stage = "recordSettlement"
        BY <1>3, <3>1, <3>2 DEF Task
      <4>3. QED
        BY <1>4, <2>1, <3>1, <3>2, <4>1, <4>2 DEF PaidSoFar, MatchingTransfer, Exists
    <3>3. QED
      BY <2>2, <3>2
  <2>6. CASE CallFails(c) \/ PolicyUnheard(c)
    BY <1>1, <1>3, <2>2, <2>6 DEF CallFails, PolicyUnheard, Fail, Become, RunInv, MemoryTypeOK, Task
  <2>7. QED
    BY <2>3, <2>4, <2>5, <2>6
<1>10. QED
  BY <1>1, <1>2, <1>4, <1>6, <1>7, <1>8, <1>9, TaskSettles DEF SignerKept

(* Before a run has paid, nothing it does is settled. *)
LEMMA EarlySettles ==
    ASSUME RunsInv, SettledInv, NEW c \in Clients,
           CallCreateIntent(c) \/ CallGetCard(c) \/ CallAttachChallenge(c) \/ CallRequestPayment(c)
    PROVE  SettledInv'
<1>1. RunInv /\ LedgerTypeOK /\ task[c] # None /\ task[c].stage \in Early
  BY DEF RunsInv, Inv, Base, CallCreateIntent, CallGetCard, CallAttachChallenge,
         CallRequestPayment, Calling, Early
<1>2. PICK r \in Requests : r = RunOf(c)
  BY <1>1, TaskFacts DEF Early
<1>3. task[c] \in Task /\ runs[r] \in RunRecord /\ runs[r] # None /\ ~Done(r)
  BY <1>1, <1>2, TaskFacts, NotDoneYet DEF Early
<1>4. \A q \in Requests : q # r => intents'[q] = intents[q]
  BY <1>1, <1>2 DEF CallCreateIntent, CallGetCard, CallAttachChallenge, CallRequestPayment,
     CreateIntent, AttachChallenge, UpdateIntent, Begin, vars, ledgerVars, LedgerTypeOK
<1>5. /\ \A d \in Clients : d # c => task'[d] = task[d]
      /\ task'[c].stage \in TaskStages \ AfterSignature
  BY <1>1, <1>3 DEF CallCreateIntent, CallGetCard, CallAttachChallenge, CallRequestPayment,
     LedgerAnswers, Fail, Become, RunInv, MemoryTypeOK, Task, TaskStages, AfterSignature
<1>6. /\ \A q \in Requests : q # r => runs'[q] = runs[q]
      /\ runs'[r] # None /\ runs'[r].state # "DONE"
  <2>1. \/ runs' = runs
        \/ \E outcome \in Outcomes : SetRun(r, "FAILED", outcome)
        \/ \E ch \in Challenges : runs' = [runs EXCEPT ![r].challenge = ch]
    BY <1>2 DEF CallCreateIntent, CallGetCard, CallAttachChallenge, CallRequestPayment,
       LedgerAnswers, Fail, Outcomes
  <2>2. CASE runs' = runs
    BY <1>3, <2>2 DEF Done
  <2>3. ASSUME NEW outcome \in Outcomes, SetRun(r, "FAILED", outcome)
        PROVE  /\ \A q \in Requests : q # r => runs'[q] = runs[q]
               /\ runs'[r] # None /\ runs'[r].state # "DONE"
    <3> DEFINE run == [runs[r] EXCEPT !.state = "FAILED", !.outcome = outcome]
    <3>1. run \in RunRecord /\ run.state = "FAILED"
      BY <1>3 DEF RunRecord, Or, RunStates
    <3>2. runs' = [runs EXCEPT ![r] = run]
      BY <2>3 DEF SetRun
    <3> HIDE DEF run
    <3>3. QED
      BY <1>1, <3>1, <3>2, RunsAssumption DEF RunInv, MemoryTypeOK
  <2>4. ASSUME NEW ch \in Challenges, runs' = [runs EXCEPT ![r].challenge = ch]
        PROVE  /\ \A q \in Requests : q # r => runs'[q] = runs[q]
               /\ runs'[r] # None /\ runs'[r].state # "DONE"
    <3> DEFINE run == [runs[r] EXCEPT !.challenge = ch]
    <3>1. run \in RunRecord /\ run.state = runs[r].state
      BY <1>3 DEF RunRecord, Or
    <3>2. runs' = [runs EXCEPT ![r] = run]
      BY <2>4
    <3> HIDE DEF run
    <3>3. QED
      BY <1>1, <1>3, <3>1, <3>2, RunsAssumption DEF RunInv, MemoryTypeOK, Done
  <2>5. QED
    BY <2>1, <2>2, <2>3, <2>4
<1>7. \A d \in Clients : SignerKept(d)
  <2>1. \/ UNCHANGED <<pc, body>>
        \/ \E b : Begin(c, b, "getIntent")
    BY DEF CallCreateIntent, CallGetCard, CallAttachChallenge, CallRequestPayment,
       LedgerAnswers, vars, serviceVars
  <2>2. QED
    BY <2>1 DEF Begin, Goto, SignerKept, RunsInv, Inv, Base, ServiceTypeOK
<1>8. PaidSoFar(c)' /\ DoneOnRecord(r)'
  BY <1>5, <1>6 DEF PaidSoFar, DoneOnRecord, Done
<1>9. QED
  BY <1>1, <1>2, <1>4, <1>5, <1>6, <1>7, <1>8, TaskSettles DEF Early

(* What the calls of a task that has paid leave in its intent. *)
LEMMA AddedFields ==
    ASSUME LedgerTypeOK, NEW r \in Requests, NEW o, NEW tx
    PROVE  /\ RecordSpend(r, o) => intents'[r].spend = o
           /\ RecordSettlement(r, tx) => /\ intents'[r].spend = intents[r].spend
                                         /\ intents'[r].settlement = tx
           /\ RecordCapture(r, o, tx) => /\ intents'[r].spend = intents[r].spend
                                         /\ intents'[r].settlement = intents[r].settlement
                                         /\ intents'[r].state = "CAPTURED"
                                         /\ intents'[r].capture.tx = intents[r].settlement
<1>1. Exists(r) => intents[r] \in IntentRecord
  BY IntentIsRecord
<1>2. ASSUME NEW record, UpdateIntent(r, record)
      PROVE  intents'[r] = record
  BY <1>2 DEF UpdateIntent, LedgerTypeOK
<1>3. RecordSpend(r, o) => intents'[r].spend = o
  <2> DEFINE record == [intents[r] EXCEPT !.spend = o]
  <2>1. Exists(r) => record.spend = o
    BY <1>1 DEF IntentRecord
  <2>2. RecordSpend(r, o) => Exists(r) /\ UpdateIntent(r, record)
    BY DEF RecordSpend
  <2> HIDE DEF record
  <2>3. QED
    BY <1>2, <2>1, <2>2
<1>4. RecordSettlement(r, tx) => /\ intents'[r].spend = intents[r].spend
                                 /\ intents'[r].settlement = tx
  <2> DEFINE record == [intents[r] EXCEPT !.settlement = tx, !.state = "SETTLED"]
  <2>1. Exists(r) => record.spend = intents[r].spend /\ record.settlement = tx
    BY <1>1 DEF IntentRecord
  <2>2. RecordSettlement(r, tx) => Exists(r) /\ UpdateIntent(r, record)
    BY DEF RecordSettlement
  <2> HIDE DEF record
  <2>3. QED
    BY <1>2, <2>1, <2>2
<1>5. RecordCapture(r, o, tx) => /\ intents'[r].spend = intents[r].spend
                                 /\ intents'[r].settlement = intents[r].settlement
                                 /\ intents'[r].state = "CAPTURED"
                                 /\ intents'[r].capture.tx = intents[r].settlement
  <2> DEFINE record == [intents[r] EXCEPT
                            !.capture = [order |-> o, tx |-> intents[r].settlement],
                            !.state = "CAPTURED"]
  <2>1. Exists(r) => /\ record.spend = intents[r].spend
                     /\ record.settlement = intents[r].settlement
                     /\ record.state = "CAPTURED" /\ record.capture.tx = intents[r].settlement
    BY <1>1 DEF IntentRecord
  <2>2. RecordCapture(r, o, tx) => Exists(r) /\ UpdateIntent(r, record)
    BY DEF RecordCapture
  <2> HIDE DEF record
  <2>3. QED
    BY <1>2, <2>1, <2>2
<1>6. QED
  BY <1>3, <1>4, <1>5

(* Spend, settlement and capture are recorded in this order and by the one *)
(* task that paid; with the last of them the run is DONE. *)
LEMMA EvidenceSettles ==
    ASSUME RunsInv, SettledInv, NEW c \in Clients,
           CallRecordSpend(c) \/ CallRecordSettlement(c) \/ CallRecordCapture(c)
    PROVE  SettledInv'
<1>1. /\ RunInv /\ LedgerTypeOK /\ task[c] # None
      /\ task[c].stage \in AfterSignature
      /\ UNCHANGED <<pc, body>>
  BY DEF RunsInv, Inv, Base, CallRecordSpend, CallRecordSettlement, CallRecordCapture, Calling,
         AfterSignature, LedgerAnswers, serviceVars
<1>2. PICK r \in Requests : r = RunOf(c)
  BY <1>1, PayerIsSigner
<1>3. /\ task[c] \in Task /\ runs[r] \in RunRecord /\ runs[r] # None
      /\ TaskReady(task[c], runs[r])
      /\ IsFor(c, r) /\ pc[c] = "signed" /\ ~Done(r) /\ PaidSoFar(c)
  BY <1>1, <1>2, TaskFacts, NotDoneYet, PayerIsSigner DEF AfterSignature, SettledInv
<1>4. \A q \in Requests : q # r => intents'[q] = intents[q]
  BY <1>1, <1>2, CallsAdd, RecordAdds DEF LedgerTypeOK
<1>5. \A d \in Clients : d # c => task'[d] = task[d]
  BY <1>1 DEF CallRecordSpend, CallRecordSettlement, CallRecordCapture, LedgerAnswers, Fail,
     Become, RunInv, MemoryTypeOK
<1>6. \/ runs' = runs
      \/ \E state \in {"DONE", "FAILED"}, outcome \in Outcomes : SetRun(r, state, outcome)
  BY <1>2 DEF CallRecordSpend, CallRecordSettlement, CallRecordCapture, LedgerAnswers, Fail,
     Outcomes
<1>7. /\ \A q \in Requests : q # r => runs'[q] = runs[q]
      /\ runs'[r] # None /\ runs'[r].challenge = runs[r].challenge
  <2>1. ASSUME NEW state \in {"DONE", "FAILED"}, NEW outcome \in Outcomes,
               SetRun(r, state, outcome)
        PROVE  /\ \A q \in Requests : q # r => runs'[q] = runs[q]
               /\ runs'[r] # None /\ runs'[r].challenge = runs[r].challenge
    <3> DEFINE run == [runs[r] EXCEPT !.state = state, !.outcome = outcome]
    <3>1. run \in RunRecord /\ run.challenge = runs[r].challenge
      BY <1>3 DEF RunRecord, Or, RunStates
    <3>2. runs' = [runs EXCEPT ![r] = run]
      BY <2>1 DEF SetRun
    <3> HIDE DEF run
    <3>3. QED
      BY <1>1, <3>1, <3>2, RunsAssumption DEF RunInv, MemoryTypeOK
  <2>2. QED
    BY <1>3, <1>6, <2>1
<1>8. ASSUME NEW stage \in TaskStages, Become(c, stage)
      PROVE  /\ task'[c].stage = stage /\ task'[c].request = r /\ task'[c].tx = task[c].tx
             /\ task'[c] # None
  <2> DEFINE t == [task[c] EXCEPT !.stage = stage]
  <2>1. t \in Task /\ t.stage = stage /\ t.request = r /\ t.tx = task[c].tx
    BY <1>2, <1>3 DEF Task, RunOf
  <2>2. task' = [task EXCEPT ![c] = t]
    BY <1>8 DEF Become
  <2> HIDE DEF t
  <2>3. QED
    BY <1>1, <2>1, <2>2, RunsAssumption DEF RunInv, MemoryTypeOK
<1>9. CASE Fail(c)
  <2>1. task'[c].stage = "ended"
    BY <1>8, <1>9 DEF Fail, TaskStages
  <2>2. runs'[r].state = "FAILED"
    BY <1>1, <1>2, <1>3, <1>9 DEF Fail, SetRun, RunInv, MemoryTypeOK, RunRecord
  <2>3. PaidSoFar(c)' /\ DoneOnRecord(r)'
    BY <2>1, <2>2 DEF PaidSoFar, DoneOnRecord, Done, AfterSignature
  <2>4. QED
    BY <1>1, <1>2, <1>4, <1>5, <1>7, <2>3, TaskSettles DEF SignerKept, AfterSignature
<1>10. CASE CallRecordSpend(c) /\ ~Fail(c)
  <2>1. /\ Become(c, "confirm") /\ runs' = runs
        /\ RecordSpend(r, task[c].order) /\ task[c].stage = "recordSpend"
    BY <1>2, <1>10 DEF CallRecordSpend, LedgerAnswers, Calling
  <2>2. intents'[r].spend # None
    BY <1>1, <1>3, <2>1, AddedFields DEF TaskReady, AfterSignature
  <2>3. task'[c].stage = "confirm" /\ task'[c].request = r
    BY <1>8, <2>1 DEF TaskStages, AfterSignature
  <2>4. PaidSoFar(c)' /\ DoneOnRecord(r)'
    BY <1>1, <1>3, <2>1, <2>2, <2>3 DEF PaidSoFar, DoneOnRecord, Done, RunOf
  <2>5. QED
    BY <1>1, <1>2, <1>4, <1>5, <1>7, <2>4, TaskSettles DEF SignerKept, AfterSignature
<1>11. CASE CallRecordSettlement(c) /\ ~Fail(c)
  <2>1. /\ Become(c, "recordCapture") /\ runs' = runs
        /\ RecordSettlement(r, task[c].tx) /\ task[c].stage = "recordSettlement"
    BY <1>2, <1>11 DEF CallRecordSettlement, LedgerAnswers, Calling
  <2>2. /\ MatchingTransfer(task[c].tx, runs[r].challenge)
        /\ intents[r].spend # None
    BY <1>1, <1>2, <1>3, <2>1 DEF PaidSoFar, RecordSettlement
  <2>3. intents'[r].spend # None /\ intents'[r].settlement = task[c].tx
    BY <1>1, <2>1, <2>2, AddedFields
  <2>4. task'[c].stage = "recordCapture" /\ task'[c].request = r /\ task'[c].tx = task[c].tx
    BY <1>8, <2>1 DEF TaskStages, AfterSignature
  <2>5. PaidSoFar(c)' /\ DoneOnRecord(r)'
    BY <1>1, <1>3, <2>1, <2>2, <2>3, <2>4
       DEF PaidSoFar, DoneOnRecord, Done, RunOf, MatchingTransfer
  <2>6. QED
    BY <1>1, <1>2, <1>4, <1>5, <1>7, <2>5, TaskSettles DEF SignerKept, AfterSignature
<1>12. CASE CallRecordCapture(c) /\ ~Fail(c)
  <2>1. /\ Become(c, "ended")
        /\ RecordCapture(r, task[c].order, task[c].tx) /\ task[c].stage = "recordCapture"
    BY <1>2, <1>12 DEF CallRecordCapture, Calling
  <2>2. /\ MatchingTransfer(task[c].tx, runs[r].challenge)
        /\ intents[r].spend # None /\ intents[r].settlement = task[c].tx
        /\ intents[r].settlement # None
    BY <1>1, <1>2, <1>3, <2>1 DEF PaidSoFar, RecordCapture
  <2>3. /\ intents'[r].spend # None /\ intents'[r].settlement = task[c].tx
        /\ intents'[r].settlement # None
        /\ intents'[r].state = "CAPTURED" /\ intents'[r].capture.tx = intents'[r].settlement
    BY <1>1, <2>1, <2>2, AddedFields
  <2>4. task'[c].stage = "ended" /\ task'[c].request = r /\ task'[c] # None
    BY <1>8, <2>1 DEF TaskStages
  <2>5. PaidSoFar(c)' /\ Payer(c, r)'
    BY <1>1, <1>3, <2>4 DEF PaidSoFar, AfterSignature, Payer, RunOf, IsFor, Req
  <2>6. SettledAsQuoted(intents[r], runs[r])'
    BY <1>7, <2>2, <2>3 DEF SettledAsQuoted, MatchingTransfer
  <2>7. DoneOnRecord(r)'
    BY <2>5, <2>6 DEF DoneOnRecord
  <2>8. QED
    BY <1>1, <1>2, <1>4, <1>5, <1>7, <2>5, <2>7, TaskSettles DEF SignerKept, AfterSignature
<1>13. QED
  BY <1>9, <1>10, <1>11, <1>12

(* The services leave a paid run alone: its signer has no other handler to *)
(* fear. *)
LEMMA ServicesSettle ==
    ASSUME RunsInv, SettledInv, UNCHANGED runVars,
           \/ \E c \in Clients : HandlerStep(c) \/ SignerStep(c)
           \/ OwnerRevokes \/ PutPolicy \/ TimePasses \/ FaultStep
    PROVE  SettledInv'
<1>1. RunInv /\ ServicesMove /\ UNCHANGED <<runs, task>> /\ \A r \in Requests : Written(r)
  BY OutsideMoves, OutsideWrites DEF RunsInv, runVars
<1>2. \A c \in Clients : SignerKept(c)
  BY <1>1 DEF ServicesMove, SignerKept, Final
<1>3. ASSUME NEW c \in Clients, NEW r \in Requests, IsFor(c, r), pc[c] = "signed"
      PROVE  SettledKept(r)
  BY <1>1, <1>3, SignerIsAlone DEF Written, SettledKept, Exists
<1>4. ASSUME NEW c \in Clients
      PROVE  PayingKept(c)
  BY <1>1, <1>3, PayerIsSigner, TaskFacts DEF PayingKept, AfterSignature
<1>5. ASSUME NEW r \in Requests
      PROVE  DoneKept(r)
  BY <1>1, <1>3 DEF DoneKept, Done, SettledInv, DoneOnRecord, Payer
<1>6. \A c \in Clients : EndedKept(c)
  BY <1>1 DEF EndedKept
<1>7. QED
  BY <1>2, <1>4, <1>5, <1>6, SettledFrame

(* A task that begins joins no run that was paid for. *)
LEMMA BeginSettles ==
    ASSUME RunsInv, SettledInv, intents' = intents,
           \A d \in Clients : SignerKept(d),
           \A d \in Clients : \/ task'[d] = task[d]
                              \/ /\ task[d] = None
                                 /\ task'[d].stage \in {"createIntent", "awaitPolicy"},
           \/ runs' = runs
           \/ \E r \in Requests \ used :
                 /\ runs'[r].state = "RUNNING"
                 /\ \A q \in Requests : q # r => runs'[q] = runs[q]
    PROVE  SettledInv'
<1>1. RunInv
  BY DEF RunsInv
<1>2. ASSUME NEW d \in Clients
      PROVE  PayingKept(d)
  <2> SUFFICES ASSUME task'[d] # None, task'[d].stage \in AfterSignature
               PROVE  /\ task[d] # None /\ task'[d] = task[d]
                      /\ SettledKept(RunOf(d)) /\ runs'[RunOf(d)] # None
                      /\ runs'[RunOf(d)].challenge = runs[RunOf(d)].challenge
    BY DEF PayingKept
  <2>1. task'[d] = task[d] /\ task[d] # None /\ task[d].stage \in AfterSignature
    BY DEF AfterSignature
  <2>2. RunOf(d) \in Requests /\ RunOf(d) \in used /\ runs[RunOf(d)] # None
    BY <1>1, <2>1, TaskFacts DEF AfterSignature
  <2>3. QED
    BY <2>1, <2>2 DEF SettledKept
<1>3. \A r \in Requests : DoneKept(r)
  BY DEF DoneKept, Done, SettledKept
<1>4. \A d \in Clients : EndedKept(d)
  BY DEF EndedKept
<1>5. QED
  BY <1>2, <1>3, <1>4, SettledFrame

LEMMA RunSettledStep ==
    ASSUME RunsInv, SettledInv, [RunsNext]_allVars
    PROVE  SettledInv'
<1>1. RunInv /\ Inv
  BY DEF RunsInv
<1>2. CASE UNCHANGED allVars
  <2>1. UNCHANGED <<intents, pc, body, runs, task>>
    BY <1>2 DEF allVars, runVars, vars, ledgerVars, serviceVars
  <2>2. QED
    BY <2>1, BeginSettles DEF SignerKept
<1>3. ASSUME NEW c \in Clients, StartRun(c)
      PROVE  SettledInv'
  <2>1. PICK r \in Requests \ used, m \in Mandates, i \in Instructions :
            /\ runs' = [runs EXCEPT ![r] =
                   [mandate |-> m, instruction |-> i, challenge |-> None,
                    state |-> "RUNNING", outcome |-> None]]
            /\ task' = [task EXCEPT ![c] = NewTask("run", r, "createIntent")]
    BY <1>3 DEF StartRun
  <2>2. UNCHANGED <<intents, pc, body>> /\ task[c] = None
    BY <1>3 DEF StartRun, ledgerVars
  <2>3. /\ runs'[r].state = "RUNNING"
        /\ \A q \in Requests : q # r => runs'[q] = runs[q]
    BY <1>1, <2>1 DEF RunInv, MemoryTypeOK
  <2>4. \A d \in Clients : \/ task'[d] = task[d]
                           \/ task[d] = None /\ task'[d].stage = "createIntent"
    BY <1>1, <2>1, <2>2 DEF RunInv, MemoryTypeOK, NewTask
  <2>5. QED
    BY <2>2, <2>3, <2>4, BeginSettles DEF SignerKept
<1>4. ASSUME NEW c \in Clients, TaskStep(c)
      PROVE  SettledInv'
  BY <1>4, EarlySettles, QuietSettles, EvidenceSettles DEF TaskStep
<1>5. ASSUME NEW c \in Clients, NEW b, NEW does, NEW r, Begin(c, b, "getEscalation"),
             task[c] = None, task' = [task EXCEPT ![c] = NewTask(does, r, "awaitPolicy")],
             runs' = runs
      PROVE  SettledInv'
  <2>1. intents' = intents /\ \A d \in Clients : SignerKept(d)
    BY <1>1, <1>5 DEF Begin, Goto, ledgerVars, SignerKept, Inv, Base, ServiceTypeOK
  <2>2. \A d \in Clients : \/ task'[d] = task[d]
                           \/ task[d] = None /\ task'[d].stage = "awaitPolicy"
    BY <1>1, <1>5 DEF RunInv, MemoryTypeOK, NewTask
  <2>3. QED
    BY <1>5, <2>1, <2>2, BeginSettles
<1>6. ASSUME NEW c \in Clients, AnswerEscalation(c)
      PROVE  SettledInv'
  BY <1>5, <1>6 DEF AnswerEscalation
<1>7. ASSUME NEW r \in Requests, TimerFires(r)
      PROVE  SettledInv'
  <2>1. CASE UNCHANGED <<vars, task>> /\ runs' = runs
    <3>1. UNCHANGED <<intents, pc, body, runs, task>>
      BY <2>1 DEF vars, ledgerVars, serviceVars
    <3>2. QED
      BY <3>1, BeginSettles DEF SignerKept
  <2>2. QED
    BY <1>5, <1>7, <2>1 DEF TimerFires
<1>8. CASE OrchestratorRestart
  <2>1. /\ UNCHANGED <<intents, pc, body>>
        /\ \A r \in Requests : runs'[r] = None
        /\ \A d \in Clients : task[d] = None => task'[d] = None
        /\ \A d \in Clients : task[d] # None => task'[d] = [task[d] EXCEPT !.stage = "ended"]
    BY <1>8 DEF OrchestratorRestart, vars, ledgerVars, serviceVars, Empty
  <2>2. \A d \in Clients : task[d] # None => task[d] \in Task
    BY <1>1 DEF RunInv, MemoryTypeOK, Or
  <2>3. \A d \in Clients : PaidSoFar(d)'
    BY <2>1, <2>2 DEF PaidSoFar, Task, AfterSignature
  <2>4. QED
    BY <2>1, <2>3 DEF SettledInv, DoneOnRecord, Done
<1>9. ASSUME UNCHANGED runVars,
             \/ \E c \in Clients : HandlerStep(c) \/ SignerStep(c)
             \/ OwnerRevokes \/ PutPolicy \/ TimePasses \/ FaultStep
      PROVE  SettledInv'
  BY <1>9, ServicesSettle
<1>10. QED
  BY <1>2, <1>3, <1>4, <1>6, <1>7, <1>8, <1>9, QuietSettles DEF RunsNext, ServiceStep, ClockStep

LEMMA SettledHolds == RunsSpec => []SettledInv
<1>1. RunsInit => SettledInv
  BY DEF RunsInit, SettledInv, PaidSoFar, DoneOnRecord, Done, Empty
<1>2. QED
  BY <1>1, RunSettledStep, RunsInvHolds, PTL DEF RunsSpec
-----------------------------------------------------------------------------
(* Who the wallet pays                                                    *)

(* The body whose hash the owner put on chain for mandate m. *)
HashOf(m) == registry[m].policyHash

(* Somebody asked to pay for r under mandate m, and asked for the          *)
(* recipient that m names: a poisoned page did not get past check 4. *)
Asked(r, m) ==
    /\ m \in Mandates
    /\ \E d \in Clients : /\ PaysFor(d, r) /\ body[d].mandateId = m
                          /\ body[d].challenge.payTo = HashOf(m).recipient

Vouched(q) == Asked(q.requestId, q.mandateId) /\ q.to = HashOf(q.mandateId).recipient

PolicyStages == {"getWindow", "getMandate", "getStanding", "resolveIntent", "reserve", "sign"}
PastCheck4 == {"getStanding", "createEscalation", "reserve", "sign"}

(* Why the recipient of every signature is the one that was asked for:     *)
(* whatever is read of a policy is what its hash on chain says, and from   *)
(* check 4 on the payment, the question and its answer are about it. *)
BodyBegan == \A c \in Clients : body[c] # None => pc[c] # "idle"

PolicyIsHashed ==
    \A m \in Mandates : policies[m] # None => policies[m].policy = HashOf(m)

PolicyIsRead ==
    \A c \in Clients : pc[c] \in PolicyStages =>
        MandateOf(c) \in Mandates /\ got[c].policy = HashOf(MandateOf(c))

PaymentIsAsked ==
    \A c \in Clients : (pc[c] \in PastCheck4 /\ IsPayment(c)) => Asked(Req(c), body[c].mandateId)

QuestionIsAsked ==
    \A r \in Requests : escalations[r] # None => Asked(r, escalations[r].mandateId)

AnswerIsAsked ==
    \A c \in Clients : got[c].escalation # None => Asked(Req(c), got[c].escalation.mandateId)

KeyIsVouched == \A c \in Clients : signing[c] # None => Vouched(signing[c])

SignatureIsVouched == \A s \in signatures : Vouched(s.request)

VouchInv ==
    /\ BodyBegan /\ PolicyIsHashed /\ PolicyIsRead /\ PaymentIsAsked
    /\ QuestionIsAsked /\ AnswerIsAsked /\ KeyIsVouched /\ SignatureIsVouched

(* Check 4 comes before the budget: what passes, and what is escalated for *)
(* the budget, asks for the recipient of the mandate. *)
LEMMA PassedRecipient ==
    ASSUME NEW ctx, Verdict(ctx) \in {"pass", "escalate"}
    PROVE  ctx.challenge.payTo = ctx.mandate.recipient
<1>1. FirstFailure(ctx) \in {0, 6}
  BY DEF Verdict
<1>2. 4 \in 1..8 /\ 4 \in 1..(6 - 1)
  OBVIOUS
<1>3. ~Fails(4, ctx)
  BY <1>1, <1>2, FirstFailureIsFirst
<1>4. QED
  BY <1>3 DEF Fails, WrongRecipient

(* What was asked stays asked: a body is never rewritten, a hash on chain  *)
(* is frozen. *)
HashesStay == \A m \in Mandates : HashOf(m)' = HashOf(m)

LEMMA AskedStays ==
    ASSUME HashesStay, \A d \in Clients : body[d] # None => body'[d] = body[d]
    PROVE  \A r, m : Asked(r, m) => Asked(r, m)'
BY DEF HashesStay, Asked, PaysFor, IsFor, Req, IsPayment

LEMMA VouchedStays ==
    ASSUME HashesStay, \A d \in Clients : body[d] # None => body'[d] = body[d]
    PROVE  \A q : Vouched(q) => Vouched(q)'
<1>1. \A r, m : Asked(r, m) => Asked(r, m)'
  BY AskedStays
<1>2. \A q : Vouched(q) => q.mandateId \in Mandates
  BY DEF Vouched, Asked
<1>3. QED
  BY <1>1, <1>2 DEF Vouched, HashesStay

(* What a step may do to a handler, the policies and a question. *)
HandlerVouches(c) ==
    /\ pc[c] # "idle" => pc'[c] # "idle"
    /\ pc'[c] \in PolicyStages =>
          /\ got'[c].escalation = got[c].escalation
          /\ \/ pc[c] \in PolicyStages /\ got'[c].policy = got[c].policy
             \/ MandateOf(c) \in Mandates /\ got'[c].policy = HashOf(MandateOf(c))
    /\ (pc'[c] \in PastCheck4 /\ IsPayment(c)) =>
          pc[c] \in PastCheck4 \/ Asked(Req(c), body[c].mandateId)
    /\ \/ got'[c].escalation \in {None, got[c].escalation}
       \/ Req(c) \in Requests /\ got'[c].escalation = escalations[Req(c)]
    /\ \/ signing'[c] \in {signing[c], None}
       \/ pc[c] = "sign" /\ signing'[c] = TypedData(c)

PolicyVouches(m) ==
    policies'[m] # None => \/ policies[m] # None /\ policies'[m].policy = policies[m].policy
                           \/ policies'[m].policy = HashOf(m)

QuestionVouches(r) ==
    escalations'[r] # None =>
        \/ escalations[r] # None /\ escalations'[r].mandateId = escalations[r].mandateId
        \/ Asked(r, escalations'[r].mandateId)

LEMMA TypedDataVouched ==
    ASSUME Inv, VouchInv, NEW c \in Clients, pc[c] = "sign"
    PROVE  Vouched(TypedData(c))
<1>1. Ready("sign", body[c], got[c]) /\ body[c] # None
  BY Activation DEF Inv, Base
<1>2. got[c].policy = HashOf(MandateOf(c))
  BY DEF VouchInv, PolicyIsRead, PolicyStages
<1>3. Asked(Req(c), MandateOf(c))
  <2>1. CASE IsPayment(c)
    BY <2>1 DEF VouchInv, PaymentIsAsked, PastCheck4, MandateOf
  <2>2. CASE ~IsPayment(c)
    <3>1. got[c].escalation # None
      BY <1>1, <2>2, Activation DEF Inv, Base, Ready, TailStages, IsPayment, Body
    <3>2. QED
      BY <2>2, <3>1 DEF VouchInv, AnswerIsAsked, MandateOf
  <2>3. QED
    BY <2>1, <2>2
<1>4. QED
  BY <1>2, <1>3 DEF Vouched, TypedData

LEMMA VouchFrame ==
    ASSUME Inv, VouchInv, HashesStay, body' = body,
           \A c \in Clients : HandlerVouches(c),
           \A m \in Mandates : PolicyVouches(m),
           \A r \in Requests : QuestionVouches(r),
           \A s \in signatures' : s \in signatures \/ \E c \in Clients :
               signing[c] # None /\ s.request = signing[c]
    PROVE  VouchInv'
<1>1. \A c \in Clients : Req(c)' = Req(c) /\ IsPayment(c)' = IsPayment(c)
  BY DEF Req, IsPayment
<1>2. \A r, m : Asked(r, m) => Asked(r, m)'
  BY AskedStays
<1>3. \A q : Vouched(q) => Vouched(q)'
  BY VouchedStays
<1> USE DEF VouchInv
<1>4. BodyBegan'
  BY DEF BodyBegan, HandlerVouches
<1>5. PolicyIsHashed'
  BY DEF PolicyIsHashed, PolicyVouches, HashesStay
<1>6. PolicyIsRead'
  <2> SUFFICES ASSUME NEW c \in Clients, pc'[c] \in PolicyStages
               PROVE  /\ MandateOf(c)' \in Mandates
                      /\ got'[c].policy = HashOf(MandateOf(c))'
    BY DEF PolicyIsRead
  <2>1. MandateOf(c)' = MandateOf(c)
    BY <1>1 DEF HandlerVouches, MandateOf
  <2>2. MandateOf(c) \in Mandates /\ got'[c].policy = HashOf(MandateOf(c))
    BY DEF HandlerVouches, PolicyIsRead
  <2>3. HashOf(MandateOf(c))' = registry'[MandateOf(c)'].policyHash
    BY DEF HashOf
  <2>4. registry'[MandateOf(c)].policyHash = registry[MandateOf(c)].policyHash
    BY <2>2 DEF HashesStay, HashOf
  <2>5. QED
    BY <2>1, <2>2, <2>3, <2>4 DEF HashOf
<1>7. PaymentIsAsked'
  <2> SUFFICES ASSUME NEW c \in Clients, pc'[c] \in PastCheck4, IsPayment(c)
               PROVE  Asked(Req(c), body[c].mandateId)'
    BY <1>1 DEF PaymentIsAsked
  <2>1. Asked(Req(c), body[c].mandateId)
    BY DEF HandlerVouches, PaymentIsAsked
  <2>2. QED
    BY <2>1, AskedStays, <1>1 DEF Asked, PaysFor, IsFor, Req, HashesStay
<1>8. QuestionIsAsked'
  <2> SUFFICES ASSUME NEW r \in Requests, escalations'[r] # None
               PROVE  Asked(r, escalations[r].mandateId)'
    BY DEF QuestionIsAsked
  <2> DEFINE m == escalations'[r].mandateId
  <2>1. Asked(r, m)
    BY DEF QuestionVouches, QuestionIsAsked
  <2>2. QED
    BY <2>1, <1>1 DEF Asked, PaysFor, IsFor, Req, HashesStay
<1>9. AnswerIsAsked'
  <2> SUFFICES ASSUME NEW c \in Clients, got'[c].escalation # None
               PROVE  Asked(Req(c), got[c].escalation.mandateId)'
    BY DEF AnswerIsAsked
  <2> DEFINE m == got'[c].escalation.mandateId
  <2>1. Asked(Req(c), m)
    BY DEF HandlerVouches, QuestionIsAsked, AnswerIsAsked
  <2>2. QED
    BY <2>1, <1>1 DEF Asked, PaysFor, IsFor, Req, HashesStay
<1>10. KeyIsVouched'
  <2> SUFFICES ASSUME NEW c \in Clients, signing'[c] # None
               PROVE  Vouched(signing[c])'
    BY DEF KeyIsVouched
  <2> DEFINE q == signing'[c]
  <2>1. Vouched(q)
    BY TypedDataVouched DEF HandlerVouches, KeyIsVouched
  <2>2. QED
    BY <2>1 DEF Vouched, Asked, PaysFor, IsFor, Req, IsPayment, HashesStay
<1>11. SignatureIsVouched'
  BY <1>3 DEF SignatureIsVouched, KeyIsVouched
<1>12. QED
  BY <1>4, <1>5, <1>6, <1>7, <1>8, <1>9, <1>10, <1>11

LEMMA SameQuestions ==
    ASSUME escalations' = escalations
    PROVE  \A r \in Requests : QuestionVouches(r)
BY DEF QuestionVouches

(* One handler moves to a stage; what it holds of the policy and of the    *)
(* question comes from the ledger. *)
LEMMA HandlerVouch ==
    ASSUME Inv, VouchInv, NEW c \in Clients, NEW stage, NEW locals,
           Proceed(c, stage, locals), stage # "idle",
           UNCHANGED <<registry, policies, signing, signatures>>,
           stage \in PolicyStages =>
               /\ locals.escalation = got[c].escalation
               /\ \/ pc[c] \in PolicyStages /\ locals.policy = got[c].policy
                  \/ MandateOf(c) \in Mandates /\ locals.policy = HashOf(MandateOf(c)),
           (stage \in PastCheck4 /\ IsPayment(c)) =>
               pc[c] \in PastCheck4 \/ Asked(Req(c), body[c].mandateId),
           \/ locals.escalation \in {None, got[c].escalation}
           \/ Req(c) \in Requests /\ locals.escalation = escalations[Req(c)],
           \A r \in Requests : QuestionVouches(r)
    PROVE  VouchInv'
<1>1. /\ pc'[c] = stage /\ got'[c] = IF stage \in Final THEN Nothing ELSE locals
      /\ \A d \in Clients : d # c => pc'[d] = pc[d] /\ got'[d] = got[d]
      /\ body' = body
  BY DEF Proceed, Goto, Inv, Base, ServiceTypeOK
<1>2. HandlerVouches(c)
  BY <1>1 DEF HandlerVouches, Nothing, PolicyStages, Final
<1>3. \A d \in Clients : d # c => HandlerVouches(d)
  BY <1>1 DEF HandlerVouches, VouchInv, PolicyIsRead
<1>4. HashesStay /\ \A m \in Mandates : PolicyVouches(m)
  BY DEF HashesStay, HashOf, PolicyVouches
<1>5. QED
  BY <1>1, <1>2, <1>3, <1>4, VouchFrame

(* The handler of a payment reads and checks. *)
LEMMA ChecksVouch ==
    ASSUME Inv, VouchInv, NEW c \in Clients,
           GetIntent(c) \/ GetPolicy(c) \/ GetWindowUsage(c) \/ RunChecks(c) \/ MatchIntent(c)
    PROVE  VouchInv'
<1>1. /\ UNCHANGED <<registry, policies, signing, signatures>>
      /\ \A r \in Requests : QuestionVouches(r)
  BY SameQuestions DEF GetIntent, GetPolicy, GetWindowUsage, RunChecks, MatchIntent, ReadsOnly,
     ledgerVars, signerVars
<1>2. /\ pc[c] \in {"getIntent", "getPolicy", "getWindow", "getMandate", "getStanding"}
      /\ Req(c) \in Requests /\ got[c] \in Got /\ body[c] \in Body /\ body[c] # None
      /\ IsPayment(c)
  <2>1. pc[c] \in {"getIntent", "getPolicy", "getWindow", "getMandate", "getStanding"}
    BY DEF GetIntent, GetPolicy, GetWindowUsage, RunChecks, MatchIntent, At
  <2>2. QED
    BY <2>1, WhoIsAt, Activation DEF Inv, Base, CheckStages
<1>3. MandateOf(c) = body[c].mandateId /\ body[c].mandateId \in Mandates
  BY <1>2, Activation DEF Inv, Base, Ready, IsPayment, MandateOf, Body, Or
<1>4. CASE GetIntent(c)
  <2> DEFINE read == [got[c] EXCEPT !.intent = intents[Req(c)]]
  <2>1. \E stage \in {"getPolicy", "recordRefused"} : Proceed(c, stage, read)
    BY <1>4 DEF GetIntent
  <2>2. read.escalation = got[c].escalation
    BY <1>2 DEF Got
  <2> HIDE DEF read
  <2>3. QED
    BY <1>1, <2>1, <2>2, HandlerVouch DEF PolicyStages, PastCheck4
<1>5. CASE GetPolicy(c)
  <2>1. CASE policies[body[c].mandateId] = None
    BY <1>1, <1>5, <2>1, HandlerVouch DEF GetPolicy, PolicyStages, PastCheck4
  <2>2. CASE policies[body[c].mandateId] # None
    <3> DEFINE read == [got[c] EXCEPT !.policy = policies[body[c].mandateId].policy]
    <3>1. Proceed(c, "getWindow", read)
      BY <1>5, <2>2 DEF GetPolicy
    <3>2. read.policy = HashOf(MandateOf(c)) /\ read.escalation = got[c].escalation
      BY <1>2, <1>3, <2>2 DEF Got, VouchInv, PolicyIsHashed
    <3> HIDE DEF read
    <3>3. QED
      BY <1>1, <1>3, <3>1, <3>2, HandlerVouch DEF PastCheck4
  <2>3. QED
    BY <2>1, <2>2
<1>6. CASE GetWindowUsage(c)
  <2> DEFINE read == [got[c] EXCEPT !.window = WindowUsage(body[c].mandateId,
                                                        got[c].policy.windowSeconds)]
  <2>1. Proceed(c, "getMandate", read) /\ pc[c] = "getWindow"
    BY <1>6 DEF GetWindowUsage, At
  <2>2. read.policy = got[c].policy /\ read.escalation = got[c].escalation
    BY <1>2 DEF Got
  <2> HIDE DEF read
  <2>3. QED
    BY <1>1, <2>1, <2>2, HandlerVouch DEF PolicyStages, PastCheck4
<1>7. CASE RunChecks(c)
  <2>1. pc[c] = "getMandate"
    BY <1>7 DEF RunChecks, At
  <2>2. CASE Proceed(c, "recordRefused", got[c])
    BY <1>1, <2>2, HandlerVouch DEF PolicyStages, PastCheck4
  <2>3. ASSUME Verdict(CheckContext(c)) \in {"pass", "escalate"}
        PROVE  Asked(Req(c), body[c].mandateId)
    <3>1. CheckContext(c).challenge.payTo = CheckContext(c).mandate.recipient
      BY <2>3, PassedRecipient
    <3>2. body[c].challenge.payTo = got[c].policy.recipient
      BY <3>1 DEF CheckContext
    <3>3. got[c].policy = HashOf(body[c].mandateId)
      BY <1>3, <2>1 DEF VouchInv, PolicyIsRead, PolicyStages
    <3>4. QED
      BY <1>2, <1>3, <3>2, <3>3 DEF Asked, PaysFor, IsFor
  <2>4. CASE Verdict(CheckContext(c)) = "pass" /\ Proceed(c, "getStanding", got[c])
    BY <1>1, <2>1, <2>3, <2>4, HandlerVouch DEF PolicyStages
  <2>5. CASE /\ Verdict(CheckContext(c)) = "escalate"
             /\ Proceed(c, "createEscalation",
                        [got[c] EXCEPT !.reason = "WINDOW_BUDGET_EXCEEDED"])
    <3>1. [got[c] EXCEPT !.reason = "WINDOW_BUDGET_EXCEEDED"].escalation = got[c].escalation
      BY <1>2 DEF Got
    <3>2. QED
      BY <1>1, <2>3, <2>5, <3>1, HandlerVouch DEF PolicyStages
  <2>6. QED
    BY <1>7, <2>2, <2>4, <2>5 DEF RunChecks
<1>8. CASE MatchIntent(c)
  <2>1. pc[c] = "getStanding"
    BY <1>8 DEF MatchIntent, At
  <2>2. [got[c] EXCEPT !.reason = "INTENT_MISMATCH"].escalation = got[c].escalation
    BY <1>2 DEF Got
  <2>3. \/ Proceed(c, "createEscalation", [got[c] EXCEPT !.reason = "INTENT_MISMATCH"])
        \/ Proceed(c, "reserve", got[c])
    BY <1>8 DEF MatchIntent
  <2>4. QED
    BY <1>1, <2>1, <2>2, <2>3, HandlerVouch DEF PolicyStages, PastCheck4
<1>9. QED
  BY <1>4, <1>5, <1>6, <1>7, <1>8

(* The handler of an answer reads the question and its mandate's policy.   *)
LEMMA AnswersVouch ==
    ASSUME Inv, VouchInv, NEW c \in Clients,
           GetEscalation(c) \/ ResolvePolicy(c) \/ ResolveIntent(c)
    PROVE  VouchInv'
<1>1. /\ UNCHANGED <<registry, policies, signing, signatures>>
      /\ \A r \in Requests : QuestionVouches(r)
  BY SameQuestions DEF GetEscalation, ResolvePolicy, ResolveIntent, ReadsOnly, ledgerVars,
     signerVars
<1>2. /\ pc[c] \in {"getEscalation", "resolvePolicy", "resolveIntent"}
      /\ Req(c) \in Requests /\ got[c] \in Got /\ ~IsPayment(c)
  <2>1. pc[c] \in {"getEscalation", "resolvePolicy", "resolveIntent"}
    BY DEF GetEscalation, ResolvePolicy, ResolveIntent, At
  <2>2. QED
    BY <2>1, WhoIsAt, Activation DEF Inv, Base
<1>3. CASE GetEscalation(c)
  <2> DEFINE read == [got[c] EXCEPT !.escalation = escalations[Req(c)]]
             late == [read EXCEPT !.because = "expired"]
  <2>1. \/ Proceed(c, "rejected", got[c])
        \/ Proceed(c, "denyStorage", late)
        \/ Proceed(c, "resolvePolicy", read)
    BY <1>3 DEF GetEscalation
  <2>2. read.escalation = escalations[Req(c)] /\ late.escalation = escalations[Req(c)]
    BY <1>2 DEF Got
  <2> HIDE DEF read, late
  <2>3. QED
    BY <1>1, <1>2, <2>1, <2>2, HandlerVouch DEF PolicyStages, PastCheck4
<1>4. CASE ResolvePolicy(c)
  <2>1. pc[c] = "resolvePolicy"
    BY <1>4 DEF ResolvePolicy, At
  <2>2. got[c].escalation \in EscalationRecord
    BY <1>2, <2>1, Activation DEF Inv, Base, Ready, IsPayment, Body, Got, Or
  <2> DEFINE m == got[c].escalation.mandateId
             denied == [got[c] EXCEPT !.because = "denied"]
             read == [got[c] EXCEPT !.policy = policies[m].policy]
  <2>3. MandateOf(c) = m /\ m \in Mandates
    BY <1>2, <2>2 DEF MandateOf, EscalationRecord
  <2>4. \/ Proceed(c, "rejected", got[c])
        \/ Proceed(c, "denyStorage", denied)
        \/ policies[m] # None /\ Proceed(c, "resolveIntent", read)
    BY <1>4 DEF ResolvePolicy
  <2>5. /\ denied.escalation = got[c].escalation
        /\ read.escalation = got[c].escalation /\ read.policy = policies[m].policy
    BY <1>2 DEF Got
  <2>6. policies[m] # None => policies[m].policy = HashOf(MandateOf(c))
    BY <2>3 DEF VouchInv, PolicyIsHashed
  <2> HIDE DEF m, denied, read
  <2>7. CASE policies[m] # None /\ Proceed(c, "resolveIntent", read)
    BY <1>1, <2>3, <2>5, <2>6, <2>7, HandlerVouch DEF PastCheck4
  <2>8. CASE Proceed(c, "rejected", got[c]) \/ Proceed(c, "denyStorage", denied)
    BY <1>1, <2>5, <2>8, HandlerVouch DEF PolicyStages, PastCheck4
  <2>9. QED
    BY <2>4, <2>7, <2>8
<1>5. CASE ResolveIntent(c)
  <2> DEFINE read == [got[c] EXCEPT !.intent = intents[Req(c)]]
  <2>1. /\ pc[c] = "resolveIntent"
        /\ Proceed(c, "reserve", read) \/ Proceed(c, "rejected", got[c])
    BY <1>5 DEF ResolveIntent, At
  <2>2. read.escalation = got[c].escalation /\ read.policy = got[c].policy
    BY <1>2 DEF Got
  <2> HIDE DEF read
  <2>3. QED
    BY <1>1, <1>2, <2>1, <2>2, HandlerVouch DEF PolicyStages, PastCheck4
<1>6. QED
  BY <1>3, <1>4, <1>5

(* A write after which the handler goes on, or has failed; a question is   *)
(* put for the payment that passed check 4. *)
LEMMA WritesVouch ==
    ASSUME Inv, VouchInv, NEW c \in Clients,
           \/ Escalate(c) \/ RecordEscalated(c) \/ RecordRefused(c) \/ RecordSigned(c)
           \/ DenyStorage(c) \/ ApproveStorage(c) \/ SetStanding(c)
    PROVE  VouchInv'
<1>1. pc[c] # "idle" /\ UNCHANGED <<registry, policies, signing, signatures>>
  BY DEF Escalate, RecordEscalated, RecordRefused, RecordSigned, DenyStorage, ApproveStorage,
         SetStanding, RecordOrFail, StoreVerdict, LedgerOnly, At, signerVars, ledgerVars,
         CreateEscalation, RecordDecision, ResolveEscalation, SetStandingApproval
<1>2. Req(c) \in Requests /\ got[c] \in Got
  BY <1>1, Activation DEF Inv, Base
<1>3. ASSUME NEW r \in Requests
      PROVE  QuestionVouches(r)
  <2>1. CASE Escalate(c)
    <3>1. pc[c] = "createEscalation"
      BY <2>1 DEF Escalate, At
    <3>2. IsPayment(c) /\ Asked(Req(c), body[c].mandateId)
      BY <3>1, WhoIsAt DEF CheckStages, VouchInv, PaymentIsAsked, PastCheck4
    <3>3. /\ r # Req(c) => escalations'[r] = escalations[r]
          /\ escalations[Req(c)] # None => escalations'[Req(c)] = escalations[Req(c)]
          /\ escalations[Req(c)] = None =>
                 escalations'[Req(c)].mandateId = body[c].mandateId
      BY <1>2, <2>1 DEF Escalate, CreateEscalation, Inv, Base, LedgerTypeOK
    <3>4. QED
      BY <3>2, <3>3 DEF QuestionVouches
  <2>2. ASSUME NEW v, ResolveEscalation(Req(c), v)
        PROVE  QuestionVouches(r)
    <3>1. /\ escalations[Req(c)] \in EscalationRecord /\ escalations[Req(c)] # None
      BY <1>2, <2>2 DEF ResolveEscalation, Inv, Base, LedgerTypeOK, Or
    <3>2. /\ escalations'[Req(c)].mandateId = escalations[Req(c)].mandateId
          /\ r # Req(c) => escalations'[r] = escalations[r]
      BY <1>2, <2>2, <3>1 DEF ResolveEscalation, Inv, Base, LedgerTypeOK, EscalationRecord
    <3>3. QED
      BY <3>1, <3>2 DEF QuestionVouches
  <2>3. \/ Escalate(c) \/ \E v : ResolveEscalation(Req(c), v)
        \/ escalations' = escalations
    BY DEF RecordEscalated, RecordRefused, RecordSigned, DenyStorage, ApproveStorage,
           SetStanding, RecordOrFail, StoreVerdict, ledgerVars, SetStandingApproval,
           RecordDecision
  <2>4. QED
    BY <2>1, <2>2, <2>3, SameQuestions
<1>4. \E stage : /\ Proceed(c, stage, got[c])
                 /\ stage # "idle" /\ stage \notin PolicyStages \cup PastCheck4
  <2>1. RefusalOf(got[c].because) \in {"refused", "expired", "rejected"}
    BY <1>2 DEF RefusalOf, Got
  <2>2. CASE RecordRefused(c)
    BY <2>1, <2>2 DEF RecordRefused, RecordOrFail, PolicyStages, PastCheck4
  <2>3. CASE RecordSigned(c)
    BY <2>3 DEF RecordSigned, RecordOrFail, PolicyStages, PastCheck4
  <2>4. QED
    BY <2>2, <2>3 DEF Escalate, RecordEscalated, DenyStorage, ApproveStorage, SetStanding,
                      RecordOrFail, StoreVerdict, PolicyStages, PastCheck4
<1>5. QED
  BY <1>1, <1>3, <1>4, HandlerVouch

LEMMA TailVouch ==
    ASSUME Inv, VouchInv, NEW c \in Clients, Reserve(c) \/ Release(c)
    PROVE  VouchInv'
<1>1. got[c] \in Got
  BY DEF Inv, Base, ServiceTypeOK
<1>2. /\ UNCHANGED <<registry, policies, signing, signatures>>
      /\ \A r \in Requests : QuestionVouches(r)
  BY SameQuestions DEF Reserve, Release, LedgerOnly, signerVars, ledgerVars, ReserveNonce,
     ReleaseNonce, UpdateIntent
<1>3. CASE Proceed(c, "sign", got[c]) /\ pc[c] = "reserve"
  BY <1>2, <1>3, HandlerVouch DEF PolicyStages, PastCheck4
<1>4. CASE Proceed(c, AfterRefusedSigning(c), [got[c] EXCEPT !.because = "signer"])
  <2>1. /\ AfterRefusedSigning(c) \in {"recordRefused", "denyStorage"}
        /\ [got[c] EXCEPT !.because = "signer"].escalation = got[c].escalation
    BY <1>1 DEF AfterRefusedSigning, Got
  <2>2. QED
    BY <1>2, <1>4, <2>1, HandlerVouch DEF PolicyStages, PastCheck4
<1>5. QED
  BY <1>3, <1>4 DEF Reserve, Release, At

LEMMA CallSignerVouch ==
    ASSUME Inv, VouchInv, NEW c \in Clients, CallSigner(c)
    PROVE  VouchInv'
<1>1. \A r \in Requests : QuestionVouches(r)
  BY SameQuestions DEF CallSigner, ledgerVars
<1>2. UNCHANGED <<registry, policies>>
  BY DEF CallSigner, ledgerVars
<1>3. CASE ~Accepts(TypedData(c))
  BY <1>1, <1>2, <1>3, HandlerVouch DEF CallSigner, PolicyStages, PastCheck4, signerVars
<1>4. CASE Accepts(TypedData(c))
  <2>1. /\ signing' = [signing EXCEPT ![c] = TypedData(c)] /\ signatures' = signatures
        /\ pc' = [pc EXCEPT ![c] = "signing"] /\ got' = [got EXCEPT ![c] = got[c]]
        /\ body' = body /\ pc[c] = "sign"
    BY <1>4 DEF CallSigner, Sign, Proceed, Goto, Final, At
  <2>2. /\ signing'[c] = TypedData(c) /\ pc'[c] = "signing" /\ got'[c] = got[c]
        /\ \A d \in Clients : d # c =>
              pc'[d] = pc[d] /\ got'[d] = got[d] /\ signing'[d] = signing[d]
    BY <2>1 DEF Inv, Base, ServiceTypeOK, SignerTypeOK
  <2>3. \A d \in Clients : HandlerVouches(d)
    BY <2>1, <2>2 DEF HandlerVouches, PolicyStages, PastCheck4, VouchInv, PolicyIsRead
  <2>4. HashesStay /\ \A m \in Mandates : PolicyVouches(m)
    BY <1>2 DEF HashesStay, HashOf, PolicyVouches
  <2>5. QED
    BY <1>1, <2>1, <2>3, <2>4, VouchFrame
<1>5. QED
  BY <1>3, <1>4

LEMMA KeyVouches ==
    ASSUME Inv, VouchInv, NEW c \in Clients, SignerStep(c)
    PROVE  VouchInv'
<1>1. UNCHANGED <<registry, policies, escalations>>
  BY DEF SignerStep, SignerSigns, SignerFails, ledgerVars
<1>2. /\ signing[c] # None /\ signing' = [signing EXCEPT ![c] = None]
      /\ \/ signatures' = signatures
         \/ signatures' = signatures \cup {[client |-> c, request |-> signing[c]]}
  BY DEF SignerStep, SignerSigns, SignerFails, KeySigns, KeyFails
<1>3. \A d \in Clients : signing'[d] \in {signing[d], None}
  BY <1>2 DEF Inv, Base, SignerTypeOK
<1>4. \E stage \in {"recordSigned", "approveStorage", "release"} : Hears(c, stage)
  BY DEF SignerStep, SignerSigns, SignerFails
<1>5. /\ body' = body
      /\ \A d \in Clients : got'[d] = got[d] /\
            (pc'[d] = pc[d] \/ pc'[d] \in {"recordSigned", "approveStorage", "release"})
  BY <1>4 DEF Hears, Proceed, Goto, Final, serviceVars, Inv, Base, ServiceTypeOK
<1>6. \A d \in Clients : HandlerVouches(d)
  BY <1>3, <1>5 DEF HandlerVouches, PastCheck4, PolicyStages, VouchInv, PolicyIsRead
<1>7. /\ HashesStay /\ \A m \in Mandates : PolicyVouches(m)
      /\ \A r \in Requests : QuestionVouches(r)
  BY <1>1, SameQuestions DEF HashesStay, HashOf, PolicyVouches
<1>8. QED
  BY <1>2, <1>5, <1>6, <1>7, VouchFrame

LEMMA FaultVouches ==
    ASSUME Inv, VouchInv, FaultStep
    PROVE  VouchInv'
<1>1. /\ signatures' = signatures /\ body' = body /\ registry' = registry
      /\ \A c \in Clients : signing'[c] \in {signing[c], None}
  BY DEF FaultStep, HandlerDies, SignerUnreachable, SignerGoesDown, LedgerGoesDown, Stop,
         SignerRestart, ReadsOnly, signerVars, serviceVars
<1>2. \A c \in Clients : \/ pc'[c] = pc[c] /\ got'[c] = got[c]
                         \/ pc'[c] = "failed" /\ got'[c].escalation = None
  BY DEF FaultStep, HandlerDies, SignerUnreachable, SignerGoesDown, LedgerGoesDown, Stop,
         serviceVars, Nothing
<1>3. \A c \in Clients : HandlerVouches(c)
  BY <1>1, <1>2 DEF HandlerVouches, PastCheck4, PolicyStages, VouchInv, PolicyIsRead
<1>4. /\ \A m \in Mandates : PolicyVouches(m)
      /\ \A r \in Requests : QuestionVouches(r)
  <2>1. LedgerRestart \/ UNCHANGED <<policies, escalations>>
    BY DEF FaultStep, HandlerDies, SignerUnreachable, SignerGoesDown, LedgerGoesDown, ReadsOnly,
           ledgerVars
  <2>2. QED
    BY <2>1, SameQuestions DEF LedgerRestart, Empty, PolicyVouches, QuestionVouches
<1>5. HashesStay
  BY <1>1 DEF HashesStay, HashOf
<1>6. QED
  BY <1>1, <1>3, <1>4, <1>5, VouchFrame

(* What the registry, the store of policies and the clock do. *)
LEMMA OutsideVouches ==
    ASSUME Inv, VouchInv, UNCHANGED <<escalations, body, got, pc, signing, signatures>>,
           HashesStay, \A m \in Mandates : PolicyVouches(m)
    PROVE  VouchInv'
<1>1. /\ \A r \in Requests : QuestionVouches(r)
      /\ \A c \in Clients : HandlerVouches(c)
  BY SameQuestions DEF HandlerVouches, VouchInv, PolicyIsRead
<1>2. QED
  BY <1>1, VouchFrame

LEMMA QuietVouches ==
    ASSUME Inv, VouchInv,
           UNCHANGED <<registry, policies, escalations, body, got, pc, signing, signatures>>
    PROVE  VouchInv'
BY OutsideVouches DEF HashesStay, HashOf, PolicyVouches

LEMMA OwnerVouches ==
    ASSUME Inv, VouchInv, OwnerRevokes \/ PutPolicy
    PROVE  VouchInv'
<1>1. UNCHANGED <<escalations, body, got, pc, signing, signatures>>
  BY DEF OwnerRevokes, PutPolicy, StorePolicy, ledgerVars, signerVars, serviceVars
<1>2. CASE OwnerRevokes
  <2>1. HashesStay
    BY <1>2 DEF OwnerRevokes, Revoke, HashesStay, HashOf, Inv, Base, RegistryTypeOK,
                RegistryEntry
  <2>2. \A m \in Mandates : PolicyVouches(m)
    BY <1>2 DEF OwnerRevokes, ledgerVars, PolicyVouches
  <2>3. QED
    BY <1>1, <2>1, <2>2, OutsideVouches
<1>3. CASE PutPolicy
  <2>1. PICK m \in Mandates, p \in PolicyBodies :
            registry[m].policyHash = p /\ StorePolicy(m, p)
    BY <1>3 DEF PutPolicy
  <2>2. HashesStay
    BY <1>3 DEF PutPolicy, HashesStay, HashOf
  <2>3. \A n \in Mandates : PolicyVouches(n)
    BY <2>1, <2>2 DEF StorePolicy, PolicyVouches, HashOf, Inv, Base, LedgerTypeOK
  <2>4. QED
    BY <1>1, <2>2, <2>3, OutsideVouches
<1>4. QED
  BY <1>2, <1>3

(* A handler that begins holds nothing yet, and takes nothing from others. *)
LEMMA BeginVouches ==
    ASSUME Inv, QuoteInv, VouchInv, NEW c \in Clients, NEW b, Begin(c, b, "getIntent")
               \/ Begin(c, b, "getEscalation")
    PROVE  VouchInv'
<1>1. /\ pc[c] = "idle" /\ pc'[c] \in {"getIntent", "getEscalation"}
      /\ body' = [body EXCEPT ![c] = b]
      /\ UNCHANGED <<registry, policies, escalations, got, signing, signatures>>
      /\ \A d \in Clients : d # c => pc'[d] = pc[d] /\ body'[d] = body[d]
  BY DEF Begin, Goto, ledgerVars, signerVars, Inv, Base, ServiceTypeOK
<1>2. body[c] = None /\ got[c].escalation = None
  BY <1>1 DEF VouchInv, BodyBegan, QuoteInv, LocalsAsRecorded, Nothing
<1>3. HashesStay /\ \A d \in Clients : body[d] # None => body'[d] = body[d]
  BY <1>1, <1>2 DEF HashesStay, HashOf
<1>4. /\ \A r, m : Asked(r, m) => Asked(r, m)'
      /\ \A q : Vouched(q) => Vouched(q)'
  BY <1>3, AskedStays, VouchedStays
<1> USE DEF VouchInv
<1>5. BodyBegan' /\ PolicyIsHashed'
  BY <1>1 DEF BodyBegan, PolicyIsHashed, HashOf
<1>6. PolicyIsRead'
  BY <1>1 DEF PolicyIsRead, PolicyStages, MandateOf, IsPayment, HashOf
<1>7. PaymentIsAsked'
  BY <1>1, <1>4 DEF PaymentIsAsked, PastCheck4, IsPayment, Req
<1>8. QuestionIsAsked' /\ AnswerIsAsked'
  BY <1>1, <1>2, <1>4 DEF QuestionIsAsked, AnswerIsAsked, Req
<1>9. KeyIsVouched' /\ SignatureIsVouched'
  BY <1>1, <1>4 DEF KeyIsVouched, SignatureIsVouched
<1>10. QED
  BY <1>5, <1>6, <1>7, <1>8, <1>9

LEMMA VouchServed ==
    ASSUME Inv, QuoteInv, VouchInv, Serves
    PROVE  VouchInv'
<1>1. CASE UNCHANGED vars \/ Mints \/ CreatesLate \/ AddsToIntent
  <2>1. UNCHANGED <<registry, policies, escalations, body, got, pc, signing, signatures>>
    BY <1>1 DEF vars, Mints, CreatesLate, AddsToIntent, AddsRecord, CreateIntent,
                AttachChallenge, RecordSettlement, RecordCapture, RecordSpend, UpdateIntent,
                ledgerVars, signerVars, serviceVars
  <2>2. QED
    BY <2>1, QuietVouches
<1>2. ASSUME NEW c \in Clients, HandlerStep(c) \/ SignerStep(c)
      PROVE  VouchInv'
  BY <1>2, ChecksVouch, AnswersVouch, WritesVouch, TailVouch, CallSignerVouch, KeyVouches
     DEF HandlerStep
<1>3. CASE NewIntent \/ ChallengeQuoted \/ TimePasses
  <2>1. UNCHANGED <<registry, policies, escalations, body, got, pc, signing, signatures>>
    BY <1>3 DEF NewIntent, ChallengeQuoted, TimePasses, Tick, CreateIntent,
                AttachChallenge, UpdateIntent, signerVars, serviceVars
  <2>2. QED
    BY <2>1, QuietVouches
<1>4. ASSUME NEW c \in Clients, RequestPayment(c) \/ ResolveRequest(c)
      PROVE  VouchInv'
  <2>1. \E b : Begin(c, b, "getIntent") \/ Begin(c, b, "getEscalation")
    BY <1>4, RequestPaymentBegins, ResolveRequestBegins DEF Inv
  <2>2. QED
    BY <2>1, BeginVouches
<1>5. QED
  BY <1>1, <1>2, <1>3, <1>4, OwnerVouches, FaultVouches
     DEF Serves, PaymentsNext, Environment

LEMMA VouchHolds == RunsSpec => []VouchInv
<1>1. RunsInit => VouchInv
  BY DEF RunsInit, PaymentsInit, LedgerInit, SignerInit, Empty, Nothing, VouchInv, BodyBegan,
         PolicyIsHashed, PolicyIsRead, PolicyStages, PaymentIsAsked, PastCheck4,
         QuestionIsAsked, AnswerIsAsked, KeyIsVouched, SignatureIsVouched
<1>2. RunsInv /\ RunQuoteInv /\ QuoteInv /\ VouchInv /\ [RunsNext]_allVars => VouchInv'
  BY RunsCallServices, VouchServed
<1>3. QED
  BY <1>1, <1>2, RunsInvHolds, RunQuoteHolds, RunsAsQuoted, PTL DEF RunsSpec

(* What is asked for on behalf of a run is what the card API quoted it, but *)
(* for the recipient, which a poisoned page may have replaced. *)
RunAsks ==
    \A c \in Clients, r \in Requests : (runs[r] # None /\ PaysFor(c, r)) =>
        body[c].challenge \in Poisoned(runs[r].challenge)

LEMMA AsksFrame ==
    ASSUME RunAsks, \A r \in Requests : RunKept(r),
           \A d \in Clients : body'[d] = body[d] \/ ~IsPayment(d)'
    PROVE  RunAsks'
BY DEF RunAsks, RunKept, PaysFor, IsFor, Req, IsPayment

LEMMA ResolverAsksNothing ==
    ASSUME RunsInv, RunAsks, runs' = runs, NEW c \in Clients, NEW b, Begin(c, b, "getEscalation"),
           b.kind = "resolve"
    PROVE  RunAsks'
<1>1. \A d \in Clients : body'[d] = body[d] \/ ~IsPayment(d)'
  BY DEF Begin, IsPayment, RunsInv, Inv, Base, ServiceTypeOK
<1>2. QED
  BY <1>1, SameRuns, AsksFrame

LEMMA TaskAsks ==
    ASSUME RunsInv, RunAsks, NEW c \in Clients, TaskStep(c)
    PROVE  RunAsks'
<1>1. RunInv /\ task[c] # None /\ task[c].stage # "ended"
  BY DEF RunsInv, TaskStep, CallCreateIntent, CallGetCard, CallAttachChallenge,
         CallRequestPayment, PaymentAnswered, EscalationAnswered, ExpiryAnswered, CardIssued,
         CheckedOut, CallRecordSpend, ConfirmSettlement, CallRecordSettlement,
         CallRecordCapture, CallFails, Calling, Doing
<1>2. PICK r \in Requests : r = RunOf(c)
  BY <1>1, TaskFacts
<1>3. runs[r] \in RunRecord /\ runs[r] # None
  BY <1>1, <1>2, TaskFacts
<1>4. task[c].stage \in Early => \A d \in Clients : ~IsFor(d, r)
  BY <1>1, <1>2 DEF RunInv, EarlyIsAlone
<1>5. CASE CallGetCard(c)
  <2>1. /\ body' = body /\ \A q \in Requests : q # r => runs'[q] = runs[q]
        /\ task[c].stage \in Early
    BY <1>1, <1>2, <1>5 DEF CallGetCard, Calling, Early, vars, serviceVars, RunInv, MemoryTypeOK
  <2>2. QED
    BY <1>4, <2>1 DEF RunAsks, PaysFor, IsFor, Req, IsPayment
<1>6. CASE CallRequestPayment(c)
  <2>1. PICK b : /\ Begin(c, b, "getIntent") /\ b.request = r
                 /\ b.challenge \in Poisoned(runs[r].challenge)
    BY <1>2, <1>6 DEF CallRequestPayment, PaymentBody
  <2>2. /\ body'[c] = b /\ \A d \in Clients : d # c => body'[d] = body[d]
        /\ runs' = runs /\ task[c].stage \in Early
    BY <1>6, <2>1 DEF Begin, CallRequestPayment, Calling, Early, RunsInv, Inv, Base, ServiceTypeOK
  <2>3. QED
    BY <2>1, <2>2 DEF RunAsks, PaysFor, IsFor, Req, IsPayment
<1>7. CASE ~CallGetCard(c) /\ ~CallRequestPayment(c)
  <2>1. body' = body
    BY <1>7 DEF TaskStep, CallCreateIntent, CallAttachChallenge,
         PaymentAnswered, EscalationAnswered, ExpiryAnswered, CardIssued,
         CheckedOut, CallRecordSpend, ConfirmSettlement, CallRecordSettlement,
         CallRecordCapture, CallFails, LedgerAnswers, vars, serviceVars
  <2>2. \/ runs' = runs
        \/ Fail(c)
        \/ \E state, outcome : SetRun(r, state, outcome)
    BY <1>2, <1>7 DEF TaskStep, CallCreateIntent, CallAttachChallenge,
         PaymentAnswered, EscalationAnswered, ExpiryAnswered, CardIssued,
         CheckedOut, CallRecordSpend, ConfirmSettlement, CallRecordSettlement,
         CallRecordCapture, CallFails, LedgerAnswers, PresentHeader
  <2>3. \A q \in Requests : RunKept(q)
    BY <1>1, <1>3, <2>2, SameRuns, FailKeeps, SetRunKeeps
  <2>4. QED
    BY <2>1, <2>3, AsksFrame
<1>8. QED
  BY <1>5, <1>6, <1>7

LEMMA AsksStep ==
    ASSUME RunsInv, RunAsks, [RunsNext]_allVars
    PROVE  RunAsks'
<1>1. ASSUME runs' = runs, body' = body
      PROVE  RunAsks'
  BY <1>1, SameRuns, AsksFrame
<1>2. CASE UNCHANGED allVars
  BY <1>1, <1>2 DEF allVars, runVars, vars, serviceVars
<1>3. ASSUME UNCHANGED runVars,
             \/ \E c \in Clients : HandlerStep(c) \/ SignerStep(c)
             \/ OwnerRevokes \/ PutPolicy \/ TimePasses \/ FaultStep
      PROVE  RunAsks'
  BY <1>1, <1>3, OutsideMoves DEF RunsInv, runVars, ServicesMove
<1>4. ASSUME NEW c \in Clients, StartRun(c)
      PROVE  RunAsks'
  <2>1. PICK r \in Requests \ used : \E run : runs' = [runs EXCEPT ![r] = run]
    BY <1>4 DEF StartRun
  <2>2. body' = body /\ \A q \in Requests : q # r => runs'[q] = runs[q]
    BY <1>4, <2>1 DEF StartRun, RunsInv, RunInv, MemoryTypeOK
  <2>3. \A d \in Clients : ~PaysFor(d, r)
    BY <2>1 DEF RunsInv, RunInv, PaymentIsRun, TasksAreUsed, PaysFor, IsFor, RunOf
  <2>4. QED
    BY <2>2, <2>3 DEF RunAsks, PaysFor, IsFor, Req, IsPayment
<1>5. ASSUME NEW c \in Clients, AnswerEscalation(c)
      PROVE  RunAsks'
  BY <1>5, ResolverAsksNothing DEF AnswerEscalation, ResolveBody
<1>6. ASSUME NEW r \in Requests, TimerFires(r)
      PROVE  RunAsks'
  <2>1. CASE UNCHANGED <<vars, task>>
    BY <1>1, <1>6, <2>1 DEF TimerFires, vars, serviceVars
  <2>2. CASE \E c \in Clients : Begin(c, ResolveBody(r, "deny", FALSE, FALSE), "getEscalation")
    BY <1>6, <2>2, ResolverAsksNothing DEF TimerFires, ResolveBody
  <2>3. QED
    BY <1>6, <2>1, <2>2 DEF TimerFires
<1>7. CASE OrchestratorRestart
  BY <1>7 DEF OrchestratorRestart, Empty, RunAsks
<1>8. ASSUME NEW c \in Clients, PolicyUnheard(c)
      PROVE  RunAsks'
  <2>1. /\ RunInv /\ task[c] # None /\ task[c].stage # "ended" /\ body' = body
        /\ runs' = runs \/ Fail(c)
    BY <1>8 DEF PolicyUnheard, Calling, RunsInv, vars, serviceVars
  <2>2. /\ RunOf(c) \in Requests /\ runs[RunOf(c)] \in RunRecord /\ runs[RunOf(c)] # None
    BY <2>1, TaskFacts
  <2>3. \A q \in Requests : RunKept(q)
    BY <2>1, <2>2, SameRuns, FailKeeps
  <2>4. QED
    BY <2>1, <2>3, AsksFrame
<1>9. QED
  BY <1>2, <1>3, <1>4, <1>5, <1>6, <1>7, <1>8, TaskAsks DEF RunsNext, ServiceStep, ClockStep

LEMMA AsksHold == RunsSpec => []RunAsks
<1>1. RunsInit => RunAsks
  BY DEF RunsInit, Empty, RunAsks
<1>2. QED
  BY <1>1, AsksStep, RunsInvHolds, PTL DEF RunsSpec

(* Where a run that is DONE stands. *)
DoneIsSettled ==
    \A r \in Requests : (Done(r) /\ Exists(r)) =>
        /\ SettledAsQuoted(intents[r], runs[r])
        /\ intents[r].challenge = runs[r].challenge
        /\ \E s \in SignedFor(r) :
              /\ s.request.value = runs[r].challenge.amount
              /\ s.request.token = runs[r].challenge.token
              /\ s.request.to = Pinned[s.request.mandateId].settlementRecipient
              /\ s.request.to \in {runs[r].challenge.payTo} \cup PayToOverrides

LEMMA DoneIsSigned ==
    ASSUME RunsInv, RunQuoteInv, QuoteInv, SettledInv, VouchInv, RunAsks
    PROVE  DoneIsSettled
<1> SUFFICES ASSUME NEW r \in Requests, Done(r), Exists(r)
             PROVE  /\ SettledAsQuoted(intents[r], runs[r])
                    /\ intents[r].challenge = runs[r].challenge
                    /\ \E s \in SignedFor(r) :
                          /\ s.request.value = runs[r].challenge.amount
                          /\ s.request.token = runs[r].challenge.token
                          /\ s.request.to = Pinned[s.request.mandateId].settlementRecipient
                          /\ s.request.to \in {runs[r].challenge.payTo} \cup PayToOverrides
  BY DEF DoneIsSettled
<1>1. PICK c \in Clients : IsFor(c, r) /\ pc[c] = "signed"
  BY DEF SettledInv, DoneOnRecord, Payer
<1>2. SettledAsQuoted(intents[r], runs[r]) /\ runs[r] # None
  BY DEF SettledInv, DoneOnRecord, Done
<1>3. PICK s \in signatures : s.request.requestId = r
  BY <1>1 DEF RunsInv, ServedInv, ToldIsSigner, IsFor
<1>4. /\ s.request.to = Pinned[s.request.mandateId].settlementRecipient
      /\ intents[r].challenge # None
      /\ s.request.value = intents[r].challenge.amount
      /\ s.request.token = intents[r].challenge.token
  BY <1>3 DEF QuoteInv, PinnedAndOnRecord, OnRecord, WithinRail
<1>5. intents[r].challenge = runs[r].challenge
  BY <1>2, <1>4 DEF RunQuoteInv, RunAgrees
<1>6. runs[r].challenge \in Challenge
  <2>1. intents[r] \in IntentRecord
    BY IntentIsRecord DEF RunsInv, Inv, Base
  <2>2. QED
    BY <1>4, <1>5, <2>1, ContractsAssumption DEF IntentRecord, Or
<1>7. PICK d \in Clients : PaysFor(d, r) /\ s.request.to = body[d].challenge.payTo
  BY <1>3 DEF VouchInv, SignatureIsVouched, Vouched, Asked
<1>8. body[d].challenge \in Poisoned(runs[r].challenge)
  BY <1>2, <1>7 DEF RunAsks
<1>9. s.request.to \in {runs[r].challenge.payTo} \cup PayToOverrides
  BY <1>6, <1>7, <1>8 DEF Poisoned, Challenge
<1>10. s \in SignedFor(r)
  BY <1>3 DEF SignedFor
<1>11. QED
  BY <1>2, <1>4, <1>5, <1>9, <1>10

(* A run that is DONE was paid as it was quoted: the ledger holds its spend *)
(* and its capture, the capture names the confirmed transaction, one log of *)
(* it moves what the card API quoted to whom it quoted, and the wallet      *)
(* signed that amount of that asset, to the mandate's pinned recipient; it  *)
(* is the recipient quoted unless a poisoned page replaced that one. *)
THEOREM RunsSettleAsQuoted == RunsSpec => []DoneIsSettled
BY DoneIsSigned, RunsInvHolds, RunQuoteHolds, RunsAsQuoted, SettledHolds, VouchHolds, AsksHold,
   PTL

(* A poisoned page diverts: it names another recipient than the signing     *)
(* service is set up to pay. *)
DivertsOnly == \A a \in PayToOverrides, m \in DOMAIN Pinned : a # Pinned[m].settlementRecipient

(* Then what settled went to whom the wallet signed for: check 4 compares   *)
(* the recipient asked for with the mandate's policy, the policy with its   *)
(* hash on chain and the signing service with its own pin, so that a run    *)
(* gets to the end only if page, policy, pin and card API name the same. *)
THEOREM RunsFinalize ==
    ASSUME DivertsOnly
    PROVE  RunsSpec => []DoneIsFinalized
<1>1. RunsInv /\ QuoteInv /\ DoneIsSettled => DoneIsFinalized
  <2> SUFFICES ASSUME RunsInv, QuoteInv, DoneIsSettled, NEW r \in Requests, Done(r), Exists(r)
               PROVE  Finalized(intents[r], r)
    BY DEF DoneIsFinalized, Done
  <2>1. /\ SettledAsQuoted(intents[r], runs[r])
        /\ intents[r].challenge = runs[r].challenge
    BY DEF DoneIsSettled
  <2>2. PICK s \in SignedFor(r) :
              /\ s.request.value = runs[r].challenge.amount
              /\ s.request.token = runs[r].challenge.token
              /\ s.request.to = Pinned[s.request.mandateId].settlementRecipient
              /\ s.request.to \in {runs[r].challenge.payTo} \cup PayToOverrides
    BY DEF DoneIsSettled
  <2>3. s.request.mandateId \in DOMAIN Pinned
    BY DEF QuoteInv, PinnedAndOnRecord, WithinRail, SignedFor
  <2>4. s.request.to = runs[r].challenge.payTo
    BY <2>2, <2>3 DEF DivertsOnly
  <2>5. PICK log \in Transfers[intents[r].settlement] :
            /\ log.token = runs[r].challenge.token
            /\ log.to = runs[r].challenge.payTo
            /\ log.amount = runs[r].challenge.amount
    BY <2>1 DEF SettledAsQuoted, MatchingTransfer
  <2>6. QED
    BY <2>1, <2>2, <2>4, <2>5 DEF SettledAsQuoted, Finalized
<1>2. QED
  BY <1>1, RunsSettleAsQuoted, RunsInvHolds, RunsAsQuoted, PTL
=============================================================================
