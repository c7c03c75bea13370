----------------------------- MODULE AgentRuns -----------------------------
(***************************************************************************)
(* agent-orchestrator: the run of one purchase, from startRun to DONE, over *)
(* the payment services it calls.  A task is one activation of executeRun, *)
(* of resolveRunEscalation or of expireEscalation.  Each of these calls     *)
(* policy-service once, so task c is the caller of handler activation c.   *)
(* The run store, the pending escalations and the timers are memory that   *)
(* tasks of one run share and change between their awaits.                 *)
(***************************************************************************)
EXTENDS Payments

CONSTANTS
    Transfers,   \* transaction -> the Transfer logs in its receipt
    MaxAnswers   \* bound on the answers humans post to escalations

(* What settlement/confirm compares: asset, to and amount of one log. *)
Log == [token : Tokens, to : Addresses, amount : Amounts]

VARIABLES
    runs,       \* requestId -> RunRecord or None
    pending,    \* requestIds in pendingEscalations
    timers,     \* requestId -> expiresAt of its armed timer, or None
    task,       \* client -> what the orchestrator does with it, or None
    presented   \* history: every [client, request] that sent a signed header

runVars == <<runs, pending, timers, task, presented>>
allVars == <<vars, runVars>>

RunStates == {"RUNNING", "ESCALATED", "AWAITING_CHECKOUT", "DONE", "REFUSED", "FAILED"}

isTerminalRunState(state) == state \in {"DONE", "REFUSED", "FAILED"}

(* setOutcome's statuses; an expired refusal says that nothing was signed, *)
(* and "fresh" is a failure with freshRequestRequired. *)
Outcomes == {"refused", "expired", "escalated", "checkout-pending", "signed", "failed", "fresh"}

RunRecord ==
    [mandate : Mandates, instruction : Instructions, challenge : Or(Challenges),
     state : RunStates, outcome : Or(Outcomes)]

AfterSignature ==
    {"payAndIssue", "checkout", "recordSpend", "confirm", "recordSettlement", "recordCapture"}

TaskStages ==
    {"createIntent", "getCard", "attachChallenge", "requestPayment",
     "awaitPolicy", "ended"} \cup AfterSignature

Task ==
    [does : {"run", "resolve", "expire"}, request : Requests, stage : TaskStages,
     tx : Or(Transactions), order : Or(Orders)]

ASSUME RunsAssumption ==
    /\ Transfers \in [Transactions -> SUBSET Log]
    /\ MaxAnswers \in Nat
    /\ Cardinality(Clients) >= 2 * Cardinality(Requests) + MaxAnswers
    /\ None \notin RunRecord \cup Task \cup Outcomes

NewTask(does, r, stage) ==
    [does |-> does, request |-> r, stage |-> stage, tx |-> None, order |-> None]

Doing(c, does, stage) ==
    task[c] # None /\ task[c].does = does /\ task[c].stage = stage

Calling(c, stage) == task[c] # None /\ task[c].stage = stage

RunOf(c) == task[c].request

RunsInit ==
    /\ PaymentsInit
    /\ runs = Empty(Requests)
    /\ pending = {}
    /\ timers = Empty(Requests)
    /\ task = Empty(Clients)
    /\ presented = {}

Become(c, stage) == task' = [task EXCEPT ![c].stage = stage]

(* Mutant: the outcome's status is stored as the state. *)
SetOutcomeAsState(r, state, outcome) ==
    runs' = [runs EXCEPT ![r].state = outcome, ![r].outcome = outcome]

(* setRunState and setOutcome, always called together. *)
SetRun(r, state, outcome) ==
    runs' = [runs EXCEPT ![r].state = state, ![r].outcome = outcome]

(* safeFailure, from whichever function caught the error. *)
Fail(c) ==
    /\ SetRun(RunOf(c), "FAILED",
              IF task[c].stage \in AfterSignature THEN "fresh" ELSE "failed")
    /\ Become(c, "ended")
-----------------------------------------------------------------------------
(* startRun: the id is minted and the run stored before anything is        *)
(* awaited. *)
StartRun(c) ==
    /\ task[c] = None /\ pc[c] = "idle"
    /\ \E r \in Requests \ used, m \in Mandates, i \in Instructions :
          /\ used' = used \cup {r}
          /\ runs' = [runs EXCEPT ![r] =
                 [mandate |-> m, instruction |-> i, challenge |-> None,
                  state |-> "RUNNING", outcome |-> None]]
          /\ task' = [task EXCEPT ![c] = NewTask("run", r, "createIntent")]
    /\ UNCHANGED <<registry, ledgerVars, signerVars, body, got, pc,
                   pending, timers, presented>>

(* A call to the ledger changed it: its answer arrives, or is lost. *)
LedgerAnswers(c, stage) ==
    /\ UNCHANGED <<registry, signerVars, serviceVars, pending, timers, presented>>
    /\ \/ Become(c, stage) /\ UNCHANGED runs
       \/ "answerLost" \in Faults /\ Fail(c)

CallCreateIntent(c) ==
    /\ Calling(c, "createIntent")
    /\ \E t \in {now - 1, now} :
          CreateIntent(RunOf(c), runs[RunOf(c)].mandate, runs[RunOf(c)].instruction, t)
    /\ LedgerAnswers(c, "getCard")

(* Discovery and getCard: the item is found and the card API quotes it. *)
CallGetCard(c) ==
    /\ Calling(c, "getCard")
    /\ \E ch \in Challenges : runs' = [runs EXCEPT ![RunOf(c)].challenge = ch]
    /\ Become(c, "attachChallenge")
    /\ UNCHANGED <<vars, pending, timers, presented>>

CallAttachChallenge(c) ==
    /\ Calling(c, "attachChallenge")
    /\ AttachChallenge(RunOf(c), runs[RunOf(c)].challenge)
    /\ LedgerAnswers(c, "requestPayment")

(* A poisoned page may have changed the recipient or the amount asked for. *)
CallRequestPayment(c) ==
    /\ Calling(c, "requestPayment")
    /\ LET run == runs[RunOf(c)] IN
       \E dom \in SentDomains, matches \in BOOLEAN, ch \in Poisoned(run.challenge),
          a \in {run.challenge.amount} \cup AmountOverrides :
          Begin(c, PaymentBody(RunOf(c), run.mandate, ch, a, dom, matches), "getIntent")
    /\ Become(c, "awaitPolicy")
    /\ UNCHANGED <<runs, pending, timers, presented>>

(* continueSignedRun sends the header before it awaits anything. *)
PresentHeader(c) ==
    /\ presented' = presented \cup {[client |-> c, request |-> RunOf(c)]}
    /\ Become(c, "payAndIssue")

(* handleDecision.  requestPayment throws on every status that is not 2xx, *)
(* a policy refusal (422) included; the deadline is the one answered. *)
PaymentAnswered(c) ==
    /\ Doing(c, "run", "awaitPolicy") /\ pc[c] \in Final
    /\ UNCHANGED vars
    /\ LET r == RunOf(c) IN
       CASE pc[c] = "signed" ->
              PresentHeader(c) /\ UNCHANGED <<runs, pending, timers>>
         [] pc[c] = "escalated" ->
              /\ SetRun(r, "ESCALATED", "escalated")
              /\ pending' = pending \cup {r}
              /\ \E deadline \in IF escalations[r] # None
                                 THEN {escalations[r].expiresAt} ELSE now..(now + Ttl) :
                     timers' = [timers EXCEPT ![r] = deadline]
              /\ Become(c, "ended")
              /\ UNCHANGED presented
         [] OTHER -> Fail(c) /\ UNCHANGED <<pending, timers, presented>>
-----------------------------------------------------------------------------
(* Escalations *)

Awaiting(r) == r \in pending /\ runs[r] # None /\ runs[r].state = "ESCALATED"

Answers == {c \in Clients : task[c] # None /\ task[c].does = "resolve"}

(* POST /run/:id/escalation: whoever posts it, signed by the owner or not. *)
AnswerEscalation(c) ==
    /\ task[c] = None
    /\ Cardinality(Answers) < MaxAnswers
    /\ \E r \in Requests, verdict \in {"approve", "deny"}, byOwner, standing \in BOOLEAN :
          /\ Awaiting(r)
          /\ Begin(c, ResolveBody(r, verdict, byOwner, standing), "getEscalation")
          /\ task' = [task EXCEPT ![c] = NewTask("resolve", r, "awaitPolicy")]
    /\ UNCHANGED <<runs, pending, timers, presented>>

(* Mutant: an error of policy-service clears the timer as well. *)
ErrorClearsTimer(c) ==
    /\ Doing(c, "resolve", "awaitPolicy") /\ pc[c] \in Final
    /\ UNCHANGED vars
    /\ pending' = pending \ {RunOf(c)}
    /\ timers' = [timers EXCEPT ![RunOf(c)] = None]
    /\ CASE pc[c] = "signed" ->
              SetRun(RunOf(c), "RUNNING", "checkout-pending") /\ PresentHeader(c)
         [] pc[c] \in {"refused", "expired"} ->
              /\ SetRun(RunOf(c), "REFUSED", pc[c])
              /\ Become(c, "ended") /\ UNCHANGED presented
         [] OTHER -> Become(c, "ended") /\ UNCHANGED <<runs, presented>>

(* resolveRunEscalation once policy-service has answered.  An error leaves *)
(* the context and the timer as they are. *)
EscalationAnswered(c) ==
    /\ Doing(c, "resolve", "awaitPolicy") /\ pc[c] \in Final
    /\ UNCHANGED vars
    /\ IF pc[c] \in {"signed", "refused", "expired"}
       THEN /\ pending' = pending \ {RunOf(c)}
            /\ timers' = [timers EXCEPT ![RunOf(c)] = None]
       ELSE UNCHANGED <<pending, timers>>
    /\ CASE pc[c] = "signed" ->
              SetRun(RunOf(c), "RUNNING", "checkout-pending") /\ PresentHeader(c)
         [] pc[c] \in {"refused", "expired"} ->
              /\ SetRun(RunOf(c), "REFUSED", pc[c])
              /\ Become(c, "ended") /\ UNCHANGED presented
         [] OTHER -> Become(c, "ended") /\ UNCHANGED <<runs, presented>>

(* The timer fires 250 ms into the second expiresAt, or later. *)
TimerFires(r) ==
    /\ timers[r] # None /\ now >= timers[r]
    /\ timers' = [timers EXCEPT ![r] = None]
    /\ IF runs[r] # None /\ runs[r].state = "ESCALATED"
       THEN \E c \in Clients :
              /\ task[c] = None
              /\ Begin(c, ResolveBody(r, "deny", FALSE, FALSE), "getEscalation")
              /\ task' = [task EXCEPT ![c] = NewTask("expire", r, "awaitPolicy")]
       ELSE UNCHANGED <<vars, task>>
    /\ UNCHANGED <<runs, pending, presented>>

(* Mutant: any answer counts as the denial. *)
ClaimsExpiryAnyway(c) ==
    /\ Doing(c, "expire", "awaitPolicy") /\ pc[c] \in Final
    /\ UNCHANGED <<vars, timers, presented>>
    /\ pending' = pending \ {RunOf(c)}
    /\ SetRun(RunOf(c), "REFUSED", "expired") /\ Become(c, "ended")

(* expireEscalation once policy-service has answered: only 410 lets it     *)
(* claim the denial. *)
ExpiryAnswered(c) ==
    /\ Doing(c, "expire", "awaitPolicy") /\ pc[c] \in Final
    /\ UNCHANGED <<vars, timers, presented>>
    /\ pending' = pending \ {RunOf(c)}
    /\ IF pc[c] \in {"expired", "refused"}
       THEN SetRun(RunOf(c), "REFUSED", "expired") /\ Become(c, "ended")
       ELSE Fail(c)
-----------------------------------------------------------------------------
(* continueSignedRun *)

(* The card API answers with a card and the transaction it says it made. *)
CardIssued(c) ==
    /\ Calling(c, "payAndIssue")
    /\ \E tx \in Transactions :
          task' = [task EXCEPT ![c].stage = "checkout", ![c].tx = tx]
    /\ SetRun(RunOf(c), "AWAITING_CHECKOUT", "checkout-pending")
    /\ UNCHANGED <<vars, pending, timers, presented>>

(* runCheckout or completeUcpCheckout. *)
CheckedOut(c) ==
    /\ Calling(c, "checkout")
    /\ \E o \in Orders :
          task' = [task EXCEPT ![c].stage = "recordSpend", ![c].order = o]
    /\ UNCHANGED <<vars, runs, pending, timers, presented>>

CallRecordSpend(c) ==
    /\ Calling(c, "recordSpend")
    /\ RecordSpend(RunOf(c), task[c].order)
    /\ LedgerAnswers(c, "confirm")

(* Mutant: asset, to and amount are looked for on any log. *)
MatchesAcrossLogs(tx, challenge) ==
    /\ \E log \in Transfers[tx] : log.token = challenge.token
    /\ \E log \in Transfers[tx] : log.to = challenge.payTo
    /\ \E log \in Transfers[tx] : log.amount = challenge.amount

(* findMatchingTransfer: asset, to and amount on one and the same log. *)
MatchingTransfer(tx, challenge) ==
    \E log \in Transfers[tx] :
        /\ log.token = challenge.token
        /\ log.to = challenge.payTo
        /\ log.amount = challenge.amount

(* settlement/confirm; a mismatch is terminal. *)
ConfirmSettlement(c) ==
    /\ Calling(c, "confirm")
    /\ IF MatchingTransfer(task[c].tx, runs[RunOf(c)].challenge)
       THEN Become(c, "recordSettlement") /\ UNCHANGED runs
       ELSE Fail(c)
    /\ UNCHANGED <<vars, pending, timers, presented>>

CallRecordSettlement(c) ==
    /\ Calling(c, "recordSettlement")
    /\ RecordSettlement(RunOf(c), task[c].tx)
    /\ LedgerAnswers(c, "recordCapture")

CallRecordCapture(c) ==
    /\ Calling(c, "recordCapture")
    /\ RecordCapture(RunOf(c), task[c].order, task[c].tx)
    /\ UNCHANGED <<registry, signerVars, serviceVars, pending, timers, presented>>
    /\ \/ SetRun(RunOf(c), "DONE", "signed") /\ Become(c, "ended")
       \/ "answerLost" \in Faults /\ Fail(c)

(* A call fails: the network does, the other side answers an error, the    *)
(* checkout page is not the merchant's, or the ledger has lost the intent. *)
(* Whichever it is, the caller's catch fails the run; for what comes after *)
(* policy-service was reached see PolicyUnheard. *)
CallFails(c) ==
    /\ task[c] # None
    /\ \/ /\ "callFails" \in Faults
          /\ task[c].stage \notin {"awaitPolicy", "ended"}
       \/ /\ ~Exists(RunOf(c))
          /\ task[c].stage \in {"attachChallenge", "recordSpend",
                                "recordSettlement", "recordCapture"}
    /\ Fail(c)
    /\ UNCHANGED <<vars, pending, timers, presented>>

(* The answer of policy-service never comes: its handler goes on, or has   *)
(* done its work, and the run, the human's answer or the timer takes it    *)
(* for an error. *)
PolicyUnheard(c) ==
    /\ "policyUnheard" \in Faults
    /\ Calling(c, "awaitPolicy")
    /\ UNCHANGED <<vars, timers, presented>>
    /\ IF task[c].does = "resolve"
       THEN Become(c, "ended") /\ UNCHANGED runs
       ELSE Fail(c)
    /\ pending' = IF task[c].does = "expire" THEN pending \ {RunOf(c)} ELSE pending

TaskStep(c) ==
    \/ CallCreateIntent(c) \/ CallGetCard(c) \/ CallAttachChallenge(c)
    \/ CallRequestPayment(c) \/ PaymentAnswered(c) \/ EscalationAnswered(c)
    \/ ExpiryAnswered(c) \/ CardIssued(c) \/ CheckedOut(c) \/ CallRecordSpend(c)
    \/ ConfirmSettlement(c) \/ CallRecordSettlement(c) \/ CallRecordCapture(c)
    \/ CallFails(c)

(* The process is replaced: runs, contexts and timers are gone, and nobody *)
(* waits for what policy-service is doing. *)
OrchestratorRestart ==
    /\ "orchestratorRestart" \in Faults
    /\ runs' = Empty(Requests)
    /\ pending' = {}
    /\ timers' = Empty(Requests)
    /\ task' = [c \in Clients |->
                   IF task[c] = None THEN None ELSE [task[c] EXCEPT !.stage = "ended"]]
    /\ UNCHANGED <<vars, presented>>

ServiceStep(c) == (HandlerStep(c) \/ SignerStep(c)) /\ UNCHANGED runVars

ClockStep == TimePasses /\ UNCHANGED runVars

RunsNext ==
    \/ \E c \in Clients :
          \/ StartRun(c) \/ AnswerEscalation(c)
          \/ TaskStep(c) \/ PolicyUnheard(c) \/ ServiceStep(c)
    \/ \E r \in Requests : TimerFires(r)
    \/ (OwnerRevokes \/ PutPolicy \/ FaultStep) /\ UNCHANGED runVars
    \/ ClockStep
    \/ OrchestratorRestart

(* The orchestrator's event loop, its timers and the clock keep going, and *)
(* every call it makes is answered, if only by an error. *)
RunsFairness ==
    /\ \A c \in Clients : WF_allVars(TaskStep(c)) /\ WF_allVars(ServiceStep(c))
    /\ \A r \in Requests : WF_allVars(TimerFires(r))
    /\ WF_allVars(ClockStep)

RunsSpec == RunsInit /\ [][RunsNext]_allVars
FairRunsSpec == RunsSpec /\ RunsFairness
-----------------------------------------------------------------------------
(* Type correctness of the orchestrator's memory. *)
RunsTypeOK ==
    /\ PaymentsTypeOK
    /\ runs \in [Requests -> Or(RunRecord)]
    /\ pending \subseteq Requests
    /\ timers \in [Requests -> Or(Int)]
    /\ task \in [Clients -> Or(Task)]
    /\ presented \subseteq [client : Clients, request : Requests]

(* A signed header reaches the card API once: a run that was approved,     *)
(* denied, timed out or restarted, in whatever order, never pays twice.    *)
HeaderPresentedOnce ==
    \A p, q \in presented : p.request = q.request => p = q

(* A header leaves the services only after the ledger recorded it as       *)
(* signed, so that the window budget and the receipt know of every payment *)
(* that can still happen. *)
HeaderIsOnRecord ==
    \A p \in presented :
        /\ SignedFor(p.request) # {}
        /\ Exists(p.request) => intents[p.request].terms # None

(* A run is DONE when the ledger holds its spend and its capture, the      *)
(* capture names the transaction that was confirmed, and one log of that   *)
(* transaction moves what the card API quoted and the wallet signed. *)
Finalized(i, r) ==
    /\ i.state = "CAPTURED" /\ i.spend # None
    /\ i.settlement # None /\ i.capture.tx = i.settlement
    /\ \E log \in Transfers[i.settlement], s \in SignedFor(r) :
          /\ log.to = s.request.to /\ log.amount = s.request.value
          /\ log.token = s.request.token
          /\ log.amount = i.challenge.amount

DoneIsFinalized ==
    \A r \in Requests :
        (runs[r] # None /\ runs[r].state = "DONE" /\ Exists(r))
            => Finalized(intents[r], r)

(* "An unanswered escalation must never become a signature" (resolve       *)
(* route): behind every signature of an escalated request is an approval   *)
(* the owner signed. *)
UnansweredIsNeverSigned ==
    \A s \in signatures : escalations[s.request.requestId] # None =>
        \E c \in Clients :
            /\ body[c] # None /\ Req(c) = s.request.requestId
            /\ body[c].verdict = "approve" /\ body[c].byOwner

(* The orchestrator claims that an escalation expired only when its        *)
(* resolution is on record. *)
ExpiryClaimIsRecorded ==
    \A r \in Requests :
        (runs[r] # None /\ runs[r].outcome = "expired" /\ escalations[r] # None)
            => escalations[r].resolved

(* No run is stranded: whatever fails, and if nobody ever answers, a run   *)
(* comes to a terminal state (or dies with the process); none stays short  *)
(* of it for ever. *)
Over(r) == runs[r] = None \/ isTerminalRunState(runs[r].state)

NoRunIsStranded == \A r \in Requests : []<>Over(r)
=============================================================================
