------------------------------ MODULE RunTrail ------------------------------
(***************************************************************************)
(* The events of a run and the card in the dashboard that shows them.  The *)
(* orchestrator numbers and keeps the events of each run; a stream replays *)
(* them and then carries the new ones.  The card may start another run     *)
(* while the stream of the run before is still open.  Of a run only what   *)
(* its viewers can tell apart is kept here (AgentRuns has the rest): each  *)
(* step between two awaits emits at most one event and then sets the       *)
(* state, and timer and human answers set it too.                          *)
(***************************************************************************)
EXTENDS Naturals, Sequences, SequencesExt

CONSTANTS
    Runs,      \* requestIds, one for each run
    None,      \* no requestId
    MaxEvents  \* bound on the events of a run: 8 in the code

ASSUME TrailAssumption ==
    None \notin Runs /\ MaxEvents \in Nat

VARIABLES
    run,    \* requestId -> its record in the orchestrator
    card,   \* is a POST /run under way, its answer, the run shown
    conn,   \* requestId -> the card's event source for it
    wire,   \* requestId -> events sent to it and not read
    shown   \* the rows of the card

cardVars  == <<card, conn, wire, shown>>
trailVars == <<run, cardVars>>

RunStates == {"RUNNING", "ESCALATED", "AWAITING_CHECKOUT", "DONE", "REFUSED", "FAILED"}

IsTerminalRunState(state) == state \in {"DONE", "REFUSED", "FAILED"}

(* "none" is a run not started; live says that its code runs, asked that   *)
(* it has escalated, and pending which outcomes of that may still arrive.  *)
RunRecord ==
    [state : RunStates \cup {"none"}, live : BOOLEAN, emitted : 0..MaxEvents,
     asked : BOOLEAN, pending : SUBSET {"answer", "expiry"}]

NoRun == [state |-> "none", live |-> FALSE, emitted |-> 0,
          asked |-> FALSE, pending |-> {}]

Row == [run : Runs, seq : 1..MaxEvents]

TrailInit ==
    /\ run = [r \in Runs |-> NoRun]
    /\ card = [busy |-> FALSE, answer |-> None, request |-> None]
    /\ conn = [r \in Runs |-> "none"]
    /\ wire = [r \in Runs |-> << >>]
    /\ shown = << >>
-----------------------------------------------------------------------------
(* The run *)

(* Mutant: the event is kept, and no subscriber called. *)
EmitUnheard(r, record) ==
    /\ run[r].emitted < MaxEvents
    /\ run' = [run EXCEPT ![r] = [record EXCEPT !.emitted = run[r].emitted + 1]]
    /\ UNCHANGED cardVars

(* emitEvent, and then what the step assigns.  The subscriber of an open   *)
(* stream writes the event, and ends the stream if the run is over by the  *)
(* state it has then, which the step has not set yet. *)
EmitThen(r, record) ==
    /\ run[r].emitted < MaxEvents
    /\ run' = [run EXCEPT ![r] = [record EXCEPT !.emitted = run[r].emitted + 1]]
    /\ IF conn[r] = "open"
       THEN /\ wire' = [wire EXCEPT ![r] = Append(@, run[r].emitted + 1)]
            /\ conn' = IF IsTerminalRunState(run[r].state)
                       THEN [conn EXCEPT ![r] = "ended"] ELSE conn
       ELSE UNCHANGED <<wire, conn>>
    /\ UNCHANGED <<card, shown>>

Set(r, record) == run' = [run EXCEPT ![r] = record] /\ UNCHANGED cardVars

(* A stage is reached; once the card is issued the run awaits checkout.    *)
GoesOn(r) ==
    /\ run[r].live
    /\ \E state \in {run[r].state, "AWAITING_CHECKOUT"} :
          EmitThen(r, [run[r] EXCEPT !.state = state])

(* handleDecision, "escalated": the run waits for a human, and a timer.    *)
Escalates(r) ==
    /\ run[r].live /\ run[r].state = "RUNNING" /\ ~run[r].asked
    /\ EmitThen(r, [run[r] EXCEPT !.state = "ESCALATED", !.live = FALSE, !.asked = TRUE,
                                  !.pending = {"answer", "expiry"}])

(* Settlement is finalized or refused with an event ... *)
Finalizes(r) ==
    /\ run[r].live
    /\ \E state \in {"DONE", "FAILED"} :
          EmitThen(r, [run[r] EXCEPT !.state = state, !.live = FALSE])

(* ... and whatever throws before ends the run without one, a refusal of   *)
(* policy-service included: it comes as a 422, on which its client throws. *)
FailsSafe(r) ==
    /\ run[r].live
    /\ Set(r, [run[r] EXCEPT !.state = "FAILED", !.live = FALSE])

(* resolveRunEscalation comes back, from an answer given while the run was *)
(* escalated and perhaps not before it has expired: signed, or refused. *)
IsAnswered(r) ==
    /\ "answer" \in run[r].pending
    /\ \/ Set(r, [run[r] EXCEPT !.pending = @ \ {"answer"}, !.state = "RUNNING", !.live = TRUE])
       \/ Set(r, [run[r] EXCEPT !.pending = @ \ {"answer"}, !.state = "REFUSED"])

(* expireEscalation comes back, perhaps after the answer: the denial is on *)
(* record, or the run fails closed.  A timer cleared in time never does.   *)
Expires(r) ==
    /\ "expiry" \in run[r].pending
    /\ \E state \in {"REFUSED", "FAILED"} :
          Set(r, [run[r] EXCEPT !.pending = @ \ {"expiry"}, !.state = state])
-----------------------------------------------------------------------------
(* The card *)

(* "Start run", or "Run again" while an older stream may be open. *)
StartRun ==
    /\ ~card.busy
    /\ card' = [card EXCEPT !.busy = TRUE, !.answer = None]
    /\ UNCHANGED <<run, conn, wire, shown>>

(* POST /run: createRun, under a fresh id. *)
CreateRun(r) ==
    /\ card.busy /\ card.answer = None
    /\ run[r].state = "none"
    /\ run' = [run EXCEPT ![r] = [NoRun EXCEPT !.state = "RUNNING", !.live = TRUE]]
    /\ card' = [card EXCEPT !.answer = r]
    /\ UNCHANGED <<conn, wire, shown>>

(* A dependency is not ready, or the answer is lost: the card shows an     *)
(* error above the rows it had. *)
StartFails ==
    /\ card.busy
    /\ card' = [card EXCEPT !.busy = FALSE, !.answer = None]
    /\ UNCHANGED <<run, conn, wire, shown>>

(* The answer is read: no rows, and one more event source. *)
ShowRun ==
    /\ card.answer # None
    /\ card' = [busy |-> FALSE, answer |-> None, request |-> card.answer]
    /\ conn' = [conn EXCEPT ![card.answer] = "opening"]
    /\ shown' = << >>
    /\ UNCHANGED <<run, wire>>

(* Mutant: subscribes without the replay. *)
SubscribeOnly(r) ==
    /\ conn[r] = "opening"
    /\ conn' = [conn EXCEPT ![r] = "open"]
    /\ UNCHANGED <<run, card, wire, shown>>

(* GET /run/:requestId/events: all events so far, and the new ones unless  *)
(* the run is over. *)
OpenStream(r) ==
    /\ conn[r] = "opening"
    /\ conn' = [conn EXCEPT ![r] =
           IF IsTerminalRunState(run[r].state) THEN "ended" ELSE "open"]
    /\ wire' = [wire EXCEPT ![r] = [i \in 1..run[r].emitted |-> i]]
    /\ UNCHANGED <<run, card, shown>>

HasRow(n) == \E i \in DOMAIN shown : shown[i].seq = n

(* Mutant: no look at the rows there are. *)
AppendRow(r) ==
    /\ wire[r] # << >>
    /\ shown' = Append(shown, [run |-> r, seq |-> Head(wire[r])])
    /\ wire' = [wire EXCEPT ![r] = Tail(@)]
    /\ UNCHANGED <<run, card, conn>>

(* onmessage: a row, unless one has its number, of whichever run. *)
ReadEvent(r) ==
    /\ wire[r] # << >>
    /\ shown' = IF HasRow(Head(wire[r])) THEN shown
                ELSE Append(shown, [run |-> r, seq |-> Head(wire[r])])
    /\ wire' = [wire EXCEPT ![r] = Tail(@)]
    /\ UNCHANGED <<run, card, conn>>

(* onerror closes the source for good, at the end of a stream ... *)
StreamEnds(r) ==
    /\ conn[r] = "ended" /\ wire[r] = << >>
    /\ conn' = [conn EXCEPT ![r] = "closed"]
    /\ UNCHANGED <<run, card, wire, shown>>

(* ... and when it breaks: on the way, or because the orchestrator has     *)
(* restarted, after which nobody sees the run any more. *)
StreamBreaks(r) ==
    /\ conn[r] \in {"opening", "open", "ended"}
    /\ conn' = [conn EXCEPT ![r] = "closed"]
    /\ wire' = [wire EXCEPT ![r] = << >>]
    /\ UNCHANGED <<run, card, shown>>

RunStep(r) ==
    \/ GoesOn(r) \/ Escalates(r) \/ Finalizes(r) \/ FailsSafe(r)
    \/ IsAnswered(r) \/ Expires(r)

CardStep(r) ==
    \/ CreateRun(r) \/ OpenStream(r) \/ ReadEvent(r) \/ StreamEnds(r) \/ StreamBreaks(r)

TrailNext ==
    \/ \E r \in Runs : RunStep(r) \/ CardStep(r)
    \/ StartRun \/ StartFails \/ ShowRun

TrailSpec == TrailInit /\ [][TrailNext]_trailVars

(* The orchestrator serves, the browser reads and notices the end. *)
TrailFairness ==
    \A r \in Runs :
        /\ WF_trailVars(OpenStream(r)) /\ WF_trailVars(ReadEvent(r))
        /\ WF_trailVars(StreamEnds(r))

FairTrailSpec == TrailSpec /\ TrailFairness
-----------------------------------------------------------------------------
(* Type correctness of runs, streams and card. *)
TrailTypeOK ==
    /\ run \in [Runs -> RunRecord]
    /\ card \in [busy : BOOLEAN, answer : Runs \cup {None},
                 request : Runs \cup {None}]
    /\ conn \in [Runs -> {"none", "opening", "open", "ended", "closed"}]
    /\ wire \in [Runs -> Seq(1..MaxEvents)]
    /\ shown \in Seq(Row)
    /\ Len(shown) <= MaxEvents

(* While the stream of the run shown is open, every event of that run is   *)
(* on its way or has a row with its number: none falls between replay and  *)
(* subscription, none is repeated.  And as long as no event of an older    *)
(* run has come in between, the rows are the run's events in order.        *)
TrailIsFaithful ==
    LET r == card.request IN
    r # None =>
        /\ conn[r] = "open" =>
              \A n \in 1..run[r].emitted : HasRow(n) \/ Contains(wire[r], n)
        /\ (\A i \in DOMAIN shown : shown[i].run = r) =>
              \A i \in DOMAIN shown : shown[i].seq = i

(* An event of the run shown gets a row of that run as long as its stream  *)
(* lasts, unless a row of an older run has its number: then the card drops *)
(* it, and shows the older run's event in its place. *)
OwnRow(r, n) == Contains(shown, [run |-> r, seq |-> n])

TrailCatchesUp ==
    \A r \in Runs, n \in 1..MaxEvents :
        card.request = r /\ run[r].emitted >= n ~>
            \/ OwnRow(r, n)
            \/ \E older \in Runs \ {r} : OwnRow(older, n)
            \/ card.request # r
            \/ conn[r] = "closed"
=============================================================================
