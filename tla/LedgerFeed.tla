----------------------------- MODULE LedgerFeed -----------------------------
(***************************************************************************)
(* The live feed of the ledger and the dashboard's Ledger page, one open   *)
(* page.  On loading it asks for all intents and opens an event stream:    *)
(* the ledger sends a snapshot, then one event per change.  The two        *)
(* answers race; the stream breaks and is opened again; the ledger         *)
(* restarts empty, its event numbers too.  What an intent says is          *)
(* abstracted to the number of the change that wrote it last, 0 for an     *)
(* intent that is not there, and the order of the cards is left out.       *)
(***************************************************************************)
EXTENDS Naturals, Sequences

CONSTANTS
    Requests,     \* requestIds
    EventsShown,  \* length of the list of events: 200 in the code
    MaxChanges    \* bound on the changes of the ledger

ASSUME FeedAssumption == MaxChanges \in Nat /\ EventsShown \in Nat \ {0}

VARIABLES
    up,       \* is ledger-service running?
    intents,  \* requestId -> its last change
    seq,      \* ledgerEventSeq
    changes,  \* changes so far, over restarts
    fetch,    \* GET /api/ledger, and its answer
    stream,   \* the EventSource
    pipe,     \* what was sent on it and not read
    cards,    \* the page's intents
    events,   \* the page's event numbers, newest first
    setBack   \* history: cards that a late answer may have set back

ledgerSide == <<up, intents, seq, changes>>
pageSide   == <<cards, events, setBack>>
feedVars   == <<ledgerSide, fetch, stream, pipe, pageSide>>

Contents == [Requests -> 0..MaxChanges]
Nothing  == [r \in Requests |-> 0]

Snapshot == [intents : Contents]
Change   == [seq : 1..MaxChanges,
             intents : UNION {[S -> 0..MaxChanges] : S \in SUBSET Requests}]
Message  == Snapshot \cup Change

FeedInit ==
    /\ up = TRUE /\ intents = Nothing /\ seq = 0 /\ changes = 0
    /\ fetch = [state |-> "asked", answer |-> Nothing]
    /\ stream = "connecting" /\ pipe = << >>
    /\ cards = Nothing /\ events = << >> /\ setBack = {}
-----------------------------------------------------------------------------
(* The ledger *)

(* Mutant: the event is numbered and not sent. *)
AppendUnheard(changed) == seq' = seq + 1 /\ UNCHANGED pipe

(* appendEvent: numbers the event and writes it to the open stream.  Its   *)
(* intent is the part of the store that changed: one intent, or none.      *)
AppendEvent(changed) ==
    /\ seq' = seq + 1
    /\ pipe' = IF stream = "open"
               THEN Append(pipe, [seq |-> seq + 1, intents |-> changed])
               ELSE pipe

(* Any route that writes an intent. *)
ChangeIntent(r) ==
    /\ up /\ changes < MaxChanges
    /\ changes' = changes + 1
    /\ intents' = [intents EXCEPT ![r] = changes + 1]
    /\ AppendEvent([q \in {r} |-> changes + 1])
    /\ UNCHANGED <<up, fetch, stream, pageSide>>

(* Escalations, policies and standing approvals: an event with no intent.  *)
ChangeOther ==
    /\ up /\ changes < MaxChanges
    /\ changes' = changes + 1
    /\ AppendEvent([q \in {} |-> 0])
    /\ UNCHANGED <<up, intents, fetch, stream, pageSide>>

Cut == IF stream = "open" THEN "cut" ELSE stream

LedgerStops ==
    /\ up
    /\ up' = FALSE /\ intents' = Nothing /\ seq' = 0
    /\ stream' = Cut
    /\ UNCHANGED <<changes, fetch, pipe, pageSide>>

LedgerStarts ==
    /\ ~up /\ up' = TRUE
    /\ UNCHANGED <<intents, seq, changes, fetch, stream, pipe, pageSide>>

(* Mutant: only what changes from now on is sent. *)
ConnectWithoutSnapshot ==
    /\ stream = "connecting" /\ up
    /\ stream' = "open"
    /\ UNCHANGED <<ledgerSide, fetch, pipe, pageSide>>

(* GET /ledger/events: the snapshot is sent and the listener registered in *)
(* one step. *)
Connect ==
    /\ stream = "connecting" /\ up
    /\ stream' = "open"
    /\ pipe' = <<[intents |-> intents]>>
    /\ UNCHANGED <<ledgerSide, fetch, pageSide>>

(* The dashboard cannot reach the ledger and answers an error, after which *)
(* a browser does not try an EventSource again. *)
ConnectFails ==
    /\ stream = "connecting" /\ ~up
    /\ stream' = "failed"
    /\ UNCHANGED <<ledgerSide, fetch, pipe, pageSide>>

(* The connection breaks somewhere between ledger and browser. *)
Disconnect ==
    /\ stream = "open" /\ stream' = Cut
    /\ UNCHANGED <<ledgerSide, fetch, pipe, pageSide>>

(* The browser notices and connects again; what it had not read is lost.   *)
Reconnect ==
    /\ stream = "cut"
    /\ stream' = "connecting" /\ pipe' = << >>
    /\ UNCHANGED <<ledgerSide, fetch, pageSide>>
-----------------------------------------------------------------------------
(* The page *)

(* GET /intents by way of GET /api/ledger. *)
AnswerFetch ==
    /\ fetch.state = "asked"
    /\ fetch' = IF up THEN [state |-> "answered", answer |-> intents]
                ELSE [fetch EXCEPT !.state = "failed"]
    /\ UNCHANGED <<ledgerSide, stream, pipe, pageSide>>

(* setIntents(body.intents), whatever the page shows by then. *)
ReadAnswer ==
    /\ fetch.state = "answered"
    /\ fetch' = [fetch EXCEPT !.state = "read"]
    /\ cards' = fetch.answer
    /\ setBack' = setBack \cup {r \in Requests : fetch.answer[r] # cards[r]}
    /\ UNCHANGED <<ledgerSide, stream, pipe, events>>

IsSnapshot(message) == "seq" \notin DOMAIN message

(* Mutant: the events of before stay. *)
SnapshotKeepsEvents ==
    /\ pipe # << >> /\ IsSnapshot(Head(pipe))
    /\ cards' = Head(pipe).intents
    /\ setBack' = {}
    /\ pipe' = Tail(pipe)
    /\ UNCHANGED <<ledgerSide, fetch, stream, events>>

(* The "snapshot" listener replaces both lists ... *)
ReadSnapshot ==
    /\ pipe # << >> /\ IsSnapshot(Head(pipe))
    /\ cards' = Head(pipe).intents
    /\ events' = << >> /\ setBack' = {}
    /\ pipe' = Tail(pipe)
    /\ UNCHANGED <<ledgerSide, fetch, stream>>

Latest(s) == IF Len(s) > EventsShown THEN SubSeq(s, 1, EventsShown) ELSE s

(* ... and the "append" listener adds the event and upserts its intent.    *)
ReadAppend ==
    /\ pipe # << >> /\ ~IsSnapshot(Head(pipe))
    /\ events' = Latest(<<Head(pipe).seq>> \o events)
    /\ cards' = [r \in Requests |->
           IF r \in DOMAIN Head(pipe).intents THEN Head(pipe).intents[r] ELSE cards[r]]
    /\ setBack' = setBack \ DOMAIN Head(pipe).intents
    /\ pipe' = Tail(pipe)
    /\ UNCHANGED <<ledgerSide, fetch, stream>>

Read == ReadSnapshot \/ ReadAppend

FeedNext ==
    \/ \E r \in Requests : ChangeIntent(r)
    \/ ChangeOther \/ LedgerStops \/ LedgerStarts
    \/ Connect \/ ConnectFails \/ Disconnect \/ Reconnect
    \/ AnswerFetch \/ ReadAnswer \/ Read

FeedSpec == FeedInit /\ [][FeedNext]_feedVars

(* The browser keeps connecting and reading, and of the connections it     *)
(* makes for ever, not all break before the snapshot is through.           *)
FeedFairness ==
    /\ WF_feedVars(Connect) /\ WF_feedVars(Reconnect) /\ SF_feedVars(Read)
    /\ WF_feedVars(LedgerStarts)

FairFeedSpec == FeedSpec /\ FeedFairness
-----------------------------------------------------------------------------
(* Type correctness of ledger, connection and page. *)
FeedTypeOK ==
    /\ up \in BOOLEAN
    /\ intents \in Contents /\ cards \in Contents
    /\ seq \in 0..MaxChanges /\ changes \in 0..MaxChanges
    /\ fetch \in [state : {"asked", "answered", "read", "failed"}, answer : Contents]
    /\ stream \in {"connecting", "open", "cut", "failed"}
    /\ pipe \in Seq(Message)
    /\ events \in Seq(1..MaxChanges) /\ Len(events) <= EventsShown
    /\ setBack \subseteq Requests

Settled == stream = "open" /\ pipe = << >>

(* A page that has read all it was sent shows what the ledger holds: the   *)
(* snapshot and the events after it leave no change out, over disconnects  *)
(* and restarts.  Only the answer of the page's own request, which may     *)
(* arrive after the snapshot, can have put an older card back.             *)
SettledPageIsCurrent ==
    Settled => \A r \in Requests \ setBack : cards[r] = intents[r]

(* The list of events has no gap and no repetition, of one life of the     *)
(* ledger only, and ends with the last change once all is read.            *)
EventsHaveNoGap ==
    /\ \A i \in 2..Len(events) : events[i - 1] = events[i] + 1
    /\ Settled /\ events # << >> => events[1] = seq

(* Every change of an intent reaches the page, unless it is overtaken by a *)
(* later one or forgotten by the ledger, set back by a late answer, or the *)
(* stream has failed for good: the ledger was down when it was opened.     *)
ChangeIsShown ==
    \A r \in Requests, change \in 1..MaxChanges :
        intents[r] = change ~>
            \/ cards[r] = change
            \/ intents[r] # change
            \/ r \in setBack
            \/ stream = "failed"
=============================================================================
