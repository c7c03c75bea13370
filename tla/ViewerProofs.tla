---------------------------- MODULE ViewerProofs ----------------------------
(* What the dashboard shows.  The Ledger page never misses a change, for   *)
(* any number of intents and changes: what it has not read yet ends in     *)
(* what the ledger holds.  The card of a run, for any number of runs,      *)
(* events, breaks and second starts: nothing falls between replay and      *)
(* subscription, rows are in order, and there are never more of them than  *)
(* a run has events. *)
EXTENDS LedgerFeed, RunTrail, SequenceTheorems, FiniteSetTheorems, TLAPS

(* Of the messages p not read yet: does the ith say something of an        *)
(* intent, does none, and does the last one that does say "held"? *)
Concerns(p, i, r) == r \in DOMAIN p[i].intents
Silent(p, r)      == \A i \in 1..Len(p) : ~Concerns(p, i, r)
LastSays(p, r, held) ==
    \A i \in 1..Len(p) :
        Concerns(p, i, r) /\ (\A j \in (i + 1)..Len(p) : ~Concerns(p, j, r)) =>
            p[i].intents[r] = held

(* The last message about an intent says what the ledger holds; without    *)
(* one the card says it. *)
PipeEndsInLedger ==
    stream = "open" => \A r \in Requests :
        /\ Silent(pipe, r) => r \in setBack \/ cards[r] = intents[r]
        /\ LastSays(pipe, r, intents[r])

FeedInv == FeedTypeOK /\ seq <= changes /\ PipeEndsInLedger

LEMMA MessageShape ==
    ASSUME NEW message \in Message
    PROVE  /\ IsSnapshot(message) => message.intents \in Contents
           /\ ~IsSnapshot(message) => message \in Change
           /\ DOMAIN message.intents \subseteq Requests
           /\ \A r \in DOMAIN message.intents : message.intents[r] \in 0..MaxChanges
BY DEF Message, Snapshot, Change, IsSnapshot, Contents

LEMMA HeadIsMessage ==
    ASSUME FeedTypeOK, pipe # << >>
    PROVE  /\ Head(pipe) \in Message /\ Head(pipe) = pipe[1]
           /\ Tail(pipe) \in Seq(Message) /\ Len(Tail(pipe)) = Len(pipe) - 1
           /\ \A i \in 1..Len(Tail(pipe)) : Tail(pipe)[i] = pipe[i + 1]
BY DEF FeedTypeOK

LEMMA FeedInitInv == FeedInit => FeedInv
BY FeedAssumption DEF FeedInit, FeedInv, FeedTypeOK, Contents, Nothing, PipeEndsInLedger

LEMMA AppendEventTyped ==
    ASSUME FeedInv, changes < MaxChanges,
           NEW S \in SUBSET Requests, NEW changed \in [S -> 0..MaxChanges],
           AppendEvent(changed)
    PROVE  seq' \in 0..MaxChanges /\ seq' <= changes + 1 /\ pipe' \in Seq(Message)
<1>1. seq + 1 \in 1..MaxChanges /\ seq' <= changes + 1
  BY FeedAssumption DEF FeedInv, FeedTypeOK, AppendEvent
<1>2. [seq |-> seq + 1, intents |-> changed] \in Change
  BY <1>1 DEF Change
<1>3. QED
  BY <1>1, <1>2 DEF FeedInv, FeedTypeOK, AppendEvent, Message

LEMMA ChangeIntentTyped ==
    ASSUME FeedInv, NEW r \in Requests, ChangeIntent(r)
    PROVE  FeedTypeOK' /\ seq' <= changes'
<1>1. changes + 1 \in 0..MaxChanges
  BY FeedAssumption DEF FeedInv, FeedTypeOK, ChangeIntent
<1>2. [q \in {r} |-> changes + 1] \in [{r} -> 0..MaxChanges]
  BY <1>1
<1>3. seq' \in 0..MaxChanges /\ seq' <= changes + 1 /\ pipe' \in Seq(Message)
  BY <1>2, AppendEventTyped DEF ChangeIntent
<1>4. QED
  BY <1>1, <1>3 DEF FeedInv, FeedTypeOK, ChangeIntent, Contents, pageSide

LEMMA ChangeOtherTyped ==
    ASSUME FeedInv, ChangeOther
    PROVE  FeedTypeOK' /\ seq' <= changes'
<1>1. changes + 1 \in 0..MaxChanges
  BY FeedAssumption DEF FeedInv, FeedTypeOK, ChangeOther
<1>2. [q \in {} |-> 0] \in [{} -> 0..MaxChanges]
  OBVIOUS
<1>3. seq' \in 0..MaxChanges /\ seq' <= changes + 1 /\ pipe' \in Seq(Message)
  BY <1>2, AppendEventTyped DEF ChangeOther
<1>4. QED
  BY <1>1, <1>3 DEF FeedInv, FeedTypeOK, ChangeOther, pageSide

LEMMA LatestTyped ==
    ASSUME NEW s \in Seq(1..MaxChanges)
    PROVE  Latest(s) \in Seq(1..MaxChanges) /\ Len(Latest(s)) <= EventsShown
<1>1. CASE Len(s) > EventsShown
  <2>1. /\ SubSeq(s, 1, EventsShown) \in Seq(1..MaxChanges)
        /\ Len(SubSeq(s, 1, EventsShown)) = EventsShown
    BY <1>1, FeedAssumption, SubSeqProperties
  <2>2. QED
    BY <1>1, <2>1, FeedAssumption DEF Latest
<1>2. CASE Len(s) <= EventsShown
  BY <1>2, FeedAssumption DEF Latest
<1>3. QED
  BY <1>1, <1>2, FeedAssumption

LEMMA ReadTyped ==
    ASSUME FeedInv, Read
    PROVE  FeedTypeOK' /\ seq' <= changes'
<1>1. pipe # << >> /\ pipe' = Tail(pipe) /\ Tail(pipe) \in Seq(Message) /\ Head(pipe) \in Message
  BY HeadIsMessage DEF FeedInv, Read, ReadSnapshot, ReadAppend
<1>2. CASE ReadSnapshot
  <2>1. cards' \in Contents
    BY <1>1, <1>2, MessageShape DEF ReadSnapshot
  <2>2. QED
    BY <1>1, <1>2, <2>1, FeedAssumption DEF FeedInv, FeedTypeOK, ReadSnapshot, ledgerSide
<1>3. CASE ReadAppend
  <2>1. Head(pipe).seq \in 1..MaxChanges
    BY <1>1, <1>3, MessageShape DEF ReadAppend, Change
  <2>2. <<Head(pipe).seq>> \o events \in Seq(1..MaxChanges)
    BY <2>1 DEF FeedInv, FeedTypeOK
  <2>3. events' \in Seq(1..MaxChanges) /\ Len(events') <= EventsShown
    BY <1>3, <2>2, LatestTyped DEF ReadAppend
  <2>4. cards' \in Contents
    BY <1>1, <1>3, MessageShape DEF FeedInv, FeedTypeOK, ReadAppend, Contents
  <2>5. QED
    BY <1>1, <1>3, <2>3, <2>4 DEF FeedInv, FeedTypeOK, ReadAppend, ledgerSide
<1>4. QED
  BY <1>2, <1>3 DEF Read

LEMMA ConnectTyped ==
    ASSUME FeedInv, Connect
    PROVE  FeedTypeOK' /\ seq' <= changes'
<1>1. [intents |-> intents] \in Snapshot
  BY DEF FeedInv, FeedTypeOK, Snapshot
<1>2. pipe' \in Seq(Message)
  BY <1>1 DEF Connect, Message
<1>3. QED
  BY <1>2 DEF FeedInv, FeedTypeOK, Connect, ledgerSide, pageSide

LEMMA FeedTypeStep ==
    ASSUME FeedInv, [FeedNext]_feedVars
    PROVE  FeedTypeOK' /\ seq' <= changes'
<1>1. CASE LedgerStops
  <2>1. 0 \in 0..MaxChanges /\ Nothing \in Contents
    BY FeedAssumption DEF Contents, Nothing
  <2>2. seq' <= changes' /\ stream' \in {"connecting", "open", "cut", "failed"}
    BY <1>1, FeedAssumption DEF FeedInv, FeedTypeOK, LedgerStops, Cut
  <2>3. QED
    BY <1>1, <2>1, <2>2 DEF FeedInv, FeedTypeOK, LedgerStops, pageSide
<1>2. CASE LedgerStarts \/ ConnectFails \/ Disconnect \/ Reconnect
  <2>1. pipe' \in Seq(Message)
    <3>1. pipe' = pipe \/ pipe' = << >>
      BY <1>2 DEF LedgerStarts, ConnectFails, Disconnect, Reconnect
    <3>2. pipe \in Seq(Message) /\ << >> \in Seq(Message)
      BY DEF FeedInv, FeedTypeOK
    <3>3. QED
      BY <3>1, <3>2
  <2>2. stream' \in {"connecting", "open", "cut", "failed"}
    BY <1>2 DEF FeedInv, FeedTypeOK, LedgerStarts, ConnectFails, Disconnect, Reconnect, Cut
  <2>3. up' \in BOOLEAN /\ UNCHANGED <<intents, seq, changes, fetch, cards, events, setBack>>
    BY <1>2 DEF FeedInv, FeedTypeOK, LedgerStarts, ConnectFails, Disconnect, Reconnect,
                ledgerSide, pageSide
  <2>4. QED
    BY <2>1, <2>2, <2>3 DEF FeedInv, FeedTypeOK
<1>3. CASE AnswerFetch
  BY <1>3 DEF FeedInv, FeedTypeOK, AnswerFetch, ledgerSide, pageSide
<1>4. CASE ReadAnswer
  BY <1>4 DEF FeedInv, FeedTypeOK, ReadAnswer, ledgerSide
<1>5. CASE UNCHANGED feedVars
  BY <1>5 DEF FeedInv, FeedTypeOK, feedVars, ledgerSide, pageSide
<1>6. QED
  BY <1>1, <1>2, <1>3, <1>4, <1>5, ChangeIntentTyped, ChangeOtherTyped, ReadTyped, ConnectTyped
     DEF FeedNext

(* A message at the end of the pipe has the last word on what it concerns. *)
LEMMA AppendLast ==
    ASSUME NEW p \in Seq(Message), NEW m \in Message, NEW r, NEW held,
           NEW q, q = Append(p, m)
    PROVE  /\ r \in DOMAIN m.intents => ~Silent(q, r) /\ LastSays(q, r, m.intents[r])
           /\ r \notin DOMAIN m.intents =>
                 /\ Silent(q, r) => Silent(p, r)
                 /\ LastSays(p, r, held) => LastSays(q, r, held)
<1>1. /\ Len(p) \in Nat /\ Len(q) = Len(p) + 1 /\ q[Len(q)] = m
      /\ \A i \in 1..Len(p) : q[i] = p[i]
  OBVIOUS
<1>2. \A i \in 1..Len(p) : Concerns(q, i, r) <=> Concerns(p, i, r)
  BY <1>1 DEF Concerns
<1>3. Concerns(q, Len(q), r) <=> r \in DOMAIN m.intents
  BY <1>1 DEF Concerns
<1>4. ASSUME r \in DOMAIN m.intents
      PROVE  ~Silent(q, r) /\ LastSays(q, r, m.intents[r])
  <2>1. ~Silent(q, r)
    BY <1>1, <1>3, <1>4 DEF Silent
  <2>2. ASSUME NEW i \in 1..Len(q), i # Len(q)
        PROVE  ~ \A j \in (i + 1)..Len(q) : ~Concerns(q, j, r)
    <3>1. Len(q) \in (i + 1)..Len(q)
      BY <1>1, <2>2
    <3>2. QED
      BY <1>3, <1>4, <3>1
  <2>3. QED
    BY <1>1, <2>1, <2>2 DEF LastSays
<1>5. ASSUME r \notin DOMAIN m.intents
      PROVE  /\ Silent(q, r) => Silent(p, r)
             /\ LastSays(p, r, held) => LastSays(q, r, held)
  <2>1. Silent(q, r) => Silent(p, r)
    BY <1>1, <1>2 DEF Silent
  <2>2. ASSUME LastSays(p, r, held), NEW i \in 1..Len(q), Concerns(q, i, r),
               \A j \in (i + 1)..Len(q) : ~Concerns(q, j, r)
        PROVE  q[i].intents[r] = held
    <3>1. i \in 1..Len(p)
      BY <1>1, <1>3, <1>5, <2>2
    <3>2. \A j \in (i + 1)..Len(p) : j \in 1..Len(p) /\ j \in (i + 1)..Len(q)
      BY <1>1, <3>1
    <3>3. Concerns(p, i, r) /\ \A j \in (i + 1)..Len(p) : ~Concerns(p, j, r)
      BY <1>2, <2>2, <3>1, <3>2
    <3>4. QED
      BY <1>1, <2>2, <3>1, <3>3 DEF LastSays
  <2>3. QED
    BY <2>1, <2>2 DEF LastSays
<1>6. QED
  BY <1>4, <1>5

(* Reading a message leaves the last word to the others, if any has it. *)
LEMMA ReadFirst ==
    ASSUME NEW p \in Seq(Message), p # << >>, NEW r, NEW held, LastSays(p, r, held),
           NEW q, q = Tail(p)
    PROVE  /\ LastSays(q, r, held)
           /\ Silent(q, r) /\ Concerns(p, 1, r) => Head(p).intents[r] = held
           /\ Silent(q, r) /\ ~Concerns(p, 1, r) => Silent(p, r)
<1>1. /\ Len(p) \in Nat \ {0} /\ Len(q) = Len(p) - 1 /\ Head(p) = p[1]
      /\ \A i \in 1..Len(q) : q[i] = p[i + 1]
  OBVIOUS
<1>2. \A i \in 1..Len(q) : Concerns(q, i, r) <=> Concerns(p, i + 1, r)
  BY <1>1 DEF Concerns
<1>3. \A j \in 2..Len(p) : j - 1 \in 1..Len(q) /\ (Concerns(p, j, r) <=> Concerns(q, j - 1, r))
  <2>1. ASSUME NEW j \in 2..Len(p)
        PROVE  j - 1 \in 1..Len(q) /\ (Concerns(p, j, r) <=> Concerns(q, j - 1, r))
    <3>1. j - 1 \in 1..Len(q) /\ (j - 1) + 1 = j
      BY <1>1
    <3>2. QED
      BY <1>2, <3>1
  <2>2. QED
    BY <2>1
<1>4. ASSUME NEW i \in 1..Len(q), Concerns(q, i, r),
             \A j \in (i + 1)..Len(q) : ~Concerns(q, j, r)
      PROVE  q[i].intents[r] = held
  <2>1. i + 1 \in 1..Len(p) /\ Concerns(p, i + 1, r)
    BY <1>1, <1>2, <1>4
  <2>2. ASSUME NEW j \in ((i + 1) + 1)..Len(p) PROVE ~Concerns(p, j, r)
    <3>1. j \in 2..Len(p) /\ j - 1 \in (i + 1)..Len(q)
      BY <1>1
    <3>2. QED
      BY <1>3, <1>4, <3>1
  <2>3. p[i + 1].intents[r] = held
    BY <2>1, <2>2 DEF LastSays
  <2>4. QED
    BY <1>1, <2>3
<1>5. LastSays(q, r, held)
  BY <1>4 DEF LastSays
<1>6. ASSUME Silent(q, r) PROVE \A j \in 2..Len(p) : ~Concerns(p, j, r)
  BY <1>3, <1>6 DEF Silent
<1>7. 1 \in 1..Len(p) /\ 1 + 1 = 2
  BY <1>1
<1>8. Silent(q, r) /\ Concerns(p, 1, r) => Head(p).intents[r] = held
  BY <1>1, <1>6, <1>7 DEF LastSays
<1>9. Silent(q, r) /\ ~Concerns(p, 1, r) => Silent(p, r)
  <2>1. \A j \in 1..Len(p) : j = 1 \/ j \in 2..Len(p)
    BY <1>1
  <2>2. QED
    BY <1>6, <2>1 DEF Silent
<1>10. QED
  BY <1>5, <1>8, <1>9

LEMMA ChangeKeepsPipe ==
    ASSUME FeedInv, changes < MaxChanges, stream = "open",
           NEW S \in SUBSET Requests, NEW changed \in [S -> 0..MaxChanges],
           AppendEvent(changed), UNCHANGED <<stream, cards, setBack>>,
           \A r \in Requests : intents'[r] = IF r \in S THEN changed[r] ELSE intents[r]
    PROVE  PipeEndsInLedger'
<1> DEFINE message == [seq |-> seq + 1, intents |-> changed]
<1>1. seq + 1 \in 1..MaxChanges
  BY FeedAssumption DEF FeedInv, FeedTypeOK
<1>2. message \in Message
  BY <1>1 DEF Message, Change
<1>3. pipe \in Seq(Message) /\ pipe' = Append(pipe, message)
  BY DEF FeedInv, FeedTypeOK, AppendEvent
<1>4. message.intents = changed /\ DOMAIN changed = S
  OBVIOUS
<1> HIDE DEF message
<1>5. ASSUME NEW r \in Requests
      PROVE  /\ Silent(pipe', r) => r \in setBack' \/ cards'[r] = intents'[r]
             /\ LastSays(pipe', r, intents'[r])
  <2>1. /\ Silent(pipe, r) => r \in setBack \/ cards[r] = intents[r]
        /\ LastSays(pipe, r, intents[r])
    BY DEF FeedInv, PipeEndsInLedger
  <2>2. CASE r \in S
    <3>1. ~Silent(pipe', r) /\ LastSays(pipe', r, changed[r])
      BY <1>2, <1>3, <1>4, <2>2, AppendLast
    <3>2. QED
      BY <2>2, <3>1
  <2>3. CASE r \notin S
    <3>1. (Silent(pipe', r) => Silent(pipe, r)) /\ LastSays(pipe', r, intents[r])
      BY <1>2, <1>3, <1>4, <2>1, <2>3, AppendLast
    <3>2. QED
      BY <2>1, <2>3, <3>1
  <2>4. QED
    BY <2>2, <2>3
<1>6. QED
  BY <1>5 DEF PipeEndsInLedger

LEMMA ChangeIntentKeepsPipe ==
    ASSUME FeedInv, NEW q \in Requests, ChangeIntent(q)
    PROVE  PipeEndsInLedger'
<1>1. [p \in {q} |-> changes + 1] \in [{q} -> 0..MaxChanges] /\ {q} \in SUBSET Requests
  BY FeedAssumption DEF ChangeIntent, FeedInv, FeedTypeOK
<1>2. \A r \in Requests : intents'[r] =
          IF r \in {q} THEN [p \in {q} |-> changes + 1][r] ELSE intents[r]
  BY DEF ChangeIntent, FeedInv, FeedTypeOK, Contents
<1>3. stream # "open" => PipeEndsInLedger'
  BY DEF ChangeIntent, PipeEndsInLedger
<1>4. stream = "open" => PipeEndsInLedger'
  BY <1>1, <1>2, ChangeKeepsPipe DEF ChangeIntent, pageSide
<1>5. QED
  BY <1>3, <1>4

LEMMA ChangeOtherKeepsPipe ==
    ASSUME FeedInv, ChangeOther
    PROVE  PipeEndsInLedger'
<1>1. [p \in {} |-> 0] \in [{} -> 0..MaxChanges] /\ {} \in SUBSET Requests
  OBVIOUS
<1>2. \A r \in Requests : intents'[r] =
          IF r \in {} THEN [p \in {} |-> 0][r] ELSE intents[r]
  BY DEF ChangeOther
<1>3. stream # "open" => PipeEndsInLedger'
  BY DEF ChangeOther, PipeEndsInLedger
<1>4. stream = "open" => PipeEndsInLedger'
  BY <1>1, <1>2, ChangeKeepsPipe DEF ChangeOther, pageSide
<1>5. QED
  BY <1>3, <1>4

LEMMA ReadKeepsPipe ==
    ASSUME FeedInv, Read
    PROVE  PipeEndsInLedger'
<1>1. pipe # << >> /\ pipe' = Tail(pipe) /\ UNCHANGED <<intents, stream>>
  BY DEF Read, ReadSnapshot, ReadAppend, ledgerSide
<1>2. pipe \in Seq(Message) /\ Head(pipe) \in Message /\ Head(pipe) = pipe[1]
  BY <1>1, HeadIsMessage DEF FeedInv, FeedTypeOK
<1>3. ASSUME stream = "open", NEW r \in Requests
      PROVE  /\ Silent(pipe', r) => r \in setBack' \/ cards'[r] = intents'[r]
             /\ LastSays(pipe', r, intents'[r])
  <2>1. /\ Silent(pipe, r) => r \in setBack \/ cards[r] = intents[r]
        /\ LastSays(pipe, r, intents[r])
    BY <1>3 DEF FeedInv, PipeEndsInLedger
  <2>2. /\ LastSays(pipe', r, intents[r])
        /\ Silent(pipe', r) /\ Concerns(pipe, 1, r) => Head(pipe).intents[r] = intents[r]
        /\ Silent(pipe', r) /\ ~Concerns(pipe, 1, r) => Silent(pipe, r)
    BY <1>1, <1>2, <2>1, ReadFirst
  <2>3. Concerns(pipe, 1, r) <=> r \in DOMAIN Head(pipe).intents
    BY <1>2 DEF Concerns
  <2>4. CASE ReadSnapshot
    <3>1. cards' = Head(pipe).intents /\ r \in DOMAIN Head(pipe).intents
      BY <1>2, <2>4, MessageShape DEF ReadSnapshot, Contents
    <3>2. QED
      BY <1>1, <2>2, <2>3, <3>1
  <2>5. CASE ReadAppend
    <3>1. /\ r \in DOMAIN Head(pipe).intents => cards'[r] = Head(pipe).intents[r]
          /\ r \notin DOMAIN Head(pipe).intents =>
                cards'[r] = cards[r] /\ (r \in setBack => r \in setBack')
      BY <2>5 DEF ReadAppend
    <3>2. QED
      BY <1>1, <2>1, <2>2, <2>3, <3>1
  <2>6. QED
    BY <2>4, <2>5 DEF Read
<1>4. QED
  BY <1>1, <1>3 DEF PipeEndsInLedger

LEMMA ConnectKeepsPipe ==
    ASSUME FeedInv, Connect
    PROVE  PipeEndsInLedger'
<1>1. Len(pipe') = 1 /\ pipe'[1].intents = intents /\ intents' = intents
  BY DEF Connect, ledgerSide
<1>2. ASSUME NEW r \in Requests
      PROVE  /\ ~Silent(pipe', r) /\ LastSays(pipe', r, intents'[r])
  <2>1. Concerns(pipe', 1, r) /\ pipe'[1].intents[r] = intents'[r]
    BY <1>1 DEF Concerns, FeedInv, FeedTypeOK, Contents
  <2>2. QED
    BY <1>1, <2>1 DEF Silent, LastSays
<1>3. QED
  BY <1>2 DEF PipeEndsInLedger

LEMMA PipeStep ==
    ASSUME FeedInv, [FeedNext]_feedVars
    PROVE  PipeEndsInLedger'
<1>1. CASE LedgerStops \/ ConnectFails \/ Disconnect \/ Reconnect
  <2>1. stream' # "open"
    BY <1>1 DEF LedgerStops, ConnectFails, Disconnect, Reconnect, Cut
  <2>2. QED
    BY <2>1 DEF PipeEndsInLedger
<1>2. CASE LedgerStarts \/ AnswerFetch \/ UNCHANGED feedVars
  <2>1. UNCHANGED <<stream, pipe, intents, cards, setBack>>
    BY <1>2 DEF LedgerStarts, AnswerFetch, feedVars, ledgerSide, pageSide
  <2>2. QED
    BY <2>1 DEF FeedInv, PipeEndsInLedger
<1>3. CASE ReadAnswer
  <2>1. \A r \in Requests : r \in setBack' \/ (r \notin setBack /\ cards'[r] = cards[r])
    BY <1>3 DEF ReadAnswer
  <2>2. UNCHANGED <<stream, pipe, intents>>
    BY <1>3 DEF ReadAnswer, ledgerSide
  <2>3. QED
    BY <2>1, <2>2 DEF FeedInv, PipeEndsInLedger
<1>4. QED
  BY <1>1, <1>2, <1>3, ChangeIntentKeepsPipe, ChangeOtherKeepsPipe, ConnectKeepsPipe,
     ReadKeepsPipe DEF FeedNext

LEMMA FeedInvHolds == FeedSpec => []FeedInv
<1>1. FeedInv /\ [FeedNext]_feedVars => FeedInv'
  BY FeedTypeStep, PipeStep DEF FeedInv
<1>2. QED
  BY <1>1, FeedInitInv, PTL DEF FeedSpec

(* Ledger, connection and page keep their types. *)
THEOREM FeedTypeCorrect == FeedSpec => []FeedTypeOK
<1>1. FeedInv => FeedTypeOK
  BY DEF FeedInv
<1>2. QED
  BY <1>1, FeedInvHolds, PTL

(* A page that has read everything shows what the ledger holds. *)
THEOREM SettledPageStaysCurrent == FeedSpec => []SettledPageIsCurrent
<1>1. pipe = << >> => \A r : Silent(pipe, r)
  BY DEF Silent
<1>2. FeedInv => SettledPageIsCurrent
  BY <1>1 DEF FeedInv, PipeEndsInLedger, SettledPageIsCurrent, Settled
<1>3. QED
  BY <1>2, FeedInvHolds, PTL
-----------------------------------------------------------------------------
(* Why the list of events has no gap: a snapshot is only ever first in the *)
(* pipe, the events behind it are numbered one by one, from the newest the *)
(* page has and up to the ledger's own number.                             *)
IsEvent(p, i) == ~IsSnapshot(p[i])

Consecutive(p) ==
    \A i \in 2..Len(p) :
        IsEvent(p, i) /\ (IsEvent(p, i - 1) => p[i].seq = p[i - 1].seq + 1)

ListedDown(list) == \A i \in 2..Len(list) : list[i - 1] = list[i] + 1

Numbered ==
    /\ Consecutive(pipe) /\ ListedDown(events)
    /\ (pipe # << >> /\ IsEvent(pipe, 1) /\ events # << >>) =>
           pipe[1].seq = events[1] + 1
    /\ stream = "open" =>
           /\ (pipe # << >> /\ IsEvent(pipe, Len(pipe))) => pipe[Len(pipe)].seq = seq
           /\ (pipe = << >> /\ events # << >>) => events[1] = seq

LEMMA PutFirst ==
    ASSUME NEW list \in Seq(1..MaxChanges), NEW n \in 1..MaxChanges, ListedDown(list),
           list # << >> => n = list[1] + 1,
           NEW longer, longer = Latest(<<n>> \o list)
    PROVE  longer # << >> /\ longer[1] = n /\ ListedDown(longer)
<1> DEFINE whole == <<n>> \o list
<1>1. /\ whole \in Seq(1..MaxChanges) /\ Len(whole) = Len(list) + 1 /\ whole[1] = n
      /\ \A i \in 2..Len(whole) : whole[i] = list[i - 1]
  OBVIOUS
<1>2. ListedDown(whole)
  <2> SUFFICES ASSUME NEW i \in 2..Len(whole) PROVE whole[i - 1] = whole[i] + 1
    BY DEF ListedDown
  <2>1. CASE i = 2
    <3>1. list # << >> /\ whole[2] = list[1]
      BY <1>1, <2>1
    <3>2. QED
      BY <1>1, <2>1, <3>1
  <2>2. CASE i # 2
    <3>1. /\ i - 1 \in 2..Len(list) /\ i - 1 \in 2..Len(whole)
          /\ whole[i] = list[i - 1] /\ whole[i - 1] = list[(i - 1) - 1]
      BY <1>1, <2>2
    <3>2. QED
      BY <3>1 DEF ListedDown
  <2>3. QED
    BY <2>1, <2>2
<1> HIDE DEF whole
<1>3. CASE Len(whole) <= EventsShown
  <2>1. longer = whole
    BY <1>1, <1>3, FeedAssumption DEF Latest, whole
  <2>2. QED
    BY <1>1, <1>2, <2>1
<1>4. CASE Len(whole) > EventsShown
  <2>1. /\ longer = SubSeq(whole, 1, EventsShown) /\ Len(longer) = EventsShown
        /\ \A i \in 1..EventsShown : longer[i] = whole[i]
    BY <1>1, <1>4, FeedAssumption, SubSeqProperties DEF Latest, whole
  <2>2. \A i \in 2..EventsShown : i \in 1..EventsShown /\ i - 1 \in 1..EventsShown
                                  /\ i \in 2..Len(whole)
    BY <1>1, <1>4, FeedAssumption
  <2>3. ListedDown(longer)
    BY <1>2, <2>1, <2>2 DEF ListedDown
  <2>4. QED
    BY <1>1, <2>1, <2>3, FeedAssumption
<1>5. QED
  BY <1>1, <1>3, <1>4, FeedAssumption

LEMMA AppendEventNumbered ==
    ASSUME FeedInv, Numbered, NEW S \in SUBSET Requests, NEW changed \in [S -> 0..MaxChanges],
           changes < MaxChanges, AppendEvent(changed), UNCHANGED <<stream, events>>
    PROVE  Numbered'
<1>1. CASE stream # "open"
  BY <1>1 DEF AppendEvent, Numbered, IsEvent
<1>2. CASE stream = "open"
  <2> DEFINE message == [seq |-> seq + 1, intents |-> changed]
  <2>1. pipe \in Seq(Message) /\ seq \in Nat /\ events \in Seq(1..MaxChanges)
    BY FeedAssumption DEF FeedInv, FeedTypeOK
  <2>2. message.seq = seq + 1 /\ ~IsSnapshot(message)
    BY DEF IsSnapshot
  <2>3. pipe' = Append(pipe, message) /\ seq' = seq + 1
    BY <1>2 DEF AppendEvent
  <2> HIDE DEF message
  <2>4. /\ Len(pipe') = Len(pipe) + 1 /\ Len(pipe) \in Nat /\ pipe'[Len(pipe')] = message
        /\ \A i \in 1..Len(pipe) : pipe'[i] = pipe[i]
        /\ pipe = << >> <=> Len(pipe) = 0
    BY <2>1, <2>3
  <2>5. Consecutive(pipe')
    <3> SUFFICES ASSUME NEW i \in 2..Len(pipe')
                 PROVE  /\ IsEvent(pipe', i)
                        /\ IsEvent(pipe', i - 1) => pipe'[i].seq = pipe'[i - 1].seq + 1
      BY DEF Consecutive
    <3>1. CASE i \in 2..Len(pipe)
      <4>1. pipe'[i] = pipe[i] /\ pipe'[i - 1] = pipe[i - 1]
        BY <2>4, <3>1
      <4>2. QED
        BY <3>1, <4>1 DEF Numbered, Consecutive, IsEvent
    <3>2. CASE i = Len(pipe')
      <4>1. pipe # << >> /\ i - 1 = Len(pipe) /\ pipe'[i - 1] = pipe[Len(pipe)]
            /\ pipe'[i] = message
        BY <2>4, <3>2
      <4>2. QED
        BY <1>2, <2>2, <4>1 DEF Numbered, IsEvent
    <3>3. QED
      BY <2>4, <3>1, <3>2
  <2>6. (IsEvent(pipe', 1) /\ events # << >>) => pipe'[1].seq = events[1] + 1
    <3>1. CASE pipe = << >>
      <4>1. pipe'[1] = message
        BY <2>4, <3>1
      <4>2. QED
        BY <1>2, <2>2, <3>1, <4>1 DEF Numbered
    <3>2. CASE pipe # << >>
      <4>1. pipe'[1] = pipe[1]
        BY <2>4, <3>2
      <4>2. QED
        BY <3>2, <4>1 DEF Numbered, IsEvent
    <3>3. QED
      BY <3>1, <3>2
  <2>7. pipe' # << >> /\ pipe'[Len(pipe')].seq = seq'
    BY <2>1, <2>2, <2>3, <2>4
  <2>8. QED
    BY <2>5, <2>6, <2>7 DEF Numbered
<1>3. QED
  BY <1>1, <1>2

LEMMA ReadNumbered ==
    ASSUME FeedInv, Numbered, Read
    PROVE  Numbered'
<1>1. pipe # << >> /\ pipe' = Tail(pipe) /\ UNCHANGED <<stream, seq>>
  BY DEF Read, ReadSnapshot, ReadAppend, ledgerSide
<1>2. /\ pipe \in Seq(Message) /\ Head(pipe) = pipe[1] /\ Len(pipe) \in Nat \ {0}
      /\ Len(pipe') = Len(pipe) - 1 /\ Head(pipe) \in Message
      /\ \A i \in 1..Len(pipe') : pipe'[i] = pipe[i + 1]
      /\ pipe' = << >> <=> Len(pipe) = 1
  <2>1. /\ pipe \in Seq(Message) /\ Head(pipe) \in Message /\ Head(pipe) = pipe[1]
        /\ Tail(pipe) \in Seq(Message) /\ Len(Tail(pipe)) = Len(pipe) - 1
        /\ \A i \in 1..Len(Tail(pipe)) : Tail(pipe)[i] = pipe[i + 1]
    BY <1>1, HeadIsMessage DEF FeedInv, FeedTypeOK
  <2>2. Len(pipe) \in Nat \ {0} /\ (Tail(pipe) = << >> <=> Len(pipe) = 1)
    <3>1. \A p \in Seq(Message) : Len(p) \in Nat /\ (p = << >> <=> Len(p) = 0)
      BY EmptySeq, LenProperties
    <3>2. /\ Len(pipe) \in Nat /\ Len(pipe) # 0
          /\ Tail(pipe) = << >> <=> Len(Tail(pipe)) = 0
      BY <1>1, <2>1, <3>1, Zenon
    <3>3. QED
      BY <2>1, <3>2
  <2>3. QED
    BY <1>1, <2>1, <2>2
<1>3. Consecutive(pipe')
  <2> SUFFICES ASSUME NEW i \in 2..Len(pipe')
               PROVE  /\ IsEvent(pipe', i)
                      /\ IsEvent(pipe', i - 1) => pipe'[i].seq = pipe'[i - 1].seq + 1
    BY DEF Consecutive
  <2>1. /\ i + 1 \in 2..Len(pipe) /\ pipe'[i] = pipe[i + 1]
        /\ pipe'[i - 1] = pipe[(i + 1) - 1]
    BY <1>2
  <2>2. QED
    BY <2>1 DEF Numbered, Consecutive, IsEvent
<1>4. pipe' # << >> =>
          /\ 2 \in 2..Len(pipe) /\ pipe'[1] = pipe[2] /\ pipe'[Len(pipe')] = pipe[Len(pipe)]
  BY <1>2
<1>5. CASE ReadSnapshot
  <2>1. events' = << >> /\ ListedDown(events')
    BY <1>5 DEF ReadSnapshot, ListedDown
  <2>2. (stream = "open" /\ pipe' # << >> /\ IsEvent(pipe', Len(pipe'))) =>
            pipe'[Len(pipe')].seq = seq
    BY <1>1, <1>4 DEF Numbered, IsEvent
  <2>3. QED
    BY <1>1, <1>3, <2>1, <2>2 DEF Numbered
<1>6. CASE ReadAppend
  <2>1. IsEvent(pipe, 1) /\ events' = Latest(<<pipe[1].seq>> \o events)
    BY <1>2, <1>6 DEF ReadAppend, IsEvent
  <2>2. pipe[1].seq \in 1..MaxChanges /\ events \in Seq(1..MaxChanges)
    BY <1>2, <2>1, MessageShape DEF IsEvent, Change, FeedInv, FeedTypeOK
  <2>3. events # << >> => pipe[1].seq = events[1] + 1
    BY <1>1, <2>1 DEF Numbered
  <2>4. events' # << >> /\ events'[1] = pipe[1].seq /\ ListedDown(events')
    BY <2>1, <2>2, <2>3, PutFirst DEF Numbered
  <2>5. pipe' # << >> => IsEvent(pipe', 1) /\ pipe'[1].seq = events'[1] + 1
    <3> SUFFICES ASSUME pipe' # << >>
                 PROVE  IsEvent(pipe', 1) /\ pipe'[1].seq = events'[1] + 1
      OBVIOUS
    <3>1. IsEvent(pipe, 2) /\ (IsEvent(pipe, 2 - 1) => pipe[2].seq = pipe[2 - 1].seq + 1)
      BY <1>4 DEF Numbered, Consecutive
    <3>2. 2 - 1 = 1
      OBVIOUS
    <3>3. QED
      BY <1>4, <2>1, <2>4, <3>1, <3>2 DEF IsEvent
  <2>6. (stream = "open" /\ pipe' = << >>) => events'[1] = seq
    BY <1>1, <1>2, <2>1, <2>4 DEF Numbered
  <2>7. QED
    BY <1>1, <1>3, <1>4, <2>4, <2>5, <2>6 DEF Numbered, IsEvent
<1>7. QED
  BY <1>5, <1>6 DEF Read

LEMMA NumberedStep ==
    ASSUME FeedInv, Numbered, [FeedNext]_feedVars
    PROVE  Numbered'
<1>1. ASSUME NEW r \in Requests, ChangeIntent(r) PROVE Numbered'
  <2>1. [q \in {r} |-> changes + 1] \in [{r} -> 0..MaxChanges] /\ {r} \in SUBSET Requests
    BY <1>1, FeedAssumption DEF ChangeIntent, FeedInv, FeedTypeOK
  <2>2. QED
    BY <1>1, <2>1, AppendEventNumbered DEF ChangeIntent, pageSide
<1>2. CASE ChangeOther
  <2>1. [q \in {} |-> 0] \in [{} -> 0..MaxChanges] /\ {} \in SUBSET Requests
    OBVIOUS
  <2>2. QED
    BY <1>2, <2>1, AppendEventNumbered DEF ChangeOther, pageSide
<1>3. CASE LedgerStops \/ ConnectFails \/ Disconnect
  <2>1. stream' # "open" /\ UNCHANGED <<pipe, events>>
    BY <1>3 DEF LedgerStops, ConnectFails, Disconnect, Cut, pageSide
  <2>2. QED
    BY <2>1 DEF Numbered, IsEvent
<1>4. CASE LedgerStarts \/ AnswerFetch \/ ReadAnswer \/ UNCHANGED feedVars
  <2>1. UNCHANGED <<stream, pipe, events, seq>>
    BY <1>4 DEF LedgerStarts, AnswerFetch, ReadAnswer, feedVars, ledgerSide, pageSide
  <2>2. QED
    BY <2>1 DEF Numbered, IsEvent
<1>5. CASE Reconnect
  <2>1. stream' = "connecting" /\ pipe' = << >> /\ events' = events
    BY <1>5 DEF Reconnect, pageSide
  <2>2. QED
    BY <2>1 DEF Numbered, Consecutive
<1>6. CASE Connect
  <2>1. /\ pipe' # << >> /\ Len(pipe') = 1 /\ ~IsEvent(pipe', 1) /\ events' = events
    BY <1>6 DEF Connect, IsEvent, IsSnapshot, pageSide
  <2>2. QED
    BY <2>1 DEF Numbered, Consecutive
<1>7. QED
  BY <1>1, <1>2, <1>3, <1>4, <1>5, <1>6, ReadNumbered DEF FeedNext

LEMMA NumberedHolds == FeedSpec => []Numbered
<1>1. FeedInit => Numbered
  BY DEF FeedInit, Numbered, Consecutive, ListedDown
<1>2. QED
  BY <1>1, NumberedStep, FeedInvHolds, PTL DEF FeedSpec

(* The page's list of events has no gap, for any length of the list. *)
THEOREM EventsNeverHaveGap == FeedSpec => []EventsHaveNoGap
<1>1. Numbered => EventsHaveNoGap
  BY DEF Numbered, ListedDown, EventsHaveNoGap, Settled
<1>2. QED
  BY <1>1, NumberedHolds, PTL
-----------------------------------------------------------------------------
(* The card of a run. *)

Event == 1..MaxEvents

MemoryOK ==
    /\ run \in [Runs -> RunRecord]
    /\ card \in [busy : BOOLEAN, answer : Runs \cup {None},
                 request : Runs \cup {None}]
    /\ conn \in [Runs -> {"none", "opening", "open", "ended", "closed"}]
    /\ wire \in [Runs -> Seq(Event)]
    /\ shown \in Seq(Row)

(* A run has a stream only once it is known, and is shown only once it has *)
(* a stream. *)
StreamsFollowRuns ==
    /\ \A r \in Runs : run[r].state = "none" => conn[r] = "none"
    /\ card.answer # None =>
          run[card.answer].state # "none" /\ conn[card.answer] = "none"
    /\ card.request # None => conn[card.request] # "none"

(* What is not connected carries nothing. *)
IdleIsEmpty ==
    \A r \in Runs : conn[r] \in {"none", "opening", "closed"} => wire[r] = << >>

RowsOf(r) == {i \in DOMAIN shown : shown[i].run = r}

OnlyRowsOf(r) == \A i \in DOMAIN shown : shown[i].run = r

(* Before its stream is open, a run has no row. *)
RowsComeLater ==
    (card.request # None /\ conn[card.request] = "opening") => RowsOf(card.request) = {}

RowsDiffer ==
    \A i, j \in DOMAIN shown : shown[i].seq = shown[j].seq => i = j

(* As long as no other run has a row, rows and stream together count up by *)
(* one, to the last event if the stream is open. *)
CountedOut(r) ==
    /\ \A i \in DOMAIN shown : shown[i].seq = i
    /\ \A i \in DOMAIN wire[r] : wire[r][i] = Len(shown) + i
    /\ conn[r] = "open" => Len(shown) + Len(wire[r]) = run[r].emitted

RowsInOrder ==
    (card.request # None /\ OnlyRowsOf(card.request)) => CountedOut(card.request)

NothingLost ==
    (card.request # None /\ conn[card.request] = "open") =>
        \A n \in 1..run[card.request].emitted :
            HasRow(n) \/ Contains(wire[card.request], n)

TrailInv ==
    /\ MemoryOK /\ StreamsFollowRuns /\ IdleIsEmpty /\ RowsComeLater /\ RowsDiffer
    /\ RowsInOrder /\ NothingLost
-----------------------------------------------------------------------------
(* Facts about rows and records *)

LEMMA RowFacts ==
    ASSUME TrailInv
    PROVE  /\ Len(shown) \in Nat /\ DOMAIN shown = 1..Len(shown)
           /\ \A i \in DOMAIN shown : shown[i] \in Row
BY ElementOfSeq, LenProperties DEF TrailInv, MemoryOK

LEMMA WireFacts ==
    ASSUME TrailInv, NEW r \in Runs
    PROVE  /\ wire[r] \in Seq(Event) /\ Len(wire[r]) \in Nat
           /\ DOMAIN wire[r] = 1..Len(wire[r])
           /\ \A i \in 1..Len(wire[r]) : wire[r][i] \in Event
<1>1. wire[r] \in Seq(Event)
  BY DEF TrailInv, MemoryOK
<1> QED
  BY <1>1, ElementOfSeq, LenProperties

(* The events kept of a run, replayed. *)
LEMMA ReplayFacts ==
    ASSUME NEW n \in 0..MaxEvents
    PROVE  /\ [i \in 1..n |-> i] \in Seq(Event)
           /\ Len([i \in 1..n |-> i]) = n
<1> DEFINE s == [i \in 1..n |-> i]
<1>1. n \in Nat /\ MaxEvents \in Nat
  BY TrailAssumption
<1>2. s \in [1..n -> Event]
  BY <1>1 DEF Event
<1>3. s \in Seq(Event)
  BY <1>1, <1>2, SeqDef
<1>4. DOMAIN s = 1..n /\ DOMAIN s = 1..Len(s) /\ Len(s) \in Nat
  BY <1>3, LenProperties
<1>5. Len(s) = n
  <2> HIDE DEF s
  <2> QED
    BY <1>1, <1>4
<1> QED
  BY <1>3, <1>5

(* A run that has no row before its stream opens leaves the card empty, if *)
(* no other run has one. *)
LEMMA NoRowYet ==
    ASSUME TrailInv, NEW r \in Runs, RowsOf(r) = {}, OnlyRowsOf(r)
    PROVE  Len(shown) = 0
BY RowFacts DEF RowsOf, OnlyRowsOf
-----------------------------------------------------------------------------
(* The run's steps *)

(* The state after an event, or after a state that is set without one. *)
LEMMA EmitThenKeepsInv ==
    ASSUME TrailInv, NEW r \in Runs, NEW record \in RunRecord,
           record.state = "none" => run[r].state = "none",
           EmitThen(r, record)
    PROVE  TrailInv'
<1> DEFINE e == run[r].emitted
           w == wire[r]
<1>1. e \in Nat /\ e + 1 \in Event /\ MaxEvents \in Nat
  BY TrailAssumption DEF EmitThen, TrailInv, MemoryOK, RunRecord, Event
<1>2. /\ run' = [run EXCEPT ![r] = [record EXCEPT !.emitted = e + 1]]
      /\ card' = card /\ shown' = shown
  BY DEF EmitThen
<1>3. [record EXCEPT !.emitted = e + 1] \in RunRecord
  BY <1>1 DEF RunRecord, Event
<1>4. /\ run'[r].emitted = e + 1 /\ run'[r].state = record.state
      /\ \A q \in Runs \ {r} : run'[q] = run[q]
      /\ run' \in [Runs -> RunRecord]
  BY <1>2, <1>3 DEF TrailInv, MemoryOK, RunRecord
<1>5. /\ Append(w, e + 1) \in Seq(Event)
      /\ Len(Append(w, e + 1)) = Len(w) + 1
      /\ \A i \in 1..Len(w) : Append(w, e + 1)[i] = w[i]
      /\ Append(w, e + 1)[Len(w) + 1] = e + 1
  BY <1>1, WireFacts, AppendProperties
<1>6. /\ \A q \in Runs \ {r} : wire'[q] = wire[q] /\ conn'[q] = conn[q]
      /\ conn[r] # "open" => wire'[r] = w /\ conn'[r] = conn[r]
      /\ conn[r] = "open" => wire'[r] = Append(w, e + 1) /\ conn'[r] \in {"open", "ended"}
  BY DEF EmitThen, TrailInv, MemoryOK
<1>7. /\ wire' \in [Runs -> Seq(Event)]
      /\ conn' \in [Runs -> {"none", "opening", "open", "ended", "closed"}]
  BY <1>5 DEF EmitThen, TrailInv, MemoryOK
<1>8. MemoryOK'
  BY <1>2, <1>4, <1>7 DEF TrailInv, MemoryOK
<1>9. card.request \in Runs \cup {None} /\ card.answer \in Runs \cup {None}
  BY DEF TrailInv, MemoryOK
<1>10. StreamsFollowRuns'
  BY <1>2, <1>4, <1>6, <1>9 DEF TrailInv, StreamsFollowRuns
<1>11. IdleIsEmpty'
  BY <1>6 DEF TrailInv, IdleIsEmpty
<1>12. RowsComeLater' /\ RowsDiffer'
  BY <1>2, <1>6, <1>9 DEF TrailInv, RowsComeLater, RowsDiffer, RowsOf
<1>13. ASSUME card.request # None, OnlyRowsOf(card.request)
       PROVE  CountedOut(card.request)'
  <2> DEFINE q == card.request
  <2>1. CountedOut(q)
    BY <1>13 DEF TrailInv, RowsInOrder
  <2>2. CASE q # r
    BY <1>2, <1>4, <1>6, <1>9, <1>13, <2>1, <2>2 DEF CountedOut
  <2>3. CASE q = r /\ conn[r] # "open"
    BY <1>2, <1>6, <2>1, <2>3 DEF CountedOut
  <2>4. CASE q = r /\ conn[r] = "open"
    <3>1. Len(shown) + Len(w) = e /\ \A i \in 1..Len(w) : w[i] = Len(shown) + i
      BY <2>1, <2>4, WireFacts DEF CountedOut
    <3>2. DOMAIN wire'[r] = 1..(Len(w) + 1) /\ Len(wire'[r]) = Len(w) + 1
      BY <1>5, <1>6, <2>4, LenProperties
    <3>3. \A i \in DOMAIN wire'[r] : wire'[r][i] = Len(shown) + i
      <4>1. wire'[r] = Append(w, e + 1) /\ Len(w) \in Nat /\ Len(shown) \in Nat
        BY <1>6, <2>4, WireFacts, RowFacts
      <4> TAKE i \in DOMAIN wire'[r]
      <4>2. CASE i \in 1..Len(w)
        BY <1>5, <3>1, <4>1, <4>2
      <4>3. CASE i = Len(w) + 1
        BY <1>5, <3>1, <4>1, <4>3
      <4> QED
        BY <3>2, <4>1, <4>2, <4>3
    <3>4. Len(shown) + Len(wire'[r]) = run'[r].emitted
      BY <1>4, <3>1, <3>2, WireFacts, RowFacts
    <3> QED
      BY <1>2, <2>1, <2>4, <3>3, <3>4 DEF CountedOut
  <2> QED
    BY <2>2, <2>3, <2>4
<1>14. RowsInOrder'
  BY <1>2, <1>13 DEF RowsInOrder, OnlyRowsOf
<1>15. ASSUME card.request # None, conn'[card.request] = "open",
              NEW n \in 1..run'[card.request].emitted
       PROVE  HasRow(n)' \/ Contains(wire'[card.request], n)
  <2> DEFINE q == card.request
  <2>1. conn[q] = "open"
    BY <1>6, <1>9, <1>15
  <2>2. \A m \in 1..run[q].emitted : HasRow(m) \/ Contains(wire[q], m)
    BY <1>15, <2>1 DEF TrailInv, NothingLost
  <2>3. CASE q # r
    BY <1>2, <1>4, <1>6, <1>9, <1>15, <2>2, <2>3 DEF HasRow
  <2>4. CASE q = r /\ n = e + 1
    <3>1. Len(w) + 1 \in 1..Len(wire'[r]) /\ wire'[r][Len(w) + 1] = n
      BY <1>5, <1>6, <2>1, <2>4, WireFacts
    <3> QED
      BY <2>4, <3>1 DEF Contains
  <2>5. CASE q = r /\ n # e + 1
    <3>1. HasRow(n) \/ Contains(w, n)
      BY <1>1, <1>4, <1>15, <2>2, <2>5
    <3>2. Contains(w, n) => Contains(wire'[r], n)
      BY <1>5, <1>6, <2>1, <2>5, WireFacts DEF Contains
    <3> QED
      BY <1>2, <2>5, <3>1, <3>2 DEF HasRow
  <2> QED
    BY <2>3, <2>4, <2>5
<1>16. NothingLost'
  BY <1>2, <1>15 DEF NothingLost
<1> QED
  BY <1>8, <1>10, <1>11, <1>12, <1>14, <1>16 DEF TrailInv

(* A state set without an event changes nothing a viewer counts with.      *)
LEMMA SetKeepsInv ==
    ASSUME TrailInv, NEW r \in Runs, NEW record \in RunRecord,
           record.state = "none" => run[r].state = "none",
           record.emitted = run[r].emitted,
           Set(r, record)
    PROVE  TrailInv'
<1>1. /\ UNCHANGED <<card, conn, wire, shown>>
      /\ run' = [run EXCEPT ![r] = record]
  BY DEF Set, cardVars
<1>2. /\ \A q \in Runs : run'[q].emitted = run[q].emitted
      /\ \A q \in Runs : run'[q].state = "none" => run[q].state = "none"
  BY <1>1 DEF TrailInv, MemoryOK
<1>3. card.request \in Runs \cup {None} /\ card.answer \in Runs \cup {None}
  BY DEF TrailInv, MemoryOK
<1>4. MemoryOK'
  BY <1>1 DEF TrailInv, MemoryOK
<1>5. StreamsFollowRuns'
  BY <1>1, <1>2, <1>3 DEF TrailInv, StreamsFollowRuns
<1>6. (IdleIsEmpty /\ RowsComeLater /\ RowsDiffer)'
  BY <1>1 DEF TrailInv, IdleIsEmpty, RowsComeLater, RowsDiffer, RowsOf
<1>7. RowsInOrder'
  BY <1>1, <1>2, <1>3 DEF TrailInv, RowsInOrder, OnlyRowsOf, CountedOut
<1>8. NothingLost'
  BY <1>1, <1>2, <1>3 DEF TrailInv, NothingLost, HasRow
<1> QED
  BY <1>4, <1>5, <1>6, <1>7, <1>8 DEF TrailInv

LEMMA RunStepKeepsInv ==
    ASSUME TrailInv, NEW r \in Runs, RunStep(r)
    PROVE  TrailInv'
<1>1. run[r] \in RunRecord
  BY DEF TrailInv, MemoryOK
<1>2. CASE GoesOn(r)
  <2>1. PICK state \in {run[r].state, "AWAITING_CHECKOUT"} :
            EmitThen(r, [run[r] EXCEPT !.state = state])
    BY <1>2 DEF GoesOn
  <2>2. /\ [run[r] EXCEPT !.state = state] \in RunRecord
        /\ [run[r] EXCEPT !.state = state].state = state
    BY <1>1 DEF RunRecord, RunStates
  <2> QED
    BY <2>1, <2>2, EmitThenKeepsInv
<1>3. CASE Escalates(r)
  <2> DEFINE record == [run[r] EXCEPT !.state = "ESCALATED", !.live = FALSE, !.asked = TRUE,
                                      !.pending = {"answer", "expiry"}]
  <2>1. record \in RunRecord /\ record.state = "ESCALATED"
    BY <1>1 DEF RunRecord, RunStates
  <2>2. EmitThen(r, record)
    BY <1>3 DEF Escalates
  <2> HIDE DEF record
  <2> QED
    BY <2>1, <2>2, EmitThenKeepsInv
<1>4. CASE Finalizes(r)
  <2>1. PICK state \in {"DONE", "FAILED"} :
            EmitThen(r, [run[r] EXCEPT !.state = state, !.live = FALSE])
    BY <1>4 DEF Finalizes
  <2>2. /\ [run[r] EXCEPT !.state = state, !.live = FALSE] \in RunRecord
        /\ [run[r] EXCEPT !.state = state, !.live = FALSE].state = state
    BY <1>1 DEF RunRecord, RunStates
  <2> QED
    BY <2>1, <2>2, EmitThenKeepsInv
<1>5. CASE FailsSafe(r)
  <2> DEFINE record == [run[r] EXCEPT !.state = "FAILED", !.live = FALSE]
  <2>1. record \in RunRecord /\ record.state = "FAILED" /\ record.emitted = run[r].emitted
    BY <1>1 DEF RunRecord, RunStates
  <2>2. Set(r, record)
    BY <1>5 DEF FailsSafe
  <2> HIDE DEF record
  <2> QED
    BY <2>1, <2>2, SetKeepsInv
<1>6. CASE IsAnswered(r)
  <2> DEFINE on == [run[r] EXCEPT !.pending = @ \ {"answer"}, !.state = "RUNNING",
                                  !.live = TRUE]
             off == [run[r] EXCEPT !.pending = @ \ {"answer"}, !.state = "REFUSED"]
  <2>1. on \in RunRecord /\ on.state = "RUNNING" /\ on.emitted = run[r].emitted
    BY <1>1 DEF RunRecord, RunStates
  <2>2. off \in RunRecord /\ off.state = "REFUSED" /\ off.emitted = run[r].emitted
    BY <1>1 DEF RunRecord, RunStates
  <2>3. Set(r, on) \/ Set(r, off)
    BY <1>6 DEF IsAnswered
  <2> HIDE DEF on, off
  <2> QED
    BY <2>1, <2>2, <2>3, SetKeepsInv
<1>7. CASE Expires(r)
  <2>1. PICK state \in {"REFUSED", "FAILED"} :
            Set(r, [run[r] EXCEPT !.pending = @ \ {"expiry"}, !.state = state])
    BY <1>7 DEF Expires
  <2> DEFINE record == [run[r] EXCEPT !.pending = @ \ {"expiry"}, !.state = state]
  <2>2. record \in RunRecord /\ record.state = state /\ record.emitted = run[r].emitted
    BY <1>1 DEF RunRecord, RunStates
  <2>3. Set(r, record)
    BY <2>1
  <2> HIDE DEF record
  <2> QED
    BY <2>2, <2>3, SetKeepsInv
<1> QED
  BY <1>2, <1>3, <1>4, <1>5, <1>6, <1>7 DEF RunStep
-----------------------------------------------------------------------------
(* The card's steps *)

(* A new run is one no stream knows yet. *)
LEMMA CreateRunKeepsInv ==
    ASSUME TrailInv, NEW r \in Runs, CreateRun(r)
    PROVE  TrailInv'
<1>1. /\ UNCHANGED <<conn, wire, shown>>
      /\ card' = [card EXCEPT !.answer = r]
      /\ run' = [run EXCEPT ![r] = [NoRun EXCEPT !.state = "RUNNING", !.live = TRUE]]
      /\ run[r].state = "none"
  BY DEF CreateRun
<1>2. [NoRun EXCEPT !.state = "RUNNING", !.live = TRUE] \in RunRecord
  <2>1. 0 \in 0..MaxEvents
    BY TrailAssumption
  <2>2. NoRun \in RunRecord
    BY <2>1 DEF NoRun, RunRecord
  <2> QED
    BY <2>2 DEF RunRecord, RunStates
<1>3. card'.request = card.request /\ card'.answer = r /\ r # None
  BY <1>1, TrailAssumption DEF TrailInv, MemoryOK
<1>4. MemoryOK'
  BY <1>1, <1>2 DEF TrailInv, MemoryOK
<1>5. /\ run'[r].state # "none" /\ conn[r] = "none"
      /\ \A q \in Runs \ {r} : run'[q] = run[q]
  BY <1>1 DEF TrailInv, MemoryOK, StreamsFollowRuns, NoRun
<1>6. card.request \in (Runs \ {r}) \cup {None}
  BY <1>5 DEF TrailInv, MemoryOK, StreamsFollowRuns
<1>7. StreamsFollowRuns'
  BY <1>1, <1>3, <1>5 DEF TrailInv, StreamsFollowRuns
<1>8. (IdleIsEmpty /\ RowsComeLater /\ RowsDiffer)'
  BY <1>1, <1>3 DEF TrailInv, IdleIsEmpty, RowsComeLater, RowsDiffer, RowsOf
<1>9. RowsInOrder'
  BY <1>1, <1>3, <1>5, <1>6 DEF TrailInv, RowsInOrder, OnlyRowsOf, CountedOut
<1>10. NothingLost'
  BY <1>1, <1>3, <1>5, <1>6 DEF TrailInv, NothingLost, HasRow
<1> QED
  BY <1>4, <1>7, <1>8, <1>9, <1>10 DEF TrailInv

(* The replay is every event there is, and from then on each new one is    *)
(* written: nothing is between the two. *)
LEMMA OpenStreamKeepsInv ==
    ASSUME TrailInv, NEW r \in Runs, OpenStream(r)
    PROVE  TrailInv'
<1> DEFINE e == run[r].emitted
           replay == [i \in 1..e |-> i]
<1>1. /\ UNCHANGED <<run, card, shown>>
      /\ conn[r] = "opening"
      /\ conn' = [conn EXCEPT ![r] =
             IF IsTerminalRunState(run[r].state) THEN "ended" ELSE "open"]
      /\ wire' = [wire EXCEPT ![r] = replay]
  BY DEF OpenStream
<1>2. e \in 0..MaxEvents
  BY DEF TrailInv, MemoryOK, RunRecord
<1>3. replay \in Seq(Event) /\ Len(replay) = e /\ DOMAIN replay = 1..e
  BY <1>2, ReplayFacts
<1>4. \A i \in 1..e : replay[i] = i
  OBVIOUS
<1> HIDE DEF replay
<1>5. /\ conn'[r] \in {"open", "ended"} /\ wire'[r] = replay
      /\ \A q \in Runs \ {r} : wire'[q] = wire[q] /\ conn'[q] = conn[q]
  BY <1>1 DEF TrailInv, MemoryOK
<1>6. MemoryOK'
  BY <1>1, <1>3 DEF TrailInv, MemoryOK
<1>7. card.request \in Runs \cup {None} /\ card.answer \in Runs \cup {None}
  BY DEF TrailInv, MemoryOK
<1>8. StreamsFollowRuns'
  BY <1>1, <1>5, <1>7 DEF TrailInv, StreamsFollowRuns
<1>9. (IdleIsEmpty /\ RowsComeLater /\ RowsDiffer)'
  BY <1>1, <1>5, <1>7 DEF TrailInv, IdleIsEmpty, RowsComeLater, RowsDiffer, RowsOf
<1>10. ASSUME card.request # None, OnlyRowsOf(card.request)
       PROVE  CountedOut(card.request)'
  <2>1. CountedOut(card.request)
    BY <1>10 DEF TrailInv, RowsInOrder
  <2>2. CASE card.request # r
    BY <1>1, <1>5, <1>7, <1>10, <2>1, <2>2 DEF CountedOut
  <2>3. CASE card.request = r
    <3>1. Len(shown) = 0
      BY <1>1, <1>10, <2>3, NoRowYet DEF TrailInv, RowsComeLater
    <3> QED
      BY <1>1, <1>2, <1>3, <1>4, <1>5, <2>1, <2>3, <3>1 DEF CountedOut
  <2> QED
    BY <2>2, <2>3
<1>11. RowsInOrder'
  BY <1>1, <1>10 DEF RowsInOrder, OnlyRowsOf
<1>12. NothingLost'
  <2>1. \A n \in 1..e : Contains(replay, n)
    BY <1>3, <1>4 DEF Contains
  <2> QED
    BY <1>1, <1>5, <1>7, <2>1 DEF TrailInv, NothingLost, HasRow
<1> QED
  BY <1>6, <1>8, <1>9, <1>11, <1>12 DEF TrailInv

LEMMA ReadEventKeepsInv ==
    ASSUME TrailInv, NEW r \in Runs, ReadEvent(r)
    PROVE  TrailInv'
<1> DEFINE w == wire[r]
           n == Head(w)
           row == [run |-> r, seq |-> n]
<1>1. /\ UNCHANGED <<run, card, conn>> /\ w # << >>
      /\ shown' = IF HasRow(n) THEN shown ELSE Append(shown, row)
      /\ wire' = [wire EXCEPT ![r] = Tail(w)]
  BY DEF ReadEvent
<1>2. /\ n \in Event /\ Tail(w) \in Seq(Event) /\ Len(Tail(w)) = Len(w) - 1
      /\ Len(w) \in Nat /\ Len(w) >= 1 /\ n = w[1]
      /\ \A i \in 1..Len(Tail(w)) : Tail(w)[i] = w[i + 1]
  BY <1>1, WireFacts, HeadTailProperties
<1>3. DOMAIN Tail(w) = 1..(Len(w) - 1)
  BY <1>2, LenProperties
<1>4. row \in Row
  BY <1>2 DEF Row, Event
<1>5. /\ Append(shown, row) \in Seq(Row)
      /\ Len(Append(shown, row)) = Len(shown) + 1
      /\ \A i \in 1..Len(shown) : Append(shown, row)[i] = shown[i]
      /\ Append(shown, row)[Len(shown) + 1] = row
  BY <1>4, AppendProperties DEF TrailInv, MemoryOK
<1>6. DOMAIN Append(shown, row) = 1..(Len(shown) + 1)
  BY <1>5, LenProperties
<1>7. Len(shown) \in Nat /\ DOMAIN shown = 1..Len(shown)
  BY RowFacts
<1>8. /\ wire'[r] = Tail(w) /\ wire' \in [Runs -> Seq(Event)]
      /\ \A q \in Runs \ {r} : wire'[q] = wire[q]
  BY <1>1, <1>2 DEF TrailInv, MemoryOK
<1>9. card.request \in Runs \cup {None} /\ card.answer \in Runs \cup {None}
  BY DEF TrailInv, MemoryOK
<1>10. MemoryOK'
  BY <1>1, <1>5, <1>8 DEF TrailInv, MemoryOK
<1>11. conn[r] \notin {"none", "opening", "closed"}
  BY <1>1 DEF TrailInv, IdleIsEmpty
<1>12. StreamsFollowRuns' /\ IdleIsEmpty'
  BY <1>1, <1>8, <1>11 DEF TrailInv, StreamsFollowRuns, IdleIsEmpty
<1>13. \A i \in DOMAIN shown : i \in DOMAIN shown' /\ shown'[i] = shown[i]
  BY <1>1, <1>5, <1>6, <1>7
<1>14. \A i \in DOMAIN shown' \ DOMAIN shown : shown'[i].run = r /\ shown'[i].seq = n
  BY <1>1, <1>5, <1>6, <1>7
<1>15. RowsComeLater'
  BY <1>1, <1>11, <1>13, <1>14 DEF TrailInv, RowsComeLater, RowsOf
<1>16. RowsDiffer'
  <2>1. CASE HasRow(n)
    BY <1>1, <2>1 DEF TrailInv, RowsDiffer
  <2>2. CASE ~HasRow(n)
    <3>1. DOMAIN shown' = 1..(Len(shown) + 1)
      BY <1>1, <1>6, <2>2
    <3>2. \A i \in DOMAIN shown : shown'[i].seq # n
      BY <1>13, <2>2 DEF HasRow
    <3>3. \A i \in DOMAIN shown' \ DOMAIN shown : i = Len(shown) + 1
      BY <1>7, <3>1
    <3> QED
      BY <1>13, <1>14, <3>2, <3>3 DEF TrailInv, RowsDiffer
  <2> QED
    BY <2>1, <2>2
<1>17. ASSUME card.request # None, OnlyRowsOf(card.request)'
       PROVE  CountedOut(card.request)'
  <2> DEFINE q == card.request
  <2>1. CountedOut(q)
    BY <1>1, <1>13, <1>17 DEF TrailInv, RowsInOrder, OnlyRowsOf
  <2>2. CASE q # r
    <3>1. HasRow(n)
      <4>1. ASSUME ~HasRow(n) PROVE FALSE
        <5>1. Len(shown) + 1 \in DOMAIN shown' /\ shown'[Len(shown) + 1] = row
          BY <1>1, <1>5, <1>6, <1>7, <4>1
        <5> QED
          BY <1>1, <1>17, <2>2, <5>1 DEF OnlyRowsOf
      <4> QED
        BY <4>1
    <3>2. shown' = shown /\ wire'[q] = wire[q]
      BY <1>1, <1>8, <1>9, <1>17, <2>2, <3>1
    <3> QED
      BY <1>1, <2>1, <3>2 DEF CountedOut
  <2>3. CASE q = r
    <3>1. n = Len(shown) + 1
      BY <1>2, <1>7, <2>1, <2>3, WireFacts DEF CountedOut
    <3>2. ~HasRow(n)
      BY <1>7, <2>1, <3>1 DEF HasRow, CountedOut
    <3>3. shown' = Append(shown, row) /\ DOMAIN shown' = 1..(Len(shown) + 1)
          /\ Len(shown') = Len(shown) + 1
      BY <1>1, <1>5, <1>6, <3>2
    <3>4. \A i \in DOMAIN shown' : shown'[i].seq = i
      <4> TAKE i \in DOMAIN shown'
      <4>1. CASE i \in DOMAIN shown
        BY <1>13, <2>1, <4>1 DEF CountedOut
      <4>2. CASE i = Len(shown) + 1
        BY <1>5, <3>1, <3>3, <4>2
      <4> QED
        BY <1>7, <3>3, <4>1, <4>2
    <3>5. \A i \in 1..(Len(w) - 1) : Tail(w)[i] = Len(shown) + 1 + i
      <4> TAKE i \in 1..(Len(w) - 1)
      <4>1. Tail(w)[i] = w[i + 1] /\ i + 1 \in DOMAIN w
        BY <1>2, WireFacts
      <4>2. w[i + 1] = Len(shown) + (i + 1)
        BY <2>1, <2>3, <4>1 DEF CountedOut
      <4> QED
        BY <1>2, <1>7, <4>1, <4>2
    <3>6. conn[r] = "open" => Len(shown') + Len(Tail(w)) = run[r].emitted
      <4>1. conn[r] = "open" => Len(shown) + Len(w) = run[r].emitted
        BY <2>1, <2>3 DEF CountedOut
      <4>2. Len(shown') + Len(Tail(w)) = Len(shown) + Len(w)
        <5>1. Len(Tail(w)) = Len(w) - 1 /\ Len(w) \in Nat /\ Len(shown) \in Nat
          BY <1>2, <1>7
        <5>2. Len(shown') = Len(shown) + 1
          BY <3>3
        <5>3. ASSUME NEW a \in Nat, NEW b \in Nat
              PROVE  (a + 1) + (b - 1) = a + b
          OBVIOUS
        <5> QED
          BY <5>1, <5>2, <5>3, Zenon
      <4> QED
        BY <4>1, <4>2
    <3>7. \A i \in DOMAIN wire'[r] : wire'[r][i] = Len(shown') + i
      BY <1>3, <1>8, <3>3, <3>5
    <3> QED
      BY <1>1, <1>8, <2>3, <3>4, <3>6, <3>7 DEF CountedOut
  <2> QED
    BY <2>2, <2>3
<1>18. RowsInOrder'
  BY <1>1, <1>17 DEF RowsInOrder
<1>19. ASSUME card.request # None, conn[card.request] = "open",
              NEW m \in 1..run[card.request].emitted
       PROVE  HasRow(m)' \/ Contains(wire'[card.request], m)
  <2> DEFINE q == card.request
  <2>1. HasRow(m) \/ Contains(wire[q], m)
    BY <1>19 DEF TrailInv, NothingLost
  <2>2. HasRow(m) => HasRow(m)'
    BY <1>13 DEF HasRow
  <2>3. CASE q # r
    BY <1>8, <1>9, <1>19, <2>1, <2>2, <2>3
  <2>4. CASE q = r /\ m = n
    <3>1. CASE HasRow(n)
      BY <2>2, <2>4, <3>1
    <3>2. CASE ~HasRow(n)
      <4>1. Len(shown) + 1 \in DOMAIN shown' /\ shown'[Len(shown) + 1] = row
        BY <1>1, <1>5, <1>6, <1>7, <3>2
      <4> QED
        BY <2>4, <4>1 DEF HasRow
    <3> QED
      BY <3>1, <3>2
  <2>5. CASE q = r /\ m # n /\ Contains(w, m)
    <3>1. PICK i \in 1..Len(w) : w[i] = m
      BY <2>5 DEF Contains
    <3>2. i # 1
      BY <1>2, <2>5, <3>1
    <3>3. i - 1 \in 1..Len(Tail(w)) /\ Tail(w)[i - 1] = m
      BY <1>2, <3>1, <3>2
    <3> QED
      BY <1>8, <2>5, <3>3 DEF Contains
  <2> QED
    BY <2>1, <2>2, <2>3, <2>4, <2>5
<1>20. NothingLost'
  BY <1>1, <1>19 DEF NothingLost
<1> QED
  BY <1>10, <1>12, <1>15, <1>16, <1>18, <1>20 DEF TrailInv

(* A stream that ends or breaks carries nothing any more. *)
LEMMA CloseKeepsInv ==
    ASSUME TrailInv, NEW r \in Runs, StreamEnds(r) \/ StreamBreaks(r)
    PROVE  TrailInv'
<1>1. /\ UNCHANGED <<run, card, shown>> /\ conn[r] \in {"opening", "open", "ended"}
      /\ conn' = [conn EXCEPT ![r] = "closed"]
      /\ (wire' = wire /\ wire[r] = << >>) \/ wire' = [wire EXCEPT ![r] = << >>]
  BY DEF StreamEnds, StreamBreaks
<1>2. /\ conn'[r] = "closed" /\ wire'[r] = << >>
      /\ \A q \in Runs \ {r} : conn'[q] = conn[q] /\ wire'[q] = wire[q]
  BY <1>1 DEF TrailInv, MemoryOK
<1>3. card.request \in Runs \cup {None} /\ card.answer \in Runs \cup {None}
  BY DEF TrailInv, MemoryOK
<1>4. << >> \in Seq(Event) /\ Len(<< >>) = 0 /\ DOMAIN << >> = {}
  BY EmptySeq
<1>5. MemoryOK'
  BY <1>1, <1>4 DEF TrailInv, MemoryOK
<1>6. StreamsFollowRuns'
  BY <1>1, <1>2, <1>3 DEF TrailInv, StreamsFollowRuns
<1>7. (IdleIsEmpty /\ RowsComeLater /\ RowsDiffer)'
  BY <1>1, <1>2, <1>3 DEF TrailInv, IdleIsEmpty, RowsComeLater, RowsDiffer, RowsOf
<1>8. RowsInOrder'
  BY <1>1, <1>2, <1>3, <1>4 DEF TrailInv, RowsInOrder, OnlyRowsOf, CountedOut
<1>9. NothingLost'
  BY <1>1, <1>2, <1>3 DEF TrailInv, NothingLost, HasRow
<1> QED
  BY <1>5, <1>6, <1>7, <1>8, <1>9 DEF TrailInv

(* The start of another run takes the rows away when its answer is read,   *)
(* and not before. *)
LEMMA StartKeepsInv ==
    ASSUME TrailInv, StartRun \/ StartFails
    PROVE  TrailInv'
<1>1. /\ UNCHANGED <<run, conn, wire, shown>>
      /\ \E b \in BOOLEAN : card' = [card EXCEPT !.busy = b, !.answer = None]
  BY DEF StartRun, StartFails
<1>2. MemoryOK' /\ card'.answer = None /\ card'.request = card.request
  BY <1>1 DEF TrailInv, MemoryOK
<1>3. StreamsFollowRuns'
  BY <1>1, <1>2 DEF TrailInv, StreamsFollowRuns
<1>4. (IdleIsEmpty /\ RowsComeLater /\ RowsDiffer)'
  BY <1>1, <1>2 DEF TrailInv, IdleIsEmpty, RowsComeLater, RowsDiffer, RowsOf
<1>5. (RowsInOrder /\ NothingLost)'
  BY <1>1, <1>2
     DEF TrailInv, RowsInOrder, OnlyRowsOf, CountedOut, NothingLost, HasRow
<1> QED
  BY <1>2, <1>3, <1>4, <1>5 DEF TrailInv

LEMMA ShowRunKeepsInv ==
    ASSUME TrailInv, ShowRun
    PROVE  TrailInv'
<1> DEFINE r == card.answer
<1>1. /\ r # None /\ UNCHANGED <<run, wire>> /\ shown' = << >>
      /\ card' = [busy |-> FALSE, answer |-> None, request |-> r]
      /\ conn' = [conn EXCEPT ![r] = "opening"]
  BY DEF ShowRun
<1>2. r \in Runs
  BY <1>1 DEF TrailInv, MemoryOK
<1>3. run[r].state # "none" /\ conn[r] = "none" /\ wire[r] = << >>
  BY <1>1, <1>2 DEF TrailInv, StreamsFollowRuns, IdleIsEmpty
<1>4. conn'[r] = "opening" /\ \A q \in Runs \ {r} : conn'[q] = conn[q]
  BY <1>1, <1>2 DEF TrailInv, MemoryOK
<1>5. /\ << >> \in Seq(Row) /\ DOMAIN << >> = {} /\ Len(<< >>) = 0
  BY EmptySeq
<1>6. MemoryOK'
  BY <1>1, <1>2, <1>5 DEF TrailInv, MemoryOK
<1>7. StreamsFollowRuns' /\ IdleIsEmpty'
  BY <1>1, <1>2, <1>3, <1>4 DEF TrailInv, StreamsFollowRuns, IdleIsEmpty
<1>8. RowsComeLater' /\ RowsDiffer'
  BY <1>1, <1>5 DEF RowsComeLater, RowsDiffer, RowsOf
<1>9. RowsInOrder' /\ NothingLost'
  BY <1>1, <1>3, <1>4, <1>5 DEF RowsInOrder, OnlyRowsOf, CountedOut, NothingLost
<1> QED
  BY <1>6, <1>7, <1>8, <1>9 DEF TrailInv
-----------------------------------------------------------------------------
LEMMA TrailInitInv ==
    ASSUME TrailInit
    PROVE  TrailInv
<1>1. << >> \in Seq(Row) /\ << >> \in Seq(Event) /\ DOMAIN << >> = {}
  BY EmptySeq
<1>2. 0 \in 0..MaxEvents
  BY TrailAssumption
<1>3. NoRun \in RunRecord
  BY <1>2 DEF NoRun, RunRecord
<1>4. MemoryOK
  BY <1>1, <1>3 DEF TrailInit, MemoryOK
<1>5. card.request = None /\ card.answer = None
  BY DEF TrailInit
<1>6. StreamsFollowRuns /\ IdleIsEmpty /\ RowsComeLater /\ RowsInOrder /\ NothingLost
  BY <1>5
     DEF TrailInit, StreamsFollowRuns, IdleIsEmpty, RowsComeLater, RowsInOrder, NothingLost
<1>7. RowsDiffer
  BY <1>1 DEF TrailInit, RowsDiffer
<1> QED
  BY <1>4, <1>6, <1>7 DEF TrailInv

LEMMA TrailNextKeepsInv ==
    ASSUME TrailInv, [TrailNext]_trailVars
    PROVE  TrailInv'
<1>1. ASSUME NEW r \in Runs, RunStep(r) PROVE TrailInv'
  BY <1>1, RunStepKeepsInv
<1>2. ASSUME NEW r \in Runs, CardStep(r) PROVE TrailInv'
  BY <1>2, CreateRunKeepsInv, OpenStreamKeepsInv, ReadEventKeepsInv, CloseKeepsInv
     DEF CardStep
<1>3. CASE StartRun \/ StartFails
  BY <1>3, StartKeepsInv
<1>4. CASE ShowRun
  BY <1>4, ShowRunKeepsInv
<1>5. CASE UNCHANGED trailVars
  BY <1>5
     DEF trailVars, cardVars, TrailInv, MemoryOK, StreamsFollowRuns, IdleIsEmpty,
         RowsComeLater, RowsDiffer, RowsOf, RowsInOrder, OnlyRowsOf, CountedOut,
         NothingLost, HasRow
<1> QED
  BY <1>1, <1>2, <1>3, <1>4, <1>5 DEF TrailNext

LEMMA TrailInvHolds == TrailSpec => []TrailInv
<1>1. TrailInit => TrailInv
  BY TrailInitInv
<1>2. TrailInv /\ [TrailNext]_trailVars => TrailInv'
  BY TrailNextKeepsInv
<1> QED
  BY <1>1, <1>2, PTL DEF TrailSpec

(* Rows of different numbers, so never more rows than numbers. *)
LEMMA RowsAreFew ==
    ASSUME TrailInv
    PROVE  Len(shown) <= MaxEvents
<1> DEFINE S == 1..Len(shown)
           f == [i \in S |-> shown[i].seq]
<1>1. Len(shown) \in Nat /\ DOMAIN shown = S /\ MaxEvents \in Nat
  BY RowFacts, TrailAssumption
<1>2. \A i \in S : shown[i].seq \in Event
  BY <1>1, RowFacts DEF Row, Event
<1>3. f \in [S -> Event]
  BY <1>2
<1>4. \A i, j \in S : f[i] = f[j] => i = j
  BY <1>1 DEF TrailInv, RowsDiffer
<1>5. /\ IsFiniteSet(S) /\ Cardinality(S) = Len(shown)
      /\ IsFiniteSet(Event) /\ Cardinality(Event) = MaxEvents
  <2>1. ASSUME NEW n \in Nat
        PROVE  IsFiniteSet(1..n) /\ Cardinality(1..n) = n
    <3>1. IsFiniteSet(1..n) /\ Cardinality(1..n) = IF 1 > n THEN 0 ELSE n - 1 + 1
      BY FS_Interval
    <3> QED
      BY <3>1
  <2> QED
    BY <1>1, <2>1 DEF Event
<1> HIDE DEF f, S
<1>6. ~(Cardinality(Event) < Cardinality(S))
  BY <1>3, <1>4, <1>5, FS_PigeonHole
<1> QED
  BY <1>1, <1>5, <1>6

(* Types, and never more rows than a run has events, however many runs     *)
(* stream into the card. *)
THEOREM TrailTypeCorrect == TrailSpec => []TrailTypeOK
<1>1. TrailInv => TrailTypeOK
  BY RowsAreFew DEF TrailInv, MemoryOK, TrailTypeOK, Event
<1> QED
  BY <1>1, TrailInvHolds, PTL

(* The card and the stream lose, repeat and reorder nothing of the run     *)
(* shown, for any number of runs, breaks and second starts. *)
THEOREM TrailStaysFaithful == TrailSpec => []TrailIsFaithful
<1>1. TrailInv => TrailIsFaithful
  BY DEF TrailInv, RowsInOrder, OnlyRowsOf, CountedOut, NothingLost, TrailIsFaithful
<1> QED
  BY <1>1, TrailInvHolds, PTL
=============================================================================
