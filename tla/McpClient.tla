----------------------------- MODULE McpClient -----------------------------
(***************************************************************************)
(* card-gateway's McpSseClient, which getCard and viewCard make one of per *)
(* tool call: it initializes, notifies, calls the tool and closes.         *)
(* Requests are POSTed, and 202 is not the answer: replies come on one     *)
(* event stream and are matched to calls by id.  A step is one task *)
(* of the event loop with the continuations it resolves, so the caller's   *)
(* close() runs in the step that settles its call.                         *)
(***************************************************************************)
EXTENDS Naturals, Sequences, FiniteSets

CONSTANTS
    None,
    MaxReplies  \* bound on the replies in the stream at a time

ASSUME McpAssumption == MaxReplies \in Nat

Calls    == {"initialize", "tool"}      \* answered on the stream
Messages == Calls \cup {"initialized"}  \* POSTed; the last is a notification

VARIABLES
    ready,    \* #ready: "fetching", "awaiting" the endpoint event, or settled
    reading,  \* the read loop has a stream
    stream,   \* replies the server has sent and the loop has not read
    closed,   \* #closed, and the abort signal that close() raises
    nextId,   \* #nextId
    ids,      \* message -> the id it was given, 0 before and for the notification
    pending,  \* #pending: [id, of] of every call that waits for its reply
    post,     \* message -> "none", "waiting" for #ready, "inFlight" or "over"
    sent,     \* history: messages whose POST has left
    result,   \* call -> the call whose reply resolved it, or None
    session   \* the message the caller awaits, or how the session ended

mcpVars == <<ready, reading, stream, closed, nextId, ids, pending, post, sent,
             result, session>>

Over == {"done", "failed"}

(* Mutant: an id that is free again is given again. *)
ReusedId == Cardinality(pending) + 1

NewId == nextId

Entry(m) == [id |-> ids[m], of |-> m]

(* The constructor connects; initialize() calls before that has settled. *)
McpInit ==
    /\ ready = "fetching" /\ reading = FALSE /\ stream = << >> /\ closed = FALSE
    /\ nextId = 2
    /\ ids = [m \in Messages |-> IF m = "initialize" THEN 1 ELSE 0]
    /\ pending = {[id |-> 1, of |-> "initialize"]}
    /\ post = [m \in Messages |-> IF m = "initialize" THEN "waiting" ELSE "none"]
    /\ sent = {}
    /\ result = [m \in Calls |-> None]
    /\ session = "initialize"

(* Mutant: an aborted POST is forgotten. *)
ReleasedByDeletion(posts) ==
    [m \in {n \in Messages : posts[n] # "inFlight"} |-> posts[m]]

Released(posts) ==
    [m \in Messages |-> IF posts[m] = "inFlight" THEN "over" ELSE posts[m]]

(* Mutant: no finally, the client stays open. *)
EndUnclosed(how, posts) ==
    /\ session' = how
    /\ post' = posts
    /\ pending' = {e \in pending : e.of # session}
    /\ UNCHANGED <<closed, reading>>

(* The caller has its result or an error, and closes the client: the abort *)
(* ends the read loop and every POST in flight.                            *)
End(how, posts) ==
    /\ session' = how
    /\ closed' = TRUE /\ reading' = FALSE
    /\ pending' = {}
    /\ post' = Released(posts)

(* The next tool call has a client of its own: nothing of this one is read *)
(* any more. *)
NewClient ==
    /\ ready' = "fetching" /\ reading' = FALSE /\ stream' = << >> /\ closed' = FALSE
    /\ nextId' = 2
    /\ ids' = [m \in Messages |-> IF m = "initialize" THEN 1 ELSE 0]
    /\ pending' = {[id |-> 1, of |-> "initialize"]}
    /\ post' = [m \in Messages |-> IF m = "initialize" THEN "waiting" ELSE "none"]
    /\ sent' = {}
    /\ result' = [m \in Calls |-> None]
    /\ session' = "initialize"

Fail(posts) == End("failed", posts) /\ UNCHANGED <<nextId, ids, sent, result>>

(* #ready rejects, and with it the POSTs that wait for it. *)
RejectReady ==
    LET posts == [m \in Messages |-> IF post[m] = "waiting" THEN "over" ELSE post[m]] IN
    /\ ready' = "rejected"
    /\ IF session \in Over
       THEN post' = posts /\ reading' = FALSE
            /\ UNCHANGED <<closed, nextId, ids, pending, sent, result, session>>
       ELSE Fail(posts)
    /\ UNCHANGED stream
-----------------------------------------------------------------------------
(* #connect *)

Connects ==
    /\ ready = "fetching" /\ ~closed
    /\ ready' = "awaiting" /\ reading' = TRUE
    /\ UNCHANGED <<stream, closed, nextId, ids, pending, post, sent, result, session>>

(* The fetch fails, answers an error, or is aborted by a timer or close(). *)
ConnectFails == ready = "fetching" /\ RejectReady

EndpointTimesOut == ready = "awaiting" /\ RejectReady

(* #readLoop and #dispatchEvent *)

ReadEndpoint ==
    LET leaving == IF closed THEN {} ELSE {m \in Messages : post[m] = "waiting"} IN
    /\ reading /\ ready = "awaiting"
    /\ ready' = "resolved"
    /\ sent' = sent \cup leaving
    /\ post' = [m \in Messages |-> IF m \in leaving THEN "inFlight" ELSE post[m]]
    /\ UNCHANGED <<reading, stream, closed, nextId, ids, pending, result, session>>

(* The reply settles the pending call with its id; any other is dropped.   *)
(* The notification that follows initialize leaves in the same task.       *)
ReadReply ==
    LET reply  == Head(stream)
        called == {e \in pending : e.id = reply.id} IN
    /\ reading /\ stream # << >>
    /\ stream' = Tail(stream)
    /\ UNCHANGED <<ready, nextId, ids>>
    /\ \/ called = {} /\ UNCHANGED <<reading, closed, pending, post, sent, result, session>>
       \/ \E e \in called :
          /\ result' = [result EXCEPT ![e.of] = IF reply.ok THEN reply.to ELSE None]
          /\ CASE ~reply.ok -> End("failed", post) /\ UNCHANGED sent
               [] reply.ok /\ e.of = "tool" ->
                    (End("done", post) \/ End("failed", post)) /\ UNCHANGED sent
               [] reply.ok /\ e.of = "initialize" ->
                    /\ session' = "initialized"
                    /\ pending' = pending \ {e}
                    /\ post' = [post EXCEPT !["initialized"] = "inFlight"]
                    /\ sent' = sent \cup {"initialized"}
                    /\ UNCHANGED <<reading, closed>>

(* The stream ends, breaks or names a bad endpoint: every pending call is  *)
(* rejected.  A session between two calls does not notice. *)
StreamBreaks ==
    /\ reading
    /\ \/ ready = "awaiting" /\ RejectReady
       \/ /\ ready # "awaiting"
          /\ UNCHANGED <<ready, stream>>
          /\ IF pending # {}
             THEN Fail(post)
             ELSE /\ reading' = FALSE
                  /\ UNCHANGED <<closed, nextId, ids, pending, post, sent, result, session>>

(* #post.  The tool is called once the notification was accepted. *)
PostAccepted(m) ==
    /\ post[m] = "inFlight"
    /\ IF m = "initialized"
       THEN /\ post' = [post EXCEPT ![m] = "over", !["tool"] = "inFlight"]
            /\ ids' = [ids EXCEPT !["tool"] = NewId]
            /\ nextId' = NewId + 1
            /\ pending' = pending \cup {[id |-> NewId, of |-> "tool"]}
            /\ sent' = sent \cup {"tool"}
            /\ session' = "tool"
       ELSE /\ post' = [post EXCEPT ![m] = "over"]
            /\ UNCHANGED <<nextId, ids, pending, sent, session>>
    /\ UNCHANGED <<ready, reading, stream, closed, result>>

(* Not 202, no answer, or the timer; of a settled call nobody cares. *)
PostFails(m) ==
    /\ post[m] = "inFlight"
    /\ IF m = "initialized" \/ Entry(m) \in pending
       THEN Fail([post EXCEPT ![m] = "over"])
       ELSE /\ post' = [post EXCEPT ![m] = "over"]
            /\ UNCHANGED <<reading, closed, nextId, ids, pending, sent, result, session>>
    /\ UNCHANGED <<ready, stream>>

(* #call's timer.  Mutant: 202 counts as the answer and clears it. *)
TimesOutUnaccepted(m) ==
    /\ Entry(m) \in pending /\ post[m] # "over"
    /\ Fail(post)
    /\ UNCHANGED <<ready, stream>>

CallTimesOut(m) ==
    /\ Entry(m) \in pending
    /\ Fail(post)
    /\ UNCHANGED <<ready, stream>>

(* The server answers what it was sent, at any time and more than once.    *)
ServerReplies(m) ==
    /\ m \in sent /\ Len(stream) < MaxReplies
    /\ \E ok \in BOOLEAN :
          stream' = Append(stream, [id |-> ids[m], to |-> m, ok |-> ok])
    /\ UNCHANGED <<ready, reading, closed, nextId, ids, pending, post, sent, result, session>>

Timers ==
    \/ ConnectFails \/ EndpointTimesOut
    \/ \E m \in Messages : PostFails(m)
    \/ \E m \in Calls : CallTimesOut(m)

McpNext ==
    \/ Connects \/ ReadEndpoint \/ ReadReply \/ StreamBreaks
    \/ \E m \in Messages : PostAccepted(m)
    \/ \E m \in Calls : ServerReplies(m)
    \/ Timers

-----------------------------------------------------------------------------
(* Type correctness of the client. *)
McpTypeOK ==
    /\ ready \in {"fetching", "awaiting", "resolved", "rejected"}
    /\ reading \in BOOLEAN /\ closed \in BOOLEAN
    /\ stream \in Seq([id : Nat, to : Calls, ok : BOOLEAN])
    /\ nextId \in Nat /\ ids \in [Messages -> Nat]
    /\ pending \subseteq [id : Nat, of : Calls]
    /\ post \in [Messages -> {"none", "waiting", "inFlight", "over"}]
    /\ sent \subseteq Messages
    /\ result \in [Calls -> Calls \cup {None}]
    /\ session \in Messages \cup Over

(* A call is resolved by the reply to that call, however late, reordered   *)
(* or repeated the stream delivers the replies: a quote is never read from *)
(* the answer to initialize.                                               *)
ReplyIsOwn == \A m \in Calls : result[m] \in {None, m}

(* Once the caller has been told that it failed, or has its result, no     *)
(* request of its session leaves any more: a tool is not asked for a       *)
(* one-time card view that nobody waits for.                               *)
NothingSentOnceOver == [][(session \in Over) => sent' \subseteq sent]_mcpVars
=============================================================================
