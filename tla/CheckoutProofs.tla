--------------------------- MODULE CheckoutProofs ---------------------------
(* What holds of every checkout and of every client of the card API, for   *)
(* any pages, hosts and profiles, any number of replies in the stream and  *)
(* any step that fails.                                                    *)
EXTENDS Checkout, NumeralProofs

(* A pending call goes by its own id, and "initialize" and the tool by     *)
(* different ones. *)
IdsInv ==
    /\ ids["initialize"] = 1 /\ nextId >= 2
    /\ "tool" \in sent => ids["tool"] >= 2
    /\ \A e \in pending : e.id = ids[e.of] /\ (e.of = "tool" => "tool" \in sent)

(* What the server answers it was asked, under the id that it was given. *)
StreamInv ==
    \A i \in 1..Len(stream) :
        stream[i].to \in sent /\ stream[i].id = ids[stream[i].to]

(* "initialize", the notification and the tool come one after the other.  *)
HandshakeInv ==
    /\ \A m \in Messages : post[m] = "waiting" => m = "initialize"
    /\ post["initialized"] = "inFlight" =>
           "tool" \notin sent /\ \A e \in pending : e.of # "initialize"
    /\ (\E e \in pending : e.of = "initialize") =>
           post["initialized"] = "none" /\ "tool" \notin sent

(* A session that is over has closed its client: nothing is under way.     *)
OverInv ==
    session \in Over =>
        /\ closed /\ pending = {}
        /\ \A m \in Messages : post[m] # "inFlight"

McpInv == McpTypeOK /\ IdsInv /\ StreamInv /\ HandshakeInv /\ OverInv /\ ReplyIsOwn

LEMMA McpStarts ==
    McpInit => McpInv
<1> SUFFICES ASSUME McpInit PROVE McpInv
  OBVIOUS
<1> USE DEF McpInit, Calls, Messages
<1>1. McpTypeOK
  <2>1. ready \in {"fetching", "awaiting", "resolved", "rejected"} /\ reading \in BOOLEAN /\ closed \in BOOLEAN
    OBVIOUS
  <2>2. stream \in Seq([id : Nat, to : Calls, ok : BOOLEAN])
    OBVIOUS
  <2>3. nextId \in Nat /\ ids \in [Messages -> Nat]
    OBVIOUS
  <2>4. pending \subseteq [id : Nat, of : Calls] /\ sent \subseteq Messages
    OBVIOUS
  <2>5. post \in [Messages -> {"none", "waiting", "inFlight", "over"}]
    OBVIOUS
  <2>6. result \in [Calls -> Calls \cup {None}] /\ session \in Messages \cup Over
    OBVIOUS
  <2>7. QED
    BY <2>1, <2>2, <2>3, <2>4, <2>5, <2>6 DEF McpTypeOK
<1>2. IdsInv
  BY DEF IdsInv
<1>3. StreamInv
  BY DEF StreamInv
<1>4. HandshakeInv
  BY DEF HandshakeInv
<1>5. OverInv
  BY DEF OverInv, Over
<1>6. ReplyIsOwn
  BY DEF ReplyIsOwn
<1>7. QED
  BY <1>1, <1>2, <1>3, <1>4, <1>5, <1>6 DEF McpInv

(* A new client is like the first. *)
LEMMA McpStartsAgain ==
    NewClient => McpInv'
<1>1. NewClient => McpInit'
  BY DEF NewClient, McpInit
<1>2. QED
  BY <1>1, McpStarts, PTL

(* A session that fails leaves nothing behind. *)
LEMMA FailKeeps ==
    ASSUME McpInv, NEW posts \in [Messages -> {"none", "waiting", "inFlight", "over"}],
           \A m \in Messages : posts[m] \in {post[m], "over"},
           Fail(posts), ready' \in {"fetching", "awaiting", "resolved", "rejected"},
           UNCHANGED stream
    PROVE  McpInv'
<1> USE DEF Fail, End, McpInv
<1>1. McpTypeOK'
  BY DEF McpTypeOK, Released, Over
<1>2. IdsInv'
  BY DEF IdsInv
<1>3. StreamInv'
  BY DEF StreamInv
<1>4. HandshakeInv'
  BY DEF HandshakeInv, Released, McpTypeOK, Messages, Calls
<1>5. OverInv'
  BY DEF OverInv, Released
<1>6. ReplyIsOwn'
  BY DEF ReplyIsOwn
<1>7. QED
  BY <1>1, <1>2, <1>3, <1>4, <1>5, <1>6

LEMMA RejectKeeps ==
    ASSUME McpInv, RejectReady
    PROVE  McpInv'
<1> DEFINE posts == [m \in Messages |-> IF post[m] = "waiting" THEN "over" ELSE post[m]]
<1>1. /\ posts \in [Messages -> {"none", "waiting", "inFlight", "over"}]
      /\ \A m \in Messages : posts[m] \in {post[m], "over"}
  BY DEF McpInv, McpTypeOK
<1>2. CASE session \in Over
  <2>1. /\ post' = posts /\ reading' = FALSE /\ ready' = "rejected"
        /\ UNCHANGED <<stream, closed, nextId, ids, pending, sent, result, session>>
    BY <1>2 DEF RejectReady
  <2> HIDE DEF posts
  <2>2. McpTypeOK'
    BY <1>1, <2>1 DEF McpInv, McpTypeOK
  <2>3. IdsInv' /\ StreamInv' /\ ReplyIsOwn'
    BY <2>1 DEF McpInv, IdsInv, StreamInv, ReplyIsOwn
  <2>4. HandshakeInv'
    BY <1>1, <1>2, <2>1 DEF McpInv, HandshakeInv, OverInv, Messages, Calls
  <2>5. OverInv'
    BY <1>1, <1>2, <2>1 DEF McpInv, OverInv
  <2>6. QED
    BY <2>2, <2>3, <2>4, <2>5 DEF McpInv
<1>3. CASE session \notin Over
  <2>1. Fail(posts) /\ ready' = "rejected" /\ UNCHANGED stream
    BY <1>3 DEF RejectReady
  <2> HIDE DEF posts
  <2>2. QED
    BY <1>1, <2>1, FailKeeps
<1>4. QED
  BY <1>2, <1>3
-----------------------------------------------------------------------------
LEMMA ConnectsKeeps ==
    ASSUME McpInv, Connects
    PROVE  McpInv'
BY DEF McpInv, Connects, McpTypeOK, IdsInv, StreamInv, HandshakeInv, OverInv, ReplyIsOwn

(* Nothing leaves with the endpoint once the client is closed. *)
LEMMA ReadEndpointKeeps ==
    ASSUME McpInv, ReadEndpoint
    PROVE  McpInv'
<1> USE DEF McpInv, ReadEndpoint
<1>1. McpTypeOK'
  BY DEF McpTypeOK
<1>2. sent \subseteq sent' /\ sent' \ sent \subseteq {"initialize"}
  BY DEF HandshakeInv
<1>3. IdsInv' /\ StreamInv' /\ ReplyIsOwn'
  BY <1>2 DEF IdsInv, StreamInv, ReplyIsOwn
<1>4. HandshakeInv'
  BY <1>2 DEF HandshakeInv, McpTypeOK, Messages
<1>5. OverInv'
  BY DEF OverInv, McpTypeOK
<1>6. QED
  BY <1>1, <1>3, <1>4, <1>5

LEMMA StreamBreaksKeeps ==
    ASSUME McpInv, StreamBreaks
    PROVE  McpInv'
<1>1. CASE ready = "awaiting" /\ RejectReady
  BY <1>1, RejectKeeps
<1>2. CASE ready # "awaiting" /\ pending # {}
  <2>1. Fail(post) /\ UNCHANGED <<ready, stream>>
    BY <1>2 DEF StreamBreaks
  <2>2. QED
    BY <2>1, FailKeeps DEF McpInv, McpTypeOK
<1>3. CASE ready # "awaiting" /\ pending = {}
  <2>1. /\ reading' = FALSE
        /\ UNCHANGED <<ready, stream, closed, nextId, ids, pending, post, sent, result,
                       session>>
    BY <1>3 DEF StreamBreaks, RejectReady
  <2>2. McpTypeOK'
    BY <2>1 DEF McpInv, McpTypeOK
  <2>3. QED
    BY <2>1, <2>2 DEF McpInv, IdsInv, StreamInv, HandshakeInv, OverInv, ReplyIsOwn
<1>4. QED
  BY <1>1, <1>2, <1>3 DEF StreamBreaks

(* The notification is accepted once, so the tool has one id. *)
LEMMA PostAcceptedKeeps ==
    ASSUME McpInv, NEW m \in Messages, PostAccepted(m)
    PROVE  McpInv'
<1> USE DEF McpInv
<1>1. session \notin Over
  BY DEF PostAccepted, OverInv
<1>2. CASE m = "initialized"
  <2>1. /\ post' = [post EXCEPT !["initialized"] = "over", !["tool"] = "inFlight"]
        /\ ids' = [ids EXCEPT !["tool"] = nextId]
        /\ nextId' = nextId + 1
        /\ pending' = pending \cup {[id |-> nextId, of |-> "tool"]}
        /\ sent' = sent \cup {"tool"} /\ session' = "tool"
        /\ UNCHANGED <<ready, reading, stream, closed, result>>
    BY <1>2 DEF PostAccepted, NewId
  <2>2. "tool" \notin sent /\ \A e \in pending : e.of # "initialize"
    BY <1>2 DEF PostAccepted, HandshakeInv
  <2>3. pending = {}
    BY <2>2 DEF IdsInv, McpTypeOK, Calls
  <2>4. McpTypeOK'
    <3>1. [id |-> nextId, of |-> "tool"] \in [id : Nat, of : Calls]
      BY DEF McpTypeOK, Calls
    <3>2. QED
      BY <2>1, <2>3, <3>1 DEF McpTypeOK, Messages, Calls
  <2>5. IdsInv'
    BY <2>1, <2>3 DEF IdsInv, McpTypeOK, Messages, Calls
  <2>6. StreamInv'
    BY <2>1, <2>2 DEF StreamInv, McpTypeOK, Messages, Calls
  <2>7. HandshakeInv'
    BY <2>1, <2>3 DEF HandshakeInv, McpTypeOK, Messages, Calls
  <2>8. OverInv' /\ ReplyIsOwn'
    BY <2>1 DEF OverInv, Over, ReplyIsOwn
  <2>9. QED
    BY <2>4, <2>5, <2>6, <2>7, <2>8
<1>3. CASE m # "initialized"
  <2>1. /\ post' = [post EXCEPT ![m] = "over"]
        /\ UNCHANGED <<nextId, ids, pending, sent, session, ready, reading, stream,
                       closed, result>>
    BY <1>3 DEF PostAccepted
  <2>2. McpTypeOK'
    BY <2>1 DEF McpTypeOK
  <2>3. IdsInv' /\ StreamInv' /\ ReplyIsOwn'
    BY <2>1 DEF IdsInv, StreamInv, ReplyIsOwn
  <2>4. HandshakeInv' /\ OverInv'
    BY <1>1, <1>3, <2>1 DEF HandshakeInv, OverInv, McpTypeOK, Messages
  <2>5. QED
    BY <2>2, <2>3, <2>4
<1>4. QED
  BY <1>2, <1>3

LEMMA PostFailsKeeps ==
    ASSUME McpInv, NEW m \in Messages, PostFails(m)
    PROVE  McpInv'
<1> DEFINE posts == [post EXCEPT ![m] = "over"]
<1>1. /\ posts \in [Messages -> {"none", "waiting", "inFlight", "over"}]
      /\ \A n \in Messages : posts[n] \in {post[n], "over"}
  BY DEF McpInv, McpTypeOK
<1>2. CASE m = "initialized" \/ Entry(m) \in pending
  <2>1. Fail(posts) /\ UNCHANGED <<ready, stream>>
    BY <1>2 DEF PostFails
  <2> HIDE DEF posts
  <2>2. QED
    BY <1>1, <2>1, FailKeeps DEF McpInv, McpTypeOK
<1>3. CASE ~(m = "initialized" \/ Entry(m) \in pending)
  <2>1. /\ post' = posts
        /\ UNCHANGED <<reading, closed, nextId, ids, pending, sent, result, session,
                       ready, stream>>
    BY <1>3 DEF PostFails
  <2>2. session \notin Over
    BY DEF PostFails, McpInv, OverInv
  <2>3. HandshakeInv'
    BY <1>3, <2>1 DEF McpInv, HandshakeInv, McpTypeOK, Messages
  <2> HIDE DEF posts
  <2>4. McpTypeOK' /\ IdsInv' /\ StreamInv' /\ ReplyIsOwn' /\ OverInv'
    BY <1>1, <2>1, <2>2 DEF McpInv, McpTypeOK, IdsInv, StreamInv, ReplyIsOwn, OverInv
  <2>5. QED
    BY <2>3, <2>4 DEF McpInv
<1>4. QED
  BY <1>2, <1>3

LEMMA CallTimesOutKeeps ==
    ASSUME McpInv, NEW m \in Calls, CallTimesOut(m)
    PROVE  McpInv'
BY FailKeeps DEF CallTimesOut, McpInv, McpTypeOK

LEMMA ServerRepliesKeeps ==
    ASSUME McpInv, NEW m \in Calls, ServerReplies(m)
    PROVE  McpInv'
<1> USE DEF McpInv
<1>1. PICK ok \in BOOLEAN : stream' = Append(stream, [id |-> ids[m], to |-> m, ok |-> ok])
  BY DEF ServerReplies
<1>2. /\ m \in sent
      /\ UNCHANGED <<ready, reading, closed, nextId, ids, pending, post, sent, result, session>>
  BY DEF ServerReplies
<1>3. [id |-> ids[m], to |-> m, ok |-> ok] \in [id : Nat, to : Calls, ok : BOOLEAN]
  BY DEF McpTypeOK, Messages, Calls
<1>4. McpTypeOK'
  BY <1>1, <1>2, <1>3 DEF McpTypeOK
<1>5. StreamInv'
  BY <1>1, <1>2, <1>3 DEF StreamInv, McpTypeOK
<1>6. IdsInv' /\ HandshakeInv' /\ OverInv' /\ ReplyIsOwn'
  BY <1>2 DEF IdsInv, HandshakeInv, OverInv, ReplyIsOwn
<1>7. QED
  BY <1>4, <1>5, <1>6

LEMMA ElementOfSeq ==
    ASSUME NEW S, NEW s \in Seq(S), NEW i \in 1..Len(s)
    PROVE  s[i] \in S
OBVIOUS

(* The reply has the id of one call only, and is to that call. *)
LEMMA ReadReplyKeeps ==
    ASSUME McpInv, ReadReply
    PROVE  McpInv'
<1> DEFINE reply == Head(stream)
           called == {e \in pending : e.id = reply.id}
<1>1. /\ stream # << >> /\ stream' = Tail(stream)
      /\ UNCHANGED <<ready, nextId, ids>>
  BY DEF ReadReply
<1>2. /\ reply \in [id : Nat, to : Calls, ok : BOOLEAN]
      /\ reply.to \in sent /\ reply.id = ids[reply.to]
  <2>1. 1 \in 1..Len(stream) /\ reply = stream[1]
    BY <1>1 DEF McpInv, McpTypeOK
  <2>2. stream[1] \in [id : Nat, to : Calls, ok : BOOLEAN]
    <3>1. stream \in Seq([id : Nat, to : Calls, ok : BOOLEAN])
      BY DEF McpInv, McpTypeOK
    <3>2. QED
      BY <2>1, <3>1, ElementOfSeq
  <2>3. stream[1].to \in sent /\ stream[1].id = ids[stream[1].to]
    BY <2>1 DEF McpInv, StreamInv
  <2>4. QED
    BY <2>1, <2>2, <2>3
<1>3. /\ stream' \in Seq([id : Nat, to : Calls, ok : BOOLEAN])
      /\ \A i \in 1..Len(stream') : \E j \in 1..Len(stream) : stream'[i] = stream[j]
  <2>1. /\ stream' \in Seq([id : Nat, to : Calls, ok : BOOLEAN])
        /\ Len(stream') = Len(stream) - 1
        /\ \A i \in 1..Len(stream') : stream'[i] = stream[i + 1]
    BY <1>1 DEF McpInv, McpTypeOK
  <2>2. \A i \in 1..Len(stream') : i + 1 \in 1..Len(stream)
    BY <1>1, <2>1 DEF McpInv, McpTypeOK
  <2>3. QED
    BY <2>1, <2>2
<1>4. sent \subseteq sent' => StreamInv'
  BY <1>1, <1>3 DEF McpInv, StreamInv
<1>5. CASE called = {}
  <2>1. UNCHANGED <<reading, closed, pending, post, sent, result, session>>
    BY <1>5 DEF ReadReply
  <2>2. QED
    BY <1>1, <1>3, <1>4, <2>1
       DEF McpInv, McpTypeOK, IdsInv, HandshakeInv, OverInv, ReplyIsOwn
<1>6. ASSUME NEW e \in called,
             result' = [result EXCEPT ![e.of] = IF reply.ok THEN reply.to ELSE None],
             CASE ~reply.ok -> End("failed", post) /\ UNCHANGED sent
               [] reply.ok /\ e.of = "tool" ->
                    (End("done", post) \/ End("failed", post)) /\ UNCHANGED sent
               [] reply.ok /\ e.of = "initialize" ->
                    /\ session' = "initialized"
                    /\ pending' = pending \ {e}
                    /\ post' = [post EXCEPT !["initialized"] = "inFlight"]
                    /\ sent' = sent \cup {"initialized"}
                    /\ UNCHANGED <<reading, closed>>
      PROVE  McpInv'
  <2>1. e \in pending /\ e.of \in Calls /\ e.id = ids[reply.to] /\ e.id = ids[e.of]
    BY <1>2 DEF McpInv, McpTypeOK, IdsInv
  <2>2. e.of = reply.to
    <3> HIDE DEF reply, called
    <3>1. reply.to \in Calls
      BY <1>2
    <3>2. e.of = "tool" => ids["tool"] >= 2
      BY <2>1 DEF McpInv, IdsInv
    <3>3. reply.to = "tool" => ids["tool"] >= 2
      BY <1>2 DEF McpInv, IdsInv
    <3>4. ids["initialize"] = 1 /\ ids[e.of] = ids[reply.to]
      BY <2>1 DEF McpInv, IdsInv
    <3>5. ids["tool"] >= 2 => ids["initialize"] # ids["tool"]
      BY <3>4
    <3>6. QED
      BY <2>1, <3>1, <3>2, <3>3, <3>4, <3>5 DEF Calls
  <2>3. result' \in [Calls -> Calls \cup {None}] /\ ReplyIsOwn'
    BY <1>2, <1>6, <2>1, <2>2 DEF McpInv, McpTypeOK, ReplyIsOwn
  <2> HIDE DEF reply, called
  <2>4. CASE reply.ok /\ e.of = "initialize"
    <3>1. /\ session' = "initialized" /\ pending' = pending \ {e}
          /\ post' = [post EXCEPT !["initialized"] = "inFlight"]
          /\ sent' = sent \cup {"initialized"}
          /\ UNCHANGED <<reading, closed>>
      BY <1>6, <2>4
    <3>2. post["initialized"] = "none" /\ "tool" \notin sent
      BY <2>1, <2>4 DEF McpInv, HandshakeInv
    <3>3. pending' = {}
      BY <2>1, <2>4, <3>1, <3>2 DEF McpInv, McpTypeOK, IdsInv, Calls
    <3>4. McpTypeOK'
      BY <1>1, <1>3, <2>3, <3>1, <3>3 DEF McpInv, McpTypeOK, Messages
    <3>5. IdsInv' /\ HandshakeInv' /\ OverInv'
      BY <1>1, <3>1, <3>2, <3>3
         DEF McpInv, McpTypeOK, IdsInv, HandshakeInv, OverInv, Over, Messages
    <3>6. QED
      BY <1>4, <2>3, <3>1, <3>4, <3>5 DEF McpInv
  <2>5. CASE ~(reply.ok /\ e.of = "initialize")
    <3>1. /\ \E how \in Over : End(how, post)
          /\ sent' = sent
      BY <1>6, <2>1, <2>5 DEF Calls, Over
    <3>2. /\ session' \in Over /\ closed' = TRUE /\ reading' = FALSE /\ pending' = {}
          /\ post' = Released(post)
      BY <3>1 DEF End
    <3>3. /\ post' \in [Messages -> {"none", "waiting", "inFlight", "over"}]
          /\ \A m \in Messages : post'[m] \in {post[m], "over"} /\ post'[m] # "inFlight"
      BY <3>2 DEF Released, McpInv, McpTypeOK
    <3>4. McpTypeOK'
      BY <1>1, <1>3, <2>3, <3>1, <3>2, <3>3 DEF McpInv, McpTypeOK
    <3>5. IdsInv' /\ HandshakeInv' /\ OverInv'
      BY <1>1, <3>1, <3>2, <3>3 DEF McpInv, IdsInv, HandshakeInv, OverInv, Messages
    <3>6. QED
      BY <1>4, <2>3, <3>1, <3>4, <3>5 DEF McpInv
  <2>6. QED
    BY <2>4, <2>5
<1>7. QED
  BY <1>5, <1>6 DEF ReadReply

LEMMA McpStep ==
    ASSUME McpInv, McpNext
    PROVE  McpInv'
BY ConnectsKeeps, ReadEndpointKeeps, ReadReplyKeeps, StreamBreaksKeeps, PostAcceptedKeeps,
   ServerRepliesKeeps, RejectKeeps, PostFailsKeeps, CallTimesOutKeeps
   DEF McpNext, Timers, ConnectFails, EndpointTimesOut
-----------------------------------------------------------------------------
(* Where the browser is open, and where its context may be.                *)
BrowserStages == {"newContext", "goto", "viewCard", "embed", "read", "fill", "remove",
                  "submit", "evidence", "closeContext", "closeBrowser"}

ContextStages == BrowserStages \ {"newContext"}

(* The finally blocks nest as their resources do, and card data and iframe *)
(* exist only where one of those blocks takes them away.                   *)
UnwindInv ==
    /\ stage \in Stages
    /\ browser = "open" <=> stage \in BrowserStages
    /\ context = "open" => stage \in ContextStages
    /\ stage \in ContextStages \ {"closeBrowser"} => context = "open"
    /\ iframe => stage \in {"read", "fill", "remove", "closeContext", "closeBrowser"}
    /\ held => stage = "fill"

(* What a run stands on when it asks for the card, or has posted to the    *)
(* store.                                                                  *)
AssertedInv ==
    /\ stage \notin {"discover", "over"} /\ source = "shopify" =>
           item.merchantDomain = Lower[item.checkoutUrl.host]
    /\ stage = "ucp" => source = "shopify"
    /\ stage = "viewCard" =>
           /\ asserted \in CheckoutUrls /\ asserted.host = item.merchantDomain
           /\ asserted = item.checkoutUrl
    /\ stage = "completing" =>
           asserted.host \in {item.merchantDomain} \cup RelayHosts

CheckoutInv == McpInv /\ UnwindInv /\ AssertedInv

LEMMA CheckoutStarts ==
    CheckoutInit => CheckoutInv
<1> SUFFICES ASSUME CheckoutInit PROVE CheckoutInv
  OBVIOUS
<1>1. McpInv
  BY McpStarts DEF CheckoutInit
<1>2. UnwindInv /\ AssertedInv
  BY DEF CheckoutInit, UnwindInv, AssertedInv, Stages, BrowserStages, ContextStages
<1>3. QED
  BY <1>1, <1>2 DEF CheckoutInv

(* Every step leaves the client alone, makes a new one or is one of its.   *)
LEMMA ClientSteps ==
    ASSUME [CheckoutNext]_checkoutVars
    PROVE  UNCHANGED mcpVars \/ NewClient \/ McpNext
BY DEF CheckoutNext, checkoutVars, Client, Worker, PageMoves, Abandon, Discover,
       DiscoveryFails, CardQuoted, GetCardFails, Primed, Paid, NotPaid, Launch, NewContext,
       Opened, CardViewed, ViewCardFails, Embed, ReadCard, Fill, RemoveIframe, Submit,
       ReadEvidence, CloseContext, CloseBrowser, AwaitFails, PostUcp, UcpCompleted, UcpFails

LEMMA ClientKept ==
    ASSUME McpInv, [CheckoutNext]_checkoutVars
    PROVE  McpInv'
<1>1. CASE UNCHANGED mcpVars
  BY <1>1 DEF mcpVars, McpInv, McpTypeOK, IdsInv, StreamInv, HandshakeInv, OverInv, ReplyIsOwn
<1>2. CASE NewClient
  BY <1>2, McpStartsAgain
<1>3. CASE McpNext
  BY <1>3, McpStep
<1>4. QED
  BY <1>1, <1>2, <1>3, ClientSteps

LEMMA UnwindKept ==
    ASSUME UnwindInv, [CheckoutNext]_checkoutVars
    PROVE  UnwindInv'
<1> USE DEF UnwindInv, Stages, BrowserStages, ContextStages, Goto, Throw, Unwound,
            workerVars, pageVars
<1>1. CASE UNCHANGED checkoutVars
  BY <1>1 DEF checkoutVars
<1>2. CASE Discover
  BY <1>2 DEF Discover, Abandon
<1>3. CASE DiscoveryFails \/ GetCardFails \/ NotPaid \/ UcpFails
  BY <1>3 DEF DiscoveryFails, GetCardFails, NotPaid, UcpFails, Abandon
<1>4. CASE CardQuoted \/ Primed
  BY <1>4 DEF CardQuoted, Primed
<1>5. CASE Paid
  BY <1>5 DEF Paid
<1>6. CASE Launch
  BY <1>6 DEF Launch
<1>7. CASE NewContext
  BY <1>7 DEF NewContext
<1>8. CASE Opened
  BY <1>8 DEF Opened
<1>9. CASE CardViewed \/ ViewCardFails
  BY <1>9 DEF CardViewed, ViewCardFails
<1>10. CASE Embed
  BY <1>10 DEF Embed
<1>11. CASE ReadCard
  BY <1>11 DEF ReadCard
<1>12. CASE Fill
  BY <1>12 DEF Fill
<1>13. CASE RemoveIframe
  BY <1>13 DEF RemoveIframe
<1>14. CASE Submit \/ ReadEvidence
  BY <1>14 DEF Submit, ReadEvidence
<1>15. CASE CloseContext
  BY <1>15 DEF CloseContext
<1>16. CASE CloseBrowser
  BY <1>16 DEF CloseBrowser
<1>17. CASE AwaitFails
  BY <1>17 DEF AwaitFails
<1>18. CASE PostUcp
  BY <1>18 DEF PostUcp, Abandon
<1>19. CASE UcpCompleted
  BY <1>19 DEF UcpCompleted
<1>20. CASE PageMoves
  BY <1>20 DEF PageMoves
<1>21. CASE Client(McpNext)
  BY <1>21 DEF Client
<1>22. QED
  BY <1>1, <1>2, <1>3, <1>4, <1>5, <1>6, <1>7, <1>8, <1>9, <1>10, <1>11, <1>12, <1>13,
     <1>14, <1>15, <1>16, <1>17, <1>18, <1>19, <1>20, <1>21 DEF CheckoutNext, Worker

(* The domain of a UCP checkout is its store's in lower case. *)
LEMMA ItemOfStore ==
    ASSUME NEW live \in Urls, NEW link \in Urls, NEW price \in Prices,
           NEW found \in Discovered(live, link, price), source = "shopify"
    PROVE  found.merchantDomain = Lower[found.checkoutUrl.host]
<1>1. PICK store \in StoreNames : found \in discoverShopifyCheckout(store, TotalOf(price))
  BY DEF Discovered
<1>2. found = Item(Lower[store], [host |-> store, path |-> "complete"], TotalOf(price))
  BY <1>1 DEF discoverShopifyCheckout
<1>3. QED
  BY <1>2 DEF Item

LEMMA AssertedKept ==
    ASSUME UnwindInv, AssertedInv, [CheckoutNext]_checkoutVars
    PROVE  AssertedInv'
<1> USE DEF UnwindInv, AssertedInv, Goto
<1>1. CASE UNCHANGED <<source, item, asserted, stage>>
  BY <1>1
<1>2. CASE Discover
  <2>1. PICK live \in Urls, link \in Urls, price \in Prices :
          \E found \in Discovered(live, link, price) :
             IF IsAmount(found.price)
             THEN /\ item' = [merchantDomain |-> found.merchantDomain,
                              checkoutUrl |-> found.checkoutUrl]
                  /\ stage' = "getCard" /\ source' = source
             ELSE Abandon
    BY <1>2 DEF Discover
  <2>2. PICK found \in Discovered(live, link, price) :
          \/ /\ item' = [merchantDomain |-> found.merchantDomain,
                         checkoutUrl |-> found.checkoutUrl]
             /\ stage' = "getCard" /\ source' = source
          \/ stage' = "over"
    BY <2>1 DEF Abandon
  <2>3. source = "shopify" => found.merchantDomain = Lower[found.checkoutUrl.host]
    BY ItemOfStore
  <2>4. QED
    BY <2>2, <2>3
<1>3. CASE /\ stage \notin {"discover", "over"}
           /\ stage' \notin {"viewCard", "completing"} /\ UNCHANGED <<source, item>>
           /\ stage' = "ucp" => source = "shopify"
  BY <1>3
<1>4. CASE stage' = "over"
  BY <1>4
<1>5. CASE Opened
  BY <1>5 DEF Opened, assertCheckoutDomain, runVars, Throw, Unwound
<1>6. CASE PostUcp
  <2>1. PICK endpoint \in Hosts :
          \/ /\ IsUcpEndpoint(endpoint, item.checkoutUrl.host)
             /\ asserted' = [host |-> endpoint, path |-> "complete"]
             /\ stage' = "completing" /\ UNCHANGED <<source, item>>
          \/ stage' = "over"
    BY <1>6 DEF PostUcp, Abandon, runVars
  <2>2. item.merchantDomain = Lower[item.checkoutUrl.host]
    BY <1>6 DEF PostUcp
  <2>3. QED
    BY <2>1, <2>2 DEF IsUcpEndpoint
<1>7. CASE Worker /\ ~Discover /\ ~Opened /\ ~PostUcp
  <2> USE DEF runVars, workerVars
  <2>1. CASE DiscoveryFails \/ GetCardFails \/ NotPaid \/ UcpFails \/ UcpCompleted \/ CloseBrowser
    BY <2>1, <1>4
       DEF DiscoveryFails, GetCardFails, NotPaid, UcpFails, UcpCompleted, CloseBrowser, Abandon
  <2>2. CASE CardQuoted \/ Primed \/ Paid \/ Launch \/ NewContext \/ CardViewed
    BY <2>2, <1>3 DEF CardQuoted, Primed, Paid, Launch, NewContext, CardViewed
  <2>3. CASE Embed \/ ReadCard \/ Fill \/ ReadEvidence
    BY <2>3, <1>3 DEF Embed, ReadCard, Fill, ReadEvidence
  <2>4. CASE ViewCardFails \/ AwaitFails
    BY <2>4, <1>3, <1>4 DEF ViewCardFails, AwaitFails, Throw, Unwound
  <2>5. CASE RemoveIframe \/ Submit \/ CloseContext
    BY <2>5, <1>3, <1>4 DEF RemoveIframe, Submit, CloseContext, Throw, Unwound
  <2>6. QED
    BY <1>7, <2>1, <2>2, <2>3, <2>4, <2>5 DEF Worker
<1>8. CASE PageMoves \/ Client(McpNext)
  BY <1>1, <1>8 DEF PageMoves, Client, runVars, workerVars
<1>9. CASE UNCHANGED checkoutVars
  BY <1>1, <1>9 DEF checkoutVars, runVars, workerVars
<1>10. QED
  BY <1>2, <1>5, <1>6, <1>7, <1>8, <1>9 DEF CheckoutNext
-----------------------------------------------------------------------------
(* What the run keeps: an item is resolved before anything else is done     *)
(* with it, and every address in hand is one of the pages, or the store's. *)
KnownItem ==
    [merchantDomain : Hosts, checkoutUrl : [host : Hosts \cup StoreNames, path : Paths]]

KeptTypes ==
    /\ source \in Sources
    /\ item \in KnownItem \cup {None}
    /\ stage \notin {"discover", "over"} => item \in KnownItem
    /\ quote # None => DOMAIN quote = {"listed", "asked"}
    /\ {browser, context} \subseteq {"none", "open", "closed"}
    /\ page \in Urls \cup {None}
    /\ {iframe, held, failed} \subseteq BOOLEAN
    /\ asserted \in [host : Hosts, path : Paths] \cup {None}
    /\ evidence \in Hosts \cup StoreNames \cup {None}

LEMMA FoundIsKnown ==
    ASSUME source \in Sources, NEW live \in Urls, NEW link \in Urls, NEW price \in Prices,
           NEW found \in Discovered(live, link, price)
    PROVE  [merchantDomain |-> found.merchantDomain, checkoutUrl |-> found.checkoutUrl]
               \in KnownItem
<1>1. /\ ProductUrl.host \in Hosts /\ link.host \in Hosts
      /\ link \in [host : Hosts, path : Paths]
  BY DiscoveryAssumption DEF Hosts
<1>2. \E domain, url, units : /\ found = Item(domain, url, units)
                             /\ domain \in Hosts
                             /\ url \in [host : Hosts \cup StoreNames, path : Paths]
  <2>1. CASE source = "fixture"
    BY <1>1, <2>1 DEF Discovered, discoverProduct
  <2>2. CASE source = "merchant"
    BY <1>1, <2>2 DEF Discovered, discoverMerchantProduct
  <2>3. CASE source = "shopify"
    <3>1. PICK store \in StoreNames : found \in discoverShopifyCheckout(store, TotalOf(price))
      BY <2>3 DEF Discovered
    <3> DEFINE url == [host |-> store, path |-> "complete"]
    <3>2. found = Item(Lower[store], url, TotalOf(price))
      BY <3>1 DEF discoverShopifyCheckout
    <3>3. Lower[store] \in Hosts
      BY DiscoveryAssumption
    <3>4. url \in [host : Hosts \cup StoreNames, path : Paths]
      BY DEF Paths
    <3>5. QED
      BY <3>2, <3>3, <3>4
  <2>4. QED
    BY <2>1, <2>2, <2>3 DEF Sources
<1>3. QED
  BY <1>2 DEF Item, KnownItem

LEMMA TypesStart ==
    CheckoutInit => KeptTypes
BY DEF CheckoutInit, KeptTypes

LEMMA TypesKept ==
    ASSUME KeptTypes, [CheckoutNext]_checkoutVars
    PROVE  KeptTypes'
<1> USE DEF KeptTypes, Goto, Throw, Unwound, runVars, workerVars, pageVars
<1>1. CASE UNCHANGED checkoutVars
  BY <1>1 DEF checkoutVars
<1>2. CASE Discover
  <2>1. PICK live \in Urls, link \in Urls, price \in Prices :
            \E found \in Discovered(live, link, price) :
               \/ /\ item' = [merchantDomain |-> found.merchantDomain,
                              checkoutUrl |-> found.checkoutUrl]
                  /\ quote' = [listed |-> price, asked |-> exactAmountSgd(found.price)]
                  /\ UNCHANGED <<source, workerVars>>
               \/ Abandon
    BY <1>2 DEF Discover
  <2>2. CASE Abandon
    BY <2>2 DEF Abandon
  <2>3. CASE ~Abandon
    <3>1. PICK found \in Discovered(live, link, price) :
               /\ item' = [merchantDomain |-> found.merchantDomain,
                           checkoutUrl |-> found.checkoutUrl]
               /\ quote' = [listed |-> price, asked |-> exactAmountSgd(found.price)]
               /\ UNCHANGED <<source, workerVars>>
      BY <2>1, <2>3
    <3>2. item' \in KnownItem
      BY <3>1, FoundIsKnown
    <3>3. DOMAIN quote' = {"listed", "asked"}
      BY <3>1
    <3>4. QED
      BY <3>1, <3>2, <3>3
  <2>4. QED
    BY <2>2, <2>3
<1>3. CASE DiscoveryFails \/ GetCardFails \/ NotPaid \/ UcpFails
  BY <1>3 DEF DiscoveryFails, GetCardFails, NotPaid, UcpFails, Abandon
<1>4. CASE CardQuoted \/ Primed \/ Paid \/ CardViewed \/ ReadEvidence
  BY <1>4 DEF CardQuoted, Primed, Paid, CardViewed, ReadEvidence
<1>5. CASE Launch \/ NewContext \/ Embed \/ ReadCard \/ Fill
  BY <1>5 DEF Launch, NewContext, Embed, ReadCard, Fill
<1>6. CASE ViewCardFails \/ AwaitFails
  BY <1>6 DEF ViewCardFails, AwaitFails
<1>7. CASE Opened
  BY <1>7, DiscoveryAssumption DEF Opened
<1>8. CASE RemoveIframe
  BY <1>8 DEF RemoveIframe
<1>9. CASE Submit
  BY <1>9, DiscoveryAssumption DEF Submit
<1>10. CASE CloseContext \/ CloseBrowser
  BY <1>10 DEF CloseContext, CloseBrowser
<1>11. CASE PageMoves
  BY <1>11 DEF PageMoves
<1>12. CASE PostUcp
  <2>1. CASE Abandon
    BY <2>1 DEF Abandon
  <2>2. CASE ~Abandon
    <3>1. PICK endpoint \in Hosts : asserted' = [host |-> endpoint, path |-> "complete"]
      BY <1>12, <2>2 DEF PostUcp
    <3>2. asserted' \in [host : Hosts, path : Paths]
      BY <3>1 DEF Paths
    <3>3. /\ stage = "ucp"
          /\ UNCHANGED <<source, item, quote, browser, context, page, iframe, held, evidence,
                        failed>>
      BY <1>12, <2>2 DEF PostUcp
    <3>4. QED
      BY <3>2, <3>3
  <2>3. QED
    BY <2>1, <2>2
<1>13. CASE UcpCompleted
  BY <1>13 DEF UcpCompleted, KnownItem
<1>14. CASE Client(McpNext)
  BY <1>14 DEF Client
<1>15. QED
  BY <1>1, <1>2, <1>3, <1>4, <1>5, <1>6, <1>7, <1>8, <1>9, <1>10, <1>11, <1>12, <1>13, <1>14
     DEF CheckoutNext, Worker

-----------------------------------------------------------------------------
(* What decimals write, and amounts of money.  UnitsPerDollar is for any    *)
(* number of decimals a currency may have. *)

LEMMA TensAreNumbers ==
    ASSUME NEW n \in Nat
    PROVE  TenTo(n) \in Nat \ {0}
BY PowersAreNumbers, PowersArePositive DEF TenTo

LEMMA PricesAreNumbers ==
    ASSUME NEW p \in Prices
    PROVE  p.whole \in Nat /\ p.frac \in Seq(Nat) /\ Len(p.frac) \in Nat /\ NumberOf(p.frac) \in Nat
<1>1. p.whole \in Nat /\ p.frac \in Seq(0..9)
  BY DiscoveryAssumption
<1>2. p.frac \in Seq(Nat)
  BY <1>1
<1>3. QED
  BY <1>1, <1>2, ValueCounts DEF NumberOf

(* Padding on the right and multiplying give the same base units, so that   *)
(* the three ways of discovery agree on what a price is. *)
LEMMA UnitsAgree ==
    ASSUME NEW p \in Prices, IsPrice(p)
    PROVE  /\ TotalOf(p) \in Nat
           /\ dollarsToBaseUnits6(p) = TotalOf(p)
<1>1. p.whole \in Nat /\ p.frac \in Seq(Nat) /\ Len(p.frac) \in Nat /\ NumberOf(p.frac) \in Nat
  BY PricesAreNumbers
<1>2. Decimals - Len(p.frac) \in Nat
  BY <1>1, DiscoveryAssumption DEF IsPrice
<1>3. NumberOf(p.frac \o Zeros(Decimals - Len(p.frac)))
          = NumberOf(p.frac) * TenTo(Decimals - Len(p.frac))
  BY <1>1, <1>2, ValueShifts DEF NumberOf, TenTo
<1>4. UnitsPerDollar \in Nat /\ TenTo(Decimals - Len(p.frac)) \in Nat
  BY <1>2, TensAreNumbers, DiscoveryAssumption DEF UnitsPerDollar
<1>5. p.whole * UnitsPerDollar \in Nat /\ NumberOf(p.frac) * TenTo(Decimals - Len(p.frac)) \in Nat
  BY <1>1, <1>4
<1>6. QED
  BY <1>3, <1>5 DEF TotalOf, dollarsToBaseUnits6

LEMMA CrossMultiplied ==
    ASSUME NEW w \in Nat, NEW n \in Nat, NEW a \in Nat, NEW b \in Nat
    PROVE  (w * a + n) * (a * b) = (w * (a * b) + n * b) * a
OBVIOUS

(* The decimal that the card API gets is the base units, to the last place. *)
LEMMA AmountIsWritten ==
    ASSUME NEW units \in Nat
    PROVE  LET q == exactAmountSgd(units)
           IN  /\ q.whole \in Nat /\ Len(q.frac) = Decimals
               /\ NumberOf(q.frac) \in Nat /\ NumberOf(q.frac) < UnitsPerDollar
               /\ q.whole * UnitsPerDollar + NumberOf(q.frac) = units
<1> DEFINE q == exactAmountSgd(units)
           rest == units % UnitsPerDollar
<1>1. Decimals \in Nat /\ UnitsPerDollar \in Nat \ {0}
  BY TensAreNumbers, DiscoveryAssumption DEF UnitsPerDollar
<1>2. /\ q.whole = units \div UnitsPerDollar
      /\ q.frac = DigitsOf(10, rest, Decimals)
  BY DEF exactAmountSgd
<1>3. /\ units \div UnitsPerDollar \in Nat
      /\ rest \in 0..(UnitsPerDollar - 1)
      /\ units = (units \div UnitsPerDollar) * UnitsPerDollar + rest
  BY <1>1, Divided
<1> HIDE DEF rest
<1>4. rest \in Nat /\ rest < UnitsPerDollar
  BY <1>1, <1>3
<1>5. NumberOf(q.frac) = rest % UnitsPerDollar
  BY <1>1, <1>2, <1>4, DigitsWrite DEF UnitsPerDollar, NumberOf, TenTo
<1>6. rest % UnitsPerDollar = rest
  <2>1. rest = 0 * UnitsPerDollar + rest
    BY <1>1, <1>4
  <2>2. QED
    BY <1>1, <1>4, <2>1, QuotientOf
<1>7. Len(q.frac) = Decimals
  BY <1>1, <1>2 DEF DigitsOf
<1>8. QED
  BY <1>2, <1>3, <1>4, <1>5, <1>6, <1>7

(* Nothing is rounded on the way from the page to the card API.             *)
LEMMA AskedIsListed ==
    ASSUME NEW p \in Prices, IsPrice(p)
    PROVE  SameAmount(p, exactAmountSgd(TotalOf(p)))
<1> DEFINE q == exactAmountSgd(TotalOf(p))
           l == Len(p.frac)
           n == NumberOf(p.frac)
           a == TenTo(l)
           b == TenTo(Decimals - l)
<1>1. p.whole \in Nat /\ l \in Nat /\ n \in Nat
  BY PricesAreNumbers
<1>2. Decimals - l \in Nat /\ Decimals = l + (Decimals - l) /\ Decimals \in Nat
  BY <1>1, DiscoveryAssumption DEF IsPrice
<1>3. a \in Nat /\ b \in Nat
  BY <1>1, <1>2, TensAreNumbers
<1> HIDE DEF l
<1>4. TenTo(Decimals) = a * b
  BY <1>1, <1>2, PowerOfSum DEF TenTo
<1>5. TotalOf(p) \in Nat
  BY UnitsAgree
<1>6. /\ Len(q.frac) = Decimals
      /\ q.whole * UnitsPerDollar + NumberOf(q.frac) = TotalOf(p)
  BY <1>5, AmountIsWritten
<1>7. TotalOf(p) = p.whole * (a * b) + n * b
  BY <1>4 DEF TotalOf, UnitsPerDollar, l
<1>8. (p.whole * a + n) * (a * b) = (p.whole * (a * b) + n * b) * a
  BY <1>1, <1>3, CrossMultiplied
<1>9. (p.whole * a + n) * TenTo(Decimals) = TotalOf(p) * a
  BY <1>4, <1>7, <1>8
<1>10. (p.whole * TenTo(Len(p.frac)) + NumberOf(p.frac)) * TenTo(Len(q.frac))
          = (q.whole * TenTo(Len(q.frac)) + NumberOf(q.frac)) * TenTo(Len(p.frac))
  BY <1>6, <1>9 DEF UnitsPerDollar, l
<1>11. QED
  BY <1>10 DEF SameAmount

(* What is within the bounds in base units is so in dollars.                *)
LEMMA AskedIsWithinBounds ==
    ASSUME NEW units \in Nat, IsAmount(units)
    PROVE  LET q == exactAmountSgd(units)
           IN  /\ q.whole >= MinAmount /\ q.whole <= MaxAmount
               /\ q.whole = MaxAmount => NumberOf(q.frac) = 0
<1> DEFINE w == exactAmountSgd(units).whole
           n == NumberOf(exactAmountSgd(units).frac)
           u == UnitsPerDollar
<1>1. w \in Nat /\ n \in Nat /\ n < u /\ w * u + n = units
  BY AmountIsWritten
<1>2. u \in Nat \ {0} /\ MinAmount \in Nat /\ MaxAmount \in Nat
  BY TensAreNumbers, DiscoveryAssumption DEF UnitsPerDollar
<1>3. w * u + n >= MinAmount * u /\ w * u + n <= MaxAmount * u
  BY <1>1 DEF IsAmount
<1> HIDE DEF w, n, u
<1>4. ASSUME NEW x \in Nat, NEW y \in Nat, x < y
      PROVE  x * u + u <= y * u
  BY <1>2, <1>4, RowsApart
<1>5. w * u \in Nat /\ MinAmount * u \in Nat /\ MaxAmount * u \in Nat
  BY <1>1, <1>2
<1>6. ~(w < MinAmount)
  BY <1>1, <1>2, <1>3, <1>4, <1>5
<1>7. ~(MaxAmount < w)
  BY <1>1, <1>2, <1>3, <1>4, <1>5
<1>8. w = MaxAmount => n = 0
  BY <1>1, <1>3, <1>5
<1>9. QED
  BY <1>1, <1>2, <1>6, <1>7, <1>8 DEF w, n
-----------------------------------------------------------------------------
(* As long as getCard runs, the amount it was called with is the one on     *)
(* display; the quote is made in the step that begins the call. *)
AskedInv ==
    stage = "getCard" =>
        /\ SameAmount(quote.listed, quote.asked)
        /\ quote.asked.whole >= MinAmount
        /\ quote.asked.whole <= MaxAmount
        /\ quote.asked.whole = MaxAmount => NumberOf(quote.asked.frac) = 0

LEMMA FoundIsPriced ==
    ASSUME source \in Sources, NEW live \in Urls, NEW link \in Urls, NEW price \in Prices,
           NEW found \in Discovered(live, link, price)
    PROVE  IsPrice(price) /\ found.price = TotalOf(price)
<1>1. CASE source = "fixture"
  <2>1. IsPrice(price) /\ found.price = dollarsToBaseUnits6(price)
    BY <1>1 DEF Discovered, discoverProduct, Item
  <2>2. QED
    BY <2>1, UnitsAgree
<1>2. CASE source = "merchant"
  <2>1. IsPrice(price) /\ found.price = dollarsToBaseUnits6(price)
    BY <1>2 DEF Discovered, discoverMerchantProduct, Item
  <2>2. QED
    BY <2>1, UnitsAgree
<1>3. CASE source = "shopify"
  <2>1. /\ IsPrice(price)
        /\ \E store \in StoreNames : found \in discoverShopifyCheckout(store, TotalOf(price))
    BY <1>3 DEF Discovered
  <2>2. QED
    BY <2>1 DEF discoverShopifyCheckout, Item
<1>4. QED
  BY <1>1, <1>2, <1>3 DEF Sources

LEMMA AskedKept ==
    ASSUME KeptTypes, AskedInv, [CheckoutNext]_checkoutVars
    PROVE  AskedInv'
<1>1. CASE Discover
  <2>1. PICK live \in Urls, link \in Urls, price \in Prices :
            \E found \in Discovered(live, link, price) :
               \/ /\ IsAmount(found.price)
                  /\ quote' = [listed |-> price, asked |-> exactAmountSgd(found.price)]
               \/ stage' = "over"
    BY <1>1 DEF Discover, Abandon, Goto
  <2>2. PICK found \in Discovered(live, link, price) :
               \/ /\ IsAmount(found.price)
                  /\ quote' = [listed |-> price, asked |-> exactAmountSgd(found.price)]
               \/ stage' = "over"
    BY <2>1
  <2>3. IsPrice(price) /\ found.price = TotalOf(price)
    BY FoundIsPriced DEF KeptTypes
  <2>4. TotalOf(price) \in Nat
    BY <2>3, UnitsAgree
  <2>5. CASE stage' = "over"
    BY <2>5 DEF AskedInv
  <2>6. CASE stage' # "over"
    <3>1. /\ IsAmount(TotalOf(price))
          /\ quote'.listed = price
          /\ quote'.asked = exactAmountSgd(TotalOf(price))
      BY <2>2, <2>3, <2>6
    <3>2. SameAmount(price, exactAmountSgd(TotalOf(price)))
      BY <2>3, AskedIsListed
    <3>3. QED
      BY <2>4, <3>1, <3>2, AskedIsWithinBounds DEF AskedInv
  <2>7. QED
    BY <2>5, <2>6
<1>2. CASE ~Discover
  <2>1. stage' # "getCard" \/ UNCHANGED <<stage, quote>>
    BY <1>2 DEF CheckoutNext, Worker, checkoutVars, runVars, Goto, Throw, Unwound, Abandon,
           DiscoveryFails, CardQuoted, GetCardFails, Primed, Paid, NotPaid, Launch, NewContext,
           Opened, CardViewed, ViewCardFails, Embed, ReadCard, Fill, RemoveIframe, Submit,
           ReadEvidence, CloseContext, CloseBrowser, AwaitFails, PostUcp, UcpCompleted, UcpFails,
           PageMoves, Client
  <2>2. QED
    BY <2>1 DEF AskedInv
<1>3. QED
  BY <1>1, <1>2
-----------------------------------------------------------------------------
LEMMA CheckoutInvariant == CheckoutSpec => []CheckoutInv
<1>1. CheckoutInv /\ [CheckoutNext]_checkoutVars => CheckoutInv'
  BY ClientKept, UnwindKept, AssertedKept DEF CheckoutInv
<1>2. QED
  BY <1>1, CheckoutStarts, PTL DEF CheckoutSpec

(* Whatever pages, stores and profiles there are, a run never keeps an      *)
(* address that is neither a page's nor a store's, and is nowhere without  *)
(* an item once it has left discovery.                                     *)
THEOREM CheckoutTypeCorrect == CheckoutSpec => []CheckoutTypeOK
<1>1. KeptTypes /\ [CheckoutNext]_checkoutVars => KeptTypes'
  BY TypesKept
<1>2. CheckoutInv /\ KeptTypes => CheckoutTypeOK
  BY DEF CheckoutInv, McpInv, UnwindInv, KeptTypes, KnownItem, CheckoutTypeOK
<1>3. QED
  BY <1>1, <1>2, TypesStart, CheckoutInvariant, PTL DEF CheckoutSpec

(* Whatever prices pages show, in however many places, and however many     *)
(* decimals the currency has: the card API is asked for the price that was  *)
(* on display, within its bounds.                                           *)
THEOREM CardAskedAsListed == CheckoutSpec => []AskedAsListed
<1>1. CheckoutInit => AskedInv
  BY DEF CheckoutInit, AskedInv
<1>2. KeptTypes /\ AskedInv /\ [CheckoutNext]_checkoutVars => AskedInv'
  BY AskedKept
<1>3. KeptTypes /\ [CheckoutNext]_checkoutVars => KeptTypes'
  BY TypesKept
<1>4. AskedInv => AskedAsListed
  BY DEF AskedInv, AskedAsListed
<1>5. QED
  BY <1>1, <1>2, <1>3, <1>4, TypesStart, PTL DEF CheckoutSpec

(* No call of the card API is resolved by the reply to another, whatever   *)
(* the stream delivers and however many replies are in it.                 *)
THEOREM RepliesStayOwn == CheckoutSpec => []ReplyIsOwn
<1>1. CheckoutInv => ReplyIsOwn
  BY DEF CheckoutInv, McpInv
<1>2. QED
  BY <1>1, CheckoutInvariant, PTL

LEMMA OverSendsNothing ==
    ASSUME McpInv, [CheckoutNext]_checkoutVars, session \in Over
    PROVE  sent' \subseteq sent
<1>1. closed /\ pending = {} /\ \A m \in Messages : post[m] # "inFlight"
  BY DEF McpInv, OverInv
<1>2. CASE McpNext
  <2>1. CASE ReadEndpoint
    BY <1>1, <2>1 DEF ReadEndpoint
  <2>2. CASE ReadReply
    BY <1>1, <2>2 DEF ReadReply
  <2>3. ASSUME NEW m \in Messages, PostAccepted(m) \/ PostFails(m)
        PROVE  FALSE
    BY <1>1, <2>3 DEF PostAccepted, PostFails
  <2>4. CASE Connects \/ StreamBreaks \/ ConnectFails \/ EndpointTimesOut
    BY <2>4 DEF Connects, StreamBreaks, ConnectFails, EndpointTimesOut, RejectReady, Fail, End
  <2>5. ASSUME NEW m \in Calls, ServerReplies(m) \/ CallTimesOut(m)
        PROVE  sent' = sent
    BY <2>5 DEF ServerReplies, CallTimesOut, Fail, End
  <2>6. QED
    BY <1>2, <2>1, <2>2, <2>3, <2>4, <2>5 DEF McpNext, Timers
<1>3. CASE NewClient
  BY <1>3 DEF NewClient
<1>4. QED
  BY <1>2, <1>3, ClientSteps DEF mcpVars

(* After its result or its error, a client of the card API sends nothing   *)
(* more.                                                                   *)
THEOREM NothingLeavesOnceOver == CheckoutSpec => NothingSentOnceOver
<1>1. CheckoutInv /\ [CheckoutNext]_checkoutVars
          => [(session \in Over) => sent' \subseteq sent]_mcpVars
  BY OverSendsNothing DEF CheckoutInv
<1>2. QED
  BY <1>1, CheckoutInvariant, PTL DEF CheckoutSpec, NothingSentOnceOver

(* For any profile, store, relay and page, and any link on the product     *)
(* page: the card is viewed, and the store is posted to, only after the    *)
(* run stood where the signed nonce binds it to.                           *)
THEOREM CardAlwaysFollowsAssertion == CheckoutSpec => []CardFollowsAssertion
<1>1. CheckoutInv => CardFollowsAssertion
  BY DEF CheckoutInv, AssertedInv, CardFollowsAssertion
<1>2. QED
  BY <1>1, CheckoutInvariant, PTL

(* Whichever steps fail, in the clean-up as well, card data and iframe are *)
(* gone when the order is submitted, and the browser when the run is over. *)
THEOREM CardDataStaysTransient == CheckoutSpec => []CardDataIsTransient
<1>1. CheckoutInv => CardDataIsTransient
  BY DEF CheckoutInv, UnwindInv, BrowserStages, ContextStages, CardDataIsTransient
<1>2. QED
  BY <1>1, CheckoutInvariant, PTL
=============================================================================
