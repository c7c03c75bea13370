------------------------------- MODULE Signer -------------------------------
(***************************************************************************)
(* signer-service: POST /sign.  The rail and the domain check run to       *)
(* completion before the handler awaits the key source (KMS), and the      *)
(* requestId joins the replay set only when the key source has answered.   *)
(* Other requests run during that await.  The replay set is memory of one  *)
(* process.  signatures is a history variable: what the key ever signed,   *)
(* and for which caller.                                                   *)
(***************************************************************************)
EXTENDS Contracts

CONSTANTS
    Clients,        \* callers of POST /sign, one request each at a time
    Pinned,         \* PINNED_MANDATES: mandate -> [settlementRecipient, hardMaxTotal]
    SignerAddress,  \* the wallet the key controls
    SignerToken     \* the configured chain constants

MaxAuthWindow == 600  \* MAX_AUTH_WINDOW_SECONDS

(* The body of POST /sign; only the length of the validity window matters. *)
SignRequest ==
    [requestId : Requests, mandateId : Mandates, from : Addresses,
     to : Addresses, value : Amounts, token : Tokens, window : Durations, nonce : Nonce]

ASSUME SignerAssumption ==
    /\ DOMAIN Pinned \subseteq Mandates
    /\ \A m \in DOMAIN Pinned :
          Pinned[m] \in [settlementRecipient : Addresses, hardMaxTotal : Nat]
    /\ None \notin SignRequest

VARIABLES
    seen,       \* seenRequestIds
    signing,    \* client -> the request at the key source, or None
    signatures  \* every [client, request] the key has signed

signerVars == <<seen, signing, signatures>>

SignerInit ==
    /\ seen = {}
    /\ signing = [c \in Clients |-> None]
    /\ signatures = {}

(* checkRail, but for the replay refusal, and assertDomainMatches: what a  *)
(* signature may ever carry, whoever asks.                                 *)
WithinRail(q) ==
    /\ q.mandateId \in DOMAIN Pinned
    /\ q.to = Pinned[q.mandateId].settlementRecipient
    /\ q.value <= Pinned[q.mandateId].hardMaxTotal
    /\ q.from = SignerAddress
    /\ q.token.chain = SignerToken.chain
    /\ q.window <= MaxAuthWindow

DomainMatches(q) == q.token = SignerToken

(* Mutant: the token is left to the rail, which looks at the chain only. *)
AcceptsAnyAsset(q) == WithinRail(q) /\ q.requestId \notin seen

Accepts(q) == WithinRail(q) /\ q.requestId \notin seen /\ DomainMatches(q)

(* The handler up to the await of the key source. *)
Sign(c, q) ==
    /\ signing[c] = None
    /\ Accepts(q)
    /\ signing' = [signing EXCEPT ![c] = q]
    /\ UNCHANGED <<seen, signatures>>

(* The key source answers: the request is marked seen, the header leaves. *)
KeySigns(c) ==
    /\ signing[c] # None
    /\ seen' = seen \cup {signing[c].requestId}
    /\ signatures' = signatures \cup {[client |-> c, request |-> signing[c]]}
    /\ signing' = [signing EXCEPT ![c] = None]

(* The key source fails, or its answer does not recover to the wallet. *)
KeyFails(c) ==
    /\ signing[c] # None
    /\ signing' = [signing EXCEPT ![c] = None]
    /\ UNCHANGED <<seen, signatures>>

(* The process is replaced: the replay set and what was in flight go. *)
SignerRestart ==
    /\ seen' = {}
    /\ signing' = [c \in Clients |-> None]
    /\ UNCHANGED signatures

ClientStep(c) ==
    \/ \E q \in SignRequest : Sign(c, q)
    \/ KeySigns(c)
    \/ KeyFails(c)

SignerNext == (\E c \in Clients : ClientStep(c)) \/ SignerRestart

SignerSpec == SignerInit /\ [][SignerNext]_signerVars
-----------------------------------------------------------------------------
(* Type correctness of the signer. *)
SignerTypeOK ==
    /\ seen \subseteq Requests
    /\ signing \in [Clients -> SignRequest \cup {None}]
    /\ signatures \subseteq [client : Clients, request : SignRequest]

(* The structural invariants of the rail hold of every signature, with     *)
(* callers that may send anything: the recipient, ceiling, wallet, token   *)
(* and window a fully compromised policy-service cannot get past.          *)
EverySignatureIsWithinRail ==
    \A s \in signatures : WithinRail(s.request) /\ DomainMatches(s.request)
=============================================================================
