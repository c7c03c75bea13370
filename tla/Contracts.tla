------------------------------ MODULE Contracts ------------------------------
(***************************************************************************)
(* The data every service shares (packages/contracts).  A policy body      *)
(* stands for its own hash: hashPolicy hashes a canonical serialisation of *)
(* every field.  Two bodies with one hash are one body here: they differ   *)
(* in letter case at most, as long as no text in them holds a separator of *)
(* the serialisation.  The commitment nonce is likewise kept as what it    *)
(* commits to.  Amounts are whole XSGD, and a token is its chain and its   *)
(* asset.                                                                  *)
(***************************************************************************)
EXTENDS Integers

CONSTANTS
    Requests,      \* requestIds, one UUID per run
    Mandates,      \* mandate ids
    Domains,       \* merchant domains, as scraped
    Instructions,  \* what humans typed
    Addresses,     \* EVM addresses, in one letter case
    Tokens,        \* EIP-712 domains: [chain, asset]
    Amounts,       \* amounts quoted, requested or signed
    Durations,     \* lengths of validity and budget windows
    PolicyBodies,  \* Mandate bodies a human signed
    Challenges,    \* accepts[] entries the card API quoted
    None           \* undefined

PolicyBody ==
    [recipient : Addresses, token : Tokens, maxPerCard : Nat,
     maxPerWindow : Nat, maxCards : Nat, windowSeconds : Durations,
     maxAuthValidity : Durations, allowlist : SUBSET Domains]

Challenge ==
    [amount : Amounts, payTo : Addresses, token : Tokens, maxTimeout : Durations]

(* buildCommitmentNonce: injective in its four inputs, domain unnormalised. *)
Nonce ==
    [request : Requests, policy : PolicyBodies,
     instruction : Instructions, domain : Domains]

CommitmentNonce(r, policy, instruction, domain) ==
    [request |-> r, policy |-> policy,
     instruction |-> instruction, domain |-> domain]

ASSUME ContractsAssumption ==
    /\ Amounts \cup Durations \subseteq Nat
    /\ PolicyBodies \subseteq PolicyBody
    /\ Challenges \subseteq Challenge
    /\ None \notin Mandates \cup Domains \cup Amounts
    /\ None \notin PolicyBodies \cup Challenge \cup Nonce
=============================================================================
