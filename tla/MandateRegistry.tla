--------------------------- MODULE MandateRegistry ---------------------------
(***************************************************************************)
(* The on-chain contract MandateRegistry.sol.  A transaction is atomic, so *)
(* each external function that writes storage is one action; a reverted    *)
(* transaction changes nothing.  The contract's mapping is total: an id    *)
(* never created reads as the zero record.                                 *)
(***************************************************************************)
EXTENDS Contracts

CONSTANTS
    Accounts,      \* addresses that can send a transaction
    ZeroAddress,   \* address(0), which sends none
    ZeroHash,      \* bytes32(0)
    ExpiryTimes    \* uint64 expiresAt values

ASSUME RegistryAssumption ==
    /\ ZeroAddress \notin Accounts
    /\ ExpiryTimes \subseteq Nat

VARIABLE registry  \* _mandates

RegistryEntry ==
    [owner      : Accounts \cup {ZeroAddress},
     policyHash : PolicyBodies \cup {ZeroHash},
     expiresAt  : Nat,
     revoked    : BOOLEAN]

ZeroEntry ==
    [owner |-> ZeroAddress, policyHash |-> ZeroHash,
     expiresAt |-> 0, revoked |-> FALSE]

Known(m) == registry[m].owner # ZeroAddress

RegistryInit == registry = [m \in Mandates |-> ZeroEntry]

(* Mutant: a second creation overwrites. *)
CreateOrReplace(sender, m, hash, expiry) ==
    registry' = [registry EXCEPT ![m] =
        [@ EXCEPT !.owner = sender, !.policyHash = hash, !.expiresAt = expiry]]

(* createMandate: first come, first served, and never an overwrite. *)
CreateMandate(sender, m, hash, expiry) ==
    /\ ~Known(m)
    /\ registry' = [registry EXCEPT ![m] =
            [@ EXCEPT !.owner = sender, !.policyHash = hash,
                      !.expiresAt = expiry]]

(* revoke: owner only, at once, and for good. *)
Revoke(sender, m) ==
    /\ registry[m].owner = sender
    /\ ~registry[m].revoked
    /\ registry' = [registry EXCEPT ![m].revoked = TRUE]

RegistryNext ==
    \E sender \in Accounts, m \in Mandates :
        \/ Revoke(sender, m)
        \/ \E hash \in PolicyBodies, expiry \in ExpiryTimes :
               CreateMandate(sender, m, hash, expiry)

RegistrySpec == RegistryInit /\ [][RegistryNext]_registry
-----------------------------------------------------------------------------
(* Type correctness of the contract's storage. *)
RegistryTypeOK == registry \in [Mandates -> RegistryEntry]

(* The envelope a human created is never repointed, handed over, extended  *)
(* or reinstated: from creation on, everything but the revoked flag is     *)
(* frozen, and the flag only goes up.  policy-service's checks 1 and 2     *)
(* mean nothing without it.                                                *)
EnvelopeIsFrozen ==
    [][\A m \in Mandates : Known(m) =>
          /\ registry'[m].owner = registry[m].owner
          /\ registry'[m].policyHash = registry[m].policyHash
          /\ registry'[m].expiresAt = registry[m].expiresAt
          /\ registry[m].revoked => registry'[m].revoked]_registry

(* Only a mandate that exists can be revoked: storage at an unknown id     *)
(* stays zero, so an early revoke cannot poison a mandate created later.   *)
RevokedImpliesKnown == \A m \in Mandates : registry[m].revoked => Known(m)
=============================================================================
