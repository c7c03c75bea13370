----------------------------- MODULE KeySigning -----------------------------
(***************************************************************************)
(* signer-service with its key source.  At boot the address of the key     *)
(* source's public key must be the expected one; for every POST /sign that *)
(* the rail lets through (module Signer) the key source answers a DER      *)
(* signature without a recovery id and with s in either half, and the      *)
(* pipeline turns it into the header.  The key source may fail, damage     *)
(* what it sends, or come to hold another key while the signer runs.       *)
(***************************************************************************)
EXTENDS Signer, SignatureCodec

CONSTANTS
    Keys,       \* keys the key source may come to hold
    Digest(_)   \* digestTypedData of the authorization in a SignRequest

ASSUME KeyAssumption ==
    /\ Keys \subseteq Scalars
    /\ \A q \in SignRequest : Digest(q) \in 0 .. Order - 1

VARIABLES
    key,      \* the key the key source holds
    derived,  \* derivedAddress of the running signer, None while it is down
    header    \* history: the last PAYMENT-SIGNATURE that left, or None

keyVars == <<signerVars, key, derived, header>>
-----------------------------------------------------------------------------
(* sign/pipeline.ts *)

HalfOrder == Order \div 2

NormaliseS(s) == IF s > HalfOrder THEN Order - s ELSE s

(* The parity of the first recovery id that names the address. *)
RecoverV(r, s, z, address) ==
    LET ids == {i \in 0 .. 3 : address \in RecoverKey(i, r, s, z)}
    IN {27 + (id % 2) : id \in {i \in ids : \A j \in ids : i <= j}}

(* Mutant: v is recovered from the s that came, and s normalised after. *)
RecoverThenNormalise(der, z, address) ==
    UNION {{[v |-> v, r |-> sig.r, s |-> NormaliseS(sig.s)] :
              v \in RecoverV(sig.r, sig.s, z, address)} : sig \in ParseSignatureDer(der)}

(* signDigestWithKeySource, given what the key source answered. *)
Pipeline(der, z, address) ==
    UNION {{[v |-> v, r |-> sig.r, s |-> NormaliseS(sig.s)] :
              v \in RecoverV(sig.r, NormaliseS(sig.s), z, address)} :
           sig \in ParseSignatureDer(der)}

Emissions(d, z) ==
    LET genuine == {EncodeSignatureDer(sig.r, sig.s) : sig \in GenuineSignatures(d, z)}
    IN genuine \cup UNION {Damaged(der) : der \in genuine}

(* What one call of the key source can come to, for a signer of this wallet. *)
Outcomes ==
    [d \in Keys |-> [z \in {Digest(q) : q \in {p \in SignRequest : WithinRail(p)}} |->
        {Pipeline(der, z, SignerAddress) : der \in Emissions(d, z)}]]

PublicKeys ==
    [d \in Keys |-> UNION {DeriveAddressFromSpki(spki) :
                             spki \in {BuildSpkiDer(d)} \cup Damaged(BuildSpkiDer(d))}]
-----------------------------------------------------------------------------
KeyInit ==
    /\ SignerInit
    /\ key \in Keys /\ derived = None /\ header = None

(* main.ts: any other address, and the process ends before it listens. *)
Boot ==
    /\ derived = None
    /\ \E address \in PublicKeys[key] :
          address = SignerAddress /\ derived' = address
    /\ UNCHANGED <<signerVars, key, header>>

Request(c, q) ==
    /\ derived # None
    /\ Sign(c, q)
    /\ UNCHANGED <<key, derived, header>>

(* The DER arrives, is parsed, normalised and recovered in one task. *)
Answer(c) ==
    /\ signing[c] # None
    /\ \E hs \in Outcomes[key][Digest(signing[c])] :
          \/ hs = {} /\ KeyFails(c) /\ UNCHANGED header
          \/ KeySigns(c)
             /\ \E h \in hs : header' = [request |-> signing[c], sig |-> h]
    /\ UNCHANGED <<key, derived>>

(* SIGNER_KMS_FAILED *)
KeySourceFails(c) == KeyFails(c) /\ UNCHANGED <<key, derived, header>>

KeyReplaced(d) == key' = d /\ UNCHANGED <<signerVars, derived, header>>

Stop == SignerRestart /\ derived' = None /\ UNCHANGED <<key, header>>

KeyNext ==
    \/ Boot \/ Stop
    \/ \E c \in Clients :
          \/ \E q \in SignRequest : Request(c, q)
          \/ Answer(c) \/ KeySourceFails(c)
    \/ \E d \in Keys : KeyReplaced(d)

KeySpec == KeyInit /\ [][KeyNext]_keyVars
-----------------------------------------------------------------------------
(* A header that left settles: its s is low, and ecrecover names the payer *)
(* of the authorization it carries, whatever the key source sent and       *)
(* whichever key it held.  The exception is a nonce point whose x is the   *)
(* order or more: the wire v cannot say so. *)
HeaderRecoversToPayer ==
    header # None =>
        LET q == header.request
            h == header.sig
        IN /\ h.v \in {27, 28} /\ h.s \in 1 .. HalfOrder
           /\ \/ q.from \in EcRecover(h.v, h.r, h.s, Digest(q))
              \/ \E k \in Scalars : X[k] = h.r + Order

(* The keys of which nothing is lost: the public key is read back, and for *)
(* every digest and nonce, s high or low, the DER of the signature comes   *)
(* out of the pipeline as one header with the r that was signed. *)
Lossless ==
    {d \in Scalars :
        /\ DeriveAddressFromSpki(BuildSpkiDer(d)) = {d}
        /\ \A z \in 0 .. Order - 1 : \A sig \in GenuineSignatures(d, z) :
              \E v \in {27, 28}, s \in {sig.s, Order - sig.s} :
                  Pipeline(EncodeSignatureDer(sig.r, sig.s), z, d)
                      = {[v |-> v, r |-> sig.r, s |-> s]}}

(* Whichever key the source holds, a signer of that wallet starts and      *)
(* refuses no genuine signature: a refusal always means a fault. *)
GenuineSignatureIsAnswered == key \in Lossless
=============================================================================
