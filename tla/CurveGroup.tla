----------------------------- MODULE CurveGroup -----------------------------
(***************************************************************************)
(* secp256k1 as the signer and the token contract use it                   *)
(* (@noble/curves, the ecrecover precompile): a cyclic group of odd prime  *)
(* order, over a field with less than twice as many elements.              *)
(* A point is the multiple of the generator that it is, and what a         *)
(* signature shows of it are its x coordinate, which may be the order or   *)
(* more, and the parity of its y.  A public key is its private scalar, and *)
(* so is the address hashed from it.                                       *)
(***************************************************************************)
EXTENDS Integers

CONSTANTS
    Order,  \* SECP256K1_ORDER, the number of points
    X,      \* point -> its x coordinate
    Odd     \* point -> whether its y coordinate is odd

Scalars == 1 .. Order - 1

ASSUME CurveAssumption ==
    /\ Order \in Nat /\ Order > 2 /\ Order % 2 = 1
    /\ \A a \in Scalars : \E b \in Scalars : (a * b) % Order = 1
    /\ X \in [Scalars -> 0 .. 2 * Order - 1] /\ Odd \in [Scalars -> BOOLEAN]
    /\ \A k, l \in Scalars : X[k] = X[l] <=> l \in {k, Order - k}
    /\ \A k \in Scalars : Odd[k] # Odd[Order - k]

InverseOf(a) == CHOOSE b \in Scalars : (a * b) % Order = 1

(* The signatures of digest z under key d, one for each nonce k: s is as   *)
(* often high as low, and the parity of the nonce point is not told. *)
GenuineSignatures(d, z) ==
    LET Signature(k) ==
            [r |-> X[k] % Order, s |-> (InverseOf(k) * (z + (X[k] % Order) * d)) % Order]
    IN {sig \in {Signature(k) : k \in Scalars} : sig.r # 0 /\ sig.s # 0}

(* recoverPublicKey: recovery id 2 or 3 says that x is r + Order.  There   *)
(* is at most one such nonce point, and no key when there is none. *)
RecoverKey(id, r, s, z) ==
    {(InverseOf(r) * (s * k - z)) % Order :
        k \in {l \in Scalars : /\ X[l] = (IF id >= 2 THEN r + Order ELSE r)
                               /\ Odd[l] = (id % 2 = 1)}}

(* The precompile knows v = 27 and v = 28 only. *)
EcRecover(v, r, s, z) == RecoverKey(v - 27, r, s, z)
=============================================================================
