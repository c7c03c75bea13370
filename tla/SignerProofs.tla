---------------------------- MODULE SignerProofs ----------------------------
(* What signer-service guarantees to whoever holds the wallet, for any     *)
(* pinned map, any callers and anything they send; and that the signer with *)
(* its key source is that signer, and what leaves it recovers to the payer, *)
(* for any group, codec, keys and anything the key source sends; and that  *)
(* nothing genuine is refused on the way. *)
EXTENDS KeySigning, NumeralProofs, SequenceTheorems, TLAPS

LEMMA SignerTypeStep ==
    ASSUME SignerTypeOK, [SignerNext]_signerVars
    PROVE  SignerTypeOK'
<1> USE DEF SignerTypeOK
<1>1. CASE UNCHANGED signerVars
  BY <1>1 DEF signerVars
<1>2. ASSUME NEW c \in Clients, NEW q \in SignRequest, Sign(c, q)
      PROVE  SignerTypeOK'
  BY <1>2 DEF Sign
<1>3. ASSUME NEW c \in Clients, KeySigns(c)
      PROVE  SignerTypeOK'
  <2>1. signing[c] \in SignRequest
    BY <1>3 DEF KeySigns
  <2>2. signing[c].requestId \in Requests
    BY <2>1 DEF SignRequest
  <2>3. QED
    BY <1>3, <2>1, <2>2 DEF KeySigns
<1>4. ASSUME NEW c \in Clients, KeyFails(c)
      PROVE  SignerTypeOK'
  BY <1>4 DEF KeyFails
<1>5. CASE SignerRestart
  BY <1>5 DEF SignerRestart
<1>6. QED
  BY <1>1, <1>2, <1>3, <1>4, <1>5 DEF SignerNext, ClientStep

(* The signer's state keeps its type. *)
THEOREM SignerTypeCorrect == SignerSpec => []SignerTypeOK
<1>1. SignerInit => SignerTypeOK
  BY DEF SignerInit, SignerTypeOK
<1>2. SignerTypeOK /\ [SignerNext]_signerVars => SignerTypeOK'
  BY SignerTypeStep
<1>3. QED
  BY <1>1, <1>2, PTL DEF SignerSpec

(* The rail is checked before the await and the signature is recorded      *)
(* after it: what is at the key source meanwhile is within the rail too.   *)
RailInv ==
    /\ SignerTypeOK
    /\ \A c \in Clients : signing[c] # None =>
          WithinRail(signing[c]) /\ DomainMatches(signing[c])
    /\ EverySignatureIsWithinRail

LEMMA RailStep ==
    ASSUME RailInv, [SignerNext]_signerVars
    PROVE  RailInv'
<1>0. SignerTypeOK /\ SignerTypeOK'
  BY SignerTypeStep DEF RailInv
<1> DEFINE Ok(q) == WithinRail(q) /\ DomainMatches(q)
<1>a. \A q : Ok(q)' <=> Ok(q)
  BY DEF WithinRail, DomainMatches
<1>b. \A c \in Clients : signing[c] # None => Ok(signing[c])
  BY DEF RailInv
<1>c. \A s \in signatures : Ok(s.request)
  BY DEF RailInv, EverySignatureIsWithinRail
<1>d. SUFFICES /\ \A c \in Clients : signing'[c] # None => Ok(signing'[c])
               /\ \A s \in signatures' : Ok(s.request)
  BY <1>0, <1>a DEF RailInv, EverySignatureIsWithinRail, WithinRail, DomainMatches
<1> HIDE DEF Ok
<1> USE <1>0 DEF SignerTypeOK
<1>1. CASE UNCHANGED signerVars
  BY <1>1, <1>b, <1>c DEF signerVars
<1>2. ASSUME NEW c \in Clients, NEW q \in SignRequest, Sign(c, q)
      PROVE  /\ \A d \in Clients : signing'[d] # None => Ok(signing'[d])
             /\ \A s \in signatures' : Ok(s.request)
  <2>1. Ok(q)
    BY <1>2 DEF Sign, Accepts, Ok
  <2>2. QED
    BY <1>2, <1>b, <1>c, <2>1 DEF Sign
<1>3. ASSUME NEW c \in Clients, KeySigns(c)
      PROVE  /\ \A d \in Clients : signing'[d] # None => Ok(signing'[d])
             /\ \A s \in signatures' : Ok(s.request)
  BY <1>3, <1>b, <1>c DEF KeySigns
<1>4. ASSUME NEW c \in Clients, KeyFails(c)
      PROVE  /\ \A d \in Clients : signing'[d] # None => Ok(signing'[d])
             /\ \A s \in signatures' : Ok(s.request)
  BY <1>4, <1>b, <1>c DEF KeyFails
<1>5. CASE SignerRestart
  BY <1>5, <1>c DEF SignerRestart
<1>6. QED
  BY <1>1, <1>2, <1>3, <1>4, <1>5 DEF SignerNext, ClientStep

(* No signature ever leaves the rail: pinned mandate and recipient, under  *)
(* the ceiling, from the configured wallet, for the configured token, for  *)
(* at most MaxAuthWindow seconds. *)
THEOREM RailHolds == SignerSpec => []EverySignatureIsWithinRail
<1>1. SignerInit => RailInv
  BY DEF SignerInit, RailInv, SignerTypeOK, EverySignatureIsWithinRail
<1>2. RailInv /\ [SignerNext]_signerVars => RailInv'
  BY RailStep
<1>3. RailInv => EverySignatureIsWithinRail
  BY DEF RailInv
<1>4. QED
  BY <1>1, <1>2, <1>3, PTL DEF SignerSpec
-----------------------------------------------------------------------------
LEMMA KeyStepIsSignerStep ==
    ASSUME [KeyNext]_keyVars
    PROVE  [SignerNext]_signerVars
<1>1. CASE UNCHANGED keyVars
  BY <1>1 DEF keyVars
<1>2. CASE Boot
  BY <1>2 DEF Boot
<1>3. CASE Stop
  BY <1>3 DEF Stop, SignerNext
<1>4. ASSUME NEW c \in Clients, NEW q \in SignRequest, Request(c, q)
      PROVE  SignerNext
  BY <1>4 DEF Request, SignerNext, ClientStep
<1>5. ASSUME NEW c \in Clients, Answer(c)
      PROVE  SignerNext
  <2>1. KeyFails(c) \/ KeySigns(c)
    BY <1>5 DEF Answer
  <2>2. QED
    BY <2>1 DEF SignerNext, ClientStep
<1>6. ASSUME NEW c \in Clients, KeySourceFails(c)
      PROVE  SignerNext
  BY <1>6 DEF KeySourceFails, SignerNext, ClientStep
<1>7. ASSUME NEW d \in Keys, KeyReplaced(d)
      PROVE  UNCHANGED signerVars
  BY <1>7 DEF KeyReplaced
<1>8. QED
  BY <1>1, <1>2, <1>3, <1>4, <1>5, <1>6, <1>7 DEF KeyNext

(* The composition of the rail with boot, key source and pipeline does     *)
(* nothing that the signer of module Signer, which the other modules use,  *)
(* could not do. *)
THEOREM KeySigningImplementsSigner == KeySpec => SignerSpec
<1>1. KeyInit => SignerInit
  BY DEF KeyInit
<1>2. [KeyNext]_keyVars => [SignerNext]_signerVars
  BY KeyStepIsSignerStep
<1>3. QED
  BY <1>1, <1>2, PTL DEF KeySpec, SignerSpec

(* So the rail holds of every signature here, too. *)
THEOREM RailHoldsWithKeys == KeySpec => []EverySignatureIsWithinRail
BY KeySigningImplementsSigner, RailHolds, PTL
-----------------------------------------------------------------------------
LEMMA NormalisedIsLow ==
    ASSUME NEW s \in Scalars
    PROVE  NormaliseS(s) \in 1 .. HalfOrder
BY CurveAssumption DEF NormaliseS, HalfOrder, Scalars

LEMMA ParsedIsInRange ==
    ASSUME NEW der, NEW sig \in ParseSignatureDer(der)
    PROVE  sig.r \in Scalars /\ sig.s \in Scalars
BY DEF ParseSignatureDer

(* Whatever id was found, v names the same key, or x was too large. *)
LEMMA RecoveredV ==
    ASSUME NEW r, NEW s, NEW z, NEW address, NEW v \in RecoverV(r, s, z, address)
    PROVE  /\ v \in {27, 28}
           /\ address \in EcRecover(v, r, s, z) \/ \E k \in Scalars : X[k] = r + Order
<1>1. PICK id \in 0 .. 3 : address \in RecoverKey(id, r, s, z) /\ v = 27 + (id % 2)
  BY DEF RecoverV
<1>2. v \in {27, 28}
  BY <1>1
<1>3. CASE id \in 0 .. 1
  <2>1. v - 27 = id
    BY <1>1, <1>3
  <2>2. QED
    BY <1>1, <1>2, <2>1 DEF EcRecover
<1>4. CASE id \in 2 .. 3
  <2>1. PICK k \in Scalars : X[k] = r + Order
    BY <1>1, <1>4 DEF RecoverKey
  <2>2. QED
    BY <1>2, <2>1
<1>5. QED
  BY <1>1, <1>3, <1>4

(* What the pipeline may hand out for digest z and a wallet. *)
Settles(h, z, wallet) ==
    /\ h.v \in {27, 28} /\ h.s \in 1 .. HalfOrder
    /\ wallet \in EcRecover(h.v, h.r, h.s, z) \/ \E k \in Scalars : X[k] = h.r + Order

LEMMA PipelineSettles ==
    ASSUME NEW der, NEW z, NEW address, NEW h \in Pipeline(der, z, address)
    PROVE  Settles(h, z, address)
<1>1. PICK sig \in ParseSignatureDer(der) :
         \E v \in RecoverV(sig.r, NormaliseS(sig.s), z, address) :
            h = [v |-> v, r |-> sig.r, s |-> NormaliseS(sig.s)]
  BY DEF Pipeline
<1>2. PICK v \in RecoverV(sig.r, NormaliseS(sig.s), z, address) :
         h = [v |-> v, r |-> sig.r, s |-> NormaliseS(sig.s)]
  BY <1>1
<1>3. h.v = v /\ h.r = sig.r /\ h.s = NormaliseS(sig.s)
  BY <1>2
<1>4. NormaliseS(sig.s) \in 1 .. HalfOrder
  BY ParsedIsInRange, NormalisedIsLow
<1>5. QED
  BY <1>3, <1>4, RecoveredV DEF Settles
-----------------------------------------------------------------------------
(* The table of outcomes is read at a key and a digest it is defined for,  *)
(* because what waits at the key source has passed the rail. *)
KeyInv ==
    /\ RailInv
    /\ key \in Keys
    /\ header # None =>
          Settles(header.sig, Digest(header.request), header.request.from)

LEMMA OutcomesAt ==
    ASSUME NEW d \in Keys, NEW q \in SignRequest, WithinRail(q)
    PROVE  Outcomes[d][Digest(q)] =
             {Pipeline(der, Digest(q), SignerAddress) : der \in Emissions(d, Digest(q))}
<1> DEFINE Digests == {Digest(p) : p \in {p \in SignRequest : WithinRail(p)}}
           Of(e, z) == {Pipeline(der, z, SignerAddress) : der \in Emissions(e, z)}
<1>1. Digest(q) \in Digests
  OBVIOUS
<1>2. Outcomes[d] = [z \in Digests |-> Of(d, z)]
  BY DEF Outcomes
<1> HIDE DEF Digests, Of
<1>3. Outcomes[d][Digest(q)] = Of(d, Digest(q))
  BY <1>1, <1>2
<1>4. QED
  BY <1>3 DEF Of

LEMMA AnswerSettles ==
    ASSUME KeyInv, NEW c \in Clients, Answer(c), header' # header
    PROVE  Settles(header'.sig, Digest(header'.request), header'.request.from)
<1> DEFINE q == signing[c]
<1>1. q \in SignRequest /\ WithinRail(q)
  BY DEF KeyInv, RailInv, SignerTypeOK, Answer
<1>2. q.from = SignerAddress
  BY <1>1 DEF WithinRail
<1>3. PICK hs \in Outcomes[key][Digest(q)] :
         \E h \in hs : header' = [request |-> q, sig |-> h]
  BY DEF Answer
<1>4. Outcomes[key][Digest(q)] = {Pipeline(der, Digest(q), SignerAddress) : der \in Emissions(key, Digest(q))}
  BY <1>1, OutcomesAt DEF KeyInv
<1>5. PICK der : hs = Pipeline(der, Digest(q), SignerAddress)
  BY <1>3, <1>4
<1>6. PICK h \in Pipeline(der, Digest(q), SignerAddress) : header' = [request |-> q, sig |-> h]
  BY <1>3, <1>5
<1>7. header'.request = q /\ header'.sig = h
  BY <1>6
<1>8. QED
  BY <1>2, <1>7, PipelineSettles

LEMMA KeyStep ==
    ASSUME KeyInv, [KeyNext]_keyVars
    PROVE  KeyInv'
<1>1. RailInv'
  BY RailStep, KeyStepIsSignerStep DEF KeyInv
<1>2. key' \in Keys
  BY DEF KeyInv, KeyNext, keyVars, Boot, Stop, Request, Answer, KeySourceFails, KeyReplaced
<1>3. ASSUME header' # header
      PROVE  \E c \in Clients : Answer(c)
  BY <1>3 DEF KeyNext, keyVars, Boot, Stop, Request, KeySourceFails, KeyReplaced
<1>4. header' # None =>
         Settles(header'.sig, Digest(header'.request), header'.request.from)
  BY <1>3, AnswerSettles DEF KeyInv
<1>5. QED
  BY <1>1, <1>2, <1>4 DEF KeyInv, Settles

(* Every header that leaves has a low s and recovers to the payer it       *)
(* names, whatever the key source sends, whichever key it has come to      *)
(* hold, except for a nonce point beyond the order. *)
THEOREM HeaderSettles == KeySpec => []HeaderRecoversToPayer
<1>1. KeyInit => KeyInv
  BY DEF KeyInit, KeyInv, SignerInit, RailInv, SignerTypeOK, EverySignatureIsWithinRail
<1>2. KeyInv /\ [KeyNext]_keyVars => KeyInv'
  BY KeyStep
<1>3. KeyInv => HeaderRecoversToPayer
  BY DEF KeyInv, HeaderRecoversToPayer, Settles
<1>4. QED
  BY <1>1, <1>2, <1>3, PTL DEF KeySpec
-----------------------------------------------------------------------------
(* The codec: what was written is read, in the short form of a length and  *)
(* in the long. *)

(* A byte has a top bit, and half of the bytes have it set. *)
LEMMA BaseIsEven ==
    /\ Base \in Nat \ {0, 1} /\ TopBit \in Nat /\ Base = TopBit + TopBit /\ TopBit > 4
BY CodecAssumption DEF TopBit

(* c is what stands between p and q. *)
StandsBetween(p, c, q) ==
    LET der == p \o c \o q
    IN  /\ Len(der) = Len(p) + Len(c) + Len(q)
        /\ SubSeq(der, Len(p) + 1, Len(p) + Len(c)) = c
        /\ \A i \in 1 .. Len(c) : der[Len(p) + i] = c[i]

(* What stands between other bytes is found by its place. *)
LEMMA Between ==
    ASSUME NEW S, NEW p \in Seq(S), NEW c \in Seq(S), NEW q \in Seq(S)
    PROVE  StandsBetween(p, c, q) /\ p \o c \o q \in Seq(S)
<1> DEFINE der == p \o c \o q
<1>1. /\ p \o c \in Seq(S) /\ Len(p \o c) = Len(p) + Len(c)
      /\ der \in Seq(S) /\ Len(der) = Len(p) + Len(c) + Len(q)
      /\ Len(p) \in Nat /\ Len(c) \in Nat /\ Len(q) \in Nat
  OBVIOUS
<1>2. \A i \in 1 .. Len(c) : der[Len(p) + i] = c[i]
  <2>1. ASSUME NEW i \in 1 .. Len(c)
        PROVE  der[Len(p) + i] = c[i]
    <3>1. der[Len(p) + i] = (p \o c)[Len(p) + i]
      BY <1>1, ConcatProperties
    <3>2. (p \o c)[Len(p) + i] = c[i]
      BY <1>1, ConcatProperties
    <3>3. QED
      BY <3>1, <3>2
  <2>2. QED
    BY <2>1
<1>3. \A i \in Len(p) + 1 .. Len(p) + Len(c) : der[i] \in S
  <2>1. ASSUME NEW i \in Len(p) + 1 .. Len(p) + Len(c)
        PROVE  der[i] \in S
    <3>1. i \in 1 .. Len(der)
      BY <1>1
    <3>2. QED
      BY <1>1, <3>1, ElementOfSeq
  <2>2. QED
    BY <2>1
<1> HIDE DEF der
<1> DEFINE m == Len(p) + 1
           n == Len(p) + Len(c)
<1>4. m \in Int /\ n \in Int /\ n - m + 1 = Len(c) /\ (m <= n \/ Len(c) = 0)
  BY <1>1
<1>5. /\ SubSeq(der, m, n) \in Seq(S)
      /\ Len(SubSeq(der, m, n)) = Len(c)
      /\ \A i \in 1 .. Len(c) : SubSeq(der, m, n)[i] = der[m + i - 1]
  <2> HIDE DEF m, n
  <2>1. \A i \in m .. n : der[i] \in S
    BY <1>3 DEF m, n
  <2>2. /\ SubSeq(der, m, n) \in Seq(S)
        /\ Len(SubSeq(der, m, n)) = IF m <= n THEN n - m + 1 ELSE 0
        /\ \A i \in 1 .. n - m + 1 : SubSeq(der, m, n)[i] = der[m + i - 1]
    BY <1>4, <2>1, SubSeqProperties
  <2>3. QED
    BY <1>4, <2>2
<1>6. \A i \in 1 .. Len(c) : m + i - 1 = Len(p) + i
  BY <1>1
<1>7. \A i \in 1 .. Len(c) : SubSeq(der, m, n)[i] = c[i]
  BY <1>2, <1>5, <1>6
<1>8. SubSeq(der, m, n) = c
  BY <1>5, <1>7, SeqEqual
<1>9. QED
  BY <1>1, <1>2, <1>8 DEF der, StandsBetween

(* What the proofs below need of sequences of bytes. *)
LEMMA BytesJoin ==
    ASSUME NEW a \in Bytes, NEW b \in Bytes
    PROVE  /\ Len(a) \in Nat /\ a \o b \in Bytes /\ Len(a \o b) = Len(a) + Len(b)
           /\ Len(a) > 0 => (a \o b)[1] = a[1]
BY DEF Bytes

LEMMA BytesAssociate ==
    ASSUME NEW a \in Bytes, NEW b \in Bytes, NEW c \in Bytes
    PROVE  (a \o b) \o c = a \o (b \o c)
BY DEF Bytes

LEMMA OneByte ==
    ASSUME NEW b \in 0 .. Base - 1
    PROVE  <<b>> \in Bytes /\ Len(<<b>>) = 1 /\ <<b>>[1] = b
BY DEF Bytes

LEMMA BytesBetween ==
    ASSUME NEW p \in Bytes, NEW c \in Bytes, NEW q \in Bytes
    PROVE  StandsBetween(p, c, q) /\ p \o c \o q \in Bytes
BY Between DEF Bytes, StandsBetween

(* Digits without leading zeros read back as the number. *)
LEMMA DigitsAreBytes ==
    ASSUME NEW v \in Nat
    PROVE  /\ Digits(v) \in Bytes /\ Len(Digits(v)) = Width(Base, v)
           /\ Width(Base, v) \in Nat \ {0}
           /\ BytesValue(Digits(v)) = v
<1>1. Base \in Nat \ {0, 1}
  BY BaseIsEven
<1>2. Width(Base, v) \in Nat \ {0} /\ v < Power(Base, Width(Base, v))
  BY <1>1, WidthFits
<1>3. QED
  BY <1>1, <1>2, ReadBack DEF Digits, Bytes, BytesValue

(* A length takes one byte, or one and those of its digits. *)
LEMMA LengthWritten ==
    ASSUME NEW n \in Nat, n < Power(Base, MaxLengthBytes)
    PROVE  /\ EncodeLength(n) \in Bytes
           /\ Len(EncodeLength(n)) \in 1 .. MaxLengthBytes + 1
           /\ n >= TopBit => Width(Base, n) \in 1 .. MaxLengthBytes
<1>1. Width(Base, n) \in 1 .. MaxLengthBytes
  <2>1. MaxLengthBytes \in Nat \ {0}
    BY DEF MaxLengthBytes
  <2>2. Width(Base, n) <= MaxLengthBytes
    BY <2>1, BaseIsEven, WidthIsLeast
  <2>3. QED
    BY <2>1, <2>2, DigitsAreBytes
<1>2. CASE n < TopBit
  <2>1. n \in 0 .. Base - 1
    BY <1>2, BaseIsEven
  <2>2. QED
    BY <1>1, <1>2, <2>1 DEF EncodeLength, Bytes, MaxLengthBytes
<1>3. CASE ~(n < TopBit)
  <2>1. TopBit + Width(Base, n) \in 0 .. Base - 1
    BY <1>1, BaseIsEven DEF MaxLengthBytes
  <2>2. Digits(n) \in Bytes /\ Len(Digits(n)) = Width(Base, n)
    BY DigitsAreBytes
  <2>3. EncodeLength(n) = <<TopBit + Width(Base, n)>> \o Digits(n)
    BY <1>3 DEF EncodeLength
  <2>4. EncodeLength(n) \in Bytes /\ Len(EncodeLength(n)) = 1 + Width(Base, n)
    BY <2>1, <2>2, <2>3 DEF Bytes
  <2>5. QED
    BY <1>1, <2>4 DEF MaxLengthBytes
<1>4. QED
  BY <1>2, <1>3

(* A length is read as it was written, in the short form or the long. *)
LEMMA LengthRead ==
    ASSUME NEW p \in Bytes, NEW q \in Bytes,
           NEW n \in Nat, n < Power(Base, MaxLengthBytes)
    PROVE  ReadLength(p \o EncodeLength(n) \o q, Len(p) + 1)
               = {[length |-> n, next |-> Len(p) + Len(EncodeLength(n)) + 1]}
<1> DEFINE e == EncodeLength(n)
           der == p \o e \o q
           at == Len(p) + 1
           w == Width(Base, n)
<1>1. e \in Bytes /\ Len(e) \in 1 .. MaxLengthBytes + 1
  BY LengthWritten
<1>2. /\ Len(p) \in Nat /\ Len(q) \in Nat
      /\ Len(der) = Len(p) + Len(e) + Len(q)
      /\ der[Len(p) + 1] = e[1]
  <2>1. StandsBetween(p, e, q)
    BY <1>1, BytesBetween
  <2>2. Len(p) \in Nat /\ Len(q) \in Nat /\ 1 \in 1 .. Len(e)
    BY <1>1, BytesJoin
  <2>3. QED
    BY <2>1, <2>2 DEF StandsBetween
<1>3. ~(at > Len(der))
  BY <1>1, <1>2
<1>4. CASE n < TopBit
  <2>1. e = <<n>>
    BY <1>4 DEF EncodeLength
  <2>2. e[1] = n /\ Len(e) = 1
    BY <2>1
  <2>3. der[at] = n
    BY <1>2, <2>2
  <2>4. at + 1 = Len(p) + Len(e) + 1
    BY <1>2, <2>2
  <2> HIDE DEF e, der, at
  <2>5. ReadLength(der, at) = {[length |-> n, next |-> at + 1]}
    BY <1>3, <1>4, <2>3 DEF ReadLength
  <2>6. QED
    BY <2>4, <2>5 DEF e, der, at
<1>5. CASE ~(n < TopBit)
  <2>1. w \in 1 .. MaxLengthBytes
    BY <1>5, LengthWritten, BaseIsEven
  <2>2. Digits(n) \in Bytes /\ Len(Digits(n)) = w /\ BytesValue(Digits(n)) = n
    BY DigitsAreBytes
  <2>3. e = <<TopBit + w>> \o Digits(n)
    BY <1>5 DEF EncodeLength
  <2>4. /\ TopBit + w \in 0 .. Base - 1 /\ TopBit \in Nat
    BY <2>1, BaseIsEven DEF MaxLengthBytes
  <2>5. e[1] = TopBit + w /\ Len(e) = w + 1
    BY <2>1, <2>2, <2>3, <2>4 DEF Bytes
  <2>6. der[at] = TopBit + w
    BY <1>2, <2>5
  <2> DEFINE head == p \o <<TopBit + w>>
  <2>7. /\ head \in Bytes /\ Len(head) = at
        /\ der = head \o Digits(n) \o q
    <3>1. <<TopBit + w>> \in Bytes /\ Len(<<TopBit + w>>) = 1
      BY <2>4 DEF Bytes
    <3>2. p \o (<<TopBit + w>> \o Digits(n)) = (p \o <<TopBit + w>>) \o Digits(n)
      BY <2>2, <3>1, ConcatAssociative DEF Bytes
    <3>3. QED
      BY <2>3, <3>1, <3>2, ConcatProperties DEF Bytes
  <2> HIDE DEF head
  <2>8. SubSeq(der, at + 1, at + w) = Digits(n)
    <3>1. StandsBetween(head, Digits(n), q)
      BY <2>2, <2>7, BytesBetween
    <3>2. QED
      BY <2>2, <2>7, <3>1 DEF StandsBetween
  <2>9. der[at] - TopBit = w /\ ~(der[at] < TopBit)
    BY <2>1, <2>4, <2>6
  <2>10. at + w <= Len(der)
    BY <1>2, <2>1, <2>5
  <2>11. at + w + 1 = Len(p) + Len(e) + 1
    BY <1>2, <2>1, <2>5
  <2> HIDE DEF e, der, at, w
  <2>12. ReadLength(der, at) = {[length |-> n, next |-> at + w + 1]}
    BY <1>3, <2>1, <2>2, <2>8, <2>9, <2>10 DEF ReadLength
  <2>13. QED
    BY <2>11, <2>12 DEF e, der, at
<1>6. QED
  BY <1>4, <1>5

(* The value c under a tag, between p and q: its header is read from where  *)
(* it stands, and leads to c. *)
IsFound(tag, p, c, q) ==
    LET e    == Encode(tag, c)
        der  == p \o e \o q
        head == <<tag>> \o EncodeLength(Len(c))
    IN  /\ e \in Bytes /\ der \in Bytes /\ head \in Bytes
        /\ e = head \o c /\ Len(head) \in 2 .. MaxLengthBytes + 2
        /\ Len(e) = Len(head) + Len(c) /\ Len(der) = Len(p) + Len(e) + Len(q)
        /\ ReadHeader(tag, der, Len(p) + 1)
               = {[length |-> Len(c), next |-> Len(p) + Len(head) + 1]}
        /\ SubSeq(der, Len(p) + Len(head) + 1, Len(p) + Len(head) + Len(c)) = c
        /\ \A i \in 1 .. Len(c) : der[Len(p) + Len(head) + i] = c[i]

(* Every value written with a header is found. *)
LEMMA HeaderRead ==
    ASSUME NEW p \in Bytes, NEW q \in Bytes, NEW c \in Bytes,
           NEW tag \in 0 .. Base - 1, Len(c) < Power(Base, MaxLengthBytes)
    PROVE  IsFound(tag, p, c, q)
<1> DEFINE l == EncodeLength(Len(c))
           t == <<tag>>
           head == t \o l
           e == Encode(tag, c)
           der == p \o e \o q
           pt == p \o t
           cq == c \o q
           ph == p \o head
<1>1. /\ Len(p) \in Nat /\ Len(q) \in Nat /\ Len(c) \in Nat
      /\ t \in Bytes /\ Len(t) = 1 /\ t[1] = tag
      /\ l \in Bytes /\ Len(l) \in 1 .. MaxLengthBytes + 1
  <2>1. Len(p) \in Nat /\ Len(q) \in Nat /\ Len(c) \in Nat
    BY BytesJoin
  <2>2. QED
    BY <2>1, OneByte, LengthWritten
<1>2. e = head \o c
  <2>1. e = t \o l \o c
    BY DEF Encode
  <2>2. QED
    BY <2>1
<1> HIDE DEF l, t, e
<1>3. head \in Bytes /\ Len(head) = 1 + Len(l) /\ head[1] = tag
  <2>1. /\ t \o l \in Bytes /\ Len(t \o l) = Len(t) + Len(l)
        /\ Len(t) > 0 => (t \o l)[1] = t[1]
    BY <1>1, BytesJoin
  <2>2. QED
    BY <1>1, <2>1
<1> HIDE DEF head
<1>4. e \in Bytes /\ Len(e) = Len(head) + Len(c) /\ e[1] = tag
  <2>1. /\ head \o c \in Bytes /\ Len(head \o c) = Len(head) + Len(c)
        /\ Len(head) > 0 => (head \o c)[1] = head[1]
    BY <1>3, BytesJoin
  <2>2. Len(head) > 0
    BY <1>1, <1>3
  <2>3. QED
    BY <1>2, <1>3, <2>1, <2>2
<1>5. /\ pt \in Bytes /\ Len(pt) = Len(p) + 1
      /\ cq \in Bytes
      /\ ph \in Bytes /\ Len(ph) = Len(p) + Len(head)
  <2>1. /\ p \o t \in Bytes /\ Len(p \o t) = Len(p) + Len(t)
        /\ c \o q \in Bytes
        /\ p \o head \in Bytes /\ Len(p \o head) = Len(p) + Len(head)
    BY <1>1, <1>3, BytesJoin
  <2>2. QED
    BY <1>1, <2>1
<1>6. der = ph \o c \o q
  BY <1>2, <1>3, BytesAssociate
<1>7. der = pt \o l \o cq
  <2>1. ph = pt \o l
    BY <1>1, BytesAssociate DEF head
  <2>2. pt \o l \in Bytes
    BY <1>1, <1>5, BytesJoin
  <2>3. ((pt \o l) \o c) \o q = (pt \o l) \o cq
    BY <2>2, BytesAssociate
  <2> HIDE DEF der, pt, ph, cq
  <2>4. QED
    BY <1>6, <2>1, <2>3
<1>8. der \in Bytes /\ Len(der) = Len(p) + Len(e) + Len(q) /\ der[Len(p) + 1] = tag
  <2>1. 1 \in 1 .. Len(e)
    BY <1>1, <1>3, <1>4
  <2>2. StandsBetween(p, e, q) /\ p \o e \o q \in Bytes
    BY <1>4, BytesBetween
  <2>3. QED
    BY <1>4, <2>1, <2>2 DEF StandsBetween
<1> HIDE DEF der, pt, cq
<1>9. ReadLength(der, Len(pt) + 1) = {[length |-> Len(c), next |-> Len(pt) + Len(l) + 1]}
  BY <1>1, <1>5, <1>7, LengthRead DEF l
<1>10. ReadHeader(tag, der, Len(p) + 1)
          = {[length |-> Len(c), next |-> Len(p) + Len(head) + 1]}
  <2>1. Len(p) + 1 <= Len(der)
    BY <1>1, <1>3, <1>4, <1>8
  <2>2. ReadHeader(tag, der, Len(p) + 1) = ReadLength(der, Len(p) + 1 + 1)
    BY <1>8, <2>1 DEF ReadHeader
  <2>3. Len(p) + 1 + 1 = Len(pt) + 1 /\ Len(pt) + Len(l) + 1 = Len(p) + Len(head) + 1
    BY <1>1, <1>3, <1>5
  <2>4. QED
    BY <1>9, <2>2, <2>3
<1> HIDE DEF ph
<1>11. /\ SubSeq(der, Len(ph) + 1, Len(ph) + Len(c)) = c
       /\ \A i \in 1 .. Len(c) : der[Len(ph) + i] = c[i]
  <2>1. StandsBetween(ph, c, q)
    BY <1>5, BytesBetween
  <2>2. QED
    BY <1>6, <2>1 DEF StandsBetween
<1>12. Len(head) \in 2 .. MaxLengthBytes + 2
  <2>1. MaxLengthBytes \in Nat
    BY DEF MaxLengthBytes
  <2>2. QED
    BY <1>1, <1>3, <2>1
<1>13. QED
  BY <1>2, <1>3, <1>4, <1>5, <1>8, <1>10, <1>11, <1>12 DEF der, head, e, l, t, IsFound

(* The content of an INTEGER: not empty, not negative, and worth the number. *)
LEMMA IntegerWritten ==
    ASSUME NEW v \in Nat
    PROVE  LET c == ToDerInteger(v)
           IN  /\ c \in Bytes /\ Len(c) \in {Width(Base, v), Width(Base, v) + 1}
               /\ Len(c) > 0 /\ c[1] < TopBit
               /\ BytesValue(c) = v
<1> DEFINE d == Digits(v)
           w == Width(Base, v)
           c == ToDerInteger(v)
<1>1. d \in Bytes /\ Len(d) = w /\ w \in Nat \ {0} /\ BytesValue(d) = v
  BY DigitsAreBytes
<1>2. Head(d) = d[1] /\ d[1] \in 0 .. Base - 1
  <2>1. d \in Seq(0 .. Base - 1) /\ 1 \in 1 .. Len(d)
    BY <1>1 DEF Bytes
  <2> HIDE DEF d
  <2>2. d[1] \in 0 .. Base - 1
    BY <2>1, ElementOfSeq
  <2>3. QED
    BY <2>1, <2>2
<1>3. CASE Head(d) >= TopBit
  <2>1. c = <<0>> \o d
    BY <1>3 DEF ToDerInteger
  <2>2. 0 \in 0 .. Base - 1 /\ 0 < TopBit /\ Base \in Nat \ {0, 1}
    BY BaseIsEven
  <2>3. c \in Bytes /\ Len(c) = w + 1 /\ c[1] = 0
    BY <1>1, <2>1, <2>2 DEF Bytes
  <2>4. v < Power(Base, w) /\ d = DigitsOf(Base, v, w)
    BY <2>2, WidthFits DEF Digits
  <2>5. c = DigitsOf(Base, v, w + 1)
    <3> HIDE DEF w
    <3>1. w \in Nat
      BY <1>1
    <3>2. DigitsOf(Base, v, w + 1) = <<0>> \o DigitsOf(Base, v, w)
      BY <2>2, <2>4, <3>1, LeadingZero
    <3>3. QED
      BY <2>1, <2>4, <3>2
  <2>6. v < Power(Base, w + 1)
    <3>1. w \in Nat /\ w + 1 \in Nat /\ w <= w + 1 /\ Base \in Nat \ {0, 1}
      BY <1>1, <2>2
    <3> HIDE DEF w
    <3>2. Power(Base, w) \in Nat /\ Power(Base, w + 1) \in Nat
      BY <3>1, PowersAreNumbers
    <3>3. Power(Base, w) <= Power(Base, w + 1)
      BY <3>1, PowersAreOrdered
    <3>4. QED
      BY <1>1, <2>4, <3>2, <3>3
  <2>7. BytesValue(c) = v
    BY <1>1, <2>2, <2>5, <2>6, ReadBack DEF BytesValue
  <2>8. QED
    BY <1>1, <2>2, <2>3, <2>7
<1>4. CASE ~(Head(d) >= TopBit)
  <2>1. c = d
    BY <1>4 DEF ToDerInteger
  <2>2. d[1] < TopBit
    BY <1>2, <1>4, BaseIsEven
  <2>3. QED
    BY <1>1, <2>1, <2>2
<1>5. QED
  BY <1>3, <1>4

(* The number v between p and q is read from where it stands. *)
IntegerIsFound(p, v, q) ==
    LET e == Encode(IntegerTag, ToDerInteger(v))
    IN  /\ e \in Bytes /\ Len(e) \in 1 .. Width(Base, v) + MaxLengthBytes + 3
        /\ ReadInteger(p \o e \o q, Len(p) + 1)
               = {[value |-> v, next |-> Len(p) + Len(e) + 1]}

(* Every number written is read from where it stands. *)
LEMMA IntegerRead ==
    ASSUME NEW p \in Bytes, NEW q \in Bytes, NEW v \in Nat,
           Width(Base, v) + 1 < Power(Base, MaxLengthBytes)
    PROVE  IntegerIsFound(p, v, q)
<1> DEFINE c == ToDerInteger(v)
           e == Encode(IntegerTag, c)
           der == p \o e \o q
           head == <<IntegerTag>> \o EncodeLength(Len(c))
           g == [length |-> Len(c), next |-> Len(p) + Len(head) + 1]
<1>1. /\ c \in Bytes /\ Len(c) \in {Width(Base, v), Width(Base, v) + 1}
      /\ Len(c) > 0 /\ c[1] < TopBit /\ BytesValue(c) = v
  BY IntegerWritten
<1>2. Width(Base, v) \in Nat \ {0} /\ Power(Base, MaxLengthBytes) \in Nat
  BY DigitsAreBytes, BaseIsEven, PowersAreNumbers DEF MaxLengthBytes
<1>3. Len(c) \in Nat /\ Len(c) < Power(Base, MaxLengthBytes)
  BY <1>1, <1>2
<1>4. IntegerTag \in 0 .. Base - 1
  BY CodecAssumption
<1> HIDE DEF c
<1>5. /\ e \in Bytes /\ der \in Bytes /\ head \in Bytes
      /\ e = head \o c /\ Len(head) \in 2 .. MaxLengthBytes + 2
      /\ Len(e) = Len(head) + Len(c) /\ Len(der) = Len(p) + Len(e) + Len(q)
      /\ ReadHeader(IntegerTag, der, Len(p) + 1)
             = {[length |-> Len(c), next |-> Len(p) + Len(head) + 1]}
      /\ SubSeq(der, Len(p) + Len(head) + 1, Len(p) + Len(head) + Len(c)) = c
      /\ \A i \in 1 .. Len(c) : der[Len(p) + Len(head) + i] = c[i]
  <2>1. IsFound(IntegerTag, p, c, q)
    BY <1>1, <1>3, <1>4, HeaderRead
  <2>2. QED
    BY <2>1 DEF IsFound
<1>6. Len(p) \in Nat /\ Len(q) \in Nat
  BY DEF Bytes
<1> HIDE DEF e, der, head
<1>7. g.length = Len(c) /\ g.next = Len(p) + Len(head) + 1
  OBVIOUS
<1>8. g.length > 0 /\ g.next + g.length <= Len(der) + 1
  BY <1>1, <1>3, <1>5, <1>6, <1>7
<1>9. der[g.next] < TopBit
  BY <1>1, <1>3, <1>5, <1>7
<1>10. g.next + g.length - 1 = Len(p) + Len(head) + Len(c)
  BY <1>3, <1>5, <1>6, <1>7
<1>11. BytesValue(SubSeq(der, g.next, g.next + g.length - 1)) = v
  BY <1>1, <1>5, <1>7, <1>10
<1>12. g.next + g.length = Len(p) + Len(e) + 1
  BY <1>3, <1>5, <1>6, <1>7
<1>13. ReadHeader(IntegerTag, der, Len(p) + 1) = {g}
  BY <1>5
<1> HIDE DEF g
<1>14. ReadInteger(der, Len(p) + 1) = {[value |-> v, next |-> Len(p) + Len(e) + 1]}
  BY <1>8, <1>9, <1>11, <1>12, <1>13 DEF ReadInteger
<1>15. Len(e) \in 1 .. Width(Base, v) + MaxLengthBytes + 3
  <2>1. MaxLengthBytes \in Nat
    BY DEF MaxLengthBytes
  <2>2. QED
    BY <1>1, <1>2, <1>3, <1>5, <2>1
<1>16. QED
  BY <1>5, <1>14, <1>15 DEF e, der, c, IntegerIsFound

LEMMA NothingAround ==
    ASSUME NEW a \in Bytes
    PROVE  << >> \in Bytes /\ Len(<< >>) = 0 /\ << >> \o a = a /\ a \o << >> = a
BY DEF Bytes

(* Scalars are within the sizes that CodecAssumption allows. *)
LEMMA ScalarFits ==
    ASSUME NEW v \in Scalars
    PROVE  /\ v \in Nat /\ v < Power(Base, PointWidth)
           /\ Width(Base, v) \in 1 .. PointWidth
           /\ Width(Base, v) + 1 < Power(Base, MaxLengthBytes)
<1>1. Base \in Nat \ {0, 1} /\ PointWidth \in Nat \ {0} /\ MaxLengthBytes \in Nat
  BY CodecAssumption, BaseIsEven DEF MaxLengthBytes
<1>2. Power(Base, PointWidth) \in Nat /\ Power(Base, MaxLengthBytes) \in Nat
  BY <1>1, PowersAreNumbers
<1>3. v \in Nat /\ v < Power(Base, PointWidth)
  BY <1>2, CurveAssumption, CodecAssumption DEF Scalars
<1>4. Width(Base, v) <= PointWidth /\ Width(Base, v) \in Nat \ {0}
  BY <1>1, <1>3, WidthIsLeast, DigitsAreBytes
<1>5. QED
  BY <1>1, <1>2, <1>3, <1>4, CodecAssumption

(* What is read from one header and one other is one record. *)
LEMMA PairOfOnes ==
    ASSUME NEW A, NEW B, NEW p, NEW q, A = {p}, B = {q}
    PROVE  {[r |-> i.value, s |-> j.value] : i \in A, j \in B}
             = {[r |-> p.value, s |-> q.value]}
<1> DEFINE S == {[r |-> i.value, s |-> j.value] : i \in A, j \in B}
<1>1. ASSUME NEW x \in S
      PROVE  x = [r |-> p.value, s |-> q.value]
  <2>1. PICK i \in A, j \in B : x = [r |-> i.value, s |-> j.value]
    OBVIOUS
  <2>2. QED
    BY <2>1
<1>2. [r |-> p.value, s |-> q.value] \in S
  <2>1. p \in A /\ q \in B
    OBVIOUS
  <2>2. QED
    BY <2>1
<1>3. QED
  BY <1>1, <1>2

(* What the key source signed is what the signer parses. *)
LEMMA SignatureIsParsed ==
    ASSUME NEW r \in Scalars, NEW s \in Scalars
    PROVE  ParseSignatureDer(EncodeSignatureDer(r, s)) = {[r |-> r, s |-> s]}
<1> DEFINE a == Encode(IntegerTag, ToDerInteger(r))
           b == Encode(IntegerTag, ToDerInteger(s))
           c == a \o b
           der == EncodeSignatureDer(r, s)
           head == <<SequenceTag>> \o EncodeLength(Len(c))
           ha == head \o a
<1>1. /\ r \in Nat /\ Width(Base, r) \in 1 .. PointWidth
      /\ Width(Base, r) + 1 < Power(Base, MaxLengthBytes)
      /\ s \in Nat /\ Width(Base, s) \in 1 .. PointWidth
      /\ Width(Base, s) + 1 < Power(Base, MaxLengthBytes)
  BY ScalarFits
<1>2. << >> \in Bytes /\ Len(<< >>) = 0
  BY DEF Bytes
<1>3. /\ a \in Bytes /\ Len(a) \in 1 .. PointWidth + 7
      /\ b \in Bytes /\ Len(b) \in 1 .. PointWidth + 7
  <2>1. IntegerIsFound(<< >>, r, << >>) /\ IntegerIsFound(<< >>, s, << >>)
    BY <1>1, <1>2, IntegerRead
  <2>2. PointWidth \in Nat
    BY CodecAssumption
  <2>3. QED
    BY <1>1, <2>1, <2>2 DEF IntegerIsFound, MaxLengthBytes
<1>4. der = Encode(SequenceTag, c)
  BY DEF EncodeSignatureDer
<1> HIDE DEF a, b, der
<1>5. c \in Bytes /\ Len(c) = Len(a) + Len(b)
  BY <1>3, BytesJoin
<1>6. Len(c) < Power(Base, MaxLengthBytes)
  <2>1. Power(Base, MaxLengthBytes) \in Nat
    BY BaseIsEven, PowersAreNumbers DEF MaxLengthBytes
  <2>2. PointWidth \in Nat /\ 2 * PointWidth + 16 < Power(Base, MaxLengthBytes)
    BY CodecAssumption
  <2>3. QED
    BY <1>3, <1>5, <2>1, <2>2
<1>7. SequenceTag \in 0 .. Base - 1
  BY CodecAssumption
<1>8. /\ der \in Bytes /\ der = head \o c /\ head \in Bytes /\ Len(head) \in Nat
      /\ Len(der) = Len(head) + Len(c)
      /\ ReadHeader(SequenceTag, der, 1) = {[length |-> Len(c), next |-> Len(head) + 1]}
  <2> HIDE DEF c
  <2>1. IsFound(SequenceTag, << >>, c, << >>)
    BY <1>2, <1>5, <1>6, <1>7, HeaderRead
  <2>2. der \in Bytes /\ der = head \o c /\ head \in Bytes /\ Len(der) = Len(head) + Len(c)
    BY <1>4, <2>1 DEF IsFound
  <2>3. << >> \o der \o << >> = der
    BY <2>2, NothingAround
  <2>4. Len(head) \in Nat
    BY <2>2, BytesJoin
  <2>5. ReadHeader(SequenceTag, der, 1) = {[length |-> Len(c), next |-> Len(head) + 1]}
    <3>1. ReadHeader(SequenceTag, << >> \o der \o << >>, Len(<< >>) + 1)
             = {[length |-> Len(c), next |-> Len(<< >>) + Len(head) + 1]}
      BY <1>4, <2>1 DEF IsFound
    <3>2. Len(<< >>) + 1 = 1 /\ Len(<< >>) + Len(head) + 1 = Len(head) + 1
      BY <1>2, <2>4
    <3>3. QED
      BY <2>3, <3>1, <3>2
  <2>6. QED
    BY <2>2, <2>4, <2>5
<1> HIDE DEF head
<1>9. ha \in Bytes /\ Len(ha) = Len(head) + Len(a)
  BY <1>3, <1>8, BytesJoin
<1>10. der = head \o a \o b
  BY <1>3, <1>8, BytesAssociate
<1>11. der = ha \o b \o << >>
  <2>1. ha \o b \in Bytes
    BY <1>3, <1>9, BytesJoin
  <2>2. (ha \o b) \o << >> = ha \o b
    BY <2>1, NothingAround
  <2>3. QED
    BY <1>10, <2>2
<1> HIDE DEF c, ha
<1>12. ReadInteger(der, Len(head) + 1) = {[value |-> r, next |-> Len(ha) + 1]}
  <2>1. IntegerIsFound(head, r, b)
    BY <1>1, <1>3, <1>8, IntegerRead
  <2>2. ReadInteger(head \o a \o b, Len(head) + 1)
           = {[value |-> r, next |-> Len(head) + Len(a) + 1]}
    BY <2>1 DEF IntegerIsFound, a
  <2>3. QED
    BY <1>9, <1>10, <2>2
<1>13. ReadInteger(der, Len(ha) + 1) = {[value |-> s, next |-> Len(der) + 1]}
  <2>1. IntegerIsFound(ha, s, << >>)
    BY <1>1, <1>2, <1>9, IntegerRead
  <2>2. ReadInteger(ha \o b \o << >>, Len(ha) + 1)
           = {[value |-> s, next |-> Len(ha) + Len(b) + 1]}
    BY <2>1 DEF IntegerIsFound, b
  <2>3. Len(ha) + Len(b) = Len(der)
    BY <1>3, <1>5, <1>8, <1>9
  <2>4. QED
    BY <1>11, <2>2, <2>3
<1> DEFINE outer == {h \in ReadHeader(SequenceTag, der, 1) : h.next + h.length = Len(der) + 1}
           first == UNION {ReadInteger(der, h.next) : h \in outer}
           last  == {i \in UNION {ReadInteger(der, h.next) : h \in first} : i.next = Len(der) + 1}
<1>14. outer = {[length |-> Len(c), next |-> Len(head) + 1]}
  <2>1. Len(head) + 1 + Len(c) = Len(der) + 1
    BY <1>3, <1>5, <1>8
  <2>2. QED
    BY <1>8, <2>1
<1>15. first = {[value |-> r, next |-> Len(ha) + 1]}
  <2> HIDE DEF outer
  <2>1. QED
    BY <1>12, <1>14
<1>16. last = {[value |-> s, next |-> Len(der) + 1]}
  <2> HIDE DEF first
  <2>1. QED
    BY <1>13, <1>15
<1>17. ParseSignatureDer(der) =
          {[r |-> i.value, s |-> j.value] :
              i \in {h \in first : h.value \in Scalars}, j \in {h \in last : h.value \in Scalars}}
  BY DEF ParseSignatureDer
<1> HIDE DEF first, last
<1> DEFINE p == [value |-> r, next |-> Len(ha) + 1]
           q == [value |-> s, next |-> Len(der) + 1]
           A == {h \in first : h.value \in Scalars}
           B == {h \in last : h.value \in Scalars}
<1>18. A = {p} /\ p.value = r
  BY <1>15
<1>19. B = {q} /\ q.value = s
  BY <1>16
<1>20. ParseSignatureDer(der) = {[r |-> i.value, s |-> j.value] : i \in A, j \in B}
  BY <1>17
<1> HIDE DEF A, B, p, q
<1>21. ParseSignatureDer(der) = {[r |-> p.value, s |-> q.value]}
  BY <1>18, <1>19, <1>20, PairOfOnes
<1>22. QED
  BY <1>18, <1>19, <1>21 DEF der

(* A point is a 4 and the digits of its scalar. *)
LEMMA PointWritten ==
    ASSUME NEW d \in Scalars
    PROVE  /\ Uncompressed(d) \in Bytes /\ Len(Uncompressed(d)) = 1 + PointWidth
           /\ Head(Uncompressed(d)) = 4
           /\ BytesValue(Tail(Uncompressed(d))) = d
<1> DEFINE w == DigitsOf(Base, d, PointWidth)
           u == <<4>> \o w
<1>1. Base \in Nat \ {0, 1} /\ PointWidth \in Nat \ {0} /\ 4 \in 0 .. Base - 1
  BY CodecAssumption, BaseIsEven
<1>2. w \in Seq(0 .. Base - 1) /\ Len(w) = PointWidth /\ ValueOf(Base, w) = d
  BY <1>1, ScalarFits, ReadBack
<1> HIDE DEF w
<1>3. u \in Seq(0 .. Base - 1) /\ Len(u) = 1 + PointWidth /\ Head(u) = 4 /\ Tail(u) = w
  BY <1>1, <1>2
<1>4. Uncompressed(d) = u
  BY DEF Uncompressed, w
<1>5. QED
  BY <1>2, <1>3, <1>4 DEF Bytes, BytesValue

(* The public key that a key source publishes is read back. *)
LEMMA KeyIsReadBack ==
    ASSUME NEW d \in Scalars
    PROVE  DeriveAddressFromSpki(BuildSpkiDer(d)) = {d}
<1> DEFINE o == <<1, 2>>
           u == Uncompressed(d)
           k == <<0>> \o u
           a == Encode(SequenceTag, o)
           b == Encode(BitStringTag, k)
           c == a \o b
           spki == BuildSpkiDer(d)
           head == <<SequenceTag>> \o EncodeLength(Len(c))
           headA == <<SequenceTag>> \o EncodeLength(Len(o))
           headB == <<BitStringTag>> \o EncodeLength(Len(k))
           ha == head \o a
           hab == ha \o headB
           z == <<0>>
<1>1. /\ PointWidth \in Nat \ {0} /\ MaxLengthBytes = 4
      /\ SequenceTag \in 0 .. Base - 1 /\ BitStringTag \in 0 .. Base - 1
      /\ 2 * PointWidth + 16 < Power(Base, MaxLengthBytes)
      /\ Power(Base, MaxLengthBytes) \in Nat
  BY CodecAssumption, BaseIsEven, PowersAreNumbers DEF MaxLengthBytes
<1>2. /\ u \in Bytes /\ Len(u) = 1 + PointWidth /\ Head(u) = 4
      /\ BytesValue(Tail(u)) = d
  BY PointWritten
<1>3. /\ << >> \in Bytes /\ Len(<< >>) = 0
      /\ o \in Bytes /\ Len(o) = 2
      /\ z \in Bytes /\ Len(z) = 1 /\ z[1] = 0
  BY CodecAssumption DEF Bytes
<1>4. spki = Encode(SequenceTag, c)
  BY DEF BuildSpkiDer
<1>5. k = z \o u
  OBVIOUS
<1> HIDE DEF o, u, z, k
<1>6. k \in Bytes /\ Len(k) = 2 + PointWidth /\ k[1] = 0
  <2>1. /\ z \o u \in Bytes /\ Len(z \o u) = Len(z) + Len(u)
        /\ Len(z) > 0 => (z \o u)[1] = z[1]
    BY <1>2, <1>3, BytesJoin
  <2>2. Len(k) = 1 + (1 + PointWidth) /\ k \in Bytes /\ k[1] = 0
    BY <1>2, <1>3, <1>5, <2>1
  <2>3. QED
    BY <1>1, <2>2
<1>7. /\ a \in Bytes /\ Len(a) = Len(headA) + 2 /\ Len(headA) \in 2 .. 6
  <2>1. Len(o) < Power(Base, MaxLengthBytes)
    BY <1>1, <1>3
  <2>2. IsFound(SequenceTag, << >>, o, << >>)
    BY <1>1, <1>3, <2>1, HeaderRead
  <2>3. QED
    BY <1>1, <1>3, <2>2 DEF IsFound
<1>8. /\ b \in Bytes /\ b = headB \o k /\ headB \in Bytes
      /\ Len(b) = Len(headB) + Len(k) /\ Len(headB) \in 2 .. 6
  <2>1. Len(k) < Power(Base, MaxLengthBytes)
    BY <1>1, <1>6
  <2>2. IsFound(BitStringTag, << >>, k, << >>)
    BY <1>1, <1>3, <1>6, <2>1, HeaderRead
  <2>3. QED
    BY <1>1, <2>2 DEF IsFound
<1> HIDE DEF a, b, spki
<1>9. /\ c \in Bytes /\ Len(c) = Len(a) + Len(b) /\ Len(c) < Power(Base, MaxLengthBytes)
  <2>1. c \in Bytes /\ Len(c) = Len(a) + Len(b)
    BY <1>7, <1>8, BytesJoin
  <2> DEFINE top == Power(Base, MaxLengthBytes)
             lenA == Len(headA)
             lenB == Len(headB)
  <2>2. PointWidth \in Nat \ {0} /\ 2 * PointWidth + 16 < top /\ top \in Nat
    BY <1>1
  <2>3. /\ Len(c) = Len(a) + Len(b) /\ Len(a) = lenA + 2 /\ Len(b) = lenB + Len(k)
        /\ Len(k) = 2 + PointWidth /\ lenA \in 2 .. 6 /\ lenB \in 2 .. 6
    BY <1>6, <1>7, <1>8, <2>1
  <2> HIDE DEF c, top, lenA, lenB
  <2>4. /\ Len(c) = (lenA + 2) + (lenB + (2 + PointWidth))
        /\ lenA \in 2 .. 6 /\ lenB \in 2 .. 6
    <3>1. Len(a) = lenA + 2 /\ Len(b) = lenB + (2 + PointWidth)
      BY <2>3
    <3>2. QED
      BY <2>3, <3>1
  <2>5. Len(c) < top
    BY <2>2, <2>4
  <2>6. QED
    BY <2>1, <2>5 DEF top
<1>10. /\ spki \in Bytes /\ spki = head \o c /\ head \in Bytes /\ Len(head) \in Nat
       /\ ReadHeader(SequenceTag, spki, 1) = {[length |-> Len(c), next |-> Len(head) + 1]}
  <2> HIDE DEF c
  <2>1. IsFound(SequenceTag, << >>, c, << >>)
    BY <1>1, <1>3, <1>9, HeaderRead
  <2>2. spki \in Bytes /\ spki = head \o c /\ head \in Bytes
    BY <1>4, <2>1 DEF IsFound
  <2>3. << >> \o spki \o << >> = spki
    BY <2>2, NothingAround
  <2>4. Len(head) \in Nat
    BY <2>2, BytesJoin
  <2>5. ReadHeader(SequenceTag, << >> \o spki \o << >>, Len(<< >>) + 1)
           = {[length |-> Len(c), next |-> Len(<< >>) + Len(head) + 1]}
    BY <1>4, <2>1 DEF IsFound
  <2>6. Len(<< >>) + 1 = 1 /\ Len(<< >>) + Len(head) + 1 = Len(head) + 1
    BY <1>3, <2>4
  <2>7. QED
    BY <2>2, <2>3, <2>4, <2>5, <2>6
<1> HIDE DEF head
<1>11. spki = head \o a \o b
  <2>1. head \in Bytes /\ a \in Bytes /\ b \in Bytes
    BY <1>7, <1>8, <1>10
  <2>2. (head \o a) \o b = head \o (a \o b)
    BY <2>1, BytesAssociate
  <2>3. QED
    BY <1>10, <2>2
<1>12. /\ ha \in Bytes /\ Len(ha) = Len(head) + Len(a)
       /\ ha \o b \in Bytes /\ spki = (ha \o b) \o << >>
       /\ hab \in Bytes /\ Len(hab) = Len(ha) + Len(headB)
       /\ spki = hab \o k
  <2>1. ha \in Bytes /\ Len(ha) = Len(head) + Len(a)
    BY <1>7, <1>10, BytesJoin
  <2> HIDE DEF ha, headB
  <2>2. ha \o b \in Bytes /\ hab \in Bytes /\ Len(hab) = Len(ha) + Len(headB)
    BY <1>8, <2>1, BytesJoin
  <2>3. (ha \o b) \o << >> = ha \o b
    BY <2>2, NothingAround
  <2>4. ha \o (headB \o k) = (ha \o headB) \o k
    BY <1>6, <1>8, <2>1, BytesAssociate
  <2>5. spki = ha \o b
    BY <1>11 DEF ha
  <2>6. QED
    BY <1>8, <2>1, <2>2, <2>3, <2>4, <2>5
<1> HIDE DEF c, ha
<1>13. ReadHeader(SequenceTag, spki, Len(head) + 1)
          = {[length |-> 2, next |-> Len(head) + Len(headA) + 1]}
  <2>1. Len(o) < Power(Base, MaxLengthBytes)
    BY <1>1, <1>3
  <2>2. IsFound(SequenceTag, head, o, b)
    BY <1>1, <1>3, <1>8, <1>10, <2>1, HeaderRead
  <2>3. ReadHeader(SequenceTag, head \o a \o b, Len(head) + 1)
           = {[length |-> Len(o), next |-> Len(head) + Len(headA) + 1]}
    BY <2>2 DEF IsFound, a
  <2>4. QED
    BY <1>3, <1>11, <2>3
<1>14. ReadHeader(BitStringTag, spki, Len(ha) + 1)
          = {[length |-> Len(k), next |-> Len(hab) + 1]}
  <2>1. Len(k) < Power(Base, MaxLengthBytes)
    BY <1>1, <1>6
  <2>2. IsFound(BitStringTag, ha, k, << >>)
    BY <1>1, <1>3, <1>6, <1>12, <2>1, HeaderRead
  <2>3. ReadHeader(BitStringTag, ha \o b \o << >>, Len(ha) + 1)
           = {[length |-> Len(k), next |-> Len(ha) + Len(headB) + 1]}
    BY <2>2 DEF IsFound, b
  <2>4. QED
    BY <1>12, <2>3
<1> HIDE DEF hab, headA, headB
<1>15. /\ Len(hab) \in Nat /\ Len(spki) = Len(hab) + Len(k)
       /\ spki[Len(hab) + 1] = 0
       /\ SubSeq(spki, Len(hab) + 2, Len(hab) + Len(k)) = u
  <2>1. Len(hab) \in Nat /\ Len(spki) = Len(hab) + Len(k)
    BY <1>6, <1>12, BytesJoin
  <2>2. StandsBetween(hab, k, << >>) /\ hab \o k \o << >> = spki
    BY <1>3, <1>6, <1>10, <1>12, BytesBetween, NothingAround
  <2>3. spki[Len(hab) + 1] = 0
    BY <1>1, <1>6, <2>2 DEF StandsBetween
  <2>4. hab \o z \in Bytes /\ Len(hab \o z) = Len(hab) + 1
    <3>1. hab \o z \in Bytes /\ Len(hab \o z) = Len(hab) + Len(z)
      BY <1>3, <1>12, BytesJoin
    <3>2. QED
      BY <1>3, <3>1
  <2>5. ((hab \o z) \o u) \o << >> = spki
    <3>. hab \in Bytes /\ z \in Bytes /\ u \in Bytes
      BY <1>2, <1>3, <1>12
    <3>1. (hab \o z) \o u = hab \o (z \o u)
      BY BytesAssociate
    <3>2. (hab \o z) \o u = spki
      BY <1>5, <1>12, <3>1
    <3>3. spki \o << >> = spki
      BY <1>10, NothingAround
    <3>4. QED
      BY <3>2, <3>3
  <2>6. StandsBetween(hab \o z, u, << >>)
    BY <1>2, <1>3, <2>4, BytesBetween
  <2>7. SubSeq(spki, Len(hab) + 1 + 1, Len(hab) + 1 + Len(u)) = u
    BY <2>4, <2>5, <2>6 DEF StandsBetween
  <2>8. Len(hab) + 1 + 1 = Len(hab) + 2 /\ Len(hab) + 1 + Len(u) = Len(hab) + Len(k)
    BY <1>1, <1>2, <1>6, <2>1
  <2>9. QED
    BY <2>1, <2>3, <2>7, <2>8
<1> DEFINE Unused(h) == h.next <= Len(spki) /\ spki[h.next] = 0
           Point(h) == SubSeq(spki, h.next + 1, Min({h.next + h.length - 1, Len(spki)}))
           algorithm == UNION {ReadHeader(SequenceTag, spki, h.next) :
                                  h \in ReadHeader(SequenceTag, spki, 1)}
           bits == UNION {ReadHeader(BitStringTag, spki, h.next + h.length) : h \in algorithm}
           g == [length |-> Len(k), next |-> Len(hab) + 1]
<1>16. algorithm = {[length |-> 2, next |-> Len(head) + Len(headA) + 1]}
  <2> DEFINE x == [length |-> Len(c), next |-> Len(head) + 1]
  <2>1. ReadHeader(SequenceTag, spki, 1) = {x} /\ x.next = Len(head) + 1
    BY <1>10
  <2> HIDE DEF x
  <2>2. algorithm = ReadHeader(SequenceTag, spki, x.next)
    BY <2>1
  <2>3. QED
    BY <1>13, <2>1, <2>2
<1>17. bits = {g}
  <2> HIDE DEF algorithm
  <2>1. Len(head) + Len(headA) + 1 + 2 = Len(ha) + 1
    BY <1>7, <1>10, <1>12
  <2>2. QED
    BY <1>14, <1>16, <2>1
<1>18. Unused(g) /\ Point(g) = u
  <2>1. g.next = Len(hab) + 1 /\ g.length = Len(k)
    OBVIOUS
  <2>2. Len(k) \in Nat \ {0}
    BY <1>1, <1>6
  <2> HIDE DEF g
  <2>3. /\ g.next <= Len(spki)
        /\ g.next + g.length - 1 = Len(spki) /\ g.next + 1 = Len(hab) + 2
        /\ Len(spki) \in Nat
    BY <1>15, <2>1, <2>2
  <2>4. Min({Len(spki), Len(spki)}) = Len(spki)
    BY <2>3 DEF Min
  <2>5. Point(g) = SubSeq(spki, Len(hab) + 2, Len(hab) + Len(k))
    BY <1>15, <2>3, <2>4
  <2>6. QED
    BY <1>15, <2>1, <2>3, <2>5
<1>19. ExtractUncompressedPoint(spki) =
          {p \in {Point(h) : h \in {h \in bits : Unused(h)}} :
              Len(p) = 1 + PointWidth /\ Head(p) = 4}
  BY DEF ExtractUncompressedPoint
<1> HIDE DEF bits, Unused, Point, g
<1>20. ExtractUncompressedPoint(spki) = {u}
  <2>1. {h \in bits : Unused(h)} = {g}
    BY <1>17, <1>18
  <2>2. {Point(h) : h \in {h \in bits : Unused(h)}} = {u}
    BY <1>18, <2>1
  <2>3. QED
    BY <1>2, <1>19, <2>2
<1>21. DeriveAddressFromSpki(spki) = {d}
  BY <1>2, <1>20 DEF DeriveAddressFromSpki
<1>22. QED
  BY <1>21 DEF spki
-----------------------------------------------------------------------------
(* The group: a signature, normalised, still names its key. *)

(* Reckoning with multiples of the order. *)
LEMMA Residue ==
    ASSUME NEW n \in Nat \ {0}, NEW q \in Int, NEW r \in 0 .. n - 1
    PROVE  (n * q + r) % n = r
OBVIOUS

LEMMA ResidueOf ==
    ASSUME NEW n \in Nat \ {0}, NEW a \in Int
    PROVE  /\ a % n \in 0 .. n - 1 /\ a \div n \in Int
           /\ a = n * (a \div n) + (a % n)
OBVIOUS

(* A scalar times its inverse is one more than a multiple of the order. *)
LEMMA InverseTimes ==
    ASSUME NEW a \in Scalars
    PROVE  /\ InverseOf(a) \in Scalars /\ Order \in Nat \ {0}
           /\ a \in Int /\ InverseOf(a) \in Int
           /\ \E j \in Int : a * InverseOf(a) = Order * j + 1
<1>1. Order \in Nat \ {0} /\ a \in Int /\ Scalars \subseteq Int
  BY CurveAssumption DEF Scalars
<1>2. \E b \in Scalars : (a * b) % Order = 1
  BY CurveAssumption
<1>3. InverseOf(a) \in Scalars /\ (a * InverseOf(a)) % Order = 1
  BY <1>2 DEF InverseOf
<1>4. a * InverseOf(a) \in Int
  <2>1. a \in Int /\ InverseOf(a) \in Int
    BY <1>1, <1>3
  <2>2. QED
    BY <2>1
<1> DEFINE p == a * InverseOf(a)
<1> HIDE DEF p
<1>5. p = Order * (p \div Order) + 1 /\ p \div Order \in Int
  <2>1. p \in Int /\ p % Order = 1
    BY <1>3, <1>4 DEF p
  <2>2. QED
    BY <1>1, <2>1, ResidueOf
<1>6. QED
  BY <1>1, <1>3, <1>5 DEF p

(* s times its nonce is the digest and r times the key, but for multiples  *)
(* of the order. *)
LEMMA Signed ==
    ASSUME NEW n \in Int, NEW j \in Int, NEW k \in Int, NEW i \in Int, NEW w \in Int, NEW q \in Int,
           k * i = n * j + 1
    PROVE  (i * w - n * q) * k = w + n * (j * w - q * k)
<1>1. (i * w - n * q) * k = (k * i) * w - n * q * k
  OBVIOUS
<1>2. (n * j + 1) * w = n * (j * w) + w
  OBVIOUS
<1>3. n * (j * w - q * k) = n * (j * w) - n * q * k
  OBVIOUS
<1>4. QED
  BY <1>1, <1>2, <1>3

(* The inverse of r takes the key out of r times the key. *)
LEMMA Solved ==
    ASSUME NEW n \in Nat \ {0}, NEW j \in Int, NEW r \in Int, NEW i \in Int, NEW d \in 0 .. n - 1,
           NEW m \in Int, r * i = n * j + 1
    PROVE  (i * (r * d + n * m)) % n = d
<1>1. i * (r * d + n * m) = (r * i) * d + n * (i * m)
  OBVIOUS
<1>2. (n * j + 1) * d = n * (j * d) + d
  OBVIOUS
<1>3. n * (j * d) + n * (i * m) = n * (j * d + i * m)
  OBVIOUS
<1>4. i * (r * d + n * m) = n * (j * d + i * m) + d
  BY <1>1, <1>2, <1>3
<1>5. j * d + i * m \in Int
  OBVIOUS
<1>6. QED
  BY <1>4, <1>5, Residue

(* The other half: the negatives of s and of the nonce. *)
LEMMA Negated ==
    ASSUME NEW n \in Int, NEW s \in Int, NEW k \in Int
    PROVE  (n - s) * (n - k) = s * k + n * (n - s - k)
OBVIOUS

(* A genuine signature, in its low half, names the key by some id. *)
LEMMA SomeIdRecovers ==
    ASSUME NEW d \in Scalars, NEW z \in 0 .. Order - 1,
           NEW sig \in GenuineSignatures(d, z)
    PROVE  /\ sig = [r |-> sig.r, s |-> sig.s]
           /\ sig.r \in Scalars /\ sig.s \in Scalars
           /\ \E id \in 0 .. 3 : d \in RecoverKey(id, sig.r, NormaliseS(sig.s), z)
<1> DEFINE n == Order
<1>1. PICK k \in Scalars :
         /\ sig = [r |-> X[k] % n, s |-> (InverseOf(k) * (z + (X[k] % n) * d)) % n]
         /\ sig.r # 0 /\ sig.s # 0
  BY DEF GenuineSignatures
<1> DEFINE r == X[k] % n
           i == InverseOf(k)
           w == z + r * d
           s == (i * w) % n
           q == (i * w) \div n
<1>2. sig = [r |-> r, s |-> s] /\ sig.r = r /\ sig.s = s /\ r # 0 /\ s # 0
  BY <1>1
<1>3. /\ n \in Nat \ {0} /\ k \in Int /\ i \in Int /\ d \in 0 .. n - 1 /\ d \in Int
      /\ z \in Int /\ X[k] \in 0 .. 2 * n - 1
  <2>1. n \in Nat \ {0} /\ k \in Int /\ i \in Int
    BY InverseTimes
  <2>2. X[k] \in 0 .. 2 * n - 1
    BY CurveAssumption
  <2>3. QED
    BY <2>1, <2>2 DEF Scalars
<1>4. r \in Scalars /\ r \in Int /\ X[k] \in {r, r + n}
  <2> DEFINE x == X[k]
             c == x \div n
  <2>1. r = x % n
    OBVIOUS
  <2> HIDE DEF n, r, x
  <2>2. r \in 0 .. n - 1 /\ c \in Int /\ x = n * c + r
    <3>1. n \in Nat \ {0} /\ x \in Int
      BY <1>3 DEF x
    <3>2. QED
      BY <2>1, <3>1, ResidueOf
  <2> HIDE DEF c
  <2>3. c \in {0, 1}
    BY <1>3, <2>2 DEF x
  <2>4. x = r \/ x = n + r
    BY <1>3, <2>2, <2>3
  <2>5. QED
    BY <1>2, <1>3, <2>2, <2>4 DEF x, Scalars, n
<1> HIDE DEF n, r
<1>5. w \in Int /\ i * w \in Int
  BY <1>3, <1>4
<1>6. s \in 0 .. n - 1 /\ q \in Int /\ i * w = n * q + s
  <2> HIDE DEF i, w
  <2>1. QED
    BY <1>3, <1>5, ResidueOf
<1> HIDE DEF s, q, w
<1>7. s \in Scalars
  BY <1>2, <1>6 DEF Scalars, n
<1>8. PICK m \in Int : s * k - z = r * d + n * m
  <2>1. PICK j \in Int : k * i = n * j + 1
    BY InverseTimes DEF n
  <2> HIDE DEF i
  <2>2. s = i * w - n * q
    BY <1>3, <1>5, <1>6
  <2>3. s * k = w + n * (j * w - q * k)
    BY <1>3, <1>5, <1>6, <2>1, <2>2, Signed
  <2>4. s * k - z = r * d + n * (j * w - q * k)
    BY <1>3, <1>4, <1>5, <1>6, <2>3 DEF w
  <2>5. j * w - q * k \in Int
    BY <1>3, <1>5, <1>6
  <2>6. QED
    BY <2>4, <2>5
<1> HIDE DEF i
<1>9. PICK l \in Scalars, m2 \in Int :
         X[l] = X[k] /\ NormaliseS(s) * l - z = r * d + n * m2
  <2>1. CASE ~(s > HalfOrder)
    BY <1>8, <2>1 DEF NormaliseS
  <2>2. CASE s > HalfOrder
    <3>1. NormaliseS(s) = n - s
      BY <2>2 DEF NormaliseS, n
    <3>2. n - k \in Scalars /\ X[n - k] = X[k]
      <4>1. n - k \in Scalars
        BY <1>3 DEF Scalars, n
      <4>2. QED
        BY <4>1, CurveAssumption DEF n
    <3>3. (n - s) * (n - k) = s * k + n * (n - s - k)
      BY <1>3, <1>6, Negated
    <3>4. (n - s) * (n - k) - z = r * d + n * (m + (n - s - k))
      BY <1>3, <1>4, <1>6, <1>8, <3>3
    <3>5. m + (n - s - k) \in Int
      BY <1>3, <1>6, <1>8
    <3>6. QED
      BY <3>1, <3>2, <3>4, <3>5
  <2>3. QED
    BY <2>1, <2>2
<1>10. (InverseOf(r) * (NormaliseS(s) * l - z)) % Order = d
  <2>1. PICK j \in Int : r * InverseOf(r) = n * j + 1 /\ InverseOf(r) \in Int
    BY <1>4, InverseTimes DEF n
  <2>2. (InverseOf(r) * (r * d + n * m2)) % n = d
    BY <1>3, <1>4, <2>1, Solved
  <2>3. QED
    BY <1>9, <2>2 DEF n
<1>11. Odd[l] \in BOOLEAN
  BY CurveAssumption
<1>12. \E id \in 0 .. 3 : X[l] = (IF id >= 2 THEN r + Order ELSE r) /\ (Odd[l] <=> id % 2 = 1)
  <2>1. 0 % 2 = 0 /\ 1 % 2 = 1 /\ 2 % 2 = 0 /\ 3 % 2 = 1
    OBVIOUS
  <2>2. X[l] = r \/ X[l] = r + Order
    BY <1>4, <1>9 DEF n
  <2>3. PICK h \in {0, 2} : X[l] = (IF h >= 2 THEN r + Order ELSE r)
    BY <2>2
  <2>4. h \in 0 .. 3 /\ h + 1 \in 0 .. 3 /\ (h >= 2 <=> h + 1 >= 2)
        /\ h % 2 = 0 /\ (h + 1) % 2 = 1
    BY <2>1
  <2>5. CASE Odd[l]
    BY <2>3, <2>4, <2>5
  <2>6. CASE ~Odd[l]
    BY <2>3, <2>4, <2>6
  <2>7. QED
    BY <2>5, <2>6
<1>13. \E id \in 0 .. 3 : d \in RecoverKey(id, r, NormaliseS(s), z)
  <2>1. PICK id \in 0 .. 3 :
           X[l] = (IF id >= 2 THEN r + Order ELSE r) /\ (Odd[l] <=> id % 2 = 1)
    BY <1>12
  <2>2. Odd[l] = (id % 2 = 1)
    BY <1>11, <2>1
  <2>3. d \in RecoverKey(id, r, NormaliseS(s), z)
    BY <1>10, <2>1, <2>2 DEF RecoverKey
  <2>4. QED
    BY <2>3
<1>14. QED
  BY <1>2, <1>4, <1>7, <1>13

(* The least of the ids that name the wallet is one, and so is its v. *)
LEMMA OneV ==
    ASSUME NEW r, NEW s, NEW z, NEW address,
           \E id \in 0 .. 3 : address \in RecoverKey(id, r, s, z)
    PROVE  \E v \in {27, 28} : RecoverV(r, s, z, address) = {v}
<1> DEFINE ids == {i \in 0 .. 3 : address \in RecoverKey(i, r, s, z)}
<1>1. ids \in SUBSET Nat /\ ids # {} /\ \A i \in ids : i \in 0 .. 3
  OBVIOUS
<1>2. RecoverV(r, s, z, address) = {27 + (id % 2) : id \in {i \in ids : \A j \in ids : i <= j}}
  BY DEF RecoverV
<1> HIDE DEF ids
<1>3. PICK i \in ids : \A j \in ids : i <= j
  BY <1>1, Least
<1>4. {k \in ids : \A j \in ids : k <= j} = {i}
  <2>1. ASSUME NEW k \in ids, \A j \in ids : k <= j
        PROVE  k = i
    BY <1>1, <1>3, <2>1
  <2>2. QED
    BY <1>3, <2>1
<1>5. RecoverV(r, s, z, address) = {27 + (i % 2)}
  BY <1>2, <1>4
<1>6. 27 + (i % 2) \in {27, 28}
  BY <1>1, <1>3
<1>7. QED
  BY <1>5, <1>6

(* The DER of a genuine signature comes out as one header. *)
LEMMA GenuinePasses ==
    ASSUME NEW d \in Scalars, NEW z \in 0 .. Order - 1,
           NEW sig \in GenuineSignatures(d, z)
    PROVE  \E v \in {27, 28}, s \in {sig.s, Order - sig.s} :
              Pipeline(EncodeSignatureDer(sig.r, sig.s), z, d)
                  = {[v |-> v, r |-> sig.r, s |-> s]}
<1> DEFINE der == EncodeSignatureDer(sig.r, sig.s)
           s == NormaliseS(sig.s)
<1>1. /\ sig = [r |-> sig.r, s |-> sig.s] /\ sig.r \in Scalars /\ sig.s \in Scalars
      /\ \E id \in 0 .. 3 : d \in RecoverKey(id, sig.r, s, z)
  BY SomeIdRecovers
<1>2. ParseSignatureDer(der) = {sig}
  BY <1>1, SignatureIsParsed
<1>3. PICK v \in {27, 28} : RecoverV(sig.r, s, z, d) = {v}
  BY <1>1, OneV
<1>4. s \in {sig.s, Order - sig.s}
  BY DEF NormaliseS
<1> HIDE DEF der, s
<1>5. Pipeline(der, z, d) = {[v |-> v, r |-> sig.r, s |-> s]}
  <2>1. Pipeline(der, z, d) = {[v |-> u, r |-> sig.r, s |-> s] : u \in RecoverV(sig.r, s, z, d)}
    BY <1>2 DEF Pipeline, s
  <2>2. QED
    BY <1>3, <2>1
<1>6. QED
  BY <1>4, <1>5 DEF der

(* The round trips of keys and signatures, together. *)
LEMMA NothingIsLost ==
    ASSUME NEW d \in Scalars
    PROVE  d \in Lossless
BY KeyIsReadBack, GenuinePasses DEF Lossless

(* A signer whose key source sends what it signed, undamaged, starts with  *)
(* any key and refuses no signature of any digest, whatever nonce was drawn. *)
THEOREM GenuineIsAlwaysAnswered == KeySpec => []GenuineSignatureIsAnswered
<1>1. KeyInit => key \in Keys
  BY DEF KeyInit
<1>2. key \in Keys /\ [KeyNext]_keyVars => (key \in Keys)'
  BY DEF KeyNext, keyVars, Boot, Stop, Request, Answer, KeySourceFails, KeyReplaced
<1>3. key \in Keys => GenuineSignatureIsAnswered
  BY NothingIsLost, KeyAssumption DEF GenuineSignatureIsAnswered
<1>4. QED
  BY <1>1, <1>2, <1>3, PTL DEF KeySpec
=============================================================================
