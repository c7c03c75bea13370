--------------------------- MODULE SignatureCodec ---------------------------
(***************************************************************************)
(* The DER codec of signer-service: what the key source sends and the      *)
(* signer reads.  Bytes are numbers below Base, offsets count from 1.  A   *)
(* reader returns the set of its results: empty where the code throws.     *)
(***************************************************************************)
EXTENDS CurveGroup, Numerals, SequencesExt

CONSTANTS
    Base,         \* one more than the largest byte
    PointWidth,   \* bytes of the x and y of an uncompressed point
    IntegerTag, BitStringTag, SequenceTag

TopBit == Base \div 2
MaxLengthBytes == 4

(* A point holds any scalar, and four bytes the length of any of the       *)
(* sequences written here. *)
ASSUME CodecAssumption ==
    /\ Base \in Nat /\ Base > 8 /\ Base % 2 = 0
    /\ PointWidth \in Nat \ {0} /\ Order <= Power(Base, PointWidth)
    /\ 2 * PointWidth + 16 < Power(Base, MaxLengthBytes)
    /\ {IntegerTag, BitStringTag, SequenceTag} \subseteq 0 .. Base - 1

Bytes == Seq(0 .. Base - 1)

(* Big-endian, without leading zeros. *)
Digits(v) == DigitsOf(Base, v, Width(Base, v))

BytesValue(bytes) == ValueOf(Base, bytes)
-----------------------------------------------------------------------------
(* Writing *)

EncodeLength(n) ==
    IF n < TopBit THEN <<n>> ELSE <<TopBit + Width(Base, n)>> \o Digits(n)

Encode(tag, content) == <<tag>> \o EncodeLength(Len(content)) \o content

(* Mutant: the sign bit is forgotten. *)
ToUnsignedInteger(v) == Digits(v)

(* A leading zero keeps a number with its top bit set positive. *)
ToDerInteger(v) ==
    IF Head(Digits(v)) >= TopBit THEN <<0>> \o Digits(v) ELSE Digits(v)

EncodeSignatureDer(r, s) ==
    Encode(SequenceTag, Encode(IntegerTag, ToDerInteger(r)) \o
                        Encode(IntegerTag, ToDerInteger(s)))

(* The public key: an algorithm identifier, here two object identifiers of *)
(* one byte each, and the uncompressed point in a bit string. *)
Uncompressed(d) == <<4>> \o DigitsOf(Base, d, PointWidth)

BuildSpkiDer(d) ==
    Encode(SequenceTag, Encode(SequenceTag, <<1, 2>>) \o
                        Encode(BitStringTag, <<0>> \o Uncompressed(d)))
-----------------------------------------------------------------------------
(* Reading *)

ReadLength(der, at) ==
    IF at > Len(der) THEN {}
    ELSE IF der[at] < TopBit THEN {[length |-> der[at], next |-> at + 1]}
    ELSE LET count == der[at] - TopBit IN
         IF count \in 1 .. MaxLengthBytes /\ at + count <= Len(der)
         THEN {[length |-> BytesValue(SubSeq(der, at + 1, at + count)),
                next   |-> at + count + 1]}
         ELSE {}

ReadHeader(tag, der, at) ==
    IF at <= Len(der) /\ der[at] = tag THEN ReadLength(der, at + 1) ELSE {}

(* Not empty, not cut off, not negative; it need not be minimal. *)
ReadInteger(der, at) ==
    {[value |-> BytesValue(SubSeq(der, h.next, h.next + h.length - 1)),
      next  |-> h.next + h.length] :
        h \in {g \in ReadHeader(IntegerTag, der, at) :
                 /\ g.length > 0 /\ g.next + g.length <= Len(der) + 1
                 /\ der[g.next] < TopBit}}

(* One sequence, to the last byte, of two numbers and nothing more, both   *)
(* in the range of the scalars. *)
ParseSignatureDer(der) ==
    LET outer == {h \in ReadHeader(SequenceTag, der, 1) : h.next + h.length = Len(der) + 1}
        first == UNION {ReadInteger(der, h.next) : h \in outer}
        last  == {i \in UNION {ReadInteger(der, h.next) : h \in first} : i.next = Len(der) + 1}
    IN {[r |-> i.value, s |-> j.value] :
           i \in {h \in first : h.value \in Scalars}, j \in {h \in last : h.value \in Scalars}}

(* The walk to the point: the outer length is read and not used, and what  *)
(* follows the bit string is ignored. *)
ExtractUncompressedPoint(spki) ==
    LET Unused(h) == h.next <= Len(spki) /\ spki[h.next] = 0
        Point(h)  == SubSeq(spki, h.next + 1, Min({h.next + h.length - 1, Len(spki)}))
        algorithm == UNION {ReadHeader(SequenceTag, spki, h.next) :
                               h \in ReadHeader(SequenceTag, spki, 1)}
        bits      == UNION {ReadHeader(BitStringTag, spki, h.next + h.length) : h \in algorithm}
    IN {p \in {Point(h) : h \in {b \in bits : Unused(b)}} :
          Len(p) = 1 + PointWidth /\ Head(p) = 4}

(* The addresses of the keys with such a point. *)
DeriveAddressFromSpki(spki) ==
    {BytesValue(Tail(p)) : p \in ExtractUncompressedPoint(spki)}

(* A transmission with one fault: a byte changed, lost or added. *)
Damaged(bytes) ==
    {[bytes EXCEPT ![i] = b] : i \in DOMAIN bytes, b \in 0 .. Base - 1}
    \cup {RemoveAt(bytes, i) : i \in DOMAIN bytes}
    \cup {InsertAt(bytes, i, b) : i \in 1 .. Len(bytes) + 1, b \in 0 .. Base - 1}
=============================================================================
