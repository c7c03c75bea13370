------------------------------ MODULE Numerals ------------------------------
(* Numbers written in digits of any base, the most significant first: the  *)
(* decimals of prices and the bytes of DER and of points.                  *)
EXTENDS Naturals, Sequences

(* The number that a sequence of digits writes. *)
ValueOf(base, digits) ==
    LET value[n \in 0..Len(digits)] ==
            IF n = 0 THEN 0 ELSE base * value[n - 1] + digits[n]
    IN value[Len(digits)]

Zeros(n) == [i \in 1..n |-> 0]

(* A one and n zeros. *)
Power(base, n) == ValueOf(base, <<1>> \o Zeros(n))

(* The last n digits of a number, zeros in front if it has fewer. *)
DigitsOf(base, v, n) == [i \in 1..n |-> (v \div Power(base, n - i)) % base]

(* How many digits a number has without leading zeros. *)
Width(base, v) ==
    CHOOSE n \in 1..(v + 1) :
        v < Power(base, n) /\ (n > 1 => Power(base, n - 1) <= v)
=============================================================================
