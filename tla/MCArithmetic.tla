----------------------------- MODULE MCArithmetic -----------------------------
(* Constants for Arithmetic. *)
EXTENDS Arithmetic, TLC

\* Odd moduli of one, two and three digits of two bits, around the ends of each
\* number of digits, with every pair of factors of three digits.
MCModuli  == {1, 3, 5, 7, 13, 15, 17, 29, 31, 33, 47, 61, 63}
MCFactors == 0 .. W - 1

\* With digits of a byte, as in the code, each odd byte has its inverse, so that
\* every entry of inv256 is used.
Bytes == INSTANCE Bn WITH Base <- 256, Bits <- 8

ASSUME \A x \in 0 .. 255 : x % 2 = 1 => (x * Bytes!inverse(x)) % 256 = 1

\* Coordinates of two digits, scalars of three, on two curves over the field of
\* 13 elements: one of order 11, so that a coordinate may exceed N, and one of
\* order 17 with a generator on the y axis.  There is no curve of type 64.
MCTable == 1 :> [p |-> 13, a |-> 7, b |-> 7, N |-> 11, G |-> [x |-> 2, y |-> 4]]
           @@ 2 :> [p |-> 13, a |-> 2, b |-> 4, N |-> 17, G |-> [x |-> 0, y |-> 2]]
===============================================================================
