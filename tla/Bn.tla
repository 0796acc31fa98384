---------------------------------- MODULE Bn ----------------------------------
(***************************************************************************)
(* Arithmetic modulo an odd N on big-endian arrays of n digits, as bn.c    *)
(* does it.  An array is modelled by the number it stands for, which is    *)
(* below W == Base^n: a carry out of the first digit is what exceeds W,    *)
(* and what an operation then leaves in the array is the rest modulo W.    *)
(*                                                                         *)
(* In the code Base is 256.  The table inv256 serves every smaller power   *)
(* of two as well, since an inverse modulo 256 is one modulo its divisors. *)
(***************************************************************************)
EXTENDS Integers, Sequences

CONSTANTS
    Base,      \* the values of one digit
    Bits       \* the bits of one digit

ASSUME BaseAssumption == Base \in Nat \ {0, 1}

\* x to the n.
Pow(x, n) ==
    LET p[i \in 0 .. n] == IF i = 0 THEN 1 ELSE p[i - 1] * x
    IN  p[n]

ASSUME BitsAssumption == Bits \in Nat \ {0} /\ Base = Pow(2, Bits)

\* Below 2 N one subtraction reduces; above it the result is still not below N.
bn_reduce(d, N) == IF d >= N THEN d - N ELSE d

bn_add(a, b, N, W) ==
    bn_reduce(IF a + b >= W THEN (a + b - W - N) % W ELSE a + b, N)

bn_sub(a, b, N, W) == IF a < b THEN (a - b + N) % W ELSE a - b

-----------------------------------------------------------------------------
\* The inverses modulo 256 of 1, 3, 5, ... 255.
inv256 == <<
      1, 171, 205, 183,  57, 163, 197, 239, 241,  27,  61, 167,  41,  19,  53, 223,
    225, 139, 173, 151,  25, 131, 165, 207, 209, 251,  29, 135,   9, 243,  21, 191,
    193, 107, 141, 119, 249,  99, 133, 175, 177, 219, 253, 103, 233, 211, 245, 159,
    161,  75, 109,  87, 217,  67, 101, 143, 145, 187, 221,  71, 201, 179, 213, 127,
    129,  43,  77,  55, 185,  35,  69, 111, 113, 155, 189,  39, 169, 147, 181,  95,
     97,  11,  45,  23, 153,   3,  37,  79,  81, 123, 157,   7, 137, 115, 149,  63,
     65, 235,  13, 247, 121, 227,   5,  47,  49,  91, 125, 231, 105,  83, 117,  31,
     33, 203, 237, 215,  89, 195, 229,  15,  17,  59,  93, 199,  73,  51,  85, 255 >>

inverse(x) == inv256[(x \div 2) + 1]

ASSUME InverseAssumption ==
    \A x \in 0 .. Base - 1 :
        x % 2 = 1 => inverse(x) \in Nat /\ (x * inverse(x)) % Base = 1

\* Mutant: the carry out of the first digit is forgotten.
bn_mon_muladd_digCarryless(d, a, b, N, W) ==
    LET z   == (-(((d % Base) + (a % Base) * b) * inverse(N % Base))) % Base
        dig == (d + a * b + N * z) \div Base
    IN  bn_reduce(dig % W, N)

\* (d + a b) / Base modulo N, for one digit b: the multiple z of N makes the
\* last digit of the sum zero.  The loop over the digits is one division.
bn_mon_muladd_dig(d, a, b, N, W) ==
    LET z   == (-(((d % Base) + (a % Base) * b) * inverse(N % Base))) % Base
        dig == (d + a * b + N * z) \div Base
    IN  bn_reduce(IF dig >= W THEN (dig - N) % W ELSE dig, N)

\* a b / W modulo N, from the last digit of b to the first.
bn_mon_mul(a, b, N, n) ==
    LET t[i \in 0 .. n] ==
            IF i = 0 THEN 0
            ELSE bn_mon_muladd_dig(t[i - 1], a, (b \div Pow(Base, i - 1)) % Base, N, Pow(Base, n))
    IN  t[n]

\* d W modulo N, by doubling.
bn_to_mon(d, N, n) ==
    LET t[i \in 0 .. Bits * n] ==
            IF i = 0 THEN d
            ELSE LET x == t[i - 1] IN bn_add(x, x, N, Pow(Base, n))
    IN  t[Bits * n]

bn_from_mon(d, N, n) == bn_mon_mul(d, 1, N, n)

\* a to the e, square and multiply from the first bit on.
bn_mon_exp(a, N, n, e) ==
    LET d[i \in 0 .. Bits * n] ==
            IF i = 0 THEN bn_to_mon(1, N, n)
            ELSE LET x == d[i - 1]
                     t == bn_mon_mul(x, x, N, n)
                 IN  IF (e \div Pow(2, Bits * n - i)) % 2 = 1 THEN bn_mon_mul(t, a, N, n) ELSE t
    IN  d[Bits * n]

\* a to the N - 2, which is 1 / a when N is prime; N - 2 wraps below 2.
bn_mon_inv(a, N, n) == bn_mon_exp(a, N, n, (N - 2) % Pow(Base, n))
===============================================================================
