-------------------------------- MODULE MonMul --------------------------------
(***************************************************************************)
(* The loop of bn_mon_mul, digit by digit: what is in t when only some of  *)
(* the digits of b have been used.                                         *)
(***************************************************************************)
EXTENDS Bn

CONSTANTS
    W,          \* Base^n
    Moduli,     \* the odd moduli, below W
    Factors     \* values of a and b: any n digits, reduced or not

WidthAssumption   == W \in Nat \ {0}
ModuliAssumption  == \A m \in Moduli : m \in 1 .. W - 1 /\ m % 2 = 1
FactorsAssumption == Factors \subseteq 0 .. W - 1

VARIABLES
    a, b, N,
    t,         \* the array t
    rest,      \* the digits of b that are still to come
    weight     \* Base^(n - 1 - i), the weight of the digit at hand

vars == <<a, b, N, t, rest, weight>>

Init ==
    /\ a \in Factors /\ b \in Factors /\ N \in Moduli
    /\ t = 0 /\ rest = b /\ weight = 1

MulAddDig ==
    /\ weight < W
    /\ t' = bn_mon_muladd_dig(t, a, rest % Base, N, W)
    /\ rest' = rest \div Base
    /\ weight' = weight * Base
    /\ UNCHANGED <<a, b, N>>

Next == MulAddDig

Spec == Init /\ [][Next]_vars

-----------------------------------------------------------------------------
(* Properties. *)

\* Types and bounds: t never outgrows its n digits, nor the modulus by more
\* than the factor a does, so that the one subtraction of bn_reduce is enough
\* whenever a is reduced.
TypeOK ==
    /\ a \in 0 .. W - 1 /\ b \in 0 .. W - 1 /\ N \in Moduli
    /\ t \in 0 .. W - 1
    /\ rest \in Nat /\ weight \in Nat \ {0}

\* A reduced factor gives a reduced product, with every digit of b.
Reduced == a < N => t < N

\* t is a times the digits of b used so far, divided by their weight, modulo
\* N; also when a is not reduced, as a coordinate or a half of a signature
\* read from a file may be.
Congruent(x, y) == (x - y) % N = 0

Residue == Congruent(t * weight, a * (b - rest * weight))

===============================================================================
