-------------------------------- MODULE EcText --------------------------------
(***************************************************************************)
(* The textbook's elliptic curves and ECDSA, over plain residues: what     *)
(* Ec is compared with.                                                    *)
(***************************************************************************)
EXTENDS Integers

IsPrime(x) == x > 1 /\ \A d \in 2 .. x - 1 : x % d # 0

Reciprocal(x, m) == CHOOSE i \in 0 .. m - 1 : (x * i) % m = 1

Infinity == [x |-> 0, y |-> 0]

\* The sum of two points of y^2 = x^3 + a x + b.
TextAdd(c, P, Q) ==
    LET Sum(slope) ==
            LET x == (slope * slope - P.x - Q.x) % c.p
            IN  [x |-> x, y |-> (slope * (P.x - x) - P.y) % c.p]
    IN  IF P = Infinity THEN Q ELSE IF Q = Infinity THEN P
        ELSE IF P.x # Q.x
             THEN Sum((Q.y - P.y) * Reciprocal((Q.x - P.x) % c.p, c.p))
        ELSE IF (P.y + Q.y) % c.p = 0 THEN Infinity
        ELSE Sum((3 * P.x * P.x + c.a) * Reciprocal((2 * P.y) % c.p, c.p))

\* The points of the curve are a group under TextAdd.  A point's inverse is its
\* mirror; what takes a proof is that sums stay on the curve and associate.
Points(c) ==
    {Infinity} \union
    {P \in [x : 0 .. c.p - 1, y : 0 .. c.p - 1] :
        (P.y * P.y - (P.x * P.x * P.x + c.a * P.x + c.b)) % c.p = 0}

IsGroup(c) ==
    \A P, Q \in Points(c) :
        /\ TextAdd(c, P, Q) \in Points(c)
        /\ \A R \in Points(c) :
               TextAdd(c, TextAdd(c, P, Q), R) = TextAdd(c, P, TextAdd(c, Q, R))

TextMul(c, n, P) ==
    LET sum[i \in 0 .. n] == IF i = 0 THEN Infinity ELSE TextAdd(c, sum[i - 1], P)
    IN  sum[n]

\* For R and S in 1 .. N - 1.
TextVerify(c, Q, R, S, h) ==
    LET w == Reciprocal(S, c.N)
        P == TextAdd(c, TextMul(c, (h * w) % c.N, c.G), TextMul(c, (R * w) % c.N, Q))
    IN  P # Infinity /\ P.x % c.N = R
===============================================================================
