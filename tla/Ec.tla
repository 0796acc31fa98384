---------------------------------- MODULE Ec ----------------------------------
(***************************************************************************)
(* ECDSA as ec.c computes it: coordinates modulo p in ne digits and        *)
(* scalars modulo N in one digit more, in Montgomery form between the      *)
(* calls.  ne is 20 in the code.  The module's static variables are the    *)
(* curve, the public and the private key; R and S are the caller's         *)
(* buffers, which both operations change in place.                         *)
(***************************************************************************)
EXTENDS Bn, EcText

CONSTANTS
    ne,         \* the digits of a coordinate
    Table,      \* the curves file: type -> its curve
    Types,      \* types a key file may name
    Hashes,     \* digests
    Privs,      \* private keys
    Scalars,    \* what get_rand may put into m
    Halves      \* what a file may hold for R and S

ns == ne + 1
We == Pow(Base, ne)
Ws == Pow(Base, ns)

Curve == [p : Nat, a : Nat, b : Nat, N : Nat, G : [x : Nat, y : Nat]]

\* An elliptic curve over a prime field whose generator has a prime order, with
\* b # 0, so that the pair (0, 0) is not a point and can stand for infinity.
IsCurve(c) ==
    /\ IsPrime(c.p) /\ c.p \in 5 .. We - 1
    /\ IsPrime(c.N) /\ c.N \in 3 .. Ws - 1
    /\ c.a \in 0 .. c.p - 1 /\ c.b \in 1 .. c.p - 1
    /\ IsGroup(c)
    /\ c.G \in Points(c) /\ TextMul(c, c.N, c.G) = Infinity

ASSUME DigitsAssumption == ne \in Nat \ {0}

ASSUME CurveAssumption ==
    /\ DOMAIN Table \subseteq Nat /\ Table \in [DOMAIN Table -> Curve]
    /\ \A ty \in DOMAIN Table : IsCurve(Table[ty])

\* No digest, coordinate or private key needs more than one subtraction to be
\* reduced modulo N.
ASSUME NumbersAssumption ==
    /\ Hashes \subseteq Nat /\ Privs \subseteq Nat /\ Scalars \subseteq Nat
    /\ Halves \subseteq 0 .. Ws - 1
    /\ \A ty \in DOMAIN Table :
           \A e \in Hashes \union Privs \union 0 .. Table[ty].p - 1 : e < 2 * Table[ty].N

VARIABLES
    type,       \* the curve's type
    st,         \* how far the caller has come
    ec,         \* ec_p, ec_a, ec_b, ec_N, ec_G
    ec_Q, ec_k, \* the keys
    R, S,       \* the caller's signature
    pub,        \* the private key whose public key was set last
    signed,     \* what R and S were made from
    verdict     \* the last verification: what was asked, and the outcome

vars == <<type, st, ec, ec_Q, ec_k, R, S, pub, signed, verdict>>

zero == [x |-> 0, y |-> 0]
None == [h |-> -1]

-----------------------------------------------------------------------------
(* Elements of the field and points, for a curve c in Montgomery form. *)

elt_add(c, x, y) == bn_add(x, y, c.p, We)
elt_sub(c, x, y) == bn_sub(x, y, c.p, We)
elt_mul(c, x, y) == bn_mon_mul(x, y, c.p, ne)
elt_inv(c, x)    == bn_mon_inv(x, c.p, ne)

point_to_mon(c, P)   == [x |-> bn_to_mon(P.x, c.p, ne), y |-> bn_to_mon(P.y, c.p, ne)]
point_from_mon(c, P) == [x |-> bn_from_mon(P.x, c.p, ne), y |-> bn_from_mon(P.y, c.p, ne)]

\* The third point of the line of slope s through P and Q, mirrored.
chord(c, P, Q, s) ==
    LET rx == elt_sub(c, elt_mul(c, s, s), elt_add(c, P.x, Q.x))
    IN  [x |-> rx, y |-> elt_sub(c, elt_mul(c, s, elt_sub(c, P.x, rx)), P.y)]

point_double(c, P) ==
    IF P.y = 0 THEN zero
    ELSE LET xx == elt_mul(c, P.x, P.x)
             n  == elt_add(c, elt_add(c, elt_add(c, xx, xx), xx), c.a)
         IN  chord(c, P, P, elt_mul(c, n, elt_inv(c, elt_add(c, P.y, P.y))))

\* Mutant: the sum of a point and itself is not told from that with its inverse.
point_addNoDouble(c, P, Q) ==
    IF P = zero THEN Q ELSE IF Q = zero THEN P
    ELSE IF elt_sub(c, Q.x, P.x) = 0 THEN zero
    ELSE chord(c, P, Q, elt_mul(c, elt_inv(c, elt_sub(c, Q.x, P.x)), elt_sub(c, Q.y, P.y)))

point_add(c, P, Q) ==
    IF P = zero THEN Q ELSE IF Q = zero THEN P
    ELSE IF elt_sub(c, Q.x, P.x) = 0
         THEN IF elt_sub(c, Q.y, P.y) = 0 THEN point_double(c, P) ELSE zero
    ELSE chord(c, P, Q, elt_mul(c, elt_inv(c, elt_sub(c, Q.x, P.x)), elt_sub(c, Q.y, P.y)))

\* The bits of a scalar, from the first on.
point_mul(c, a, P) ==
    LET d[i \in 0 .. Bits * ns] ==
            IF i = 0 THEN zero
            ELSE LET x == d[i - 1]
                     y == point_double(c, x)
                 IN  IF (a \div Pow(2, Bits * ns - i)) % 2 = 1 THEN point_add(c, y, P) ELSE y
    IN  d[Bits * ns]

-----------------------------------------------------------------------------
(* Signatures. *)

mulN(c, x, y) == bn_mon_mul(x, y, c.N, ns)
toN(c, x)     == bn_to_mon(x, c.N, ns)
fromN(c, x)   == bn_from_mon(x, c.N, ns)

\* S = (e + R k) / m.  R is converted as the coordinate it is, not reduced.
generate_ecdsa(c, k, h, m) ==
    LET e  == toN(c, bn_reduce(h, c.N))
        r  == toN(c, point_from_mon(c, point_mul(c, m, c.G)).x)
        kk == toN(c, bn_reduce(k, c.N))
        s  == mulN(c, bn_mon_inv(toN(c, m), c.N, ns), bn_add(mulN(c, r, kk), e, c.N, Ws))
    IN  [R |-> fromN(c, r), S |-> fromN(c, s)]

\* R and S come back from Montgomery form when the verdict is computed.
check_ecdsa(c, Q, r, s, h) ==
    LET e    == toN(c, bn_reduce(h, c.N))
        Sinv == bn_mon_inv(toN(c, s), c.N, ns)
        w1   == fromN(c, mulN(c, e, Sinv))
        w2   == fromN(c, mulN(c, toN(c, r), Sinv))
        P    == point_add(c, point_mul(c, w1, c.G), point_mul(c, w2, Q))
        R1   == fromN(c, toN(c, r))
    IN  [ok |-> bn_reduce(point_from_mon(c, P).x, c.N) = R1,
         R  |-> R1, S |-> fromN(c, toN(c, s))]

\* The curve as ecdsa_set_curve leaves it.
Converted(c) ==
    [c EXCEPT !.a = bn_to_mon(c.a, c.p, ne), !.b = bn_to_mon(c.b, c.p, ne),
              !.G = point_to_mon(c, c.G)]

-----------------------------------------------------------------------------
(* The calls.  Every caller sets the curve first, stops when it cannot, then *)
(* sets the keys; the rebuilder does so twice, to check and to sign.  What    *)
(* one program signed another verifies.                                       *)

Init ==
    /\ st = "start" /\ type = -1 /\ ec = <<>>
    /\ ec_Q = zero /\ ec_k = 0 /\ pub = -1
    /\ R = 0 /\ S = 0 /\ signed = None /\ verdict = None

\* The caller stops when the type has no curve or there is no curves file; it
\* does not use the curve before.
ecdsa_set_curve(ty) ==
    /\ \/ st = "start" \/ verdict # None
       \/ st = "keys" /\ signed # None
    /\ IF ty \in DOMAIN Table
       THEN st' = "curve" /\ type' = ty /\ ec' = Converted(Table[ty])
       ELSE st' = "failed" /\ UNCHANGED <<type, ec>>
    /\ verdict' = None
    /\ UNCHANGED <<ec_Q, ec_k, R, S, pub, signed>>

\* The public key that goes with the private key k.
ecdsa_set_pub(k) ==
    /\ st = "curve"
    /\ st' = "pub" /\ pub' = k
    /\ ec_Q' = point_to_mon(ec, TextMul(Table[type], k, Table[type].G))
    /\ UNCHANGED <<type, ec, ec_k, R, S, signed, verdict>>

ecdsa_set_priv(k) ==
    /\ st = "pub"
    /\ st' = "keys" /\ ec_k' = k
    /\ UNCHANGED <<type, ec, ec_Q, R, S, pub, signed, verdict>>

\* m is drawn again until it is below N.
ecdsa_sign(h, m) ==
    /\ st = "keys" /\ m < ec.N
    /\ \E sig \in {generate_ecdsa(ec, ec_k, h, m)} : R' = sig.R /\ S' = sig.S
    /\ signed' = [h |-> h, m |-> m, k |-> ec_k, type |-> type]
    /\ verdict' = None
    /\ UNCHANGED <<type, st, ec, ec_Q, ec_k, pub>>

ecdsa_verify(h) ==
    /\ st \in {"pub", "keys"}
    /\ \E v \in {check_ecdsa(ec, ec_Q, R, S, h)} :
           /\ R' = v.R /\ S' = v.S
           /\ verdict' = [h |-> h, R |-> R, S |-> S, signed |-> signed, ok |-> v.ok]
           /\ signed' = IF v.R = R /\ v.S = S THEN signed ELSE None
    /\ UNCHANGED <<type, st, ec, ec_Q, ec_k, pub>>

\* A signature is read from a file.
LoadSignature(r, s) ==
    /\ st = "start" /\ R' = r /\ S' = s
    /\ signed' = None /\ verdict' = None
    /\ UNCHANGED <<type, st, ec, ec_Q, ec_k, pub>>

Next ==
    \/ \E ty \in Types : ecdsa_set_curve(ty)
    \/ \E k \in Privs : ecdsa_set_pub(k) \/ ecdsa_set_priv(k)
    \/ \E h \in Hashes : ecdsa_verify(h) \/ \E m \in Scalars : ecdsa_sign(h, m)
    \/ \E r, s \in Halves : LoadSignature(r, s)

Spec == Init /\ [][Next]_vars

-----------------------------------------------------------------------------
(* Properties. *)

Element == 0 .. We - 1
Scalar  == 0 .. Ws - 1
Point   == [x : Element, y : Element]

\* Types and bounds.
TypeOK ==
    /\ st \in {"start", "curve", "pub", "keys", "failed"}
    /\ type \in DOMAIN Table \union {-1} /\ (type = -1 => st \in {"start", "failed"})
    /\ ec_Q \in Point /\ ec_k \in Privs \union {0} /\ pub \in Privs \union {-1}
    /\ R \in Scalar /\ S \in Scalar

curve == Table[type]

\* check_ecdsa, with its digits, its Montgomery form and its sums of points
\* that may be equal, opposite or infinite, gives the verdict of the textbook
\* for every signature in the textbook's range, also when a digest, a private
\* key or a coordinate is not below N.
VerifyIsTextbook ==
    verdict # None /\ verdict.R \in 1 .. curve.N - 1 /\ verdict.S \in 1 .. curve.N - 1 =>
        verdict.ok = TextVerify(curve, TextMul(curve, pub, curve.G), verdict.R, verdict.S, verdict.h)

\* What generate_ecdsa signs check_ecdsa accepts with the matching key, with two
\* exceptions the code does not draw a new m for: a coordinate of m G not below
\* N, which is converted unreduced, and a sum e + R k of zero, which makes S zero.
SignedVerifies ==
    verdict # None /\ verdict.signed # None =>
        LET sig == verdict.signed
        IN  /\ sig.h = verdict.h /\ sig.type = type /\ (sig.k - pub) % curve.N = 0
            /\ TextMul(curve, sig.m, curve.G).x < curve.N /\ verdict.S # 0
            => verdict.ok

\* A verification leaves the caller's signature as it was: the converted R and
\* S come back from Montgomery form, so that it can be checked or stored again.
SignatureKept ==
    verdict # None /\ verdict.R < curve.N /\ verdict.S < curve.N => R = verdict.R /\ S = verdict.S

\* ec.c gives the textbook's verdicts, accepts its own, and changes no signature.
IsTextbook == VerifyIsTextbook /\ SignedVerifies /\ SignatureKept
===============================================================================
