------------------------------ MODULE Arithmetic ------------------------------
(***************************************************************************)
(* The three computations that all the tools share: signatures, products   *)
(* modulo N and digests.  The variable program says which of them the      *)
(* behaviour is about; the other two stay where they are.                  *)
(***************************************************************************)
EXTENDS Ec

CONSTANTS
    W, Moduli, Factors,                         \* those of MonMul
    Block, Octet, Digest, Chunks, MaxLen        \* those of Sha1

VARIABLES
    program,
    m_a, m_b, m_N, m_t, m_rest, m_weight,
    s_ctx, s_msg, s_late, s_ret

product == <<m_a, m_b, m_N, m_t, m_rest, m_weight>>
digest  == <<s_ctx, s_msg, s_late, s_ret>>
all     == <<program, vars, product, digest>>

Products == INSTANCE MonMul WITH
    a <- m_a, b <- m_b, N <- m_N, t <- m_t, rest <- m_rest, weight <- m_weight

ASSUME ProductsAssumption ==
    Products!WidthAssumption /\ Products!ModuliAssumption /\ Products!FactorsAssumption

Digests == INSTANCE Sha1 WITH
    ctx <- s_ctx, msg <- s_msg, late <- s_late, ret <- s_ret

ASSUME DigestsAssumption == Digests!BlockAssumption

-----------------------------------------------------------------------------
ProductIdle ==
    m_a = 0 /\ m_b = 0 /\ m_N = 1 /\ m_t = 0 /\ m_rest = 0 /\ m_weight = 1

ToolsInit ==
    /\ Init /\ Digests!Init
    /\ \/ program = "multiply" /\ Products!Init
       \/ program \in {"sign", "hash"} /\ ProductIdle

Sign     == program = "sign" /\ Next /\ UNCHANGED <<program, product, digest>>
Multiply == program = "multiply" /\ Products!Next /\ UNCHANGED <<program, vars, digest>>
Hash     == program = "hash" /\ Digests!Next /\ UNCHANGED <<program, vars, product>>

ToolsNext == Sign \/ Multiply \/ Hash

ToolsSpec == ToolsInit /\ [][ToolsNext]_all

-----------------------------------------------------------------------------
(* The components' properties, each of its own program. *)

\* ecdsa_verify and ecdsa_sign are the textbook's on every order of calls.
EcdsaIsTextbook == program = "sign" => TypeOK /\ IsTextbook

\* bn_mon_mul is multiplication modulo N, in its n digits, at every turn.
Product == program = "multiply" => Products!TypeOK /\ Products!Reduced /\ Products!Residue

\* Digests and HMACs are the standard's at every length and however the input is
\* cut, and spoilt contexts say so.
Sha1IsStandard == program = "hash" => Digests!TypeOK /\ Digests!IsStandard
===============================================================================
