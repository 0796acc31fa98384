--------------------------------- MODULE Sha1 ---------------------------------
(***************************************************************************)
(* The streaming of sha1.c: octets gathered into blocks, the bit count in  *)
(* two words, the padding, and the flags that tell a finished or spoilt    *)
(* context; and sha1 and sha1_hmac of tools.c, which drive it.  The        *)
(* compression function is symbolic: the digest is the sequence of the     *)
(* blocks it was given.                                                    *)
(*                                                                         *)
(* An octet is <<kind, value>>; a numeral is <<"n", digit>>.  In the code  *)
(* Block is 64, Octet 256 and Digest 20.                                   *)
(***************************************************************************)
EXTENDS Integers, Sequences

CONSTANTS
    Block,      \* octets of a block
    Octet,      \* values of an octet in the bit count
    Digest,     \* octets of a digest
    Chunks,     \* lengths of one input
    MaxLen      \* bound on the octets given to one context

WordMod == Octet * Octet * Octet * Octet        \* 2 to the 32 in the code

\* A word holds the bits of a whole number of octets, and the two words those of
\* a block and a digest, the longest input sha1_hmac makes of its own.
BlockAssumption ==
    /\ Block \in Nat /\ Block > 8 /\ Digest \in Nat
    /\ Octet \in Nat \ {0, 1} /\ Octet % 2 = 0
    /\ 8 * (Block + Digest) < WordMod * WordMod
    /\ Chunks \subseteq Nat /\ MaxLen \in Nat

VARIABLES
    ctx,        \* the SHA1Context
    msg,        \* everything given to SHA1Input since the reset
    late,       \* some of it came after SHA1Result
    ret         \* what SHA1Result returned, -1 when something came after it

vars == <<ctx, msg, late, ret>>

Zero    == <<"n", 0>>
One     == <<"n", 128>>     \* 0x80

-----------------------------------------------------------------------------
(* sha1.c. *)

ResetCtx ==
    [Length_Low |-> 0, Length_High |-> 0, Message_Block |-> <<>>, Message_Digest |-> <<>>,
     Computed |-> FALSE, Corrupted |-> FALSE]

\* The index is the length of Message_Block.
ProcessMessageBlock(x) ==
    [x EXCEPT !.Message_Digest = Append(x.Message_Digest, x.Message_Block),
              !.Message_Block = <<>>]

\* One turn of the loop of SHA1Input.
InputOctet(x, o) ==
    LET low  == (x.Length_Low + 8) % WordMod
        high == IF low = 0 THEN (x.Length_High + 1) % WordMod ELSE x.Length_High
        y    == [x EXCEPT !.Message_Block = Append(x.Message_Block, o),
                          !.Length_Low = low, !.Length_High = high,
                          !.Corrupted = (low = 0 /\ high = 0)]
    IN  IF x.Corrupted THEN x
        ELSE IF Len(y.Message_Block) = Block THEN ProcessMessageBlock(y) ELSE y

Input(x, octets) ==
    IF octets = <<>> THEN x
    ELSE IF x.Computed \/ x.Corrupted THEN [x EXCEPT !.Corrupted = TRUE]
    ELSE LET y[k \in 0 .. Len(octets)] ==
                 IF k = 0 THEN x ELSE InputOctet(y[k - 1], octets[k])
         IN  y[Len(octets)]

\* The four octets of a word, the first one first.
Word(w) ==
    LET Digit(place) == <<"n", (w \div place) % Octet>>
    IN  <<Digit(Octet * Octet * Octet), Digit(Octet * Octet), Digit(Octet), Digit(1)>>

Zeros(n) == [i \in 1 .. n |-> Zero]

\* Mutant: a block with just room for the bit count is thought to have room
\* for the first octet of the padding as well.
PadMessageTight(x) ==
    LET room == Block - 8
        b    == Append(x.Message_Block, One)
        y    == IF Len(x.Message_Block) > room
                THEN ProcessMessageBlock([x EXCEPT !.Message_Block = b \o Zeros(Block - Len(b))])
                ELSE [x EXCEPT !.Message_Block = b]
        z    == SubSeq(y.Message_Block \o Zeros(Block), 1, room)
    IN  ProcessMessageBlock(
            [y EXCEPT !.Message_Block = z \o Word(y.Length_High) \o Word(y.Length_Low)])

\* One block or two, as there is room for the bit count.
PadMessage(x) ==
    LET room == Block - 8
        b    == Append(x.Message_Block, One)
        y    == IF Len(x.Message_Block) > room - 1
                THEN ProcessMessageBlock([x EXCEPT !.Message_Block = b \o Zeros(Block - Len(b))])
                ELSE [x EXCEPT !.Message_Block = b]
        z    == y.Message_Block \o Zeros(room - Len(y.Message_Block))
    IN  ProcessMessageBlock(
            [y EXCEPT !.Message_Block = z \o Word(y.Length_High) \o Word(y.Length_Low)])

Result(x) ==
    IF x.Corrupted \/ x.Computed THEN x ELSE [PadMessage(x) EXCEPT !.Computed = TRUE]

-----------------------------------------------------------------------------
(* tools.c: the result of SHA1Result is not looked at. *)

sha1_fixup(x) == [i \in 1 .. Digest |-> <<"h", <<i, x.Message_Digest>>>>]

sha1(octets) == sha1_fixup(Result(Input(ResetCtx, octets)))

sha1_hmac(key, octets) ==
    LET Xor(pad) == [i \in 1 .. Block |-> <<"k", <<key, i, pad>>>>]
        inner    == Result(Input(Input(ResetCtx, Xor(54)), octets))
    IN  sha1(Xor(92) \o sha1_fixup(inner))

-----------------------------------------------------------------------------
(* A caller uses the interface in any order. *)

Octets(from, n) == [i \in 1 .. n |-> <<"d", from + i>>]

Init == ctx = ResetCtx /\ msg = <<>> /\ late = FALSE /\ ret = -1

SHA1Reset ==
    ctx' = ResetCtx /\ msg' = <<>> /\ late' = FALSE /\ ret' = -1

SHA1Input(n) ==
    /\ Len(msg) + n <= MaxLen
    /\ ctx' = Input(ctx, Octets(Len(msg), n))
    /\ msg' = msg \o Octets(Len(msg), n)
    /\ late' = (late \/ (n > 0 /\ ctx.Computed))
    /\ ret' = -1

SHA1Result ==
    /\ ctx' = Result(ctx)
    /\ ret' = IF ctx.Corrupted THEN 0 ELSE 1
    /\ UNCHANGED <<msg, late>>

Next == SHA1Reset \/ SHA1Result \/ \E n \in Chunks : SHA1Input(n)

Spec == Init /\ [][Next]_vars

-----------------------------------------------------------------------------
(* The standard: the message, one 1 bit, as few zeros as make whole blocks   *)
(* with the bit count, and the bit count, cut into blocks.                   *)

Capacity == (WordMod * WordMod) \div 8        \* octets, above any message's length

StandardBlocks(m) ==
    LET zeros  == (-(Len(m) + 1 + 8)) % Block
        bits   == 8 * Len(m)
        padded == m \o <<One>> \o Zeros(zeros)
                    \o Word(bits \div WordMod) \o Word(bits % WordMod)
    IN  [b \in 1 .. Len(padded) \div Block |-> SubSeq(padded, (b - 1) * Block + 1, b * Block)]

StandardSha1(m) == [i \in 1 .. Digest |-> <<"h", <<i, StandardBlocks(m)>>>>]

StandardHmac(key, m) ==
    LET Xor(pad) == [i \in 1 .. Block |-> <<"k", <<key, i, pad>>>>]
    IN  StandardSha1(Xor(92) \o StandardSha1(Xor(54) \o m))

-----------------------------------------------------------------------------
(* Properties. *)

\* Types and bounds: between calls a block is never full, and the bit count is
\* that of the octets taken.
TypeOK ==
    /\ Len(ctx.Message_Block) < Block
    /\ ctx.Length_Low \in 0 .. WordMod - 1 /\ ctx.Length_High \in 0 .. WordMod - 1
    /\ \A i \in 1 .. Len(ctx.Message_Digest) : Len(ctx.Message_Digest[i]) = Block
    /\ ret \in {-1, 0, 1}

\* However a message is cut into inputs, the digest is the standard's, at every
\* length around a block's end and around the wrap of the low word; asking twice
\* gives the same.
DigestIsStandard == ret = 1 => ctx.Message_Digest = StandardBlocks(msg)

\* SHA1Result refuses exactly the contexts that were given more than the bit
\* count holds, or anything after the digest was made.
RefusesSpoilt == ret # -1 => (ret = 0 <=> late \/ Len(msg) >= Capacity)

\* sha1_hmac, which gives the key and the data as two inputs and never asks
\* whether the context was spoilt, is the standard's HMAC of what was input.
HmacIsStandard ==
    Len(msg) + Block < Capacity => sha1_hmac("key", msg) = StandardHmac("key", msg)

\* sha1.c and sha1_hmac are the standard's, or say that they cannot be.
IsStandard == DigestIsStandard /\ RefusesSpoilt /\ HmacIsStandard
===============================================================================
