------------------------------- MODULE DatFile -------------------------------
(***************************************************************************)
(* index.dat: dat pads a version text, puts its digest in front and        *)
(* encrypts both; undat decrypts and compares.  In between the file may be *)
(* damaged, cut or filled up.                                              *)
(*                                                                         *)
(* A block is a cell of SceCrypto; a file is its blocks and its length in  *)
(* bytes, which may end inside the last block.                             *)
(***************************************************************************)
EXTENDS SceCrypto, Sequences

CONSTANTS
    Texts,      \* lengths of version texts
    Block,      \* bytes in a block (16 in the code); the head is two of them
    Keys        \* contents of the files dat-key and dat-iv

DatAssumption == Texts \subseteq Nat /\ Block \in Nat \ {0, 1}

NoKey == "missing"

VARIABLES
    len,        \* length of the text
    key, ukey,  \* what dat and undat find in the key directory
    pc,
    file,       \* [blocks, len]
    faulty,     \* whether the file is as dat left it
    out         \* blocks of text that undat writes

vars == <<len, key, ukey, pc, file, faulty, out>>

HeadLen == 2 * Block
NoText == <<>>

new_len(n) ==
    n + HeadLen + (IF (n + HeadLen) % Block # 0 THEN Block - ((n + HeadLen) % Block) ELSE 0)

\* Block b of the text, filled up with line feeds.
Text(n) == [b \in 1 .. (new_len(n) - HeadLen) \div Block |->
              {<<"text", b, IF b * Block <= n THEN Block ELSE n % Block>>}]

\* sha1's 20 bytes take one block and the start of the second, whose rest is
\* the character 0 throughout.
Digest(text) == << {<<"sha1", text>>}, {<<"sha1 end", text>>} >>

\* aes128cbc_enc and aes128cbc, for any number of blocks.
aes128cbc_enc(k, in) ==
    LET c[b \in 0 .. Len(in)] ==
            IF b = 0 THEN {<<"iv", k>>} ELSE AES_encrypt(k, Xor(in[b], c[b - 1]))
    IN  [b \in 1 .. Len(in) |-> c[b]]

aes128cbc(k, in) ==
    [b \in 1 .. Len(in) |->
        Xor(AES_decrypt(k, in[b]), IF b = 1 THEN {<<"iv", k>>} ELSE in[b - 1])]

Init ==
    /\ len \in Texts
    /\ key \in Keys \union {NoKey} /\ ukey \in Keys \union {NoKey}
    /\ pc = "dat"
    /\ file = [blocks |-> <<>>, len |-> 0] /\ faulty = FALSE /\ out = NoText

\* Mutant: the digest is taken before the text is filled up.
datUnpadded ==
    /\ pc = "dat" /\ key # NoKey
    /\ LET text == Text(len)
       IN  file' = [blocks |-> aes128cbc_enc(key, Digest(<<{<<"text", len>>}>>) \o text), len |-> new_len(len)]
    /\ pc' = "store"
    /\ UNCHANGED <<len, key, ukey, faulty, out>>

dat ==
    /\ pc = "dat" /\ key # NoKey
    /\ LET text == Text(len)
       IN  file' = [blocks |-> aes128cbc_enc(key, Digest(text) \o text), len |-> new_len(len)]
    /\ pc' = "store"
    /\ UNCHANGED <<len, key, ukey, faulty, out>>

\* key_get_simple fails, in either program.
NoKeyFile ==
    /\ \/ pc = "dat" /\ key = NoKey
       \/ pc = "decrypt" /\ ukey = NoKey
    /\ pc' = "failed"
    /\ UNCHANGED <<len, key, ukey, file, faulty, out>>

-----------------------------------------------------------------------------
(* What happens to the file; once is enough. *)

Faulty(f) == /\ pc = "store" /\ ~faulty
             /\ file' = f /\ file' # file /\ faulty' = TRUE
             /\ UNCHANGED <<len, key, ukey, pc, out>>

Count(n) == (n + Block - 1) \div Block

Cut == \E n \in 0 .. file.len - 1 :
         Faulty([blocks |-> SubSeq(file.blocks, 1, Count(n)), len |-> n])

Damage == \E b \in DOMAIN file.blocks :
            Faulty([file EXCEPT !.blocks[b] = {<<"junk">>}])

Swap == \E b, c \in DOMAIN file.blocks :
          Faulty([file EXCEPT !.blocks[b] = file.blocks[c], !.blocks[c] = file.blocks[b]])

Grow == Faulty([blocks |-> Append(file.blocks, {<<"junk">>}), len |-> file.len + Block])

-----------------------------------------------------------------------------
(* undat. *)

\* The smallest length that passes is one less than the head's.
TooShort == file.len < HeadLen - 1

undat ==
    /\ pc = "store"
    /\ pc' = IF TooShort THEN "refused" ELSE "decrypt"
    /\ UNCHANGED <<len, key, ukey, file, faulty, out>>

\* aes128cbc takes 16 from an unsigned length until it is zero: of a file that
\* ends inside a block it never finds the end.
Runaway ==
    /\ pc = "decrypt" /\ ukey # NoKey /\ file.len % Block # 0
    /\ pc' = "crashed"
    /\ UNCHANGED <<len, key, ukey, file, faulty, out>>

\* Mutant: memcmp of one block only.
MatchesFirst(plain) ==
    plain[1] = Digest(SubSeq(plain, 3, Len(plain)))[1]

\* memcmp of 20 bytes.  No change to the ciphertext reaches only the bytes of
\* the second block that are not compared.
Matches(plain) ==
    LET digest == Digest(SubSeq(plain, 3, Len(plain)))
    IN  plain[1] = digest[1] /\ plain[2] = digest[2]

Decrypt ==
    /\ pc = "decrypt" /\ ukey # NoKey /\ file.len % Block = 0
    /\ LET plain == aes128cbc(ukey, file.blocks)
       IN  IF Matches(plain)
           THEN pc' = "done" /\ out' = SubSeq(plain, 3, Len(plain))
           ELSE pc' = "mismatch" /\ UNCHANGED out
    /\ UNCHANGED <<len, key, ukey, file, faulty>>

Next == \/ dat \/ NoKeyFile \/ Cut \/ Damage \/ Swap \/ Grow
        \/ undat \/ Runaway \/ Decrypt

Spec == Init /\ [][Next]_vars /\ WF_vars(undat) /\ WF_vars(Runaway) /\ WF_vars(Decrypt)

-----------------------------------------------------------------------------
(* Properties. *)

\* Types, and that a file always has as many blocks as its length needs.
TypeOK ==
    /\ pc \in {"dat", "store", "decrypt", "refused", "mismatch", "done", "failed", "crashed"}
    /\ Len(file.blocks) = Count(file.len)
    /\ pc \in {"store", "decrypt"} /\ ~faulty => Count(file.len) * Block < len + HeadLen + Block

\* What undat writes is the text dat was given, filled up to whole blocks:
\* no damage of one place gives another text, nor part of it.
OnlyTheText == pc = "done" => ~faulty /\ key = ukey /\ out = Text(len)

\* An undamaged file is accepted, of a text of any length, also of none.
Accepted ==
    pc = "store" /\ ~faulty /\ key = ukey
        ~> faulty \/ (pc = "done" /\ out = Text(len))

\* undat says "invalid index.dat size" of every file that has not even room
\* for the digest.
ShortIsRefused == pc = "crashed" => file.len >= HeadLen
===============================================================================
