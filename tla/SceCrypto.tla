------------------------------ MODULE SceCrypto ------------------------------
(***************************************************************************)
(* The ciphers and digests of tools.c, symbolically.                       *)
(*                                                                         *)
(* A CELL is the content of one 16-byte AES block of a header, or of one   *)
(* unit of section data.  It is the set of symbolic terms whose exclusive  *)
(* or it is, so that xor is symmetric difference and {} is a block of      *)
(* zeros.  A term is a tuple that starts with its tag; two terms are equal *)
(* only when they were made the same way (no collisions, no guesses).      *)
(***************************************************************************)
EXTENDS Integers

Xor(a, b) == (a \ b) \cup (b \ a)

\* One block under one AES key.  Decrypting what was not encrypted under the
\* same key gives a block that nothing else is equal to.
AES_encrypt(key, in) == {<<"aes", key, in>>}

AES_decrypt(key, in) ==
    IF \E t \in in : in = {t} /\ t[1] = "aes" /\ t[2] = key
    THEN (CHOOSE t \in in : TRUE)[3]
    ELSE {<<"inv", key, in>>}

-----------------------------------------------------------------------------
\* CBC over the 0x40 bytes of the metadata info, the only data it is used on:
\* four blocks, each chained to the ciphertext before it.
aes256cbc_enc(key, iv, in) ==
    LET c1 == AES_encrypt(key, Xor(in[1], iv))
        c2 == AES_encrypt(key, Xor(in[2], c1))
        c3 == AES_encrypt(key, Xor(in[3], c2))
        c4 == AES_encrypt(key, Xor(in[4], c3))
    IN  <<c1, c2, c3, c4>>

aes256cbc(key, iv, in) ==
    << Xor(AES_decrypt(key, in[1]), iv),
       Xor(AES_decrypt(key, in[2]), in[1]),
       Xor(AES_decrypt(key, in[3]), in[2]),
       Xor(AES_decrypt(key, in[4]), in[3]) >>

\* Keystream block n of the counter that starts at iv.  The caller's iv is
\* advanced in place by one for each block, so a counter is the pair (iv, n)
\* and a second call goes on at the n the first one left.
Keystream(key, iv, n) == {<<"ctr", key, iv, n>>}

\* aes128ctr over the blocks first .. last of f, the others left alone;
\* CtrNext is the n it leaves in the iv.
aes128ctr(key, iv, n, f, first, last) ==
    [b \in DOMAIN f |->
        IF b \in first .. last
        THEN Xor(f[b], Keystream(key, iv, n + (b - first)))
        ELSE f[b]]

\* Mutant: the counter goes to the position of the last block instead of
\* forward by the number of blocks.
CtrNextAbsolute(n, first, last) == n + last

CtrNext(n, first, last) == n + (last - first + 1)

-----------------------------------------------------------------------------
\* SHA1-HMAC of the cells in data under the 0x40-byte key.  The 20 bytes of the
\* digest fill one block and the head of the next one.
sha1_hmac(key, data) ==
    <<{<<"mac", key, data, 1>>}, {<<"mac", key, data, 2>>}>>

\* ECDSA over a digest: R and S, 42 bytes, lie in three blocks.
ecdsa_sign(priv, digest) ==
    [p \in 1 .. 3 |-> {<<"sig", priv, digest, p>>}]

ecdsa_verify(pub, digest, rs) == rs = ecdsa_sign(pub, digest)
=============================================================================
