--------------------------- MODULE SceSystemProofs ----------------------------
(***************************************************************************)
(* Proofs about containers, for all layouts, keys, key lists and damage:   *)
(* what the writers leave on disk, what the readers make of it, and that   *)
(* the whole system is a SealedBox.                                        *)
(***************************************************************************)
EXTENDS SceSystem, FiniteSetTheorems, TLAPS

-----------------------------------------------------------------------------
(* Exclusive or. *)

\* Exclusive or with the same block twice changes nothing.
LEMMA XorTwice == ASSUME NEW a, NEW b PROVE Xor(Xor(a, b), b) = a
BY DEF Xor

\* Only a block and itself make a block of zeros.
LEMMA XorZero == ASSUME NEW a, NEW b PROVE Xor(a, b) = {} <=> a = b
BY DEF Xor

LEMMA XorEmpty == ASSUME NEW a PROVE Xor(a, {}) = a /\ Xor({}, a) = a
BY DEF Xor

\* Blocks that differ still differ after the same block was mixed into both.
LEMMA XorInjective == ASSUME NEW a, NEW b, NEW c PROVE Xor(a, c) = Xor(b, c) <=> a = b
BY XorTwice

LEMMA XorAssociative ==
    ASSUME NEW a, NEW b, NEW c PROVE Xor(Xor(a, b), c) = Xor(a, Xor(b, c))
BY DEF Xor

LEMMA XorCommutative == ASSUME NEW a, NEW b PROVE Xor(a, b) = Xor(b, a)
BY DEF Xor

\* Damage changes every block, in a way that no cipher or digest does.
Dam(c, hit) == IF hit THEN Flip(c) ELSE c

LEMMA FlipChanges == ASSUME NEW c PROVE Flip(c) # c
<1>1. Xor(c, {<<"flip">>}) # c
  BY DEF Xor
<1> QED BY <1>1 DEF Flip

-----------------------------------------------------------------------------
(* The ciphers undo themselves. *)

\* AES_decrypt inverts AES_encrypt under the same key.
LEMMA BlockInverse ==
    ASSUME NEW k, NEW x
    PROVE  AES_decrypt(k, AES_encrypt(k, x)) = x
<1> DEFINE t == <<"aes", k, x>>
<1>1. (CHOOSE s \in {t} : TRUE) = t
  OBVIOUS
<1>2. \E s \in {t} : {t} = {s} /\ s[1] = "aes" /\ s[2] = k
  OBVIOUS
<1> QED BY <1>1, <1>2 DEF AES_decrypt, AES_encrypt

\* Under another key, or once damaged, a block decrypts to a block of its own.
LEMMA BlockForeign ==
    ASSUME NEW k, NEW r, NEW x, NEW hit, k # r \/ hit
    PROVE  AES_decrypt(r, Dam(AES_encrypt(k, x), hit))
             = {<<"inv", r, Dam(AES_encrypt(k, x), hit)>>}
<1> DEFINE t == <<"aes", k, x>>
           c == Dam(AES_encrypt(k, x), hit)
<1>1. c = IF hit THEN {t, <<"flip">>} ELSE {t}
  <2>1. t # <<"flip">>
    OBVIOUS
  <2> HIDE DEF t
  <2> QED BY <2>1 DEF Dam, Flip, Xor, AES_encrypt, t
<1>2. ~ \E s \in c : c = {s} /\ s[1] = "aes" /\ s[2] = r
  <2> SUFFICES ASSUME NEW s \in c, c = {s}, s[2] = r PROVE FALSE
    OBVIOUS
  <2>1. t # <<"flip">>
    OBVIOUS
  <2>2. ~hit
    <3> HIDE DEF t, c
    <3> QED BY <1>1, <2>1
  <2>3. s = t
    <3> HIDE DEF t, c
    <3> QED BY <1>1, <2>2
  <2> QED BY <2>2, <2>3
<1> HIDE DEF c
<1> QED BY <1>2 DEF AES_decrypt, c

\* aes256cbc undoes aes256cbc_enc, block by block.
LEMMA CbcInverse ==
    ASSUME NEW k, NEW iv, NEW a, NEW b, NEW c, NEW d
    PROVE  aes256cbc(k, iv, aes256cbc_enc(k, iv, <<a, b, c, d>>)) = <<a, b, c, d>>
<1> DEFINE c1 == AES_encrypt(k, Xor(a, iv))
           c2 == AES_encrypt(k, Xor(b, c1))
           c3 == AES_encrypt(k, Xor(c, c2))
           c4 == AES_encrypt(k, Xor(d, c3))
<1>1. aes256cbc_enc(k, iv, <<a, b, c, d>>) = <<c1, c2, c3, c4>>
  BY DEF aes256cbc_enc
<1>2. /\ Xor(AES_decrypt(k, c1), iv) = a
      /\ Xor(AES_decrypt(k, c2), c1) = b
      /\ Xor(AES_decrypt(k, c3), c2) = c
      /\ Xor(AES_decrypt(k, c4), c3) = d
  BY BlockInverse, XorTwice
<1> HIDE DEF c1, c2, c3, c4
<1> QED BY <1>1, <1>2 DEF aes256cbc

\* aes128ctr with the same key and counter over the same blocks undoes itself.
LEMMA CtrInverse ==
    ASSUME NEW k, NEW iv, NEW m, NEW f, NEW lo, NEW hi, NEW S,
           f = [b \in S |-> f[b]]
    PROVE  aes128ctr(k, iv, m, aes128ctr(k, iv, m, f, lo, hi), lo, hi) = f
<1> DEFINE g == aes128ctr(k, iv, m, f, lo, hi)
           h == aes128ctr(k, iv, m, g, lo, hi)
<1>1. DOMAIN f = S
  OBVIOUS
<1>2. DOMAIN g = S /\ DOMAIN h = S
  BY <1>1 DEF aes128ctr
<1>3. ASSUME NEW b \in S PROVE h[b] = f[b]
  <2>1. CASE b \in lo .. hi
    <3> DEFINE ks == Keystream(k, iv, m + (b - lo))
    <3>1. g[b] = Xor(f[b], ks)
      BY <2>1, <1>1 DEF aes128ctr
    <3>2. h[b] = Xor(g[b], ks)
      BY <2>1, <1>2 DEF aes128ctr
    <3> QED BY <3>1, <3>2, XorTwice
  <2>2. CASE b \notin lo .. hi
    BY <2>2, <1>1, <1>2 DEF aes128ctr
  <2> QED BY <2>1, <2>2
<1>4. h = [b \in S |-> h[b]]
  BY <1>2 DEF aes128ctr
<1> QED BY <1>3, <1>4

-----------------------------------------------------------------------------
(* The metadata info. *)

SealedInfo(k) == aes256cbc_enc(RootKey(k), RootIv(k), PlainInfo)

\* A root key fits the metadata info, undamaged or not, exactly when it is the
\* writer's and none of the four blocks was damaged: each of the two paddings
\* that must be zero depends on two blocks.
LEMMA OnlyTheRightKey ==
    ASSUME NEW k, NEW r, NEW info, NEW hit,
           \A b \in 1 .. 4 : info[b] = Dam(SealedInfo(k)[b], hit[b]),
           \A b \in 1 .. 4 : hit[b] \in BOOLEAN
    PROVE  LET tmp == aes256cbc(RootKey(r), RootIv(r), info)
           IN  tmp[2] = {} /\ tmp[4] = {} <=> r = k /\ \A b \in 1 .. 4 : ~hit[b]
<1> DEFINE K   == RootKey(k)
           x1  == Xor({<<"key">>}, RootIv(k))
           c1  == AES_encrypt(K, x1)
           c2  == AES_encrypt(K, c1)
           x3  == Xor({<<"iv">>}, c2)
           c3  == AES_encrypt(K, x3)
           c4  == AES_encrypt(K, c3)
           tmp == aes256cbc(RootKey(r), RootIv(r), info)
<1>1. SealedInfo(k) = <<c1, c2, c3, c4>>
  BY XorEmpty DEF SealedInfo, aes256cbc_enc, PlainInfo
<1>2. /\ info[1] = Dam(c1, hit[1]) /\ info[2] = Dam(c2, hit[2])
      /\ info[3] = Dam(c3, hit[3]) /\ info[4] = Dam(c4, hit[4])
  <2> HIDE DEF c1, c2, c3, c4
  <2> QED BY <1>1
<1>3. /\ tmp[2] = Xor(AES_decrypt(RootKey(r), info[2]), info[1])
      /\ tmp[4] = Xor(AES_decrypt(RootKey(r), info[4]), info[3])
  BY DEF aes256cbc
<1>4. r # k => RootKey(r) # K
  <2> SUFFICES ASSUME RootKey(r) = K PROVE r = k
    OBVIOUS
  <2>1. <<"root", r>> = <<"root", k>>
    BY DEF RootKey
  <2> QED BY <2>1

\* One padding: the block in front of it and its own.
<1>5. ASSUME NEW x, NEW h, NEW g, h \in BOOLEAN, g \in BOOLEAN
      PROVE  AES_decrypt(RootKey(r), Dam(AES_encrypt(K, AES_encrypt(K, x)), g))
                 = Dam(AES_encrypt(K, x), h)
               <=> r = k /\ ~h /\ ~g
  <2> DEFINE c == AES_encrypt(K, x)
  <2>1. CASE r # k \/ g
    <3>1. AES_decrypt(RootKey(r), Dam(AES_encrypt(K, c), g))
            = {<<"inv", RootKey(r), Dam(AES_encrypt(K, c), g)>>}
      BY <1>4, <2>1, BlockForeign
    <3>2. \A y, z : {<<"inv", y, z>>} # Dam(c, h)
      <4> SUFFICES ASSUME NEW y, NEW z PROVE <<"aes", K, x>> \in Dam(c, h)
                                              /\ <<"aes", K, x>> # <<"inv", y, z>>
        OBVIOUS
      <4>1. <<"aes", K, x>> # <<"flip">>
        OBVIOUS
      <4> QED BY <4>1 DEF Dam, Flip, Xor, AES_encrypt
    <3>3. AES_decrypt(RootKey(r), Dam(AES_encrypt(K, c), g)) # Dam(c, h)
      <4> HIDE DEF c, K
      <4> QED BY <3>1, <3>2
    <3> QED BY <3>3, <2>1
  <2>2. CASE r = k /\ ~g
    <3>1. AES_decrypt(RootKey(r), Dam(AES_encrypt(K, c), g)) = c
      BY <2>2, BlockInverse DEF Dam
    <3> HIDE DEF c
    <3>2. Dam(c, h) = c <=> ~h
      BY <1>5, FlipChanges DEF Dam
    <3> QED BY <3>1, <3>2, <2>2 DEF c
  <2> QED BY <1>5, <2>1, <2>2
<1>6. tmp[2] = {} <=> r = k /\ ~hit[1] /\ ~hit[2]
  <2>1. hit[1] \in BOOLEAN /\ hit[2] \in BOOLEAN
    OBVIOUS
  <2> HIDE DEF x1, K, tmp
  <2> QED BY <1>2, <1>3, <1>5, <2>1, XorZero
<1>7. tmp[4] = {} <=> r = k /\ ~hit[3] /\ ~hit[4]
  <2>1. hit[3] \in BOOLEAN /\ hit[4] \in BOOLEAN
    OBVIOUS
  <2> HIDE DEF x3, K, tmp
  <2> QED BY <1>2, <1>3, <1>5, <2>1, XorZero
<1>8. (\A b \in 1 .. 4 : ~hit[b]) <=> ~hit[1] /\ ~hit[2] /\ ~hit[3] /\ ~hit[4]
  OBVIOUS
<1> QED BY <1>6, <1>7, <1>8
-----------------------------------------------------------------------------
(* What a writer makes of layout L with key k, stage by stage. *)

Num(L)    == Len(L.sections)
Sec(L, i) == L.sections[i]

\* The block of section i's digest; the second one is behind it.
At(L, i) == SlotBlock(Num(L), Sec(L, i).sha)

PlainData(L) == [u \in 0 .. L.units - 1 |-> Plain(u)]

Mac(L, i) == sha1_hmac(HmacKey(PlainBody(L), Num(L), Sec(L, i).sha),
                       Section(PlainData(L), Sec(L, i)))

\* The body with the digests of the first m sections.
DigestsAt(L, m, b) == {i \in 1 .. m : b = At(L, i) \/ b = At(L, i) + 1}

Hashed(L, m) ==
    [b \in 1 .. L.blocks |->
        IF DigestsAt(L, m, b) = {} THEN PlainBody(L)[b]
        ELSE LET i == CHOOSE i \in DigestsAt(L, m, b) : TRUE
             IN  IF b = At(L, i) THEN Mac(L, i)[1] ELSE Mac(L, i)[2]]

\* The digest that is signed, and the body with the signature.
SignedDigest(L) ==
    <<{<<"hdr", L.kind>>}, PlainInfo, [b \in 1 .. L.sig |-> Hashed(L, Num(L))[b]]>>

Body(L, k) ==
    [b \in 1 .. L.blocks |->
        IF b \in L.sig + 1 .. L.sig + 3
        THEN ecdsa_sign(k, SignedDigest(L))[b - L.sig]
        ELSE Hashed(L, Num(L))[b]]

\* The terms of the key streams of the first m sections over unit u, when the
\* header is body.
Over(L, m, u) == {i \in 1 .. m : Encrypted(Sec(L, i)) /\ u \in Units(Sec(L, i))}

Pad(L, body, i, u) ==
    <<"ctr", Slot(body, Num(L), Sec(L, i).key), Slot(body, Num(L), Sec(L, i).iv),
      0 + (u - Sec(L, i).off)>>

PadBlock(L, body, i, u) == {Pad(L, body, i, u)}

Pads(L, body, m, u) == {Pad(L, body, i, u) : i \in Over(L, m, u)}

\* The data f once the first m sections are encrypted, or decrypted, under body.
Stage(L, body, f, m) ==
    [u \in 0 .. L.units - 1 |-> Xor(f[u], Pads(L, body, m, u))]

Crypted(L, k, m) == Stage(L, Body(L, k), PlainData(L), m)

\* The finished image, and the one before it.
Header(L, body, data) ==
    [hdr |-> {<<"hdr", L.kind>>}, info |-> PlainInfo, body |-> body, data |-> data]

Sealed(L, k) ==
    sce_encrypt_header(Header(L, Body(L, k), Crypted(L, k, Num(L))),
                       L.blocks, RootKey(k), RootIv(k))

-----------------------------------------------------------------------------
(* Layouts. *)

LEMMA SectionFacts ==
    ASSUME NEW L, WellFormed(L)
    PROVE  /\ Num(L) \in Nat
           /\ L.blocks \in Nat /\ L.sig \in Nat /\ L.nslots \in Nat /\ L.units \in Nat
           /\ L.fsize \in Nat
           /\ 2 + 3 * Num(L) <= L.sig /\ L.sig + 3 <= L.blocks
           /\ \A i \in 1 .. Num(L) :
                 /\ Sec(L, i) \in [off : Nat, len : Nat, sha : Nat,
                                   key : Nat \cup {NoSlot}, iv : Nat \cup {NoSlot}]
                 /\ Sec(L, i).off + Sec(L, i).len <= L.units
<1> DEFINE Infos == [off : Nat, len : Nat, sha : Nat,
                     key : Nat \cup {NoSlot}, iv : Nat \cup {NoSlot}]
<1>1. L.sections \in Seq(Infos)
  BY DEF WellFormed
<1> HIDE DEF Infos
<1>2. Num(L) \in Nat
  BY <1>1 DEF Num
<1>3. \A i \in 1 .. Num(L) : Sec(L, i) \in Infos
  BY <1>1 DEF Num, Sec
<1> USE DEF Infos
<1> QED BY <1>2, <1>3 DEF WellFormed, Num, Sec

\* A slot that a section uses is in front of the signature.
Used(L, i) == HashSlots(Sec(L, i))
              \cup (IF Encrypted(Sec(L, i)) THEN {Sec(L, i).key, Sec(L, i).iv} ELSE {})

LEMMA SlotFacts ==
    ASSUME NEW L, WellFormed(L), NEW i \in 1 .. Num(L), NEW j \in Used(L, i)
    PROVE  /\ j \in Nat /\ j < L.nslots
           /\ SlotBlock(Num(L), j) = 3 + 3 * Num(L) + j
           /\ SlotBlock(Num(L), j) \in 3 + 3 * Num(L) .. L.sig
           /\ SlotBlock(Num(L), j) \in 1 .. L.blocks
<1>1. j < L.nslots /\ SlotBlock(Num(L), j) <= L.sig
  BY DEF WellFormed, Used, Num, Sec
<1>2. j \in Nat
  BY SectionFacts DEF Used, HashSlots, Encrypted, NoSlot
<1> QED BY <1>1, <1>2, SectionFacts DEF SlotBlock

LEMMA HashSlotsUsed ==
    ASSUME NEW L, WellFormed(L), NEW i \in 1 .. Num(L), NEW p \in 0 .. 5
    PROVE  /\ Sec(L, i).sha \in Nat
           /\ Sec(L, i).sha + p \in HashSlots(Sec(L, i))
           /\ Sec(L, i).sha + p \in Used(L, i)
BY SectionFacts DEF HashSlots, Used

\* Where section i's digest is, and that it is nowhere else.
LEMMA AtFacts ==
    ASSUME NEW L, WellFormed(L), NEW i \in 1 .. Num(L)
    PROVE  /\ At(L, i) = 3 + 3 * Num(L) + Sec(L, i).sha
           /\ At(L, i) \in 3 + 3 * Num(L) .. L.sig - 5
           /\ At(L, i) \in 1 .. L.blocks /\ At(L, i) + 1 \in 1 .. L.blocks
           /\ \A j \in 1 .. Num(L) : i # j =>
                 At(L, j) + 5 < At(L, i) \/ At(L, i) + 5 < At(L, j)
<1>1. /\ Sec(L, i).sha \in Nat
      /\ Sec(L, i).sha \in Used(L, i) /\ Sec(L, i).sha + 5 \in Used(L, i)
  BY HashSlotsUsed, 0 \in 0 .. 5, 5 \in 0 .. 5
<1>2. At(L, i) = 3 + 3 * Num(L) + Sec(L, i).sha
  BY <1>1, SlotFacts DEF At
<1>3. 3 + 3 * Num(L) + Sec(L, i).sha + 5 <= L.sig
  BY <1>1, SlotFacts, SectionFacts
<1>4. ASSUME NEW j \in 1 .. Num(L), i # j
      PROVE  At(L, j) + 5 < At(L, i) \/ At(L, i) + 5 < At(L, j)
  <2>1. HashSlots(Sec(L, i)) \cap HashSlots(Sec(L, j)) = {}
    BY <1>4 DEF WellFormed, Num, Sec
  <2>2. Sec(L, j).sha \in Nat /\ Sec(L, j).sha \in Used(L, j)
    BY HashSlotsUsed, 0 \in 0 .. 5
  <2>3. At(L, j) = 3 + 3 * Num(L) + Sec(L, j).sha
    BY <2>2, SlotFacts DEF At
  <2>4. Sec(L, j).sha + 5 < Sec(L, i).sha \/ Sec(L, i).sha + 5 < Sec(L, j).sha
    BY <1>1, <2>1, <2>2 DEF HashSlots
  <2> QED BY <1>1, <1>2, <2>2, <2>3, <2>4, SectionFacts
<1> QED BY <1>1, <1>2, <1>3, <1>4, SectionFacts
-----------------------------------------------------------------------------
(* The header. *)

\* What the build_* functions put into each block.
LEMMA PlainCells ==
    ASSUME NEW L, WellFormed(L)
    PROVE  /\ PlainBody(L) = [b \in 1 .. L.blocks |-> PlainBody(L)[b]]
           /\ \A b \in 1 .. 2 :
                 PlainBody(L)[b] = {<<"meta", [sig |-> L.sig, n |-> Num(L)], b>>}
           /\ \A b \in 3 .. 2 + 3 * Num(L) :
                 PlainBody(L)[b] = {<<"sec", Sec(L, ((b - 3) \div 3) + 1), ((b - 3) % 3) + 1>>}
           /\ \A j \in Nat : j < L.nslots /\ SlotBlock(Num(L), j) \in 1 .. L.blocks =>
                 PlainBody(L)[SlotBlock(Num(L), j)] = {<<"rand", j>>}
           /\ \A b \in 1 .. L.blocks :
                 b > 2 + 3 * Num(L) =>
                    \/ PlainBody(L)[b] = {}
                    \/ \E j \in Nat : PlainBody(L)[b] = {<<"rand", j>>}
<1>0. /\ Num(L) \in Nat /\ L.blocks \in Nat /\ L.sig \in Nat /\ L.nslots \in Nat
      /\ 2 + 3 * Num(L) <= L.sig /\ L.sig + 3 <= L.blocks
  BY SectionFacts
<1> DEFINE n == Num(L)
           cell(b) ==
             CASE b \in 1 .. 2 -> {<<"meta", [sig |-> L.sig, n |-> n], b>>}
               [] b \in 3 .. 2 + 3 * n ->
                    {<<"sec", L.sections[((b - 3) \div 3) + 1], ((b - 3) % 3) + 1>>}
               [] b \in SlotBlock(n, 0) .. SlotBlock(n, L.nslots - 1) ->
                    {<<"rand", b - SlotBlock(n, 0)>>}
               [] OTHER -> {}
<1>1. PlainBody(L) = [b \in 1 .. L.blocks |-> cell(b)]
  BY DEF PlainBody, Num
<1>2. \A b \in 1 .. L.blocks : PlainBody(L)[b] = cell(b)
  <2> HIDE DEF cell
  <2> QED BY <1>1
<1>3. PlainBody(L) = [b \in 1 .. L.blocks |-> PlainBody(L)[b]]
  <2> HIDE DEF cell
  <2> QED BY <1>1
<1>4. \A j \in Int : SlotBlock(n, j) = 3 + 3 * n + j
  BY <1>0 DEF SlotBlock
<1> HIDE DEF n
<1>5. ASSUME NEW b \in 1 .. 2 PROVE cell(b) = {<<"meta", [sig |-> L.sig, n |-> n], b>>}
  <2>1. b \notin 3 .. 2 + 3 * n /\ b \notin SlotBlock(n, 0) .. SlotBlock(n, L.nslots - 1)
    BY <1>0, <1>4 DEF n
  <2> QED BY <2>1
<1>6. ASSUME NEW b \in 3 .. 2 + 3 * n
      PROVE  cell(b) = {<<"sec", L.sections[((b - 3) \div 3) + 1], ((b - 3) % 3) + 1>>}
  <2>1. b \notin 1 .. 2 /\ b \notin SlotBlock(n, 0) .. SlotBlock(n, L.nslots - 1)
    BY <1>0, <1>4, <1>6 DEF n
  <2> QED BY <2>1
<1>7. ASSUME NEW j \in Nat, j < L.nslots PROVE cell(SlotBlock(n, j)) = {<<"rand", j>>}
  <2>1. /\ SlotBlock(n, j) \notin 1 .. 2 /\ SlotBlock(n, j) \notin 3 .. 2 + 3 * n
        /\ SlotBlock(n, j) \in SlotBlock(n, 0) .. SlotBlock(n, L.nslots - 1)
        /\ SlotBlock(n, j) - SlotBlock(n, 0) = j
    BY <1>0, <1>4, <1>7 DEF n
  <2> QED BY <2>1
<1>8. ASSUME NEW b \in 1 .. L.blocks, b > 2 + 3 * n
      PROVE  cell(b) = {} \/ \E j \in Nat : cell(b) = {<<"rand", j>>}
  <2>1. b \notin 1 .. 2 /\ b \notin 3 .. 2 + 3 * n
    BY <1>0, <1>8 DEF n
  <2>2. CASE b \in SlotBlock(n, 0) .. SlotBlock(n, L.nslots - 1)
    <3>1. b - SlotBlock(n, 0) \in Nat
      BY <1>0, <1>4, <2>2 DEF n
    <3>2. cell(b) = {<<"rand", b - SlotBlock(n, 0)>>}
      BY <2>1, <2>2
    <3> HIDE DEF cell
    <3> QED BY <3>1, <3>2
  <2>3. CASE b \notin SlotBlock(n, 0) .. SlotBlock(n, L.nslots - 1)
    BY <2>1, <2>3
  <2> QED BY <2>2, <2>3
<1> HIDE DEF cell
<1>9. \A b \in 1 .. 2 : b \in 1 .. L.blocks
  BY <1>0
<1>10. \A b \in 3 .. 2 + 3 * n : b \in 1 .. L.blocks
  BY <1>0 DEF n
<1> QED BY <1>2, <1>3, <1>5, <1>6, <1>7, <1>8, <1>9, <1>10 DEF n, Sec

\* Each digest is in its place, and every other block is as it was laid out.
LEMMA HashedCells ==
    ASSUME NEW L, WellFormed(L), NEW m \in 0 .. Num(L)
    PROVE  /\ Hashed(L, m) = [b \in 1 .. L.blocks |-> Hashed(L, m)[b]]
           /\ \A i \in 1 .. m : /\ Hashed(L, m)[At(L, i)] = Mac(L, i)[1]
                                /\ Hashed(L, m)[At(L, i) + 1] = Mac(L, i)[2]
           /\ \A b \in 1 .. L.blocks :
                 (\A i \in 1 .. m : b # At(L, i) /\ b # At(L, i) + 1) =>
                    Hashed(L, m)[b] = PlainBody(L)[b]
<1>1. Hashed(L, m) = [b \in 1 .. L.blocks |-> Hashed(L, m)[b]]
  BY DEF Hashed
<1>2. ASSUME NEW i \in 1 .. m, NEW p \in 0 .. 1
      PROVE  Hashed(L, m)[At(L, i) + p] = IF p = 0 THEN Mac(L, i)[1] ELSE Mac(L, i)[2]
  <2> DEFINE b == At(L, i) + p
  <2>1. i \in 1 .. Num(L) /\ Num(L) \in Nat
    BY SectionFacts
  <2>2. b \in 1 .. L.blocks /\ At(L, i) \in Nat
    BY <2>1, AtFacts
  <2>3. DigestsAt(L, m, b) = {i}
    <3>1. i \in DigestsAt(L, m, b)
      BY <2>2 DEF DigestsAt
    <3>2. ASSUME NEW j \in DigestsAt(L, m, b), i # j PROVE FALSE
      <4>1. j \in 1 .. Num(L) /\ (b = At(L, j) \/ b = At(L, j) + 1)
        BY <2>1 DEF DigestsAt
      <4>2. At(L, j) + 5 < At(L, i) \/ At(L, i) + 5 < At(L, j)
        BY <2>1, <3>2, <4>1, AtFacts
      <4>3. At(L, j) \in Nat
        BY <4>1, AtFacts
      <4> QED BY <2>2, <4>1, <4>2, <4>3
    <3> QED BY <3>1, <3>2
  <2>4. (CHOOSE j \in DigestsAt(L, m, b) : TRUE) = i
    BY <2>3
  <2>5. Hashed(L, m)[b] = IF b = At(L, i) THEN Mac(L, i)[1] ELSE Mac(L, i)[2]
    BY <2>2, <2>3, <2>4 DEF Hashed
  <2> QED BY <2>2, <2>5
<1>3. \A i \in 1 .. m : At(L, i) + 0 = At(L, i)
  <2> SUFFICES ASSUME NEW i \in 1 .. m PROVE At(L, i) \in Int
    OBVIOUS
  <2>1. i \in 1 .. Num(L)
    BY SectionFacts
  <2> QED BY <2>1, AtFacts
<1>4. ASSUME NEW b \in 1 .. L.blocks, \A i \in 1 .. m : b # At(L, i) /\ b # At(L, i) + 1
      PROVE  Hashed(L, m)[b] = PlainBody(L)[b]
  <2>1. DigestsAt(L, m, b) = {}
    BY <1>4 DEF DigestsAt
  <2> QED BY <2>1 DEF Hashed
<1> QED BY <1>1, <1>2, <1>3, <1>4, 0 \in 0 .. 1, 1 \in 0 .. 1

\* The key of a digest is no digest: hashing leaves it alone.
LEMMA HmacKeyKept ==
    ASSUME NEW L, WellFormed(L), NEW m \in 0 .. Num(L), NEW i \in 1 .. Num(L)
    PROVE  HmacKey(Hashed(L, m), Num(L), Sec(L, i).sha)
             = HmacKey(PlainBody(L), Num(L), Sec(L, i).sha)
<1>1. ASSUME NEW p \in 1 .. 4
      PROVE  Slot(Hashed(L, m), Num(L), Sec(L, i).sha + 1 + p)
               = Slot(PlainBody(L), Num(L), Sec(L, i).sha + 1 + p)
  <2>1. /\ Sec(L, i).sha \in Nat
        /\ SlotBlock(Num(L), Sec(L, i).sha + 1 + p) = At(L, i) + 1 + p
        /\ At(L, i) + 1 + p \in 1 .. L.blocks
    <3>1. Sec(L, i).sha \in Nat /\ Sec(L, i).sha + (1 + p) \in Used(L, i)
      BY HashSlotsUsed, 1 + p \in 0 .. 5
    <3> QED BY <3>1, SlotFacts, AtFacts, SectionFacts
  <2>2. \A j \in 1 .. m : At(L, i) + 1 + p # At(L, j) /\ At(L, i) + 1 + p # At(L, j) + 1
    <3> SUFFICES ASSUME NEW j \in 1 .. m
                 PROVE  At(L, i) + 1 + p # At(L, j) /\ At(L, i) + 1 + p # At(L, j) + 1
      OBVIOUS
    <3>1. j \in 1 .. Num(L)
      BY SectionFacts
    <3>2. At(L, i) \in Nat /\ At(L, j) \in Nat
      BY <3>1, AtFacts
    <3>3. i # j => At(L, j) + 5 < At(L, i) \/ At(L, i) + 5 < At(L, j)
      BY <3>1, AtFacts
    <3> QED BY <3>2, <3>3
  <2> QED BY <2>1, <2>2, HashedCells DEF Slot
<1> QED BY <1>1 DEF HmacKey

\* calculate_hash of one more section.
LEMMA HashStep ==
    ASSUME NEW L, WellFormed(L), NEW i \in 1 .. Num(L)
    PROVE  LET mac == sha1_hmac(HmacKey(Hashed(L, i - 1), Num(L), Sec(L, i).sha),
                                Section(PlainData(L), Sec(L, i)))
           IN  Hashed(L, i)
                 = [Hashed(L, i - 1) EXCEPT ![At(L, i)] = mac[1], ![At(L, i) + 1] = mac[2]]
<1>0. i - 1 \in 0 .. Num(L) /\ i \in 0 .. Num(L) /\ Num(L) \in Nat
  BY SectionFacts
<1>1. sha1_hmac(HmacKey(Hashed(L, i - 1), Num(L), Sec(L, i).sha),
                Section(PlainData(L), Sec(L, i))) = Mac(L, i)
  BY <1>0, HmacKeyKept DEF Mac
<1> DEFINE g == [Hashed(L, i - 1) EXCEPT ![At(L, i)] = Mac(L, i)[1], ![At(L, i) + 1] = Mac(L, i)[2]]
<1>2. /\ Hashed(L, i - 1) = [b \in 1 .. L.blocks |-> Hashed(L, i - 1)[b]]
      /\ Hashed(L, i) = [b \in 1 .. L.blocks |-> Hashed(L, i)[b]]
  BY <1>0, HashedCells
<1>3. g = [b \in 1 .. L.blocks |-> g[b]]
  BY <1>2
<1>4. At(L, i) \in 1 .. L.blocks /\ At(L, i) + 1 \in 1 .. L.blocks /\ At(L, i) + 1 # At(L, i)
  BY AtFacts, SectionFacts
<1>5. ASSUME NEW b \in 1 .. L.blocks PROVE Hashed(L, i)[b] = g[b]
  <2>1. CASE b = At(L, i)
    <3>1. g[b] = Mac(L, i)[1]
      BY <1>2, <1>4, <2>1
    <3> QED BY <3>1, <2>1, <1>0, HashedCells, i \in 1 .. i
  <2>2. CASE b = At(L, i) + 1
    <3>1. g[b] = Mac(L, i)[2]
      BY <1>2, <1>4, <2>2
    <3> QED BY <3>1, <2>2, <1>0, HashedCells, i \in 1 .. i
  <2>3. CASE b # At(L, i) /\ b # At(L, i) + 1
    <3>1. g[b] = Hashed(L, i - 1)[b]
      BY <1>2, <2>3
    <3>2. DigestsAt(L, i, b) = DigestsAt(L, i - 1, b)
      BY <1>0, <2>3 DEF DigestsAt
    <3>3. Hashed(L, i)[b] = Hashed(L, i - 1)[b]
      BY <3>2 DEF Hashed
    <3> QED BY <3>1, <3>3
  <2> QED BY <2>1, <2>2, <2>3
<1>6. Hashed(L, i) = g
  <2> HIDE DEF g
  <2> QED BY <1>2, <1>3, <1>5
<1> QED BY <1>1, <1>6
-----------------------------------------------------------------------------
(* The terms of a header. *)

\* A block that nobody damaged and no key stream runs over.
Clean(c) == \A t \in c : t[1] \in {"meta", "sec", "rand", "mac", "sig"}

LEMMA BodyCells ==
    ASSUME NEW L, WellFormed(L), NEW k
    PROVE  /\ Body(L, k) = [b \in 1 .. L.blocks |-> Body(L, k)[b]]
           /\ \A b \in 1 .. L.sig : Body(L, k)[b] = Hashed(L, Num(L))[b]
           /\ \A b \in 1 .. 2 :
                 Body(L, k)[b] = {<<"meta", [sig |-> L.sig, n |-> Num(L)], b>>}
           /\ \A b \in 3 .. 2 + 3 * Num(L) :
                 Body(L, k)[b] = {<<"sec", Sec(L, ((b - 3) \div 3) + 1), ((b - 3) % 3) + 1>>}
           /\ \A p \in 1 .. 3 : Body(L, k)[L.sig + p] = {<<"sig", k, SignedDigest(L), p>>}
<1>0. /\ Num(L) \in Nat /\ L.blocks \in Nat /\ L.sig \in Nat
      /\ 2 + 3 * Num(L) <= L.sig /\ L.sig + 3 <= L.blocks
  BY SectionFacts
<1>1. Body(L, k) = [b \in 1 .. L.blocks |-> Body(L, k)[b]]
  BY DEF Body
<1>2. ASSUME NEW b \in 1 .. L.sig PROVE Body(L, k)[b] = Hashed(L, Num(L))[b]
  <2>1. b \in 1 .. L.blocks /\ b \notin L.sig + 1 .. L.sig + 3
    BY <1>0
  <2> QED BY <2>1 DEF Body
<1>3. ASSUME NEW b \in 1 .. 2 + 3 * Num(L) PROVE Body(L, k)[b] = PlainBody(L)[b]
  <2>1. b \in 1 .. L.sig /\ b \in 1 .. L.blocks
    BY <1>0
  <2>2. \A i \in 1 .. Num(L) : b # At(L, i) /\ b # At(L, i) + 1
    BY <1>0, AtFacts
  <2>3. Num(L) \in 0 .. Num(L)
    BY <1>0
  <2> QED BY <1>2, <2>1, <2>2, <2>3, HashedCells
<1>4. ASSUME NEW p \in 1 .. 3
      PROVE  Body(L, k)[L.sig + p] = {<<"sig", k, SignedDigest(L), p>>}
  <2>1. Body(L, k)[L.sig + p] = ecdsa_sign(k, SignedDigest(L))[p]
    <3> DEFINE b == L.sig + p
    <3>1. b \in 1 .. L.blocks /\ b \in L.sig + 1 .. L.sig + 3 /\ b - L.sig = p
      BY <1>0
    <3> HIDE DEF b
    <3>2. Body(L, k)[b] = ecdsa_sign(k, SignedDigest(L))[b - L.sig]
      BY <3>1 DEF Body
    <3>3. Body(L, k)[b] = ecdsa_sign(k, SignedDigest(L))[p]
      BY <3>1, <3>2
    <3> QED BY <3>3, Zenon DEF b
  <2>2. ecdsa_sign(k, SignedDigest(L))[p] = {<<"sig", k, SignedDigest(L), p>>}
    BY DEF ecdsa_sign
  <2> QED BY <2>1, <2>2
<1>5. \A b \in 1 .. 2 : b \in 1 .. 2 + 3 * Num(L)
  BY <1>0
<1>6. \A b \in 3 .. 2 + 3 * Num(L) : b \in 1 .. 2 + 3 * Num(L)
  BY <1>0
<1> QED BY <1>1, <1>2, <1>3, <1>4, <1>5, <1>6, PlainCells

\* A digest is made under its own section's key and over its units.
MacKey(L, i) == HmacKey(PlainBody(L), Num(L), Sec(L, i).sha)

MacTerm(L, i, p) == <<"mac", MacKey(L, i), Section(PlainData(L), Sec(L, i)), p>>

LEMMA MacCells ==
    ASSUME NEW L, NEW i
    PROVE  Mac(L, i)[1] = {MacTerm(L, i, 1)} /\ Mac(L, i)[2] = {MacTerm(L, i, 2)}
BY DEF Mac, sha1_hmac, MacTerm, MacKey

LEMMA BodyClean ==
    ASSUME NEW L, WellFormed(L), NEW k, NEW b \in 1 .. L.blocks
    PROVE  Clean(Body(L, k)[b])
<1>0. /\ Num(L) \in Nat /\ L.blocks \in Nat /\ L.sig \in Nat
      /\ 2 + 3 * Num(L) <= L.sig /\ L.sig + 3 <= L.blocks
  BY SectionFacts
<1>1. CASE b \in L.sig + 1 .. L.sig + 3
  <2>1. b - L.sig \in 1 .. 3 /\ b = L.sig + (b - L.sig)
    BY <1>0, <1>1
  <2>2. Body(L, k)[b] = {<<"sig", k, SignedDigest(L), b - L.sig>>}
    BY <2>1, BodyCells
  <2> QED BY <2>2 DEF Clean
<1>2. CASE b \notin L.sig + 1 .. L.sig + 3
  <2>1. Body(L, k)[b] = Hashed(L, Num(L))[b]
    BY <1>2 DEF Body
  <2>2. CASE \E i \in 1 .. Num(L) : b = At(L, i) \/ b = At(L, i) + 1
    <3>1. PICK i \in 1 .. Num(L) : b = At(L, i) \/ b = At(L, i) + 1
      BY <2>2
    <3>2. Body(L, k)[b] = Mac(L, i)[1] \/ Body(L, k)[b] = Mac(L, i)[2]
      BY <1>0, <2>1, <3>1, HashedCells, Num(L) \in 0 .. Num(L)
    <3> QED BY <3>2, MacCells DEF Clean, MacTerm
  <2>3. CASE \A i \in 1 .. Num(L) : b # At(L, i) /\ b # At(L, i) + 1
    <3>1. Body(L, k)[b] = PlainBody(L)[b]
      BY <1>0, <2>1, <2>3, HashedCells, Num(L) \in 0 .. Num(L)
    <3>2. CASE b \in 1 .. 2
      <4>1. Body(L, k)[b] = {<<"meta", [sig |-> L.sig, n |-> Num(L)], b>>}
        BY <3>2, BodyCells
      <4> QED BY <4>1 DEF Clean
    <3>3. CASE b \in 3 .. 2 + 3 * Num(L)
      <4>1. Body(L, k)[b] = {<<"sec", Sec(L, ((b - 3) \div 3) + 1), ((b - 3) % 3) + 1>>}
        BY <3>3, BodyCells
      <4> QED BY <4>1 DEF Clean
    <3>4. CASE b > 2 + 3 * Num(L)
      <4>1. Body(L, k)[b] = {} \/ \E j \in Nat : Body(L, k)[b] = {<<"rand", j>>}
        BY <3>1, <3>4, PlainCells
      <4> QED BY <4>1 DEF Clean
    <3> QED BY <1>0, <3>2, <3>3, <3>4
  <2> QED BY <2>2, <2>3
<1> QED BY <1>1, <1>2

\* A slot in use holds a number of its own, or half of the digest of the one
\* section whose digest is there.
LEMMA SlotCells ==
    ASSUME NEW L, WellFormed(L), NEW k, NEW i \in 1 .. Num(L), NEW j \in Used(L, i)
    PROVE  \/ Slot(Body(L, k), Num(L), j) = {<<"rand", j>>}
           \/ \E q \in 1 .. Num(L), p \in 1 .. 2 :
                 /\ j = Sec(L, q).sha + p - 1
                 /\ Slot(Body(L, k), Num(L), j) = {MacTerm(L, q, p)}
<1> DEFINE b == SlotBlock(Num(L), j)
<1>0. Num(L) \in Nat /\ L.sig \in Nat
  BY SectionFacts
<1>1. /\ j \in Nat /\ j < L.nslots /\ b = 3 + 3 * Num(L) + j
      /\ b \in 1 .. L.blocks /\ b \in 1 .. L.sig
  BY <1>0, SlotFacts
<1>2. Slot(Body(L, k), Num(L), j) = Hashed(L, Num(L))[b]
  BY <1>1, BodyCells DEF Slot
<1>3. Num(L) \in 0 .. Num(L)
  BY <1>0
<1> HIDE DEF b
<1>4. CASE \A q \in 1 .. Num(L) : b # At(L, q) /\ b # At(L, q) + 1
  <2>1. Hashed(L, Num(L))[b] = PlainBody(L)[b]
    BY <1>1, <1>3, <1>4, HashedCells
  <2>2. PlainBody(L)[b] = {<<"rand", j>>}
    BY <1>1, PlainCells DEF b
  <2> QED BY <1>2, <2>1, <2>2
<1>5. ASSUME NEW q \in 1 .. Num(L), NEW p \in 1 .. 2, b = At(L, q) + p - 1
      PROVE  j = Sec(L, q).sha + p - 1 /\ Slot(Body(L, k), Num(L), j) = {MacTerm(L, q, p)}
  <2>1. j = Sec(L, q).sha + p - 1
    <3>1. Sec(L, q).sha \in Nat /\ At(L, q) = 3 + 3 * Num(L) + Sec(L, q).sha
      BY AtFacts, SectionFacts
    <3> QED BY <1>0, <1>1, <1>5, <3>1
  <2>2. At(L, q) \in Nat
    BY AtFacts
  <2>3. Hashed(L, Num(L))[b] = {MacTerm(L, q, p)}
    <3>1. CASE p = 1
      <4>1. b = At(L, q)
        BY <1>5, <2>2, <3>1
      <4> QED BY <1>3, <3>1, <4>1, HashedCells, MacCells
    <3>2. CASE p = 2
      <4>1. b = At(L, q) + 1
        BY <1>5, <2>2, <3>2
      <4> QED BY <1>3, <3>2, <4>1, HashedCells, MacCells
    <3> QED BY <3>1, <3>2
  <2> QED BY <1>2, <2>1, <2>3
<1>6. CASE \E q \in 1 .. Num(L) : b = At(L, q) \/ b = At(L, q) + 1
  <2>1. PICK q \in 1 .. Num(L) : b = At(L, q) \/ b = At(L, q) + 1
    BY <1>6
  <2>2. At(L, q) \in Nat
    BY AtFacts
  <2>3. PICK p \in 1 .. 2 : b = At(L, q) + p - 1
    <3>1. CASE b = At(L, q)
      BY <2>2, <3>1, 1 \in 1 .. 2
    <3>2. CASE b = At(L, q) + 1
      BY <2>2, <3>2, 2 \in 1 .. 2
    <3> QED BY <2>1, <3>1, <3>2
  <2> QED BY <1>5, <2>3
<1> QED BY <1>4, <1>6

\* Two encrypted sections never share a key.
LEMMA KeysDiffer ==
    ASSUME NEW L, WellFormed(L), NEW k, NEW i \in 1 .. Num(L), NEW j \in 1 .. Num(L), i # j,
           Encrypted(Sec(L, i)), Encrypted(Sec(L, j))
    PROVE  Slot(Body(L, k), Num(L), Sec(L, i).key) # Slot(Body(L, k), Num(L), Sec(L, j).key)
<1> DEFINE s  == Sec(L, i).key
           t  == Sec(L, j).key
           cs == Slot(Body(L, k), Num(L), s)
           ct == Slot(Body(L, k), Num(L), t)
<1>1. s # t /\ s \in Used(L, i) /\ t \in Used(L, j)
  BY DEF WellFormed, Num, Sec, Used
<1>2. s \in Nat /\ t \in Nat
  BY <1>1, SlotFacts
<1>3. ASSUME NEW q \in 1 .. Num(L)
      PROVE  MacKey(L, q)[1] = {<<"rand", Sec(L, q).sha + 2>>} /\ Sec(L, q).sha \in Nat
  <2>1. Sec(L, q).sha \in Nat /\ Sec(L, q).sha + 2 \in Used(L, q)
    BY HashSlotsUsed, 2 \in 0 .. 5
  <2>2. /\ Sec(L, q).sha + 2 \in Nat /\ Sec(L, q).sha + 2 < L.nslots
        /\ SlotBlock(Num(L), Sec(L, q).sha + 2) \in 1 .. L.blocks
    BY <2>1, SlotFacts
  <2>3. MacKey(L, q)[1] = PlainBody(L)[SlotBlock(Num(L), Sec(L, q).sha + 2)]
    <3>1. MacKey(L, q)[1] = PlainBody(L)[SlotBlock(Num(L), Sec(L, q).sha + 1 + 1)]
      BY DEF MacKey, HmacKey, Slot
    <3>2. Sec(L, q).sha + 1 + 1 = Sec(L, q).sha + 2
      BY <2>1
    <3> QED BY <3>1, <3>2
  <2> QED BY <2>1, <2>2, <2>3, PlainCells
<1>4. \/ cs = {<<"rand", s>>}
      \/ \E q \in 1 .. Num(L), p \in 1 .. 2 :
            s = Sec(L, q).sha + p - 1 /\ cs = {MacTerm(L, q, p)}
  BY <1>1, SlotCells
<1>5. \/ ct = {<<"rand", t>>}
      \/ \E q \in 1 .. Num(L), p \in 1 .. 2 :
            t = Sec(L, q).sha + p - 1 /\ ct = {MacTerm(L, q, p)}
  BY <1>1, SlotCells
<1> SUFFICES ASSUME cs = ct PROVE FALSE
  OBVIOUS
<1> HIDE DEF cs, ct, s, t
<1>6. CASE cs = {<<"rand", s>>}
  <2>1. ct # {<<"rand", t>>}
    <3> SUFFICES ASSUME ct = {<<"rand", t>>} PROVE FALSE
      OBVIOUS
    <3>1. <<"rand", s>> = <<"rand", t>>
      BY <1>6
    <3> QED BY <3>1, <1>1
  <2>2. PICK q \in 1 .. Num(L), p \in 1 .. 2 : ct = {MacTerm(L, q, p)}
    BY <1>5, <2>1
  <2>3. <<"rand", s>> = MacTerm(L, q, p)
    BY <1>6, <2>2
  <2> QED BY <2>3 DEF MacTerm
<1>7. CASE \E q \in 1 .. Num(L), p \in 1 .. 2 :
              s = Sec(L, q).sha + p - 1 /\ cs = {MacTerm(L, q, p)}
  <2>1. PICK q \in 1 .. Num(L), p \in 1 .. 2 :
              s = Sec(L, q).sha + p - 1 /\ cs = {MacTerm(L, q, p)}
    BY <1>7
  <2>2. ct # {<<"rand", t>>}
    <3> SUFFICES ASSUME ct = {<<"rand", t>>} PROVE FALSE
      OBVIOUS
    <3>1. <<"rand", t>> = MacTerm(L, q, p)
      BY <2>1
    <3> QED BY <3>1 DEF MacTerm
  <2>3. PICK r \in 1 .. Num(L), o \in 1 .. 2 :
              t = Sec(L, r).sha + o - 1 /\ ct = {MacTerm(L, r, o)}
    BY <1>5, <2>2
  <2>4. MacTerm(L, q, p) = MacTerm(L, r, o)
    BY <2>1, <2>3
  <2>5. MacKey(L, q) = MacKey(L, r) /\ p = o
    BY <2>4 DEF MacTerm
  <2>6. {<<"rand", Sec(L, q).sha + 2>>} = {<<"rand", Sec(L, r).sha + 2>>}
    BY <1>3, <2>5
  <2>7. <<"rand", Sec(L, q).sha + 2>> = <<"rand", Sec(L, r).sha + 2>>
    BY <2>6
  <2>8. Sec(L, q).sha + 2 = Sec(L, r).sha + 2
    BY <2>7
  <2> QED BY <1>1, <1>3, <2>1, <2>3, <2>5, <2>8
<1> QED BY <1>4, <1>6, <1>7
-----------------------------------------------------------------------------
(* Damage, and encryption under a damaged header. *)

DamBody(L, k, H) ==
    [b \in 1 .. L.blocks |-> Dam(Body(L, k)[b], <<"body", b>> \in H)]

\* Damage shows in a block that no damage was in before, and hides no difference.
LEMMA CleanDam ==
    ASSUME NEW a, Clean(a), NEW b, Clean(b), NEW g, NEW h
    PROVE  /\ <<"flip">> \notin a
           /\ <<"flip">> \in Dam(a, h) <=> h
           /\ Dam(a, h) = Dam(b, g) => a = b
<1>1. <<"flip">> \notin a /\ <<"flip">> \notin b
  BY DEF Clean
<1> DEFINE f == <<"flip">>
<1>2. /\ f \in Dam(a, h) <=> h
      /\ \A t : t # f => (t \in Dam(a, h) <=> t \in a) /\ (t \in Dam(b, g) <=> t \in b)
  <2> HIDE DEF f
  <2> QED BY <1>1 DEF Dam, Flip, Xor, f
<1>3. Dam(a, h) = Dam(b, g) => a = b
  <2> SUFFICES ASSUME Dam(a, h) = Dam(b, g), NEW t PROVE t \in a <=> t \in b
    OBVIOUS
  <2> HIDE DEF f
  <2> QED BY <1>1, <1>2 DEF f
<1> QED BY <1>1, <1>2, <1>3

\* A slot of a damaged header.
LEMMA DamSlot ==
    ASSUME NEW L, WellFormed(L), NEW k, NEW H, NEW i \in 1 .. Num(L), NEW j \in Used(L, i)
    PROVE  /\ Slot(DamBody(L, k, H), Num(L), j)
                = Dam(Slot(Body(L, k), Num(L), j), <<"body", SlotBlock(Num(L), j)>> \in H)
           /\ Clean(Slot(Body(L, k), Num(L), j))
<1>1. SlotBlock(Num(L), j) \in 1 .. L.blocks
  BY SlotFacts
<1> QED BY <1>1, BodyClean DEF Slot, DamBody

\* No section's key stream is the one of another section over the same unit.
LEMMA PadFresh ==
    ASSUME NEW L, WellFormed(L), NEW k, NEW H, NEW m \in 1 .. Num(L), NEW u,
           Encrypted(Sec(L, m))
    PROVE  Pad(L, DamBody(L, k, H), m, u) \notin Pads(L, DamBody(L, k, H), m - 1, u)
<1> SUFFICES ASSUME NEW i \in Over(L, m - 1, u),
                    Pad(L, DamBody(L, k, H), m, u) = Pad(L, DamBody(L, k, H), i, u)
             PROVE  FALSE
  BY DEF Pads
<1>1. i \in 1 .. Num(L) /\ i # m /\ Encrypted(Sec(L, i))
  BY SectionFacts DEF Over
<1>2. Slot(DamBody(L, k, H), Num(L), Sec(L, m).key) = Slot(DamBody(L, k, H), Num(L), Sec(L, i).key)
  BY DEF Pad
<1>3. Sec(L, m).key \in Used(L, m) /\ Sec(L, i).key \in Used(L, i)
  BY <1>1 DEF Used
<1>4. Slot(Body(L, k), Num(L), Sec(L, m).key) = Slot(Body(L, k), Num(L), Sec(L, i).key)
  <2> DEFINE a == Slot(Body(L, k), Num(L), Sec(L, m).key)
             b == Slot(Body(L, k), Num(L), Sec(L, i).key)
             g == <<"body", SlotBlock(Num(L), Sec(L, m).key)>> \in H
             h == <<"body", SlotBlock(Num(L), Sec(L, i).key)>> \in H
  <2>1. Slot(DamBody(L, k, H), Num(L), Sec(L, m).key) = Dam(a, g) /\ Clean(a)
    BY <1>3, DamSlot
  <2>2. Slot(DamBody(L, k, H), Num(L), Sec(L, i).key) = Dam(b, h) /\ Clean(b)
    BY <1>1, <1>3, DamSlot
  <2> HIDE DEF a, b, g, h
  <2>3. Dam(a, g) = Dam(b, h)
    BY <1>2, <2>1, <2>2
  <2>4. a = b
    BY <2>1, <2>2, <2>3, CleanDam
  <2> QED BY <2>4 DEF a, b
<1> QED BY <1>1, <1>4, KeysDiffer

LEMMA PadsStep ==
    ASSUME NEW L, WellFormed(L), NEW k, NEW H, NEW m \in 1 .. Num(L), NEW u
    PROVE  /\ Encrypted(Sec(L, m)) /\ u \in Units(Sec(L, m)) =>
                 Pads(L, DamBody(L, k, H), m, u)
                   = Xor(Pads(L, DamBody(L, k, H), m - 1, u), PadBlock(L, DamBody(L, k, H), m, u))
           /\ ~Encrypted(Sec(L, m)) \/ u \notin Units(Sec(L, m)) =>
                 Pads(L, DamBody(L, k, H), m, u) = Pads(L, DamBody(L, k, H), m - 1, u)
<1>0. Num(L) \in Nat
  BY SectionFacts
<1> DEFINE body == DamBody(L, k, H)
           t    == Pad(L, body, m, u)
<1>1. CASE Encrypted(Sec(L, m)) /\ u \in Units(Sec(L, m))
  <2>1. Over(L, m, u) = Over(L, m - 1, u) \cup {m}
    BY <1>0, <1>1 DEF Over
  <2>2. Pads(L, body, m, u) = Pads(L, body, m - 1, u) \cup {t}
    BY <2>1 DEF Pads
  <2>3. t \notin Pads(L, body, m - 1, u)
    BY <1>1, PadFresh
  <2> HIDE DEF t, body
  <2>4. Xor(Pads(L, body, m - 1, u), {t}) = Pads(L, body, m - 1, u) \cup {t}
    BY <2>3 DEF Xor
  <2> QED BY <1>1, <2>2, <2>4 DEF t, body, PadBlock
<1>2. CASE ~(Encrypted(Sec(L, m)) /\ u \in Units(Sec(L, m)))
  <2>1. Over(L, m, u) = Over(L, m - 1, u)
    BY <1>0, <1>2 DEF Over
  <2> QED BY <1>2, <2>1 DEF Pads
<1> QED BY <1>1, <1>2

\* One round of sce_encrypt_data or sce_decrypt_data.
LEMMA CryptStep ==
    ASSUME NEW L, WellFormed(L), NEW k, NEW H, NEW m \in 1 .. Num(L), NEW f,
           NEW hdr, NEW info
    PROVE  LET body == DamBody(L, k, H)
           IN  CryptSection([hdr |-> hdr, info |-> info, body |-> body,
                             data |-> Stage(L, body, f, m - 1)], Num(L), Sec(L, m))
                 = [hdr |-> hdr, info |-> info, body |-> body, data |-> Stage(L, body, f, m)]
<1> DEFINE body == DamBody(L, k, H)
           g    == Stage(L, body, f, m - 1)
           s    == Sec(L, m)
           im   == [hdr |-> hdr, info |-> info, body |-> body, data |-> g]
<1>0. /\ Num(L) \in Nat /\ s.off \in Nat /\ s.len \in Nat /\ L.units \in Nat
      /\ s.off + s.len <= L.units
  BY SectionFacts
<1>1. CASE Encrypted(s)
  <2> DEFINE g2 == aes128ctr(Slot(body, Num(L), s.key), Slot(body, Num(L), s.iv), 0,
                             g, s.off, s.off + s.len - 1)
  <2>1. CryptSection(im, Num(L), s) = [hdr |-> hdr, info |-> info, body |-> body, data |-> g2]
    <3> HIDE DEF g, body, s
    <3> QED BY <1>1 DEF CryptSection
  <2>2. ASSUME NEW u \in 0 .. L.units - 1 PROVE g2[u] = Stage(L, body, f, m)[u]
    <3>0. DOMAIN g = 0 .. L.units - 1
      BY DEF Stage
    <3>1. g[u] = Xor(f[u], Pads(L, body, m - 1, u)) /\ Stage(L, body, f, m)[u] = Xor(f[u], Pads(L, body, m, u))
      BY DEF Stage
    <3>2. CASE u \in Units(s)
      <4>1. g2[u] = Xor(g[u], PadBlock(L, body, m, u))
        <5>1. u \in s.off .. s.off + s.len - 1
          BY <3>2 DEF Units
        <5> HIDE DEF g, body
        <5> QED BY <3>0, <5>1 DEF aes128ctr, Keystream, Pad, PadBlock
      <4>2. Pads(L, body, m, u) = Xor(Pads(L, body, m - 1, u), PadBlock(L, body, m, u))
        BY <1>1, <3>2, PadsStep
      <4> HIDE DEF g2, g, body
      <4> QED BY <3>1, <4>1, <4>2, XorAssociative
    <3>3. CASE u \notin Units(s)
      <4>1. g2[u] = g[u]
        <5> HIDE DEF g, body
        <5> QED BY <3>0, <3>3 DEF aes128ctr, Units
      <4>2. Pads(L, body, m, u) = Pads(L, body, m - 1, u)
        BY <3>3, PadsStep
      <4> HIDE DEF g2, g, body
      <4> QED BY <3>1, <4>1, <4>2
    <3> QED BY <3>2, <3>3
  <2>3. g2 = [u \in 0 .. L.units - 1 |-> g2[u]]
    BY DEF aes128ctr, Stage
  <2>4. Stage(L, body, f, m) = [u \in 0 .. L.units - 1 |-> Stage(L, body, f, m)[u]]
    BY DEF Stage
  <2>5. g2 = Stage(L, body, f, m)
    <3> HIDE DEF g2, body
    <3> QED BY <2>2, <2>3, <2>4
  <2> HIDE DEF g2, g, body, s
  <2> QED BY <2>1, <2>5 DEF g, body, s
<1>2. CASE ~Encrypted(s)
  <2>1. ASSUME NEW u \in 0 .. L.units - 1
        PROVE  Pads(L, body, m, u) = Pads(L, body, m - 1, u)
    BY <1>2, PadsStep
  <2>2. Stage(L, body, f, m) = g
    <3> HIDE DEF body
    <3> QED BY <2>1 DEF Stage
  <2>3. CryptSection(im, Num(L), s) = im
    BY <1>2 DEF CryptSection
  <2> HIDE DEF g, body, s
  <2> QED BY <2>2, <2>3 DEF g, body, s
<1> QED BY <1>1, <1>2
-----------------------------------------------------------------------------
(* What decryption makes of damaged data under a damaged header. *)

DamData(L, k, H) ==
    [u \in 0 .. L.units - 1 |-> Dam(Crypted(L, k, Num(L))[u], <<"data", u>> \in H)]

Opened(L, k, H) == Stage(L, DamBody(L, k, H), DamData(L, k, H), Num(L))

BadSlot(L, H, j) == <<"body", SlotBlock(Num(L), j)>> \in H

\* Spoilt(u), of layout L and damage H.
Bad(L, H, u) ==
    \/ <<"data", u>> \in H
    \/ \E i \in Over(L, Num(L), u) :
          BadSlot(L, H, Sec(L, i).key) \/ BadSlot(L, H, Sec(L, i).iv)

\* Two lists of key streams are the same exactly when no key or iv was damaged.
LEMMA PadsSame ==
    ASSUME NEW L, WellFormed(L), NEW k, NEW H, NEW u
    PROVE  Pads(L, DamBody(L, k, H), Num(L), u) = Pads(L, Body(L, k), Num(L), u)
             <=> ~ \E i \in Over(L, Num(L), u) :
                      BadSlot(L, H, Sec(L, i).key) \/ BadSlot(L, H, Sec(L, i).iv)
<1> DEFINE n == Num(L)
           B == Body(L, k)
           D == DamBody(L, k, H)
<1>1. ASSUME NEW i \in Over(L, n, u)
      PROVE  /\ Slot(D, n, Sec(L, i).key) = Dam(Slot(B, n, Sec(L, i).key), BadSlot(L, H, Sec(L, i).key))
             /\ Slot(D, n, Sec(L, i).iv) = Dam(Slot(B, n, Sec(L, i).iv), BadSlot(L, H, Sec(L, i).iv))
             /\ Clean(Slot(B, n, Sec(L, i).key)) /\ Clean(Slot(B, n, Sec(L, i).iv))
  <2>1. i \in 1 .. Num(L) /\ Sec(L, i).key \in Used(L, i) /\ Sec(L, i).iv \in Used(L, i)
    BY DEF Over, Used
  <2> QED BY <2>1, DamSlot DEF BadSlot
<1>2. ASSUME \A i \in Over(L, n, u) :
                ~BadSlot(L, H, Sec(L, i).key) /\ ~BadSlot(L, H, Sec(L, i).iv)
      PROVE  Pads(L, D, n, u) = Pads(L, B, n, u)
  <2>1. ASSUME NEW i \in Over(L, n, u) PROVE Pad(L, D, i, u) = Pad(L, B, i, u)
    <3>1. /\ Slot(D, n, Sec(L, i).key) = Slot(B, n, Sec(L, i).key)
          /\ Slot(D, n, Sec(L, i).iv) = Slot(B, n, Sec(L, i).iv)
      BY <1>1, <1>2 DEF Dam
    <3> QED BY <3>1 DEF Pad
  <2> HIDE DEF n, B, D
  <2> QED BY <2>1 DEF Pads
<1>3. ASSUME NEW i \in Over(L, n, u),
             BadSlot(L, H, Sec(L, i).key) \/ BadSlot(L, H, Sec(L, i).iv)
      PROVE  Pads(L, D, n, u) # Pads(L, B, n, u)
  <2>1. Pad(L, D, i, u) \in Pads(L, D, n, u)
    BY DEF Pads
  <2>2. Pad(L, D, i, u) \notin Pads(L, B, n, u)
    <3> SUFFICES ASSUME NEW j \in Over(L, n, u), Pad(L, D, i, u) = Pad(L, B, j, u)
                 PROVE  FALSE
      BY DEF Pads
    <3>1. /\ Slot(D, n, Sec(L, i).key) = Slot(B, n, Sec(L, j).key)
          /\ Slot(D, n, Sec(L, i).iv) = Slot(B, n, Sec(L, j).iv)
      BY DEF Pad
    <3>2. Clean(Slot(B, n, Sec(L, j).key)) /\ Clean(Slot(B, n, Sec(L, j).iv))
      BY <1>1
    <3>3. <<"flip">> \notin Slot(D, n, Sec(L, i).key) /\ <<"flip">> \notin Slot(D, n, Sec(L, i).iv)
      <4> HIDE DEF n, B, D
      <4> QED BY <3>1, <3>2, CleanDam
    <3>4. <<"flip">> \in Slot(D, n, Sec(L, i).key) \/ <<"flip">> \in Slot(D, n, Sec(L, i).iv)
      <4>1. CASE BadSlot(L, H, Sec(L, i).key)
        <5> HIDE DEF n, B, D
        <5> QED BY <4>1, <1>1, CleanDam
      <4>2. CASE BadSlot(L, H, Sec(L, i).iv)
        <5> HIDE DEF n, B, D
        <5> QED BY <4>2, <1>1, CleanDam
      <4> QED BY <1>3, <4>1, <4>2
    <3> QED BY <3>3, <3>4
  <2> QED BY <2>1, <2>2
<1> QED BY <1>2, <1>3

LEMMA PadTerms ==
    ASSUME NEW L, NEW body, NEW m, NEW u, NEW t \in Pads(L, body, m, u)
    PROVE  t[1] = "ctr" /\ t # <<"flip">> /\ t # <<"data", u>>
BY DEF Pads, Pad

\* A unit comes out as it was exactly when nothing it depends on was damaged.
LEMMA OpenedUnit ==
    ASSUME NEW L, WellFormed(L), NEW k, NEW H, NEW u \in 0 .. L.units - 1
    PROVE  Opened(L, k, H)[u] = Plain(u) <=> ~Bad(L, H, u)
<1> DEFINE P == Pads(L, Body(L, k), Num(L), u)
           Q == Pads(L, DamBody(L, k, H), Num(L), u)
           h == <<"data", u>> \in H
           c == Xor(Plain(u), P)
<1>1. Opened(L, k, H)[u] = Xor(Dam(c, h), Q)
  BY DEF Opened, Stage, DamData, Crypted, PlainData
<1>2. <<"flip">> \notin Plain(u) /\ <<"flip">> \notin P /\ <<"flip">> \notin Q
  BY PadTerms DEF Plain
<1>3. P = Q <=> ~ \E i \in Over(L, Num(L), u) :
                      BadSlot(L, H, Sec(L, i).key) \/ BadSlot(L, H, Sec(L, i).iv)
  BY PadsSame
<1> HIDE DEF P, Q, h
<1>4. CASE h
  <2>1. <<"flip">> \in Xor(Dam(c, h), Q)
    <3> DEFINE f == <<"flip">>
    <3>1. f \notin Plain(u) /\ f \notin P /\ f \notin Q
      BY <1>2
    <3> HIDE DEF f
    <3>2. f \in Xor(Xor(Xor(Plain(u), P), {f}), Q)
      BY <3>1 DEF Xor
    <3> QED BY <3>2, <1>4 DEF Dam, Flip, f
  <2> QED BY <1>1, <1>2, <1>4, <2>1 DEF Bad, h
<1>5. CASE ~h
  <2>1. Opened(L, k, H)[u] = Xor(Xor(Plain(u), P), Q)
    BY <1>1, <1>5 DEF Dam
  <2>2. Xor(Xor(Plain(u), P), Q) = Plain(u) <=> P = Q
    BY DEF Xor
  <2> QED BY <1>3, <1>5, <2>1, <2>2 DEF Bad, h
<1> QED BY <1>4, <1>5
-----------------------------------------------------------------------------
(* What a reader finds in a decrypted header. *)

BadBody(H, b) == <<"body", b>> \in H

\* A block of one term: damage makes it one of two terms.
LEMMA OneTerm ==
    ASSUME NEW t, t # <<"flip">>, NEW c, c = {t}, NEW h
    PROVE  /\ ~h => Dam(c, h) = c
           /\ h => t \in Dam(c, h) /\ <<"flip">> \in Dam(c, h)
<1> DEFINE f == <<"flip">>
<1>1. t # f
  OBVIOUS
<1> HIDE DEF f
<1>2. /\ ~h => Dam(c, h) = c
      /\ h => t \in Dam(c, h) /\ f \in Dam(c, h)
  BY <1>1 DEF Dam, Flip, Xor, f
<1> QED BY <1>2 DEF f

LEMMA MetaBlocks ==
    ASSUME NEW L, WellFormed(L), NEW k, NEW H
    PROVE  /\ HasMeta(DamBody(L, k, H)) <=> ~BadBody(H, 1) /\ ~BadBody(H, 2)
           /\ ~BadBody(H, 1) => MetaOf(DamBody(L, k, H)) = [sig |-> L.sig, n |-> Num(L)]
<1> DEFINE v    == [sig |-> L.sig, n |-> Num(L)]
           t(p) == <<"meta", v, p>>
           D    == DamBody(L, k, H)
<1>1. ASSUME NEW p \in 1 .. 2
      PROVE  D[p] = Dam(Body(L, k)[p], BadBody(H, p)) /\ Body(L, k)[p] = {t(p)}
  <2>1. p \in 1 .. L.blocks
    BY SectionFacts
  <2>2. Body(L, k)[p] = {t(p)}
    BY BodyCells
  <2> QED BY <2>1, <2>2 DEF DamBody, BadBody
<1>2. ASSUME NEW p \in 1 .. 2
      PROVE  (\E s \in D[p] : D[p] = {s} /\ s[1] = "meta") <=> ~BadBody(H, p)
  <2> DEFINE s0 == t(p)
  <2>1. s0 # <<"flip">> /\ s0[1] = "meta"
    OBVIOUS
  <2>2. D[p] = Dam(Body(L, k)[p], BadBody(H, p)) /\ Body(L, k)[p] = {s0}
    BY <1>1
  <2> HIDE DEF s0, D
  <2>3. /\ ~BadBody(H, p) => D[p] = Body(L, k)[p]
        /\ BadBody(H, p) => s0 \in D[p] /\ <<"flip">> \in D[p]
    BY <2>1, <2>2, OneTerm
  <2> QED BY <2>1, <2>2, <2>3
<1>3. HasMeta(D) <=> ~BadBody(H, 1) /\ ~BadBody(H, 2)
  <2>1. HasMeta(D) <=> \A p \in 1 .. 2 : ~BadBody(H, p)
    <3> HIDE DEF D
    <3> QED BY <1>2 DEF HasMeta
  <2> QED BY <2>1
<1>4. ASSUME ~BadBody(H, 1) PROVE MetaOf(D) = v
  <2>1. D[1] = {t(1)}
    BY <1>1, <1>4, 1 \in 1 .. 2 DEF Dam
  <2>2. (CHOOSE s \in D[1] : TRUE) = t(1)
    <3> HIDE DEF D
    <3> QED BY <2>1
  <2>3. t(1)[2] = v
    OBVIOUS
  <2> HIDE DEF D
  <2> QED BY <2>2, <2>3 DEF MetaOf
<1> QED BY <1>3, <1>4

LEMMA SecBlocks ==
    ASSUME NEW L, WellFormed(L), NEW k, NEW H, NEW i \in 1 .. Num(L)
    PROVE  /\ HasSec(DamBody(L, k, H), i) <=> \A p \in 1 .. 3 : ~BadBody(H, SecBlock(i, p))
           /\ HasSec(DamBody(L, k, H), i) => SecOf(DamBody(L, k, H), i) = Sec(L, i)
           /\ \A p \in 1 .. 3 : SecBlock(i, p) \in 3 .. 2 + 3 * Num(L)
<1> DEFINE t(p) == <<"sec", Sec(L, i), p>>
           D    == DamBody(L, k, H)
<1>0. /\ Num(L) \in Nat /\ L.blocks \in Nat /\ L.sig \in Nat
      /\ 2 + 3 * Num(L) <= L.sig /\ L.sig + 3 <= L.blocks
  BY SectionFacts
<1>1. ASSUME NEW p \in 1 .. 3
      PROVE  /\ SecBlock(i, p) \in 3 .. 2 + 3 * Num(L)
             /\ D[SecBlock(i, p)] = Dam(Body(L, k)[SecBlock(i, p)], BadBody(H, SecBlock(i, p)))
             /\ Body(L, k)[SecBlock(i, p)] = {t(p)}
  <2> DEFINE b == SecBlock(i, p)
  <2>1. b = 2 + 3 * (i - 1) + p
    BY DEF SecBlock
  <2>2. b \in 3 .. 2 + 3 * Num(L) /\ b \in 1 .. L.blocks
    BY <1>0, <2>1
  <2>3. ((b - 3) \div 3) + 1 = i /\ ((b - 3) % 3) + 1 = p
    BY <2>1
  <2>4. Body(L, k)[b] = {<<"sec", Sec(L, ((b - 3) \div 3) + 1), ((b - 3) % 3) + 1>>}
    BY <2>2, BodyCells
  <2>5. D[b] = Dam(Body(L, k)[b], BadBody(H, b))
    BY <2>2 DEF DamBody, BadBody
  <2> HIDE DEF b, D
  <2>6. Body(L, k)[b] = {t(p)}
    BY <2>3, <2>4
  <2> QED BY <2>2, <2>5, <2>6 DEF b
<1>2. ASSUME NEW p \in 1 .. 3
      PROVE  (\E s \in D[SecBlock(i, p)] : D[SecBlock(i, p)] = {s} /\ s[1] = "sec")
                <=> ~BadBody(H, SecBlock(i, p))
  <2> DEFINE s0 == t(p)
             c  == D[SecBlock(i, p)]
             h  == BadBody(H, SecBlock(i, p))
             d  == Body(L, k)[SecBlock(i, p)]
  <2>1. s0 # <<"flip">> /\ s0[1] = "sec"
    OBVIOUS
  <2>2. c = Dam(d, h) /\ d = {s0}
    BY <1>1
  <2> HIDE DEF s0, c, d, h
  <2>3. (~h => c = d) /\ (h => s0 \in c /\ <<"flip">> \in c)
    BY <2>1, <2>2, OneTerm
  <2>4. (\E s \in c : c = {s} /\ s[1] = "sec") <=> ~h
    BY <2>1, <2>2, <2>3
  <2> QED BY <2>4 DEF c, h
<1>3. HasSec(D, i) <=> \A p \in 1 .. 3 : ~BadBody(H, SecBlock(i, p))
  <2> HIDE DEF D
  <2> QED BY <1>2 DEF HasSec
<1>4. ASSUME HasSec(D, i) PROVE SecOf(D, i) = Sec(L, i)
  <2>1. D[SecBlock(i, 1)] = {t(1)}
    BY <1>1, <1>3, <1>4, 1 \in 1 .. 3 DEF Dam
  <2>2. (CHOOSE s \in D[SecBlock(i, 1)] : TRUE) = t(1)
    <3> HIDE DEF D
    <3> QED BY <2>1
  <2>3. t(1)[2] = Sec(L, i)
    OBVIOUS
  <2> HIDE DEF D
  <2> QED BY <2>2, <2>3 DEF SecOf
<1>5. \A p \in 1 .. 3 : SecBlock(i, p) \in 3 .. 2 + 3 * Num(L)
  BY <1>1
<1> QED BY <1>3, <1>4, <1>5

-----------------------------------------------------------------------------
(* The finished image, and what damage makes of it. *)

Stream(b) == Keystream({<<"key">>}, {<<"iv">>}, b - 1)

SealedBody(L, k) == [b \in 1 .. L.blocks |-> Xor(Body(L, k)[b], Stream(b))]

Damaged(L, k, H) ==
    [ hdr  |-> Dam({<<"hdr", L.kind>>}, <<"hdr", 0>> \in H),
      info |-> << Dam(SealedInfo(k)[1], <<"info", 1>> \in H),
                  Dam(SealedInfo(k)[2], <<"info", 2>> \in H),
                  Dam(SealedInfo(k)[3], <<"info", 3>> \in H),
                  Dam(SealedInfo(k)[4], <<"info", 4>> \in H) >>,
      body |-> [b \in 1 .. L.blocks |-> Dam(SealedBody(L, k)[b], BadBody(H, b))],
      data |-> DamData(L, k, H) ]

LEMMA DamBodyEmpty ==
    ASSUME NEW L, NEW k
    PROVE  DamBody(L, k, {}) = Body(L, k)
BY DEF DamBody, Dam, Body

LEMMA SealedFields ==
    ASSUME NEW L, WellFormed(L), NEW k
    PROVE  Sealed(L, k) = [ hdr  |-> {<<"hdr", L.kind>>}, info |-> SealedInfo(k),
                            body |-> SealedBody(L, k),
                            data |-> Crypted(L, k, Num(L)) ]
<1> DEFINE B == Body(L, k)
           C == Crypted(L, k, Num(L))
<1>0. L.blocks \in Nat
  BY SectionFacts
<1>1. aes128ctr({<<"key">>}, {<<"iv">>}, 0, B, 1, L.blocks) = SealedBody(L, k)
  <2>1. DOMAIN B = 1 .. L.blocks
    BY DEF Body
  <2> HIDE DEF B
  <2>2. \A b \in 1 .. L.blocks : 0 + (b - 1) = b - 1
    BY <1>0
  <2> QED BY <2>1, <2>2 DEF aes128ctr, SealedBody, Stream, B
<1>2. PlainInfo[1] = {<<"key">>} /\ PlainInfo[3] = {<<"iv">>}
  BY DEF PlainInfo
<1>3. Sealed(L, k) = [ hdr  |-> {<<"hdr", L.kind>>},
                       info |-> aes256cbc_enc(RootKey(k), RootIv(k), PlainInfo),
                       body |-> aes128ctr(PlainInfo[1], PlainInfo[3], 0, B, 1, L.blocks),
                       data |-> C ]
  <2> DEFINE h0 == {<<"hdr", L.kind>>}
             i0 == [hdr |-> h0, info |-> PlainInfo, body |-> B, data |-> C]
  <2>1. Sealed(L, k) = sce_encrypt_header(i0, L.blocks, RootKey(k), RootIv(k))
    BY DEF Sealed, Header
  <2> HIDE DEF B, C, h0
  <2> DEFINE x == aes128ctr(PlainInfo[1], PlainInfo[3], 0, B, 1, L.blocks)
             y == aes256cbc_enc(RootKey(k), RootIv(k), PlainInfo)
  <2>2. sce_encrypt_header(i0, L.blocks, RootKey(k), RootIv(k))
          = [i0 EXCEPT !.body = aes128ctr(i0.info[1], i0.info[3], 0, i0.body, 1, L.blocks),
                       !.info = aes256cbc_enc(RootKey(k), RootIv(k), i0.info)]
    BY Zenon DEF sce_encrypt_header
  <2>3. sce_encrypt_header(i0, L.blocks, RootKey(k), RootIv(k)) = [i0 EXCEPT !.body = x, !.info = y]
    <3>1. i0.info = PlainInfo /\ i0.body = B
      OBVIOUS
    <3> HIDE DEF i0
    <3> QED BY <2>2, <3>1
  <2> HIDE DEF x, y
  <2>4. [i0 EXCEPT !.body = x, !.info = y] = [hdr |-> h0, info |-> y, body |-> x, data |-> C]
    <3> DEFINE j0 == [i0 EXCEPT !.body = x]
    <3>1. j0 = [hdr |-> h0, info |-> PlainInfo, body |-> x, data |-> C]
      OBVIOUS
    <3> HIDE DEF j0
    <3>2. [j0 EXCEPT !.info = y] = [hdr |-> h0, info |-> y, body |-> x, data |-> C]
      BY <3>1
    <3> HIDE DEF i0
    <3>3. [i0 EXCEPT !.body = x, !.info = y] = [j0 EXCEPT !.info = y]
      BY DEF j0
    <3> QED BY <3>2, <3>3
  <2> HIDE DEF i0
  <2> QED BY <2>1, <2>3, <2>4 DEF h0, x, y
<1> HIDE DEF B, C
<1> QED BY <1>1, <1>2, <1>3 DEF SealedInfo, C

LEMMA InfoTuple ==
    ASSUME NEW k
    PROVE  SealedInfo(k) = << SealedInfo(k)[1], SealedInfo(k)[2], SealedInfo(k)[3], SealedInfo(k)[4] >>
BY DEF SealedInfo, aes256cbc_enc

LEMMA DamagedNone ==
    ASSUME NEW L, WellFormed(L), NEW k
    PROVE  Damaged(L, k, {}) = Sealed(L, k)
<1>3. [b \in 1 .. L.blocks |-> Dam(SealedBody(L, k)[b], BadBody({}, b))] = SealedBody(L, k)
  BY DEF Dam, SealedBody, BadBody
<1>4. DamData(L, k, {}) = Crypted(L, k, Num(L))
  <2>1. Crypted(L, k, Num(L)) = [u \in 0 .. L.units - 1 |-> Crypted(L, k, Num(L))[u]]
    BY DEF Crypted, Stage
  <2> QED BY <2>1 DEF DamData, Dam
<1> DEFINE h0 == {<<"hdr", L.kind>>}
<1> HIDE DEF h0
<1>5. /\ Dam(h0, <<"hdr", 0>> \in {}) = h0
      /\ Dam(SealedInfo(k)[1], <<"info", 1>> \in {}) = SealedInfo(k)[1]
      /\ Dam(SealedInfo(k)[2], <<"info", 2>> \in {}) = SealedInfo(k)[2]
      /\ Dam(SealedInfo(k)[3], <<"info", 3>> \in {}) = SealedInfo(k)[3]
      /\ Dam(SealedInfo(k)[4], <<"info", 4>> \in {}) = SealedInfo(k)[4]
  BY DEF Dam
<1>6. Sealed(L, k) = [ hdr  |-> h0, info |-> SealedInfo(k),
                       body |-> SealedBody(L, k), data |-> Crypted(L, k, Num(L)) ]
  BY SealedFields DEF h0
<1> QED BY <1>3, <1>4, <1>5, <1>6, InfoTuple DEF Damaged, h0

\* One more place damaged.
AllPlaces(L) == ({"hdr"} \X {0}) \cup ({"info"} \X (1 .. 4))
                \cup ({"body"} \X (1 .. L.blocks)) \cup ({"data"} \X (0 .. L.units - 1))

LEMMA DamMore ==
    ASSUME NEW H, NEW p, p \notin H, NEW c, NEW q
    PROVE  Dam(c, q \in H \cup {p}) = IF q = p THEN Flip(Dam(c, q \in H)) ELSE Dam(c, q \in H)
<1>1. CASE q = p
  BY <1>1 DEF Dam
<1>2. CASE q # p
  BY <1>2 DEF Dam
<1> QED BY <1>1, <1>2

LEMMA DamageStep ==
    ASSUME NEW L, NEW k, NEW H, NEW p \in AllPlaces(L), p \notin H
    PROVE  Struck(Damaged(L, k, H), p) = Damaged(L, k, H \cup {p})
<1> DEFINE h(G)   == Dam({<<"hdr", L.kind>>}, <<"hdr", 0>> \in G)
           i1(G)  == Dam(SealedInfo(k)[1], <<"info", 1>> \in G)
           i2(G)  == Dam(SealedInfo(k)[2], <<"info", 2>> \in G)
           i3(G)  == Dam(SealedInfo(k)[3], <<"info", 3>> \in G)
           i4(G)  == Dam(SealedInfo(k)[4], <<"info", 4>> \in G)
           i(G)   == <<i1(G), i2(G), i3(G), i4(G)>>
           b(G)   == [x \in 1 .. L.blocks |-> Dam(SealedBody(L, k)[x], BadBody(G, x))]
           d(G)   == DamData(L, k, G)
           im(G)  == [hdr |-> h(G), info |-> i(G), body |-> b(G), data |-> d(G)]
           G      == H \cup {p}
<1>0. Damaged(L, k, H) = im(H) /\ Damaged(L, k, G) = im(G)
  BY DEF Damaged
<1>1. h(G) = IF p = <<"hdr", 0>> THEN Flip(h(H)) ELSE h(H)
  BY DamMore
<1>2. /\ i1(G) = IF p = <<"info", 1>> THEN Flip(i1(H)) ELSE i1(H)
      /\ i2(G) = IF p = <<"info", 2>> THEN Flip(i2(H)) ELSE i2(H)
      /\ i3(G) = IF p = <<"info", 3>> THEN Flip(i3(H)) ELSE i3(H)
      /\ i4(G) = IF p = <<"info", 4>> THEN Flip(i4(H)) ELSE i4(H)
  BY DamMore
<1>3. \A x \in 1 .. L.blocks : b(G)[x] = IF p = <<"body", x>> THEN Flip(b(H)[x]) ELSE b(H)[x]
  BY DamMore DEF BadBody
<1>4. \A x \in 0 .. L.units - 1 : d(G)[x] = IF p = <<"data", x>> THEN Flip(d(H)[x]) ELSE d(H)[x]
  BY DamMore DEF DamData
<1>5. /\ b(H) = [x \in 1 .. L.blocks |-> b(H)[x]] /\ b(G) = [x \in 1 .. L.blocks |-> b(G)[x]]
      /\ d(H) = [x \in 0 .. L.units - 1 |-> d(H)[x]]
      /\ d(G) = [x \in 0 .. L.units - 1 |-> d(G)[x]]
  BY DEF DamData
<1> HIDE DEF h, i1, i2, i3, i4, b, d, G
<1> SUFFICES Struck(im(H), p) = im(G)
  BY <1>0, Zenon DEF G
<1>6. CASE p \in {"hdr"} \X {0}
  <2>1. p = <<"hdr", 0>>
    BY <1>6
  <2>2. i(G) = i(H)
    BY <1>2, <2>1
  <2>3. b(G) = b(H) /\ d(G) = d(H)
    BY <1>3, <1>4, <1>5, <2>1
  <2>4. Struck(im(H), p) = [im(H) EXCEPT !.hdr = Flip(@)]
    BY <2>1 DEF Struck
  <2> HIDE DEF i
  <2> QED BY <1>1, <2>1, <2>2, <2>3, <2>4
<1>7. CASE p \in {"info"} \X (1 .. 4)
  <2>1. PICK x \in 1 .. 4 : p = <<"info", x>>
    BY <1>7
  <2>2. h(G) = h(H)
    BY <1>1, <2>1
  <2>3. b(G) = b(H) /\ d(G) = d(H)
    BY <1>3, <1>4, <1>5, <2>1
  <2>4. Struck(im(H), p) = [im(H) EXCEPT !.info[x] = Flip(@)]
    BY <2>1 DEF Struck
  <2>5. i(G) = [i(H) EXCEPT ![x] = Flip(@)]
    <3>1. x = 1 \/ x = 2 \/ x = 3 \/ x = 4
      OBVIOUS
    <3> QED BY <3>1, <1>2, <2>1
  <2> HIDE DEF i
  <2> QED BY <2>2, <2>3, <2>4, <2>5
<1>8. CASE p \in {"body"} \X (1 .. L.blocks)
  <2>1. PICK x \in 1 .. L.blocks : p = <<"body", x>>
    BY <1>8
  <2>2. h(G) = h(H) /\ i(G) = i(H)
    BY <1>1, <1>2, <2>1
  <2>3. d(G) = d(H)
    BY <1>4, <1>5, <2>1
  <2>4. Struck(im(H), p) = [im(H) EXCEPT !.body[x] = Flip(@)]
    BY <2>1 DEF Struck
  <2>5. b(G) = [b(H) EXCEPT ![x] = Flip(@)]
    <3>1. \A y \in 1 .. L.blocks : b(G)[y] = IF x = y THEN Flip(b(H)[y]) ELSE b(H)[y]
      BY <1>3, <2>1
    <3> QED BY <1>5, <3>1
  <2> HIDE DEF i
  <2> QED BY <2>2, <2>3, <2>4, <2>5
<1>9. CASE p \in {"data"} \X (0 .. L.units - 1)
  <2>1. PICK x \in 0 .. L.units - 1 : p = <<"data", x>>
    BY <1>9
  <2>2. h(G) = h(H) /\ i(G) = i(H)
    BY <1>1, <1>2, <2>1
  <2>3. b(G) = b(H)
    BY <1>3, <1>5, <2>1
  <2>4. Struck(im(H), p) = [im(H) EXCEPT !.data[x] = Flip(@)]
    BY <2>1 DEF Struck
  <2>5. d(G) = [d(H) EXCEPT ![x] = Flip(@)]
    <3>1. \A y \in 0 .. L.units - 1 : d(G)[y] = IF x = y THEN Flip(d(H)[y]) ELSE d(H)[y]
      BY <1>4, <2>1
    <3> QED BY <1>5, <3>1
  <2> HIDE DEF i
  <2> QED BY <2>2, <2>3, <2>4, <2>5
<1> QED BY <1>6, <1>7, <1>8, <1>9 DEF AllPlaces
-----------------------------------------------------------------------------
(* What sceverify finds in a decrypted, damaged image. *)

\* A signature and the block it must equal, when one of the two may be damaged.
LEMMA DamSingle ==
    ASSUME NEW t, t # <<"flip">>, NEW c, c = {t}, NEW h, NEW s, NEW e, e = {s}
    PROVE  Dam(c, h) = e <=> ~h /\ t = s
<1>1. /\ ~h => Dam(c, h) = c
      /\ h => t \in Dam(c, h) /\ <<"flip">> \in Dam(c, h)
  BY OneTerm
<1>2. c = e <=> t = s
  OBVIOUS
<1>3. h => Dam(c, h) # e
  BY <1>1
<1> QED BY <1>1, <1>2, <1>3

\* The signature covers the header up to itself.
LEMMA SignatureCovers ==
    ASSUME NEW L, WellFormed(L), NEW k, NEW H, NEW im,
           im.hdr = Dam({<<"hdr", L.kind>>}, <<"hdr", 0>> \in H),
           im.info = PlainInfo,
           im.body = DamBody(L, k, H)
    PROVE  ecdsa_verify(k, Digest(im, L.sig), [p \in 1 .. 3 |-> im.body[L.sig + p]])
             <=> <<"hdr", 0>> \notin H /\ \A b \in 1 .. L.sig + 3 : ~BadBody(H, b)
<1> DEFINE D  == DamBody(L, k, H)
           B  == Body(L, k)
           h0 == {<<"hdr", L.kind>>}
           SD == SignedDigest(L)
           dg == Digest(im, L.sig)
           hh == <<"hdr", 0>> \in H
           t(p) == <<"sig", k, SD, p>>
           s(p) == <<"sig", k, dg, p>>
<1>0. L.blocks \in Nat /\ L.sig \in Nat /\ L.sig + 3 <= L.blocks
  BY SectionFacts
<1>1. ASSUME NEW b \in 1 .. L.blocks PROVE D[b] = Dam(B[b], BadBody(H, b))
  BY DEF DamBody, BadBody
<1>2. ASSUME NEW p \in 1 .. 3
      PROVE  D[L.sig + p] = {s(p)} <=> ~BadBody(H, L.sig + p) /\ dg = SD
  <2> DEFINE c  == B[L.sig + p]
             h  == BadBody(H, L.sig + p)
             tp == t(p)
             sp == s(p)
             e  == {sp}
  <2>1. c = {tp}
    BY BodyCells
  <2>2. D[L.sig + p] = Dam(c, h)
    <3>1. L.sig + p \in 1 .. L.blocks
      BY <1>0
    <3> HIDE DEF D, B
    <3> QED BY <1>1, <3>1
  <2>3. tp # <<"flip">>
    OBVIOUS
  <2>4. tp = sp <=> dg = SD
    <3> HIDE DEF dg, SD
    <3> QED OBVIOUS
  <2>5. e = {sp}
    OBVIOUS
  <2> HIDE DEF c, h, tp, sp, e
  <2>6. Dam(c, h) = e <=> ~h /\ tp = sp
    BY ONLY <2>1, <2>3, <2>5, DamSingle
  <2>7. D[L.sig + p] = e <=> ~h /\ dg = SD
    BY <2>2, <2>4, <2>6
  <2> QED BY <2>7 DEF e, sp, h
<1>3. dg = SD <=> ~hh /\ \A b \in 1 .. L.sig : ~BadBody(H, b)
  <2> DEFINE f == [b \in 1 .. L.sig |-> D[b]]
             g == [b \in 1 .. L.sig |-> Hashed(L, Num(L))[b]]
  <2>1. dg = <<Dam(h0, hh), PlainInfo, f>> /\ SD = <<h0, PlainInfo, g>>
    BY DEF Digest, SignedDigest
  <2>2. Dam(h0, hh) = h0 <=> ~hh
    <3> HIDE DEF h0, hh
    <3> QED BY FlipChanges DEF Dam
  <2>3. f = g <=> \A b \in 1 .. L.sig : ~BadBody(H, b)
    <3>1. ASSUME NEW b \in 1 .. L.sig PROVE f[b] = g[b] <=> ~BadBody(H, b)
      <4>1. b \in 1 .. L.blocks /\ B[b] = Hashed(L, Num(L))[b]
        BY <1>0, BodyCells
      <4>2. f[b] = Dam(B[b], BadBody(H, b)) /\ g[b] = B[b]
        BY <1>1, <4>1
      <4> HIDE DEF f, g, B, D
      <4> QED BY <4>2, FlipChanges DEF Dam
    <3>2. f = [b \in 1 .. L.sig |-> f[b]] /\ g = [b \in 1 .. L.sig |-> g[b]]
      OBVIOUS
    <3> HIDE DEF f, g
    <3> QED BY <3>1, <3>2
  <2> HIDE DEF f, g, dg, SD, hh, h0
  <2>4. dg = SD <=> Dam(h0, hh) = h0 /\ f = g
    BY <2>1
  <2> QED BY <2>2, <2>3, <2>4
<1>4. ecdsa_verify(k, dg, [p \in 1 .. 3 |-> im.body[L.sig + p]])
        <=> \A p \in 1 .. 3 : D[L.sig + p] = {s(p)}
  <2> HIDE DEF D, dg
  <2> QED BY DEF ecdsa_verify, ecdsa_sign, D
<1> HIDE DEF D, dg, SD, hh, B, s
<1>5. (\A b \in 1 .. L.sig + 3 : ~BadBody(H, b))
        <=> (\A b \in 1 .. L.sig : ~BadBody(H, b)) /\ (\A p \in 1 .. 3 : ~BadBody(H, L.sig + p))
  <2>1. ASSUME \A b \in 1 .. L.sig : ~BadBody(H, b), \A p \in 1 .. 3 : ~BadBody(H, L.sig + p),
               NEW b \in 1 .. L.sig + 3
        PROVE  ~BadBody(H, b)
    <3>1. CASE b \in 1 .. L.sig
      BY <2>1, <3>1
    <3>2. CASE b \notin 1 .. L.sig
      <4>1. b - L.sig \in 1 .. 3 /\ L.sig + (b - L.sig) = b
        BY <1>0, <3>2
      <4> QED BY <2>1, <4>1
    <3> QED BY <3>1, <3>2
  <2>2. \A b \in 1 .. L.sig : b \in 1 .. L.sig + 3
    BY <1>0
  <2>3. \A p \in 1 .. 3 : L.sig + p \in 1 .. L.sig + 3
    BY <1>0
  <2> QED BY <2>1, <2>2, <2>3
<1>6. (\A p \in 1 .. 3 : D[L.sig + p] = {s(p)})
        <=> dg = SD /\ \A p \in 1 .. 3 : ~BadBody(H, L.sig + p)
  BY <1>2, 1 \in 1 .. 3
<1> QED BY <1>3, <1>4, <1>5, <1>6 DEF hh, dg

\* A stored digest covers its section's units, its key and itself.
LEMMA DigestCovers ==
    ASSUME NEW L, WellFormed(L), NEW k, NEW H, NEW i \in 1 .. Num(L)
    PROVE  LET s == Sec(L, i)
               D == DamBody(L, k, H)
           IN  sha1_hmac(HmacKey(D, Num(L), s.sha), Section(Opened(L, k, H), s))
                 = <<Slot(D, Num(L), s.sha), Slot(D, Num(L), s.sha + 1)>>
               <=> /\ \A u \in Units(s) : ~Bad(L, H, u)
                   /\ \A j \in s.sha .. s.sha + 5 : ~BadSlot(L, H, j)
<1> DEFINE s  == Sec(L, i)
           n  == Num(L)
           D  == DamBody(L, k, H)
           B  == Body(L, k)
           hk == HmacKey(D, n, s.sha)
           dt == Section(Opened(L, k, H), s)
           pk == MacKey(L, i)
           pt == Section(PlainData(L), s)
<1>0. /\ n \in Nat /\ s.off \in Nat /\ s.len \in Nat /\ s.sha \in Nat /\ L.units \in Nat
      /\ s.off + s.len <= L.units /\ L.sig \in Nat /\ L.blocks \in Nat
  BY SectionFacts
<1>1. ASSUME NEW q \in 0 .. 5
      PROVE  /\ Slot(D, n, s.sha + q) = Dam(Slot(B, n, s.sha + q), BadSlot(L, H, s.sha + q))
             /\ Slot(B, n, s.sha + q) = Slot(Hashed(L, n), n, s.sha + q)
  <2>1. s.sha + q \in Used(L, i)
    BY HashSlotsUsed
  <2>2. SlotBlock(n, s.sha + q) \in 1 .. L.sig
    BY <1>0, <2>1, SlotFacts
  <2> QED BY <2>1, <2>2, DamSlot, BodyCells DEF BadSlot, Slot
<1>2. ASSUME NEW p \in 1 .. 2
      PROVE  {<<"mac", hk, dt, p>>} = Slot(D, n, s.sha + (p - 1))
               <=> ~BadSlot(L, H, s.sha + (p - 1)) /\ hk = pk /\ dt = pt
  <2> DEFINE c  == Slot(B, n, s.sha + (p - 1))
             h  == BadSlot(L, H, s.sha + (p - 1))
             tp == MacTerm(L, i, p)
             sp == <<"mac", hk, dt, p>>
             e  == {sp}
  <2>1. Slot(D, n, s.sha + (p - 1)) = Dam(c, h)
    BY <1>1, p - 1 \in 0 .. 5
  <2>2. c = {tp}
    <3>1. Slot(B, n, s.sha + (p - 1)) = Slot(Hashed(L, n), n, s.sha + (p - 1))
      BY <1>1, p - 1 \in 0 .. 5
    <3>2. SlotBlock(n, s.sha + (p - 1)) = At(L, i) + (p - 1)
      BY <1>0 DEF At, SlotBlock
    <3>3. Hashed(L, n)[At(L, i) + (p - 1)] = {tp}
      <4>1. n \in 0 .. n /\ At(L, i) \in Nat
        BY <1>0, AtFacts
      <4>2. Hashed(L, n)[At(L, i)] = Mac(L, i)[1] /\ Hashed(L, n)[At(L, i) + 1] = Mac(L, i)[2]
        BY <4>1, HashedCells
      <4>3. Mac(L, i)[1] = {MacTerm(L, i, 1)} /\ Mac(L, i)[2] = {MacTerm(L, i, 2)}
        BY MacCells
      <4>4. p = 1 \/ p = 2
        OBVIOUS
      <4>5. At(L, i) + (1 - 1) = At(L, i) /\ At(L, i) + (2 - 1) = At(L, i) + 1
        BY <4>1
      <4> QED BY <4>2, <4>3, <4>4, <4>5
    <3> QED BY <3>1, <3>2, <3>3 DEF Slot
  <2>3. tp # <<"flip">>
    BY DEF MacTerm
  <2>4. tp = sp <=> hk = pk /\ dt = pt
    <3> HIDE DEF hk, dt, pk
    <3> QED BY DEF MacTerm, pk
  <2>5. e = {sp}
    OBVIOUS
  <2> HIDE DEF c, h, tp, sp, e
  <2>6. Dam(c, h) = e <=> ~h /\ tp = sp
    BY <2>2, <2>3, <2>5, DamSingle
  <2>7. e = Slot(D, n, s.sha + (p - 1)) <=> ~h /\ hk = pk /\ dt = pt
    BY <2>1, <2>4, <2>6
  <2> QED BY <2>7 DEF e, sp, h
<1>3. hk = pk <=> \A p \in 1 .. 4 : ~BadSlot(L, H, s.sha + (1 + p))
  <2>1. ASSUME NEW p \in 1 .. 4 PROVE hk[p] = pk[p] <=> ~BadSlot(L, H, s.sha + (1 + p))
    <3> DEFINE j == s.sha + (1 + p)
    <3>1. s.sha + 1 + p = j
      BY <1>0
    <3>2. hk[p] = Slot(D, n, j)
      BY <3>1 DEF HmacKey
    <3>3. pk[p] = Slot(B, n, j)
      <4>1. pk = HmacKey(Hashed(L, n), n, s.sha)
        BY <1>0, HmacKeyKept, n \in 0 .. n DEF MacKey
      <4>2. pk[p] = Slot(Hashed(L, n), n, j)
        BY <3>1, <4>1 DEF HmacKey
      <4> QED BY <1>1, <4>2, 1 + p \in 0 .. 5
    <3>4. Slot(D, n, j) = Dam(Slot(B, n, j), BadSlot(L, H, j))
      BY <1>1, 1 + p \in 0 .. 5
    <3> HIDE DEF hk, pk, D, B, j
    <3> QED BY <3>2, <3>3, <3>4, FlipChanges DEF Dam, j
  <2>2. hk = [p \in 1 .. 4 |-> hk[p]] /\ pk = [p \in 1 .. 4 |-> pk[p]]
    BY DEF HmacKey, MacKey
  <2> HIDE DEF hk, pk
  <2> QED BY <2>1, <2>2
<1>4. dt = pt <=> \A u \in Units(s) : ~Bad(L, H, u)
  <2>1. ASSUME NEW p \in 1 .. s.len
        PROVE  /\ s.off + p - 1 \in Units(s)
               /\ dt[p] = pt[p] <=> ~Bad(L, H, s.off + p - 1)
    <3> DEFINE u == s.off + p - 1
    <3>1. u \in 0 .. L.units - 1 /\ u \in Units(s)
      BY <1>0 DEF Units
    <3>2. dt[p] = Opened(L, k, H)[u] /\ pt[p] = Plain(u)
      BY <3>1 DEF Section, PlainData
    <3> HIDE DEF u, dt, pt
    <3> QED BY <3>1, <3>2, OpenedUnit DEF u
  <2>2. dt = [p \in 1 .. s.len |-> dt[p]] /\ pt = [p \in 1 .. s.len |-> pt[p]]
    BY DEF Section
  <2>3. dt = pt <=> \A p \in 1 .. s.len : dt[p] = pt[p]
    <3> HIDE DEF dt, pt, s
    <3> QED BY <2>2
  <2>4. ASSUME NEW u \in Units(s) PROVE u - s.off + 1 \in 1 .. s.len /\ s.off + (u - s.off + 1) - 1 = u
    BY <1>0 DEF Units
  <2> HIDE DEF dt, pt
  <2> QED BY <2>1, <2>3, <2>4
<1>5. (\A j \in s.sha .. s.sha + 5 : ~BadSlot(L, H, j))
        <=> /\ ~BadSlot(L, H, s.sha + (1 - 1)) /\ ~BadSlot(L, H, s.sha + (2 - 1))
            /\ \A p \in 1 .. 4 : ~BadSlot(L, H, s.sha + (1 + p))
  <2>1. ASSUME NEW j \in s.sha .. s.sha + 5, ~BadSlot(L, H, s.sha + (1 - 1)),
               ~BadSlot(L, H, s.sha + (2 - 1)),
               \A p \in 1 .. 4 : ~BadSlot(L, H, s.sha + (1 + p))
        PROVE  ~BadSlot(L, H, j)
    <3>1. CASE j = s.sha
      BY <1>0, <2>1, <3>1, s.sha + (1 - 1) = s.sha
    <3>2. CASE j = s.sha + 1
      BY <1>0, <2>1, <3>2, s.sha + (2 - 1) = s.sha + 1
    <3>3. CASE j # s.sha /\ j # s.sha + 1
      <4> DEFINE r == s.sha
                 p == j - r - 1
      <4>1. r \in Nat /\ j \in r .. r + 5 /\ j # r /\ j # r + 1
        BY <1>0, <3>3
      <4>2. p \in 1 .. 4 /\ r + (1 + p) = j
        <5> HIDE DEF r
        <5> QED BY <4>1
      <4> HIDE DEF p
      <4> QED BY <2>1, <4>2
    <3> QED BY <3>1, <3>2, <3>3
  <2>2. /\ s.sha + (1 - 1) \in s.sha .. s.sha + 5 /\ s.sha + (2 - 1) \in s.sha .. s.sha + 5
        /\ \A p \in 1 .. 4 : s.sha + (1 + p) \in s.sha .. s.sha + 5
    BY <1>0
  <2> HIDE DEF s
  <2> QED BY <2>1, <2>2
<1>6. sha1_hmac(hk, dt) = <<Slot(D, n, s.sha), Slot(D, n, s.sha + 1)>>
        <=> /\ {<<"mac", hk, dt, 1>>} = Slot(D, n, s.sha + (1 - 1))
            /\ {<<"mac", hk, dt, 2>>} = Slot(D, n, s.sha + (2 - 1))
  <2>1. s.sha + (1 - 1) = s.sha /\ s.sha + (2 - 1) = s.sha + 1
    BY <1>0
  <2> DEFINE a == {<<"mac", hk, dt, 1>>}
             b == {<<"mac", hk, dt, 2>>}
  <2>2. sha1_hmac(hk, dt) = <<a, b>>
    BY DEF sha1_hmac
  <2> HIDE DEF a, b, hk, dt, D, s
  <2>3. <<a, b>> = <<Slot(D, n, s.sha), Slot(D, n, s.sha + 1)>>
          <=> a = Slot(D, n, s.sha) /\ b = Slot(D, n, s.sha + 1)
    OBVIOUS
  <2> QED BY <2>1, <2>2, <2>3 DEF a, b
<1> HIDE DEF hk, dt, pk, pt, D, s
<1> QED BY <1>2, <1>3, <1>4, <1>5, <1>6, 1 \in 1 .. 2, 2 \in 1 .. 2 DEF hk, dt, D, s
-----------------------------------------------------------------------------
(* The writers. *)

\* Where a writer is, and what the image holds there: the invariant says of
\* each stage what the ones before it have made.
WPlace ==
    /\ lay \in Layouts /\ key \in Keys
    /\ wpc \in {"open", "key", "input", "build", "hash", "crypt", "write",
                "done", "failed", "killed"}
    /\ wi \in 1 .. nsec + 1
    /\ wpc \notin {"hash", "crypt"} => wi = 1

Finished == wpc = "write" \/ (wpc = "open" /\ lay.kind = "self")

WImage ==
    /\ wpc = "hash" => img = Header(lay, Hashed(lay, wi - 1), PlainData(lay))
    /\ wpc = "crypt" => img = Header(lay, Body(lay, key), Crypted(lay, key, wi - 1))
    /\ Finished => img = Sealed(lay, key)
    /\ wpc \notin {"hash", "crypt"} /\ ~Finished => img = NoImage

WDisk ==
    /\ disk = [state |-> disk.state, img |-> disk.img]
    /\ disk.state \in {"absent", "old", "empty", "short", "full"}
    /\ disk.state \in {"short", "full"} => ~Running

WInv == WPlace /\ WImage /\ WDisk

DiskSealed == disk.state \in {"short", "full"} => disk.img = Sealed(lay, key)

LEMMA LayFacts ==
    ASSUME lay \in Layouts
    PROVE  /\ WellFormed(lay) /\ nsec = Num(lay) /\ Num(lay) \in Nat
           /\ lay.kind \in {"pkg", "spp", "self"} /\ lay.blocks \in Nat
<1>1. WellFormed(lay) /\ nsec = Num(lay)
  BY LayoutsAssumption DEF nsec, Num
<1> QED BY <1>1, SectionFacts DEF WellFormed

\* A step to stage p with image i, when the file is left alone or emptied.
LEMMA WMoves ==
    ASSUME WInv, UNCHANGED <<lay, key>>, wpc' \in {"open", "key", "input", "build", "hash",
                "crypt", "write", "done", "failed", "killed"},
           wi' \in 1 .. Num(lay) + 1, wpc' \notin {"hash", "crypt"} => wi' = 1,
           WImage',
           \/ disk' = disk /\ (Running \/ wpc' = wpc)
           \/ disk' = Empty
           \/ disk' \in {Short(img), Full(img)} /\ wpc' \in {"done", "failed", "killed"}
    PROVE  WInv'
<1>1. WPlace'
  BY LayFacts DEF WInv, WPlace, nsec
<1>2. WDisk'
  <2>1. CASE disk' = disk /\ (Running \/ wpc' = wpc)
    BY <2>1 DEF WInv, WDisk, Running
  <2>2. CASE disk' = Empty
    BY <2>2 DEF WDisk, Empty
  <2>3. CASE disk' \in {Short(img), Full(img)} /\ wpc' \in {"done", "failed", "killed"}
    BY <2>3 DEF WDisk, Short, Full, Running
  <2> QED BY <2>1, <2>2, <2>3
<1> QED BY <1>1, <1>2 DEF WInv

LEMMA WriterInitInv == WriterInit => WInv /\ DiskSealed
<1> SUFFICES ASSUME WriterInit PROVE WInv /\ DiskSealed
  OBVIOUS
<1>1. WellFormed(lay) /\ nsec = Num(lay) /\ Num(lay) \in Nat
  BY LayFacts DEF WriterInit
<1>2. /\ wpc = IF lay.kind = "self" THEN "key" ELSE "open"
      /\ lay \in Layouts /\ key \in Keys /\ wi = 1 /\ img = NoImage
      /\ disk \in {NoFile, OldFile}
  BY DEF WriterInit, After
<1>3. WPlace
  BY <1>1, <1>2 DEF WPlace
<1>4. WImage
  BY <1>2 DEF WImage, Finished
<1>5. WDisk /\ DiskSealed
  BY <1>2 DEF WDisk, DiskSealed, NoFile, OldFile
<1> QED BY <1>3, <1>4, <1>5 DEF WInv

\* Every step of a writer keeps the invariant, and what it leaves on disk is
\* nothing or the finished image.
WStored == disk' = disk \/ disk' = Empty \/ disk' \in {Short(Sealed(lay, key)), Full(Sealed(lay, key))}

LEMMA OpenStep == WInv /\ Open => WInv' /\ WStored
<1> SUFFICES ASSUME WInv, Open PROVE WInv' /\ WStored
  OBVIOUS
<1>1. WellFormed(lay) /\ nsec = Num(lay) /\ Num(lay) \in Nat /\ 1 \in 1 .. Num(lay) + 1
  BY LayFacts DEF WInv, WPlace
<1>2. wpc = "open" /\ Running /\ UNCHANGED <<lay, key>>
  BY DEF Open, Running
<1>3. CASE disk' = Empty /\ Goto(After["open"]) /\ UNCHANGED img
  <2>1. wpc' = (IF lay.kind = "self" THEN "write" ELSE "key") /\ wi' = 1
    BY <1>3 DEF Goto, After
  <2>2. WImage'
    BY <1>2, <1>3, <2>1 DEF WInv, WImage, Finished
  <2> QED BY <1>1, <1>2, <1>3, <2>1, <2>2, WMoves DEF WStored
<1>4. CASE Exit /\ (disk' = Empty \/ disk' = disk)
  <2>1. wpc' = "failed" /\ wi' = 1 /\ img' = NoImage
    BY <1>4 DEF Exit, Goto
  <2>2. WImage'
    BY <2>1 DEF WImage, Finished
  <2> QED BY <1>1, <1>2, <1>4, <2>1, <2>2, WMoves DEF WStored
<1> QED BY <1>3, <1>4 DEF Open

LEMMA PlainStep == WInv /\ (GetKey \/ ReadInput) => WInv' /\ WStored
<1> SUFFICES ASSUME WInv, GetKey \/ ReadInput PROVE WInv' /\ WStored
  OBVIOUS
<1>1. WellFormed(lay) /\ nsec = Num(lay) /\ Num(lay) \in Nat /\ 1 \in 1 .. Num(lay) + 1
  BY LayFacts DEF WInv, WPlace
<1>2. /\ wpc \in {"key", "input"} /\ Running /\ UNCHANGED <<lay, key, disk>>
      /\ img = NoImage
  BY DEF GetKey, ReadInput, Running, WInv, WImage, Finished
<1>3. /\ wpc' \in {"input", "build", "failed"} /\ wi' = 1 /\ img' = NoImage
  BY <1>2 DEF GetKey, ReadInput, Goto, Exit, After
<1>4. WImage'
  BY <1>3 DEF WImage, Finished
<1> QED BY <1>1, <1>2, <1>3, <1>4, WMoves DEF WStored

LEMMA BuildStep == WInv /\ Build => WInv' /\ WStored
<1> SUFFICES ASSUME WInv, Build PROVE WInv' /\ WStored
  OBVIOUS
<1>1. WellFormed(lay) /\ nsec = Num(lay) /\ Num(lay) \in Nat /\ 1 \in 1 .. Num(lay) + 1
  BY LayFacts DEF WInv, WPlace
<1>2. /\ wpc = "build" /\ Running /\ UNCHANGED <<lay, key, disk>>
      /\ wpc' = "hash" /\ wi' = 1
  BY DEF Build, Running, Goto, After
<1>3. Hashed(lay, 0) = PlainBody(lay)
  <2>1. 0 \in 0 .. Num(lay)
    BY <1>1
  <2>2. /\ Hashed(lay, 0) = [b \in 1 .. lay.blocks |-> Hashed(lay, 0)[b]]
        /\ \A b \in 1 .. lay.blocks : Hashed(lay, 0)[b] = PlainBody(lay)[b]
    BY <1>1, <2>1, HashedCells
  <2>3. PlainBody(lay) = [b \in 1 .. lay.blocks |-> PlainBody(lay)[b]]
    BY <1>1, PlainCells
  <2> QED BY <2>2, <2>3
<1>4. img' = Header(lay, Hashed(lay, 0), PlainData(lay))
  <2>1. img' = Header(lay, PlainBody(lay), PlainData(lay))
    BY Zenon DEF Build, Header, PlainData
  <2> QED BY <1>3, <2>1
<1>5. WImage'
  <2>1. wi' - 1 = 0
    BY <1>2
  <2> QED BY <1>2, <1>4, <2>1 DEF WImage, Finished
<1> QED BY <1>1, <1>2, <1>5, WMoves DEF WStored

LEMMA HashAction == WInv /\ Hash => WInv' /\ WStored
<1> SUFFICES ASSUME WInv, Hash PROVE WInv' /\ WStored
  OBVIOUS
<1>1. WellFormed(lay) /\ nsec = Num(lay) /\ Num(lay) \in Nat
  BY LayFacts DEF WInv, WPlace
<1>2. /\ wpc = "hash" /\ Running /\ UNCHANGED <<lay, key, wpc, disk>>
      /\ wi \in 1 .. Num(lay) /\ wi' = wi + 1 /\ wi' \in 1 .. Num(lay) + 1 /\ wi' - 1 = wi
      /\ img = Header(lay, Hashed(lay, wi - 1), PlainData(lay))
  BY <1>1 DEF Hash, Running, WInv, WPlace, WImage
<1> DEFINE h0  == {<<"hdr", lay.kind>>}
           B   == Hashed(lay, wi - 1)
           P   == PlainData(lay)
           mac == sha1_hmac(HmacKey(B, Num(lay), Sec(lay, wi).sha), Section(P, Sec(lay, wi)))
           at  == At(lay, wi)
           B2  == [B EXCEPT ![at] = mac[1], ![at + 1] = mac[2]]
           im  == [hdr |-> h0, info |-> PlainInfo, body |-> B, data |-> P]
<1>3. img = im
  BY <1>2, Zenon DEF Header
<1>4. img' = [im EXCEPT !.body = B2]
  <2>1. im.body = B /\ im.data = P
    OBVIOUS
  <2>2. wsec = Sec(lay, wi) /\ SlotBlock(nsec, wsec.sha) = at
    BY <1>1 DEF wsec, Sec, At
  <2>3. img' = [img EXCEPT !.body =
                  [@ EXCEPT ![SlotBlock(nsec, wsec.sha)] =
                              sha1_hmac(HmacKey(img.body, nsec, wsec.sha), Section(img.data, wsec))[1],
                            ![SlotBlock(nsec, wsec.sha) + 1] =
                              sha1_hmac(HmacKey(img.body, nsec, wsec.sha), Section(img.data, wsec))[2]]]
    BY DEF Hash
  <2>4. sha1_hmac(HmacKey(img.body, nsec, wsec.sha), Section(img.data, wsec)) = mac
    <3> HIDE DEF im, B, P
    <3> QED BY <1>1, <1>3, <2>1, <2>2
  <2> HIDE DEF mac, at, im, B
  <2> QED BY <1>3, <2>1, <2>2, <2>3, <2>4
<1>5. B2 = Hashed(lay, wi)
  BY <1>1, <1>2, HashStep, Zenon
<1>6. [im EXCEPT !.body = B2] = [hdr |-> h0, info |-> PlainInfo, body |-> B2, data |-> P]
  <2> HIDE DEF B, B2, P, h0
  <2> QED OBVIOUS
<1>7. img' = Header(lay, Hashed(lay, wi), PlainData(lay))
  <2> HIDE DEF im, B2, B
  <2> QED BY <1>4, <1>5, <1>6, Zenon DEF Header
<1>8. WImage'
  BY <1>2, <1>7 DEF WImage, Finished
<1> QED BY <1>1, <1>2, <1>8, WMoves DEF WStored

LEMMA SignAction == WInv /\ Sign => WInv' /\ WStored
<1> SUFFICES ASSUME WInv, Sign PROVE WInv' /\ WStored
  OBVIOUS
<1>1. /\ WellFormed(lay) /\ nsec = Num(lay) /\ Num(lay) \in Nat /\ 1 \in 1 .. Num(lay) + 1
      /\ lay.blocks \in Nat /\ lay.sig \in Nat /\ lay.sig + 3 <= lay.blocks
  BY LayFacts, SectionFacts DEF WInv, WPlace
<1>2. /\ wpc = "hash" /\ Running /\ UNCHANGED <<lay, key, disk>>
      /\ wi - 1 = Num(lay) /\ wi' = 1 /\ wpc' = "crypt"
      /\ img = Header(lay, Hashed(lay, wi - 1), PlainData(lay))
  BY <1>1 DEF Sign, Running, WInv, WPlace, WImage, Goto, After
<1> DEFINE h0  == {<<"hdr", lay.kind>>}
           B   == Hashed(lay, Num(lay))
           P   == PlainData(lay)
           rs  == ecdsa_sign(key, SignedDigest(lay))
           im  == [hdr |-> h0, info |-> PlainInfo, body |-> B, data |-> P]
<1>3. img = im
  BY <1>2, Zenon DEF Header
<1>4. /\ im.hdr = h0 /\ im.info = PlainInfo /\ im.body = B /\ im.data = P
      /\ DOMAIN B = 1 .. lay.blocks
  BY DEF Hashed
<1>5. Digest(img, lay.sig) = SignedDigest(lay)
  <2>1. Digest(img, lay.sig) = <<h0, PlainInfo, [b \in 1 .. lay.sig |-> B[b]]>>
    <3> HIDE DEF im, B, P, h0
    <3> QED BY <1>3, <1>4 DEF Digest
  <2> QED BY <2>1, Zenon DEF SignedDigest
<1>6. img' = [im EXCEPT !.body = Body(lay, key)]
  <2>1. img' = [img EXCEPT !.body =
                 [b \in DOMAIN img.body |->
                    IF b \in lay.sig + 1 .. lay.sig + 3
                    THEN ecdsa_sign(key, Digest(img, lay.sig))[b - lay.sig] ELSE img.body[b]]]
    BY DEF Sign
  <2>2. Body(lay, key) = [b \in 1 .. lay.blocks |->
                            IF b \in lay.sig + 1 .. lay.sig + 3 THEN rs[b - lay.sig] ELSE B[b]]
    BY DEF Body
  <2> HIDE DEF im, B, rs
  <2> QED BY <1>3, <1>4, <1>5, <2>1, <2>2 DEF rs
<1>7. [im EXCEPT !.body = Body(lay, key)]
        = [hdr |-> h0, info |-> PlainInfo, body |-> Body(lay, key), data |-> P]
  <2> HIDE DEF B, P, h0
  <2> QED OBVIOUS
<1>8. Crypted(lay, key, 0) = P
  <2>1. ASSUME NEW u \in 0 .. lay.units - 1 PROVE Xor(P[u], Pads(lay, Body(lay, key), 0, u)) = P[u]
    <3>1. Pads(lay, Body(lay, key), 0, u) = {}
      BY DEF Pads, Over
    <3> QED BY <3>1, XorEmpty
  <2>2. Crypted(lay, key, 0) = [u \in 0 .. lay.units - 1 |-> Xor(P[u], Pads(lay, Body(lay, key), 0, u))]
    BY DEF Crypted, Stage
  <2>3. P = [u \in 0 .. lay.units - 1 |-> P[u]]
    BY DEF PlainData
  <2> HIDE DEF P
  <2> QED BY <2>1, <2>2, <2>3
<1>9. img' = Header(lay, Body(lay, key), Crypted(lay, key, 0))
  <2> HIDE DEF im, B
  <2> QED BY <1>6, <1>7, <1>8, Zenon DEF Header
<1>10. WImage'
  <2>1. wi' - 1 = 0
    BY <1>2
  <2> QED BY <1>2, <1>9, <2>1 DEF WImage, Finished
<1> QED BY <1>1, <1>2, <1>10, WMoves DEF WStored

LEMMA EncryptSectionAction == WInv /\ EncryptSection => WInv' /\ WStored
<1> SUFFICES ASSUME WInv, EncryptSection PROVE WInv' /\ WStored
  OBVIOUS
<1>1. WellFormed(lay) /\ nsec = Num(lay) /\ Num(lay) \in Nat
  BY LayFacts DEF WInv, WPlace
<1>2. /\ wpc = "crypt" /\ Running /\ UNCHANGED <<lay, key, wpc, disk>>
      /\ wi \in 1 .. Num(lay) /\ wi' = wi + 1 /\ wi' \in 1 .. Num(lay) + 1 /\ wi' - 1 = wi
      /\ img = Header(lay, Body(lay, key), Crypted(lay, key, wi - 1))
      /\ img' = CryptSection(img, Num(lay), Sec(lay, wi))
  BY <1>1 DEF EncryptSection, Running, WInv, WPlace, WImage, wsec, Sec
<1> DEFINE h0 == {<<"hdr", lay.kind>>}
           D  == DamBody(lay, key, {})
           P  == PlainData(lay)
<1>3. D = Body(lay, key)
  BY DamBodyEmpty
<1>4. img = [hdr |-> h0, info |-> PlainInfo, body |-> D, data |-> Stage(lay, D, P, wi - 1)]
  <2> HIDE DEF D
  <2> QED BY <1>2, <1>3, Zenon DEF Header, Crypted
<1>5. CryptSection([hdr |-> h0, info |-> PlainInfo, body |-> D, data |-> Stage(lay, D, P, wi - 1)],
                   Num(lay), Sec(lay, wi))
        = [hdr |-> h0, info |-> PlainInfo, body |-> D, data |-> Stage(lay, D, P, wi)]
  <2> HIDE DEF h0
  <2> QED BY <1>1, <1>2, CryptStep
<1>6. img' = Header(lay, Body(lay, key), Crypted(lay, key, wi))
  <2>1. img' = [hdr |-> h0, info |-> PlainInfo, body |-> D, data |-> Stage(lay, D, P, wi)]
    <3> HIDE DEF h0, D, P
    <3> QED BY <1>2, <1>4, <1>5
  <2> HIDE DEF D
  <2> QED BY <1>3, <2>1, Zenon DEF Header, Crypted
<1>7. WImage'
  BY <1>2, <1>6 DEF WImage, Finished
<1> QED BY <1>1, <1>2, <1>7, WMoves DEF WStored

LEMMA EncryptHeaderAction == WInv /\ EncryptHeader => WInv' /\ WStored
<1> SUFFICES ASSUME WInv, EncryptHeader PROVE WInv' /\ WStored
  OBVIOUS
<1>1. WellFormed(lay) /\ nsec = Num(lay) /\ Num(lay) \in Nat /\ 1 \in 1 .. Num(lay) + 1
  BY LayFacts DEF WInv, WPlace
<1>2. /\ wpc = "crypt" /\ Running /\ UNCHANGED <<lay, key, disk>>
      /\ wi' = 1 /\ wpc' = (IF lay.kind = "self" THEN "open" ELSE "write")
      /\ wi - 1 = Num(lay)
      /\ img = Header(lay, Body(lay, key), Crypted(lay, key, wi - 1))
      /\ img' = sce_encrypt_header(img, lay.blocks, RootKey(key), RootIv(key))
  BY <1>1 DEF EncryptHeader, Running, WInv, WPlace, WImage, Goto, After
<1>3. img' = Sealed(lay, key)
  BY <1>2 DEF Sealed
<1>4. WImage'
  BY <1>2, <1>3 DEF WImage, Finished
<1> QED BY <1>1, <1>2, <1>4, WMoves DEF WStored

LEMMA WriteAction == WInv /\ Write => WInv' /\ WStored
<1> SUFFICES ASSUME WInv, Write PROVE WInv' /\ WStored
  OBVIOUS
<1>1. WellFormed(lay) /\ nsec = Num(lay) /\ Num(lay) \in Nat /\ 1 \in 1 .. Num(lay) + 1
  BY LayFacts DEF WInv, WPlace
<1>2. /\ wpc = "write" /\ UNCHANGED <<lay, key>> /\ img = Sealed(lay, key)
      /\ disk' \in {Short(img), Full(img)}
      /\ wpc' \in {"done", "failed"} /\ wi' = 1 /\ img' = NoImage
  BY DEF Write, WInv, WImage, Finished, Goto
<1>3. WImage'
  BY <1>2 DEF WImage, Finished
<1> QED BY <1>1, <1>2, <1>3, WMoves DEF WStored

LEMMA KillAction == WInv /\ Kill => WInv' /\ WStored
<1> SUFFICES ASSUME WInv, Kill PROVE WInv' /\ WStored
  OBVIOUS
<1>1. WellFormed(lay) /\ nsec = Num(lay) /\ Num(lay) \in Nat /\ 1 \in 1 .. Num(lay) + 1
  BY LayFacts DEF WInv, WPlace
<1>2. /\ Running /\ UNCHANGED <<lay, key>>
      /\ disk' = disk \/ (disk' = Short(img) /\ img = Sealed(lay, key))
      /\ wpc' = "killed" /\ wi' = 1 /\ img' = NoImage
  BY DEF Kill, WInv, WImage, Finished, Goto
<1>3. WImage'
  BY <1>2 DEF WImage, Finished
<1> QED BY <1>1, <1>2, <1>3, WMoves DEF WStored

LEMMA WriterStep ==
    ASSUME WInv, WriterNext
    PROVE  WInv' /\ WStored /\ Running /\ UNCHANGED <<lay, key>>
<1>1. WInv' /\ WStored
  BY OpenStep, PlainStep, BuildStep, HashAction, SignAction, EncryptSectionAction,
     EncryptHeaderAction, WriteAction, KillAction DEF WriterNext, Step
<1>2. Running /\ UNCHANGED <<lay, key>>
  BY DEF WriterNext, Step, Open, GetKey, ReadInput, Build, Hash, Sign, EncryptSection,
         EncryptHeader, Write, Kill, Running
<1> QED BY <1>1, <1>2
-----------------------------------------------------------------------------
(* What follows for the writers alone. *)

\* Whatever has these fields is an image of the layout.
LEMMA ImageOf ==
    ASSUME NEW i, NEW h, NEW a, NEW b, NEW c, NEW d, NEW B, NEW D,
           i = [hdr |-> h, info |-> <<a, b, c, d>>, body |-> B, data |-> D],
           B = [x \in 1 .. lay.blocks |-> B[x]],
           D = [u \in 0 .. lay.units - 1 |-> D[u]]
    PROVE  Image(i)
BY DEF Image

LEMMA DamagedImage ==
    ASSUME NEW H
    PROVE  Image(Damaged(lay, key, H))
<1> DEFINE B == [b \in 1 .. lay.blocks |-> Dam(SealedBody(lay, key)[b], BadBody(H, b))]
           D == DamData(lay, key, H)
           h == Dam({<<"hdr", lay.kind>>}, <<"hdr", 0>> \in H)
           a == Dam(SealedInfo(key)[1], <<"info", 1>> \in H)
           b == Dam(SealedInfo(key)[2], <<"info", 2>> \in H)
           c == Dam(SealedInfo(key)[3], <<"info", 3>> \in H)
           d == Dam(SealedInfo(key)[4], <<"info", 4>> \in H)
<1>1. /\ B = [x \in 1 .. lay.blocks |-> B[x]]
      /\ D = [u \in 0 .. lay.units - 1 |-> D[u]]
  BY DEF DamData
<1>2. Damaged(lay, key, H) = [hdr |-> h, info |-> <<a, b, c, d>>, body |-> B, data |-> D]
  BY DEF Damaged
<1> HIDE DEF B, D, h, a, b, c, d
<1> QED BY <1>1, <1>2, ImageOf

LEMMA HeaderImage ==
    ASSUME NEW B, NEW D,
           B = [x \in 1 .. lay.blocks |-> B[x]],
           D = [u \in 0 .. lay.units - 1 |-> D[u]]
    PROVE  Image(Header(lay, B, D))
<1> DEFINE h == {<<"hdr", lay.kind>>}
           a == {<<"key">>}
           c == {<<"iv">>}
           e == {}
<1>1. Header(lay, B, D) = [hdr |-> h, info |-> <<a, e, c, e>>, body |-> B, data |-> D]
  BY DEF Header, PlainInfo
<1> HIDE DEF h, a, c, e
<1> QED BY <1>1, ImageOf

\* A finished image verifies.
LEMMA SealedVerifies ==
    ASSUME lay \in Layouts
    PROVE  Verifies(Sealed(lay, key))
<1> DEFINE h0 == {<<"hdr", lay.kind>>}
           e  == Sealed(lay, key)
           d  == Unsealed(e)
           SB == SealedBody(lay, key)
           B  == Body(lay, key)
<1>1. WellFormed(lay) /\ lay.blocks \in Nat
  BY LayFacts
<1>2. e = [hdr |-> h0, info |-> SealedInfo(key), body |-> SB, data |-> Crypted(lay, key, Num(lay))]
  BY <1>1, SealedFields
<1>3. e.hdr = h0 /\ e.info = SealedInfo(key) /\ e.body = SB
  <2> HIDE DEF e, h0, SB
  <2> QED BY <1>2
<1>4. aes256cbc(RootKey(key), RootIv(key), SealedInfo(key)) = PlainInfo
  BY CbcInverse DEF SealedInfo, PlainInfo
<1>5. aes128ctr(PlainInfo[1], PlainInfo[3], 0, SB, 1, lay.blocks) = B
  <2>1. PlainInfo[1] = {<<"key">>} /\ PlainInfo[3] = {<<"iv">>}
    BY DEF PlainInfo
  <2>2. SB = aes128ctr({<<"key">>}, {<<"iv">>}, 0, B, 1, lay.blocks)
    <3>1. DOMAIN B = 1 .. lay.blocks /\ \A b \in 1 .. lay.blocks : 0 + (b - 1) = b - 1
      BY <1>1 DEF Body
    <3> HIDE DEF B
    <3> QED BY <3>1 DEF SealedBody, Stream, aes128ctr, B
  <2>3. B = [b \in 1 .. lay.blocks |-> B[b]]
    BY DEF Body
  <2> HIDE DEF B, SB
  <2> QED BY <2>1, <2>2, <2>3, CtrInverse
<1>6. d.hdr = h0 /\ d.info = PlainInfo /\ d.body = B
  <2>1. d = [e EXCEPT !.info = PlainInfo, !.body = B]
    <3> HIDE DEF e, B, SB
    <3> QED BY <1>3, <1>4, <1>5 DEF Unsealed
  <2> DEFINE f == [e EXCEPT !.info = PlainInfo]
  <2>2. f = [hdr |-> h0, info |-> PlainInfo, body |-> SB, data |-> Crypted(lay, key, Num(lay))]
    <3> HIDE DEF e, h0, SB
    <3> QED BY <1>2
  <2>3. d = [f EXCEPT !.body = B]
    <3> HIDE DEF d, e, B
    <3> QED BY <2>1
  <2> HIDE DEF d, e, f, h0, SB, B
  <2> QED BY <2>2, <2>3
<1>7. ecdsa_verify(key, Digest(d, lay.sig), [p \in 1 .. 3 |-> d.body[lay.sig + p]])
  <2>1. DamBody(lay, key, {}) = B
    BY DamBodyEmpty
  <2>2. Dam(h0, <<"hdr", 0>> \in {}) = h0
    <3> HIDE DEF h0
    <3> QED BY DEF Dam
  <2>3. d.hdr = Dam(h0, <<"hdr", 0>> \in {})
    BY <1>6, <2>2, Zenon
  <2>4. \A b \in 1 .. lay.sig + 3 : ~BadBody({}, b)
    BY DEF BadBody
  <2>5. <<"hdr", 0>> \notin {}
    OBVIOUS
  <2> HIDE DEF d, B, e, SB
  <2>6. d.info = PlainInfo /\ d.body = DamBody(lay, key, {})
    BY <1>6, <2>1
  <2>7. d.hdr = Dam({<<"hdr", lay.kind>>}, <<"hdr", 0>> \in {})
    BY <2>3
  <2>8. ecdsa_verify(key, Digest(d, lay.sig), [p \in 1 .. 3 |-> d.body[lay.sig + p]])
          <=> <<"hdr", 0>> \notin {} /\ \A b \in 1 .. lay.sig + 3 : ~BadBody({}, b)
    BY ONLY <1>1, <2>6, <2>7, SignatureCovers, Zenon
  <2> QED BY <2>4, <2>5, <2>8
<1>8. d.info[2] = {} /\ d.info[4] = {}
  <2> HIDE DEF d
  <2> QED BY <1>6 DEF PlainInfo
<1> QED BY <1>7, <1>8 DEF Verifies

LEMMA WriterInvStep == WInv /\ DiskSealed /\ [WriterNext]_wvars => (WInv /\ DiskSealed)'
<1> SUFFICES ASSUME WInv, DiskSealed, [WriterNext]_wvars PROVE (WInv /\ DiskSealed)'
  OBVIOUS
<1>1. CASE WriterNext
  <2>1. WInv' /\ WStored /\ UNCHANGED <<lay, key>>
    BY <1>1, WriterStep
  <2>2. DiskSealed'
    BY <2>1 DEF DiskSealed, WStored, Empty, Short, Full
  <2> QED BY <2>1, <2>2
<1>2. CASE UNCHANGED wvars
  BY <1>2 DEF wvars, WInv, WPlace, WImage, WDisk, DiskSealed, Finished, Running, nsec
<1> QED BY <1>1, <1>2

LEMMA WriterInvariance == WriterSpec => [](WInv /\ DiskSealed)
<1>1. WriterInit => WInv /\ DiskSealed
  BY WriterInitInv
<1>2. WInv /\ DiskSealed /\ [WriterNext]_wvars => (WInv /\ DiskSealed)'
  BY WriterInvStep
<1> QED BY <1>1, <1>2, PTL DEF WriterSpec

LEMMA WInvTypes == WInv /\ DiskSealed => WriterTypeOK
<1> SUFFICES ASSUME WInv, DiskSealed PROVE WriterTypeOK
  OBVIOUS
<1>1. WellFormed(lay) /\ nsec = Num(lay) /\ Num(lay) \in Nat
  BY LayFacts DEF WInv, WPlace
<1>2. Image(Sealed(lay, key))
  BY <1>1, DamagedNone, DamagedImage
<1>3. ASSUME NEW m PROVE Crypted(lay, key, m) = [u \in 0 .. lay.units - 1 |-> Crypted(lay, key, m)[u]]
  BY DEF Crypted, Stage
<1>4. wpc = "hash" \/ wpc = "crypt" \/ Finished => Image(img)
  <2> SUFFICES ASSUME wpc = "hash" \/ wpc = "crypt" \/ Finished PROVE Image(img)
    OBVIOUS
  <2>0. /\ wpc = "hash" => img = Header(lay, Hashed(lay, wi - 1), PlainData(lay))
        /\ wpc = "crypt" => img = Header(lay, Body(lay, key), Crypted(lay, key, wi - 1))
        /\ Finished => img = Sealed(lay, key)
    BY DEF WInv, WImage
  <2>1. CASE wpc = "hash"
    <3>1. /\ Hashed(lay, wi - 1) = [b \in 1 .. lay.blocks |-> Hashed(lay, wi - 1)[b]]
          /\ PlainData(lay) = [u \in 0 .. lay.units - 1 |-> PlainData(lay)[u]]
      BY DEF Hashed, PlainData
    <3> QED BY <2>0, <2>1, <3>1, HeaderImage
  <2>2. CASE wpc = "crypt"
    <3>1. Body(lay, key) = [b \in 1 .. lay.blocks |-> Body(lay, key)[b]]
      BY DEF Body
    <3> QED BY <2>0, <2>2, <3>1, <1>3, HeaderImage
  <2>3. CASE Finished
    BY <2>0, <2>3, <1>2
  <2> QED BY <2>1, <2>2, <2>3
<1>5. wpc \notin {"hash", "crypt"} /\ ~Finished => img = NoImage
  BY DEF WInv, WImage
<1> QED BY <1>2, <1>4, <1>5 DEF WriterTypeOK, WInv, WPlace, WDisk, DiskSealed, Finished

\* WriterTypeOK holds in every state of every writer, whatever layouts and keys.
THEOREM WriterTypes == WriterSpec => []WriterTypeOK
BY WriterInvariance, WInvTypes, PTL

\* Every complete file pkg, spp or makeself leaves on disk carries a signature
\* that its reader accepts: what is signed is what decryption brings back.
THEOREM CompleteFilesVerify == WriterSpec => []SignedOnDisk
<1>1. WInv /\ DiskSealed => SignedOnDisk
  BY SealedVerifies DEF WInv, WPlace, DiskSealed, SignedOnDisk
<1> QED BY <1>1, WriterInvariance, PTL

\* makeself touches the file of an earlier run only with a finished image.
THEOREM OldFileKept == WriterSpec => TruncateLate
<1> DEFINE Late == lay.kind = "self" /\ disk' # disk /\ disk.state = "old"
                          => img # NoImage /\ Verifies(img)
<1>1. WInv /\ [WriterNext]_wvars => [Late]_wvars
  <2> SUFFICES ASSUME WInv, WriterNext, lay.kind = "self", disk' # disk
               PROVE  img # NoImage /\ Verifies(img)
    OBVIOUS
  <2>1. Open \/ Write \/ Kill
    BY DEF WriterNext, Step, GetKey, ReadInput, Build, Hash, Sign, EncryptSection, EncryptHeader
  <2>2. Finished
    BY <2>1 DEF Open, Write, Kill, Finished
  <2>3. img = Sealed(lay, key) /\ lay \in Layouts
    BY <2>2 DEF WInv, WImage, WPlace
  <2>4. img # NoImage
    <3>1. Image(img)
      BY <2>3, LayFacts, DamagedNone, DamagedImage
    <3>2. img.info # <<>>
      BY <3>1 DEF Image
    <3> QED BY <3>2 DEF NoImage
  <2> QED BY <2>3, <2>4, SealedVerifies
<1> QED BY <1>1, WriterInvariance, PTL DEF WriterSpec, TruncateLate
-----------------------------------------------------------------------------
(* The whole system. *)

\* SpoiltHash and SpoiltSignature, of layout L and damage H.
BadHash(L, H, s) ==
    \/ \E u \in Units(s) : Bad(L, H, u)
    \/ \E j \in s.sha .. s.sha + 5 : BadSlot(L, H, j)

BadSignature(L, H) ==
    \/ <<"hdr", 0>> \in H \/ \E b \in 1 .. 4 : <<"info", b>> \in H
    \/ \E b \in 1 .. L.sig + 3 : BadBody(H, b)

\* The reader's mapping from stage to stage.
DamHeader(L, H) == Dam({<<"hdr", L.kind>>}, <<"hdr", 0>> \in H)

RawBody(L, k, H)  == [b \in 1 .. L.blocks |-> Dam(SealedBody(L, k)[b], BadBody(H, b))]

HalfBody(L, k, H) ==
    [b \in 1 .. L.blocks |-> IF b \in 1 .. 2 THEN DamBody(L, k, H)[b] ELSE RawBody(L, k, H)[b]]

Keyed(L, H, body, data) ==
    [hdr |-> DamHeader(L, H), info |-> PlainInfo, body |-> body, data |-> data]

Revealed(L, k, H, m) ==
    Keyed(L, H, DamBody(L, k, H), Stage(L, DamBody(L, k, H), DamData(L, k, H), m))

\* What is written out, and what is reported, once everything is decrypted.
Parts(L) == IF L.kind = "pkg" THEN [i \in 1 .. 3 |-> Units(Sec(L, i))] ELSE <<0 .. L.fsize - 1>>

Written(L, k, H, m) == [j \in 1 .. m |-> [u \in Parts(L)[j] |-> Opened(L, k, H)[u]]]

SigVerdict(L, H) == IF BadSignature(L, H) THEN "FAIL" ELSE "OK"

SecVerdict(L, H, i) ==
    IF Sec(L, i).off + Sec(L, i).len > L.fsize THEN "???"
    ELSE IF BadHash(L, H, Sec(L, i)) THEN "FAIL*" ELSE "OK"

Report(L, H, m) == [sig |-> SigVerdict(L, H), hash |-> [i \in 1 .. m |-> SecVerdict(L, H, i)]]

\* The damage: it comes when the writer has stopped, and is in the file where
\* hits says.
HInv ==
    /\ hits \subseteq Places /\ IsFiniteSet(hits) /\ Cardinality(hits) <= MaxHits
    /\ hits # {} => disk.state = "full" /\ ~Running
    /\ disk.state \in {"short", "full"} => disk.img = Damaged(lay, key, hits)

\* Where the reader is.
Before   == rpc \in {"map", "header", "try"}
Decoded  == rpc \in {"extract", "pub", "sig", "hash", "done"}
Gone     == rpc \in {"failed", "derailed"}

RPlace ==
    /\ tool \in {"unpack", "verify"} /\ klist \in KeyLists
    /\ Before \/ Decoded \/ Gone \/ rpc \in {"meta", "body", "data"}
    /\ rpc # "map" => ~Running /\ disk.state # "old"
    /\ rpc # "map" /\ ~Gone => disk.state = "full"
    /\ rpc = "extract" => tool = "unpack"
    /\ rpc \in {"pub", "sig", "hash"} => tool = "verify"
    /\ rpc = "try" => ri \in 1 .. Len(klist) + 1
    /\ rpc \in {"data", "hash"} => ri \in 1 .. Num(lay) + 1
    /\ rpc = "extract" => ri \in 1 .. Len(Parts(lay)) + 1
    /\ ctr \in 0 .. lay.blocks
    /\ rpc = "meta" => ctr = 0
    /\ rpc = "body" => ctr = 2

\* Which key it has found, and which keys did not fit.
RKeys ==
    /\ rkey \in 0 .. Len(klist)
    /\ Before => rkey = 0
    /\ ~Before /\ ~Gone => rkey # 0
    /\ rkey # 0 => klist[rkey] = key /\ ~HitInfo
    /\ rpc = "try" => \A j \in 1 .. ri - 1 : klist[j] # key \/ HitInfo
    /\ rpc \in {"sig", "hash"} \/ (rpc = "done" /\ tool = "verify") => key \in PublicKeys

\* What it has decrypted.
RImage ==
    /\ rpc \in {"header", "try"} => rimg = Damaged(lay, key, hits)
    /\ rpc = "meta" => rimg = Keyed(lay, hits, RawBody(lay, key, hits), DamData(lay, key, hits))
    /\ rpc = "body" => rimg = Keyed(lay, hits, HalfBody(lay, key, hits), DamData(lay, key, hits))
    /\ rpc = "data" => rimg = Revealed(lay, key, hits, ri - 1)
    /\ Decoded => rimg = Revealed(lay, key, hits, Num(lay))

\* Which headers it has found in order.
RInfos ==
    /\ rpc = "data" => \A i \in 1 .. ri - 1 : HasSec(DamBody(lay, key, hits), i)
    /\ Decoded => /\ HasMeta(DamBody(lay, key, hits))
                 /\ \A i \in 1 .. Num(lay) : HasSec(DamBody(lay, key, hits), i)

\* What it has written and said.
ROut ==
    /\ ~Gone /\ ~Decoded => out = <<>>
    /\ rpc = "extract" => out = Written(lay, key, hits, ri - 1)
    /\ rpc = "done" /\ tool = "unpack" => out = Written(lay, key, hits, Len(Parts(lay)))
    /\ rpc = "hash" => report = Report(lay, hits, ri - 1)
    /\ rpc = "done" /\ tool = "verify" => report = Report(lay, hits, Num(lay))
    /\ rpc # "hash" /\ ~(rpc = "done" /\ tool = "verify") => report = NoReport

RInv == RPlace /\ RKeys /\ RImage /\ RInfos /\ ROut /\ NeverAstray

SInv == WInv /\ HInv /\ RInv

\* The damage predicates, of this system's layout and damage.
LEMMA SameDamage ==
    /\ \A u : Spoilt(u) <=> Bad(lay, hits, u)
    /\ \A s : SpoiltHash(s) <=> BadHash(lay, hits, s)
    /\ SpoiltSignature <=> BadSignature(lay, hits)
<1>0. nsec = Num(lay)
  BY DEF nsec, Num
<1>1. ASSUME NEW u PROVE Spoilt(u) <=> Bad(lay, hits, u)
  BY <1>0 DEF Spoilt, Bad, HitUnit, HitSlot, HitBody, Over, BadSlot, Sec
<1>2. ASSUME NEW s PROVE SpoiltHash(s) <=> BadHash(lay, hits, s)
  BY <1>0, <1>1 DEF SpoiltHash, BadHash, HitSlot, HitBody, BadSlot
<1>3. SpoiltSignature <=> BadSignature(lay, hits)
  BY DEF SpoiltSignature, BadSignature, HitInfo, HitBody, BadBody
<1> QED BY <1>1, <1>2, <1>3

LEMMA SInitInv == Init => SInv
<1> SUFFICES ASSUME Init PROVE SInv
  OBVIOUS
<1>1. WInv /\ lay \in Layouts /\ lay.blocks \in Nat /\ Num(lay) \in Nat
  BY WriterInitInv, LayFacts DEF Init, WriterInit
<1>2. HInv
  <2>1. hits = {} /\ disk.state \in {"absent", "old"}
    BY DEF Init, WriterInit, NoFile, OldFile
  <2>2. IsFiniteSet({}) /\ Cardinality({}) = 0
    BY FS_EmptySet
  <2> QED BY <2>1, <2>2, HitsAssumption DEF HInv
<1>3. KeyLists \subseteq Seq(Keys) /\ klist \in KeyLists /\ Len(klist) \in Nat
  <2>1. klist \in KeyLists /\ klist \in Seq(Keys)
    BY KeyListsAssumption DEF Init, ReaderInit
  <2> QED BY <2>1, KeyListsAssumption
<1>4. /\ tool \in {"unpack", "verify"} /\ rpc = "map" /\ ri = 1 /\ rkey = 0 /\ ctr = 0
      /\ out = <<>> /\ report = NoReport
  BY DEF Init, ReaderInit
<1>5. RPlace /\ RKeys
  BY <1>1, <1>3, <1>4 DEF RPlace, RKeys, Before, Decoded, Gone
<1>6. RImage /\ RInfos /\ ROut /\ NeverAstray
  BY <1>4 DEF RImage, RInfos, ROut, NeverAstray, Before, Decoded, Gone
<1> QED BY <1>1, <1>2, <1>5, <1>6 DEF SInv, RInv

\* While the writer or the damage moves, the reader has not started: it keeps
\* its part of the invariant.
LEMMA ReaderWaits ==
    ASSUME SInv, rpc = "map", UNCHANGED <<lay, key, rvars>>
    PROVE  RInv'
<1>1. /\ rpc' = "map" /\ rkey' = 0 /\ tool' = tool /\ klist' = klist /\ ctr' = ctr
      /\ out' = <<>> /\ report' = NoReport /\ lay' = lay
  BY DEF SInv, RInv, RKeys, ROut, Before, Decoded, Gone, rvars
<1>2. RPlace' /\ RKeys'
  BY <1>1 DEF SInv, RInv, RPlace, RKeys, Before, Decoded, Gone
<1>3. RImage' /\ RInfos' /\ ROut' /\ NeverAstray'
  BY <1>1 DEF RImage, RInfos, ROut, NeverAstray, Before, Decoded, Gone
<1> QED BY <1>2, <1>3 DEF RInv

LEMMA SystemWriterStep ==
    ASSUME SInv, WriterNext, UNCHANGED <<rvars, hits>>
    PROVE  SInv' /\ rpc = "map" /\ hits = {}
<1>1. WInv' /\ WStored /\ Running /\ UNCHANGED <<lay, key>>
  BY WriterStep DEF SInv
<1>2. rpc = "map" /\ hits = {}
  BY <1>1 DEF SInv, RInv, RPlace, HInv
<1>3. HInv'
  <2>1. disk'.state \in {"short", "full"} => disk'.img = Sealed(lay, key)
    BY <1>1 DEF WStored, SInv, WInv, WDisk, Empty, Short, Full
  <2>2. Damaged(lay, key, {}) = Sealed(lay, key)
    BY LayFacts, DamagedNone DEF SInv, WInv, WPlace
  <2>3. hits' = {} /\ lay' = lay /\ key' = key /\ hits' \subseteq Places'
    BY <1>1, <1>2
  <2> QED BY <1>2, <2>1, <2>2, <2>3 DEF HInv, SInv
<1> QED BY <1>1, <1>2, <1>3, ReaderWaits DEF SInv

LEMMA SystemDamageStep ==
    ASSUME SInv, Damage
    PROVE  SInv' /\ rpc = "map"
<1>1. PICK p \in Places \ hits :
         hits' = hits \cup {p} /\ disk' = [disk EXCEPT !.img = Struck(@, p)]
  BY DEF Damage
<1>2. /\ ~Running /\ disk.state = "full" /\ rpc = "map" /\ Cardinality(hits) < MaxHits
      /\ UNCHANGED <<lay, key, wpc, wi, img, rvars>>
  BY DEF Damage
<1>3. /\ disk = [state |-> disk.state, img |-> disk.img]
      /\ disk.img = Damaged(lay, key, hits)
  BY <1>2 DEF SInv, WInv, WDisk, HInv
<1>4. disk' = [state |-> "full", img |-> Damaged(lay, key, hits')]
  <2>1. p \in AllPlaces(lay)
    BY DEF Places, AllPlaces
  <2>2. Struck(disk.img, p) = Damaged(lay, key, hits \cup {p})
    <3>1. p \notin hits
      OBVIOUS
    <3>2. Struck(Damaged(lay, key, hits), p) = Damaged(lay, key, hits \cup {p})
      BY ONLY <2>1, <3>1, DamageStep
    <3> QED BY <1>3, <3>2, Zenon
  <2>3. disk' = [state |-> "full", img |-> Struck(disk.img, p)]
    BY <1>1, <1>2, <1>3
  <2> QED BY <1>1, <2>2, <2>3, Zenon
<1>5. WInv'
  BY <1>2, <1>4 DEF SInv, WInv, WPlace, WImage, WDisk, Finished, Running, nsec
<1>6. HInv'
  <2>1. IsFiniteSet(hits') /\ Cardinality(hits') = Cardinality(hits) + 1
    BY <1>1, FS_AddElement DEF SInv, HInv
  <2>2. Cardinality(hits') <= MaxHits
    BY <1>2, <2>1, HitsAssumption, FS_CardinalityType DEF SInv, HInv
  <2>3. hits' \subseteq Places'
    BY <1>1, <1>2 DEF Places, SInv, HInv
  <2>4. disk'.img = Damaged(lay, key, hits') /\ disk'.state = "full" /\ lay' = lay /\ key' = key
    BY <1>2, <1>4
  <2>5. disk'.img = Damaged(lay', key', hits')
    BY <2>4
  <2> QED BY <1>2, <2>1, <2>2, <2>3, <2>4, <2>5 DEF HInv, Running
<1> QED BY <1>2, <1>5, <1>6, ReaderWaits DEF SInv
-----------------------------------------------------------------------------
(* The readers, action by action. *)

\* What no action of a reader touches.
ReaderFrame ==
    /\ ~Running /\ disk.state # "old"
    /\ UNCHANGED <<lay, key, wpc, wi, img, disk, hits, tool, klist>>

LEMMA FrameFacts ==
    ASSUME SInv, ReaderFrame
    PROVE  /\ WInv' /\ HInv'
           /\ lay \in Layouts /\ WellFormed(lay) /\ nsec = Num(lay) /\ Num(lay) \in Nat
           /\ lay.blocks \in Nat /\ 5 <= lay.blocks
           /\ klist \in Seq(Keys) /\ Len(klist) \in Nat
           /\ lay' = lay /\ key' = key /\ disk' = disk /\ hits' = hits
           /\ tool' = tool /\ klist' = klist
           /\ ~Running' /\ disk'.state # "old"
           /\ HitInfo' <=> HitInfo
           /\ SpoiltSignature' <=> SpoiltSignature
<1>1. WInv' /\ HInv' /\ ~Running'
  BY DEF SInv, WInv, WPlace, WImage, WDisk, HInv, Finished, Running, Places, ReaderFrame, nsec
<1>2. /\ WellFormed(lay) /\ nsec = Num(lay) /\ Num(lay) \in Nat /\ lay.blocks \in Nat
      /\ 5 <= lay.blocks /\ lay \in Layouts
  BY LayFacts, SectionFacts DEF SInv, WInv, WPlace
<1>3. klist \in Seq(Keys) /\ Len(klist) \in Nat
  <2>1. klist \in Seq(Keys)
    BY KeyListsAssumption DEF SInv, RInv, RPlace
  <2> QED BY <2>1
<1>4. (HitInfo' <=> HitInfo) /\ (SpoiltSignature' <=> SpoiltSignature)
  BY DEF ReaderFrame, HitInfo, SpoiltSignature, HitBody
<1> QED BY <1>1, <1>2, <1>3, <1>4 DEF ReaderFrame

LEMMA ReadFrame ==
    ASSUME SInv, Read
    PROVE  ReaderFrame
BY DEF Read, ReaderNext, MapFile, ReadHeader, TryKey, NoKeyFits, DecryptMeta, DecryptBody,
       DecryptSection, Garbled, Decrypted, Extract, Extracted, NeedPublicKey,
       VerifySignature, VerifyHash, Verified, ReaderFrame, wvars

\* A program that gives up, or is led astray, has verified nothing yet.
LEMMA FailKeeps ==
    ASSUME SInv, ReaderFrame, Fail, rpc \notin {"hash", "done"}
    PROVE  RInv'
<1> USE FrameFacts
<1>1. rpc' = "failed" /\ rkey' = rkey /\ ctr' = ctr /\ report' = NoReport /\ out' = out
  BY DEF Fail, To, SInv, RInv, ROut
<1>2. RPlace' /\ RKeys'
  BY <1>1 DEF SInv, RInv, RPlace, RKeys, Before, Decoded, Gone
<1>3. RImage' /\ RInfos' /\ ROut' /\ NeverAstray'
  BY <1>1 DEF RImage, RInfos, ROut, NeverAstray, Before, Decoded, Gone
<1> QED BY <1>2, <1>3 DEF RInv

LEMMA DerailKeeps ==
    ASSUME SInv, ReaderFrame, Derail, rpc \notin {"hash", "done"},
           disk.state \in {"empty", "short"} \/ SpoiltSignature
    PROVE  RInv'
<1> USE FrameFacts
<1>1. rpc' = "derailed" /\ rkey' = rkey /\ ctr' = ctr /\ report' = NoReport /\ out' = out
  BY DEF Derail, To, SInv, RInv, ROut
<1>2. RPlace' /\ RKeys'
  BY <1>1 DEF SInv, RInv, RPlace, RKeys, Before, Decoded, Gone
<1>3. RImage' /\ RInfos' /\ ROut'
  BY <1>1 DEF RImage, RInfos, ROut, Before, Decoded, Gone
<1>4. NeverAstray'
  BY <1>1 DEF NeverAstray
<1> QED BY <1>2, <1>3, <1>4 DEF RInv

LEMMA MapFileKeeps == ASSUME SInv, ReaderFrame, MapFile PROVE RInv'
<1> USE FrameFacts
<1>1. rpc = "map" /\ rkey = 0 /\ ctr \in 0 .. lay.blocks /\ out = <<>> /\ report = NoReport
  BY DEF MapFile, SInv, RInv, RPlace, RKeys, ROut, Before, Decoded, Gone
<1>2. CASE Fail
  BY <1>1, <1>2, FailKeeps
<1>3. CASE disk.state \in {"empty", "short"} /\ Derail
  BY <1>1, <1>3, DerailKeeps
<1>4. CASE disk.state = "full" /\ rimg' = disk.img /\ To("header") /\ UNCHANGED <<rkey, ctr, out, report>>
  <2>1. rimg' = Damaged(lay, key, hits)
    BY <1>4 DEF SInv, HInv
  <2>2. RPlace' /\ RKeys'
    BY <1>1, <1>4 DEF To, SInv, RInv, RPlace, RKeys, Before, Decoded, Gone
  <2>3. RImage' /\ RInfos' /\ ROut' /\ NeverAstray'
    BY <1>1, <1>4, <2>1 DEF To, RImage, RInfos, ROut, NeverAstray, Before, Decoded, Gone
  <2> QED BY <2>2, <2>3 DEF RInv
<1> QED BY <1>2, <1>3, <1>4 DEF MapFile

LEMMA ReadHeaderKeeps == ASSUME SInv, ReaderFrame, ReadHeader PROVE RInv'
<1> USE FrameFacts
<1>1. /\ rpc = "header" /\ rkey = 0 /\ ctr \in 0 .. lay.blocks /\ out = <<>>
      /\ report = NoReport /\ rimg = Damaged(lay, key, hits)
  BY DEF ReadHeader, SInv, RInv, RPlace, RKeys, RImage, ROut, Before, Decoded, Gone
<1>2. CASE Fail
  BY <1>1, <1>2, FailKeeps
<1>3. CASE rimg.hdr # {<<"hdr", lay.kind>>} /\ Derail
  <2>1. <<"hdr", 0>> \in hits
    BY <1>1, <1>3 DEF Damaged, Dam
  <2> QED BY <1>1, <1>3, <2>1, DerailKeeps DEF SpoiltSignature
<1>4. CASE To("try") /\ UNCHANGED <<rkey, rimg, ctr, out, report>>
  <2>1. RPlace' /\ RKeys'
    BY <1>1, <1>4 DEF To, SInv, RInv, RPlace, RKeys, Before, Decoded, Gone
  <2>2. RImage' /\ RInfos' /\ ROut' /\ NeverAstray'
    BY <1>1, <1>4 DEF To, RImage, RInfos, ROut, NeverAstray, Before, Decoded, Gone
  <2> QED BY <2>1, <2>2 DEF RInv
<1> QED BY <1>2, <1>3, <1>4 DEF ReadHeader

\* A key fits exactly when it is the writer's and the metadata info is whole.
LEMMA KeyFits ==
    ASSUME NEW r
    PROVE  LET tmp == aes256cbc(RootKey(r), RootIv(r), Damaged(lay, key, hits).info)
           IN  /\ tmp[2] = {} /\ tmp[4] = {} <=> r = key /\ ~HitInfo
               /\ r = key /\ ~HitInfo => tmp = PlainInfo
<1> DEFINE info == Damaged(lay, key, hits).info
           hit  == [b \in 1 .. 4 |-> IF <<"info", b>> \in hits THEN TRUE ELSE FALSE]
           tmp  == aes256cbc(RootKey(r), RootIv(r), info)
<1>1. /\ info = << Dam(SealedInfo(key)[1], hit[1]), Dam(SealedInfo(key)[2], hit[2]),
                    Dam(SealedInfo(key)[3], hit[3]), Dam(SealedInfo(key)[4], hit[4]) >>
  <2>1. ASSUME NEW b \in 1 .. 4, NEW c PROVE Dam(c, hit[b]) = Dam(c, <<"info", b>> \in hits)
    BY DEF Dam
  <2>2. /\ Dam(SealedInfo(key)[1], hit[1]) = Dam(SealedInfo(key)[1], <<"info", 1>> \in hits)
        /\ Dam(SealedInfo(key)[2], hit[2]) = Dam(SealedInfo(key)[2], <<"info", 2>> \in hits)
        /\ Dam(SealedInfo(key)[3], hit[3]) = Dam(SealedInfo(key)[3], <<"info", 3>> \in hits)
        /\ Dam(SealedInfo(key)[4], hit[4]) = Dam(SealedInfo(key)[4], <<"info", 4>> \in hits)
    <3> HIDE DEF hit
    <3> QED BY <2>1
  <2> HIDE DEF hit
  <2> QED BY <2>2 DEF Damaged
<1>2. \A b \in 1 .. 4 : info[b] = Dam(SealedInfo(key)[b], hit[b])
  <2> SUFFICES ASSUME NEW b \in 1 .. 4 PROVE info[b] = Dam(SealedInfo(key)[b], hit[b])
    OBVIOUS
  <2>1. b = 1 \/ b = 2 \/ b = 3 \/ b = 4
    OBVIOUS
  <2> HIDE DEF info, hit
  <2> QED BY <1>1, <2>1
<1>3. \A b \in 1 .. 4 : hit[b] \in BOOLEAN
  OBVIOUS
<1>4. HitInfo <=> ~ \A b \in 1 .. 4 : ~hit[b]
  BY DEF HitInfo
<1>5. tmp[2] = {} /\ tmp[4] = {} <=> r = key /\ \A b \in 1 .. 4 : ~hit[b]
  <2> HIDE DEF info, hit
  <2> QED BY <1>2, <1>3, OnlyTheRightKey
<1>6. ASSUME r = key, ~HitInfo PROVE tmp = PlainInfo
  <2>1. ~hit[1] /\ ~hit[2] /\ ~hit[3] /\ ~hit[4]
    BY <1>4, <1>6
  <2>2. info = SealedInfo(key)
    <3> HIDE DEF info, hit
    <3> QED BY <1>1, <2>1, InfoTuple DEF Dam
  <2>3. aes256cbc(RootKey(key), RootIv(key), SealedInfo(key)) = PlainInfo
    BY CbcInverse DEF SealedInfo, PlainInfo
  <2> HIDE DEF info
  <2> QED BY <1>6, <2>2, <2>3
<1> HIDE DEF hit, tmp
<1> QED BY <1>4, <1>5, <1>6 DEF tmp

LEMMA TryKeyKeeps == ASSUME SInv, ReaderFrame, TryKey PROVE RInv'
<1> USE FrameFacts
<1> DEFINE r   == klist[ri]
           tmp == aes256cbc(RootKey(r), RootIv(r), rimg.info)
<1>1. /\ rpc = "try" /\ rkey = 0 /\ ctr \in 0 .. lay.blocks /\ out = <<>> /\ report = NoReport
      /\ rimg = Damaged(lay, key, hits) /\ ri \in 1 .. Len(klist)
      /\ \A j \in 1 .. ri - 1 : klist[j] # key \/ HitInfo
      /\ UNCHANGED <<out, report>>
  BY DEF TryKey, SInv, RInv, RPlace, RKeys, RImage, ROut, Before, Decoded, Gone
<1>2. /\ tmp[2] = {} /\ tmp[4] = {} <=> r = key /\ ~HitInfo
      /\ r = key /\ ~HitInfo => tmp = PlainInfo
  <2> HIDE DEF r
  <2> QED BY <1>1, KeyFits
<1>3. CASE tmp[2] = {} /\ tmp[4] = {}
  <2>1. rimg' = [rimg EXCEPT !.info = tmp] /\ rkey' = ri /\ ctr' = 0 /\ rpc' = "meta"
    BY <1>3 DEF TryKey, To
  <2>2. rimg' = Keyed(lay, hits, RawBody(lay, key, hits), DamData(lay, key, hits))
    <3> DEFINE i == Damaged(lay, key, hits).info
    <3>1. rimg = [hdr |-> DamHeader(lay, hits), info |-> i, body |-> RawBody(lay, key, hits),
                  data |-> DamData(lay, key, hits)]
      <4>1. Damaged(lay, key, hits).info = i
        OBVIOUS
      <4> QED BY <1>1 DEF Damaged, DamHeader, RawBody
    <3>2. tmp = PlainInfo
      BY <1>2, <1>3
    <3> HIDE DEF i, tmp
    <3> QED BY <2>1, <3>1, <3>2 DEF Keyed
  <2>3. klist[rkey'] = key /\ ~HitInfo
    BY <1>2, <1>3, <2>1
  <2> HIDE DEF r, tmp
  <2>4. RPlace' /\ RKeys'
    BY <1>1, <2>1, <2>3 DEF SInv, RInv, RPlace, RKeys, Before, Decoded, Gone
  <2>5. RImage' /\ RInfos' /\ ROut' /\ NeverAstray'
    BY <1>1, <2>1, <2>2 DEF RImage, RInfos, ROut, NeverAstray, Before, Decoded, Gone
  <2> QED BY <2>4, <2>5 DEF RInv
<1>4. CASE ~(tmp[2] = {} /\ tmp[4] = {})
  <2>1. ri' = ri + 1 /\ UNCHANGED <<rpc, rkey, rimg, ctr>>
    BY <1>4 DEF TryKey
  <2>2. klist[ri] # key \/ HitInfo
    BY <1>2, <1>4
  <2> HIDE DEF r, tmp
  <2>3. \A j \in 1 .. ri' - 1 : klist[j] # key \/ HitInfo
    BY <1>1, <2>1, <2>2
  <2>4. RPlace' /\ RKeys'
    BY <1>1, <2>1, <2>3 DEF SInv, RInv, RPlace, RKeys, Before, Decoded, Gone
  <2>5. RImage' /\ RInfos' /\ ROut' /\ NeverAstray'
    BY <1>1, <2>1 DEF RImage, RInfos, ROut, NeverAstray, Before, Decoded, Gone
  <2> QED BY <2>4, <2>5 DEF RInv
<1> QED BY <1>3, <1>4

LEMMA NoKeyFitsKeeps == ASSUME SInv, ReaderFrame, NoKeyFits PROVE RInv'
BY FailKeeps DEF NoKeyFits

\* The key and the iv of the metadata, as PlainInfo has them.
MetaKey == {<<"key">>}
MetaIv  == {<<"iv">>}

\* The two halves of the header come out one after the other: the second call
\* goes on with the counter where the first one left it.
LEMMA DecryptHalves ==
    ASSUME NEW L, WellFormed(L), NEW k, NEW H
    PROVE  /\ aes128ctr(MetaKey, MetaIv, 0, RawBody(L, k, H), 1, 2) = HalfBody(L, k, H)
           /\ aes128ctr(MetaKey, MetaIv, 2, HalfBody(L, k, H), 3, L.blocks)
                = DamBody(L, k, H)
<1> DEFINE R  == RawBody(L, k, H)
           F  == HalfBody(L, k, H)
           D  == DamBody(L, k, H)
           mk == {<<"key">>}
           mi == {<<"iv">>}
<1>0. L.blocks \in Nat
  BY SectionFacts
<1>1. ASSUME NEW b \in 1 .. L.blocks PROVE Xor(R[b], Stream(b)) = D[b]
  <2> DEFINE c == Body(L, k)[b]
             s == Stream(b)
             h == BadBody(H, b)
  <2>1. R[b] = Dam(Xor(c, s), h) /\ D[b] = Dam(c, h)
    BY DEF RawBody, SealedBody, DamBody, BadBody
  <2> HIDE DEF c, s, h
  <2>2. Xor(Dam(Xor(c, s), h), s) = Dam(c, h)
    <3>1. CASE h
      <4> DEFINE f == {<<"flip">>}
      <4>1. Dam(Xor(c, s), h) = Xor(Xor(c, s), f) /\ Dam(c, h) = Xor(c, f)
        BY <3>1 DEF Dam, Flip
      <4> HIDE DEF f
      <4> QED BY <4>1 DEF Xor
    <3>2. CASE ~h
      BY <3>2, XorTwice DEF Dam
    <3> QED BY <3>1, <3>2
  <2> HIDE DEF R, D
  <2> QED BY <2>1, <2>2 DEF s
<1>2. aes128ctr(mk, mi, 0, R, 1, 2) = F
  <2>1. DOMAIN R = 1 .. L.blocks /\ DOMAIN F = 1 .. L.blocks
    BY DEF RawBody, HalfBody
  <2>2. ASSUME NEW b \in 1 .. L.blocks
        PROVE  (IF b \in 1 .. 2 THEN Xor(R[b], Keystream(mk, mi, 0 + (b - 1))) ELSE R[b]) = F[b]
    <3>1. 0 + (b - 1) = b - 1
      BY <1>0
    <3>2. F[b] = IF b \in 1 .. 2 THEN D[b] ELSE R[b]
      BY DEF HalfBody
    <3> HIDE DEF R, D, F
    <3> QED BY <1>1, <3>1, <3>2 DEF Stream
  <2>3. F = [b \in 1 .. L.blocks |-> F[b]]
    BY DEF HalfBody
  <2> HIDE DEF R, F, mk, mi
  <2> QED BY <2>1, <2>2, <2>3 DEF aes128ctr
<1>3. aes128ctr(mk, mi, 2, F, 3, L.blocks) = D
  <2>1. DOMAIN F = 1 .. L.blocks
    BY DEF HalfBody
  <2>2. ASSUME NEW b \in 1 .. L.blocks
        PROVE  (IF b \in 3 .. L.blocks THEN Xor(F[b], Keystream(mk, mi, 2 + (b - 3))) ELSE F[b]) = D[b]
    <3>1. 2 + (b - 3) = b - 1 /\ (b \in 1 .. 2 <=> b \notin 3 .. L.blocks)
      BY <1>0
    <3>2. F[b] = IF b \in 1 .. 2 THEN D[b] ELSE R[b]
      BY DEF HalfBody
    <3> HIDE DEF R, D, F
    <3> QED BY <1>1, <3>1, <3>2 DEF Stream
  <2>3. D = [b \in 1 .. L.blocks |-> D[b]]
    BY DEF DamBody
  <2> HIDE DEF D, F, mk, mi
  <2> QED BY <2>1, <2>2, <2>3 DEF aes128ctr
<1> QED BY <1>2, <1>3 DEF MetaKey, MetaIv

LEMMA KeyedFields ==
    ASSUME NEW L, NEW H, NEW B, NEW D
    PROVE  /\ Keyed(L, H, B, D).hdr = DamHeader(L, H)
           /\ Keyed(L, H, B, D).info = PlainInfo
           /\ Keyed(L, H, B, D).body = B /\ Keyed(L, H, B, D).data = D
           /\ \A b : [Keyed(L, H, B, D) EXCEPT !.body = b] = Keyed(L, H, b, D)
           /\ \A d : [Keyed(L, H, B, D) EXCEPT !.data = d] = Keyed(L, H, B, d)
           /\ PlainInfo[1] = MetaKey /\ PlainInfo[3] = MetaIv
<1>1. PlainInfo[1] = MetaKey /\ PlainInfo[3] = MetaIv
  BY DEF PlainInfo, MetaKey, MetaIv
<1> QED BY <1>1 DEF Keyed

LEMMA DecryptMetaKeeps == ASSUME SInv, ReaderFrame, DecryptMeta PROVE RInv'
<1> USE FrameFacts
<1>1. /\ rpc = "meta" /\ ctr = 0 /\ out = <<>> /\ report = NoReport
      /\ rimg = Keyed(lay, hits, RawBody(lay, key, hits), DamData(lay, key, hits))
      /\ rpc' = "body" /\ UNCHANGED <<rkey, out, report>>
  BY DEF DecryptMeta, To, SInv, RInv, RPlace, RImage, ROut, Decoded, Gone
<1>2. ctr' = 2
  BY <1>1 DEF DecryptMeta, CtrNext
<1>3. rimg' = Keyed(lay, hits, HalfBody(lay, key, hits), DamData(lay, key, hits))
  <2>1. rimg' = [rimg EXCEPT !.body =
                    aes128ctr(rimg.info[1], rimg.info[3], 0, rimg.body, 1, 2)]
    BY <1>1 DEF DecryptMeta
  <2>2. aes128ctr(rimg.info[1], rimg.info[3], 0, rimg.body, 1, 2) = HalfBody(lay, key, hits)
    BY <1>1, KeyedFields, DecryptHalves
  <2> QED BY <1>1, <2>1, <2>2, KeyedFields
<1>4. RPlace' /\ RKeys'
  BY <1>1, <1>2 DEF SInv, RInv, RPlace, RKeys, Before, Decoded, Gone
<1>5. RImage' /\ RInfos' /\ ROut' /\ NeverAstray'
  BY <1>1, <1>3 DEF RImage, RInfos, ROut, NeverAstray, Before, Decoded, Gone
<1> QED BY <1>4, <1>5 DEF RInv

LEMMA StageNone ==
    ASSUME NEW L, NEW k, NEW H
    PROVE  Stage(L, DamBody(L, k, H), DamData(L, k, H), 0) = DamData(L, k, H)
<1> DEFINE f == DamData(L, k, H)
<1>1. ASSUME NEW u PROVE Xor(f[u], Pads(L, DamBody(L, k, H), 0, u)) = f[u]
  <2>1. Pads(L, DamBody(L, k, H), 0, u) = {}
    BY DEF Pads, Over
  <2> QED BY <2>1, XorEmpty
<1>2. f = [u \in 0 .. L.units - 1 |-> f[u]]
  BY DEF DamData
<1> HIDE DEF f
<1>3. Stage(L, DamBody(L, k, H), f, 0) = f
  BY <1>1, <1>2 DEF Stage
<1> QED BY <1>3 DEF f

LEMMA DecryptBodyKeeps == ASSUME SInv, ReaderFrame, DecryptBody PROVE RInv'
<1> USE FrameFacts
<1>1. /\ rpc = "body" /\ ctr = 2 /\ out = <<>> /\ report = NoReport
      /\ rimg = Keyed(lay, hits, HalfBody(lay, key, hits), DamData(lay, key, hits))
      /\ rpc' = "data" /\ ri' = 1 /\ UNCHANGED <<rkey, out, report>>
  BY DEF DecryptBody, To, SInv, RInv, RPlace, RImage, ROut, Decoded, Gone
<1>2. ctr' = lay.blocks
  BY <1>1 DEF DecryptBody, CtrNext
<1>3. rimg' = Revealed(lay, key, hits, 0)
  <2>1. rimg' = [rimg EXCEPT !.body =
                    aes128ctr(rimg.info[1], rimg.info[3], 2, rimg.body, 3, lay.blocks)]
    BY <1>1 DEF DecryptBody
  <2>2. aes128ctr(rimg.info[1], rimg.info[3], 2, rimg.body, 3, lay.blocks) = DamBody(lay, key, hits)
    BY <1>1, KeyedFields, DecryptHalves
  <2>3. rimg' = Keyed(lay, hits, DamBody(lay, key, hits), DamData(lay, key, hits))
    BY <1>1, <2>1, <2>2, KeyedFields
  <2> QED BY <2>3, StageNone DEF Revealed
<1>4. RPlace' /\ RKeys'
  BY <1>1, <1>2 DEF SInv, RInv, RPlace, RKeys, Before, Decoded, Gone
<1>5. RImage' /\ RInfos' /\ ROut' /\ NeverAstray'
  <2>1. ri' - 1 = 0
    BY <1>1
  <2> QED BY <1>1, <1>3, <2>1 DEF RImage, RInfos, ROut, NeverAstray, Before, Decoded, Gone
<1> QED BY <1>4, <1>5 DEF RInv

\* What the decrypted header says, damaged or not: a block that was not hit
\* holds what the writer put there, and a hit on one in front of the signature
\* is a hit the signature tells.
LEMMA RevealedHeader ==
    ASSUME NEW L, WellFormed(L), NEW k, NEW H, NEW m, NEW im, im = Revealed(L, k, H, m)
    PROVE  /\ im.body = DamBody(L, k, H) /\ im.hdr = DamHeader(L, H) /\ im.info = PlainInfo
           /\ im.data = Stage(L, DamBody(L, k, H), DamData(L, k, H), m)
           /\ HasMeta(im.body) => MetaOf(im.body).n = Num(L) /\ MetaOf(im.body).sig = L.sig
           /\ ~HasMeta(im.body) => BadSignature(L, H)
           /\ \A i \in 1 .. Num(L) :
                 /\ HasSec(im.body, i) => SecOf(im.body, i) = Sec(L, i)
                 /\ ~HasSec(im.body, i) => BadSignature(L, H)
<1>0. L.sig \in Nat /\ Num(L) \in Nat /\ 2 + 3 * Num(L) <= L.sig
  BY SectionFacts
<1>1. /\ im.body = DamBody(L, k, H) /\ im.hdr = DamHeader(L, H) /\ im.info = PlainInfo
      /\ im.data = Stage(L, DamBody(L, k, H), DamData(L, k, H), m)
  BY KeyedFields DEF Revealed
<1>2. ASSUME NEW b \in 1 .. 2 + 3 * Num(L), BadBody(H, b) PROVE BadSignature(L, H)
  BY <1>0, <1>2 DEF BadSignature
<1>3. HasMeta(im.body) => MetaOf(im.body).n = Num(L) /\ MetaOf(im.body).sig = L.sig
  BY <1>1, MetaBlocks
<1>4. ~HasMeta(im.body) => BadSignature(L, H)
  BY <1>0, <1>1, <1>2, MetaBlocks
<1>5. ASSUME NEW i \in 1 .. Num(L)
      PROVE  /\ HasSec(im.body, i) => SecOf(im.body, i) = Sec(L, i)
             /\ ~HasSec(im.body, i) => BadSignature(L, H)
  <2>1. HasSec(im.body, i) => SecOf(im.body, i) = Sec(L, i)
    BY <1>1, SecBlocks
  <2>2. ASSUME ~HasSec(im.body, i) PROVE BadSignature(L, H)
    <3>1. PICK p \in 1 .. 3 : BadBody(H, SecBlock(i, p))
      BY <1>1, <2>2, SecBlocks
    <3>2. SecBlock(i, p) \in 1 .. 2 + 3 * Num(L)
      <4>1. SecBlock(i, p) \in 3 .. 2 + 3 * Num(L)
        BY SecBlocks
      <4> QED BY <1>0, <4>1
    <3> QED BY <1>2, <3>1, <3>2
  <2> QED BY <2>1, <2>2
<1> QED BY <1>1, <1>3, <1>4, <1>5

LEMMA DecryptSectionKeeps == ASSUME SInv, ReaderFrame, DecryptSection PROVE RInv'
<1> USE FrameFacts
<1>1. /\ rpc = "data" /\ out = <<>> /\ report = NoReport /\ ri \in 1 .. Num(lay) + 1
      /\ rimg = Revealed(lay, key, hits, ri - 1) /\ ctr \in 0 .. lay.blocks
      /\ \A i \in 1 .. ri - 1 : HasSec(DamBody(lay, key, hits), i)
      /\ HasMeta(rimg.body) /\ ri <= nhdr /\ HasSec(rimg.body, ri)
      /\ rimg' = CryptSection(rimg, nhdr, rsec) /\ ri' = ri + 1
      /\ UNCHANGED <<rpc, rkey, ctr, out, report>>
  BY DEF DecryptSection, SInv, RInv, RPlace, RImage, RInfos, ROut, Decoded, Gone
<1>2. nhdr = Num(lay) /\ ri \in 1 .. Num(lay) /\ rimg.body = DamBody(lay, key, hits)
  BY <1>1, RevealedHeader DEF nhdr
<1>3. rsec = Sec(lay, ri)
  BY <1>1, <1>2, RevealedHeader DEF rsec
<1>4. rimg' = Revealed(lay, key, hits, ri)
  <2> DEFINE f == DamData(lay, key, hits)
             h == DamHeader(lay, hits)
             B == DamBody(lay, key, hits)
  <2>1. rimg = [hdr |-> h, info |-> PlainInfo, body |-> B, data |-> Stage(lay, B, f, ri - 1)]
    BY <1>1 DEF Revealed, Keyed
  <2>2. Revealed(lay, key, hits, ri)
          = [hdr |-> h, info |-> PlainInfo, body |-> B, data |-> Stage(lay, B, f, ri)]
    BY DEF Revealed, Keyed
  <2> HIDE DEF f, h
  <2>3. rimg' = CryptSection(rimg, Num(lay), Sec(lay, ri))
    BY <1>1, <1>2, <1>3
  <2> QED BY <1>2, <2>1, <2>2, <2>3, CryptStep
<1>5. RPlace' /\ RKeys'
  BY <1>1, <1>2 DEF SInv, RInv, RPlace, RKeys, Before, Decoded, Gone
<1>6. RImage' /\ RInfos' /\ ROut' /\ NeverAstray'
  <2>1. ri' - 1 = ri /\ rpc' = "data"
    BY <1>1, <1>2
  <2>2. \A i \in 1 .. ri : HasSec(DamBody(lay, key, hits), i)
    BY <1>1, <1>2
  <2> QED BY <1>1, <1>4, <2>1, <2>2 DEF RImage, RInfos, ROut, NeverAstray, Before, Decoded, Gone
<1> QED BY <1>5, <1>6 DEF RInv

LEMMA GarbledKeeps == ASSUME SInv, ReaderFrame, Garbled PROVE RInv'
<1> USE FrameFacts
<1>1. /\ rpc = "data" /\ ri \in 1 .. Num(lay) + 1 /\ rimg = Revealed(lay, key, hits, ri - 1)
      /\ Derail
      /\ ~HasMeta(rimg.body) \/ (HasMeta(rimg.body) /\ ri <= nhdr /\ ~HasSec(rimg.body, ri))
  BY DEF Garbled, SInv, RInv, RPlace, RImage
<1>2. SpoiltSignature
  <2>1. CASE ~HasMeta(rimg.body)
    BY <1>1, <2>1, RevealedHeader, SameDamage
  <2>2. CASE HasMeta(rimg.body) /\ ri <= nhdr /\ ~HasSec(rimg.body, ri)
    <3>1. nhdr = Num(lay)
      BY <1>1, <2>2, RevealedHeader DEF nhdr
    <3>2. ri \in 1 .. Num(lay)
      BY <1>1, <2>2, <3>1
    <3> QED BY <1>1, <2>2, <3>2, RevealedHeader, SameDamage
  <2> QED BY <1>1, <2>1, <2>2
<1> QED BY <1>1, <1>2, DerailKeeps

LEMMA DecryptedKeeps == ASSUME SInv, ReaderFrame, Decrypted PROVE RInv'
<1> USE FrameFacts
<1>1. /\ rpc = "data" /\ out = <<>> /\ report = NoReport /\ ri \in 1 .. Num(lay) + 1
      /\ rimg = Revealed(lay, key, hits, ri - 1) /\ ctr \in 0 .. lay.blocks
      /\ \A i \in 1 .. ri - 1 : HasSec(DamBody(lay, key, hits), i)
      /\ HasMeta(rimg.body) /\ ri > nhdr
      /\ rpc' = (IF tool = "unpack" THEN "extract" ELSE "pub") /\ ri' = 1
      /\ UNCHANGED <<rkey, rimg, ctr, out, report>>
      /\ tool \in {"unpack", "verify"}
  BY DEF Decrypted, To, SInv, RInv, RPlace, RImage, RInfos, ROut, Decoded, Gone
<1>2. nhdr = Num(lay) /\ rimg.body = DamBody(lay, key, hits)
  BY <1>1, RevealedHeader DEF nhdr
<1>3. ri - 1 = Num(lay)
  BY <1>1, <1>2
<1>4. RPlace' /\ RKeys'
  <2>1. Len(Parts(lay)) \in Nat
    BY DEF Parts
  <2> QED BY <1>1, <2>1 DEF SInv, RInv, RPlace, RKeys, Before, Decoded, Gone
<1>5. RImage' /\ RInfos' /\ NeverAstray'
  BY <1>1, <1>2, <1>3 DEF RImage, RInfos, NeverAstray, Before, Decoded, Gone
<1>6. ROut'
  <2>1. Written(lay, key, hits, 0) = <<>>
    BY DEF Written
  <2> QED BY <1>1, <2>1 DEF ROut, Before, Decoded, Gone
<1> QED BY <1>4, <1>5, <1>6 DEF RInv

\* One piece more is one entry more of what has been written.
LEMMA WrittenMore ==
    ASSUME NEW L, NEW k, NEW H, NEW m \in Nat
    PROVE  Append(Written(L, k, H, m), [u \in Parts(L)[m + 1] |-> Opened(L, k, H)[u]])
             = Written(L, k, H, m + 1)
<1> DEFINE e(j) == [u \in Parts(L)[j] |-> Opened(L, k, H)[u]]
           w    == [j \in 1 .. m |-> e(j)]
           x    == [j \in 1 .. m + 1 |-> e(j)]
<1> SUFFICES Append(w, e(m + 1)) = x
  BY DEF Written
<1> HIDE DEF e
<1> DEFINE S == {e(j) : j \in 1 .. m + 1}
<1>1. w \in Seq(S) /\ x \in Seq(S) /\ e(m + 1) \in S
  OBVIOUS
<1>2. Len(w) = m /\ Len(x) = m + 1
  BY <1>1
<1>3. \A j \in 1 .. m : w[j] = x[j]
  OBVIOUS
<1>4. x[m + 1] = e(m + 1)
  OBVIOUS
<1> HIDE DEF w, x, S
<1>5. Append(w, e(m + 1)) \in Seq(S) /\ Len(Append(w, e(m + 1))) = m + 1
  BY <1>1, <1>2
<1>6. \A j \in 1 .. m + 1 : Append(w, e(m + 1))[j] = x[j]
  BY <1>1, <1>2, <1>3, <1>4
<1> QED BY <1>1, <1>2, <1>5, <1>6

LEMMA PiecesAreParts ==
    ASSUME SInv, Decoded
    PROVE  Pieces = Parts(lay) /\ Len(Parts(lay)) \in Nat
<1>1. WellFormed(lay)
  BY LayFacts DEF SInv, WInv, WPlace
<1>2. Len(Parts(lay)) \in Nat
  BY DEF Parts
<1>3. CASE lay.kind = "pkg"
  <2>1. Num(lay) = 3
    BY <1>1, <1>3 DEF WellFormed, Num
  <2>2. ASSUME NEW i \in 1 .. 3 PROVE SecOf(rimg.body, i) = Sec(lay, i)
    BY <1>1, <2>1, RevealedHeader DEF SInv, RInv, RImage, RInfos
  <2>3. [i \in 1 .. 3 |-> Units(SecOf(rimg.body, i))] = [i \in 1 .. 3 |-> Units(Sec(lay, i))]
    BY <2>2
  <2> QED BY <1>2, <1>3, <2>3 DEF Pieces, Parts
<1>4. CASE lay.kind # "pkg"
  BY <1>2, <1>4 DEF Pieces, Parts
<1> QED BY <1>3, <1>4

LEMMA ExtractKeeps == ASSUME SInv, ReaderFrame, Extract PROVE RInv'
<1> USE FrameFacts
<1> DEFINE piece == [u \in Pieces[ri] |-> rimg.data[u]]
<1>1. /\ rpc = "extract" /\ report = NoReport /\ ri \in 1 .. Len(Parts(lay)) + 1
      /\ Decoded /\ rimg = Revealed(lay, key, hits, Num(lay))
      /\ out = Written(lay, key, hits, ri - 1) /\ ri <= Len(Pieces)
  BY DEF Extract, SInv, RInv, RPlace, RImage, ROut, Decoded, Gone
<1>2. Pieces = Parts(lay) /\ Len(Parts(lay)) \in Nat
  BY <1>1, PiecesAreParts
<1>3. CASE Fail
  BY <1>1, <1>3, FailKeeps
<1>4. CASE /\ out' = Append(out, piece) /\ ri' = ri + 1
           /\ UNCHANGED <<rpc, rkey, rimg, ctr, report>>
  <2>1. out' = Written(lay, key, hits, ri)
    <3>1. rimg.data = Opened(lay, key, hits)
      BY <1>1, RevealedHeader DEF Opened
    <3>2. ri - 1 \in Nat /\ (ri - 1) + 1 = ri
      BY <1>1, <1>2
    <3>3. piece = [u \in Parts(lay)[ri] |-> Opened(lay, key, hits)[u]]
      BY <1>2, <3>1
    <3> DEFINE m == ri - 1
    <3>4. Append(Written(lay, key, hits, m), [u \in Parts(lay)[m + 1] |-> Opened(lay, key, hits)[u]])
             = Written(lay, key, hits, m + 1)
      <4>1. m \in Nat
        BY <3>2
      <4> HIDE DEF m
      <4> QED BY <4>1, WrittenMore
    <3> QED BY <1>1, <1>4, <3>2, <3>3, <3>4
  <2> HIDE DEF piece
  <2>2. RPlace' /\ RKeys'
    BY <1>1, <1>2, <1>4 DEF SInv, RInv, RPlace, RKeys, Before, Decoded, Gone
  <2>3. RImage' /\ RInfos'
    BY <1>1, <1>4 DEF SInv, RInv, RImage, RInfos, Before, Decoded, Gone
  <2>4. ROut' /\ NeverAstray'
    <3>1. rpc' = "extract" /\ report' = NoReport /\ ri' - 1 = ri
      BY <1>1, <1>2, <1>4
    <3> QED BY <2>1, <3>1 DEF ROut, NeverAstray, Decoded, Gone
  <2> QED BY <2>2, <2>3, <2>4 DEF RInv
<1> QED BY <1>3, <1>4 DEF Extract

LEMMA ExtractedKeeps == ASSUME SInv, ReaderFrame, Extracted PROVE RInv'
<1> USE FrameFacts
<1>1. /\ rpc = "extract" /\ report = NoReport /\ ri \in 1 .. Len(Parts(lay)) + 1 /\ tool = "unpack"
      /\ Decoded /\ rimg = Revealed(lay, key, hits, Num(lay)) /\ ctr \in 0 .. lay.blocks
      /\ out = Written(lay, key, hits, ri - 1) /\ ri > Len(Pieces)
      /\ rpc' = "done" /\ ri' = 1 /\ UNCHANGED <<rkey, rimg, ctr, out, report>>
  BY DEF Extracted, To, SInv, RInv, RPlace, RImage, ROut, Decoded, Gone
<1>2. ri - 1 = Len(Parts(lay))
  BY <1>1, PiecesAreParts
<1>3. RPlace' /\ RKeys'
  BY <1>1 DEF SInv, RInv, RPlace, RKeys, Before, Decoded, Gone
<1>4. RImage' /\ RInfos'
  BY <1>1 DEF SInv, RInv, RImage, RInfos, Before, Decoded, Gone
<1>5. ROut' /\ NeverAstray'
  BY <1>1, <1>2 DEF ROut, NeverAstray, Before, Decoded, Gone
<1> QED BY <1>3, <1>4, <1>5 DEF RInv

LEMMA NeedPublicKeyKeeps == ASSUME SInv, ReaderFrame, NeedPublicKey PROVE RInv'
<1> USE FrameFacts
<1>1. /\ rpc = "pub" /\ report = NoReport /\ tool = "verify" /\ rkey # 0 /\ klist[rkey] = key
      /\ Decoded /\ rimg = Revealed(lay, key, hits, Num(lay)) /\ ctr \in 0 .. lay.blocks
  BY DEF NeedPublicKey, SInv, RInv, RPlace, RKeys, RImage, ROut, Before, Decoded, Gone
<1>2. CASE Fail
  BY <1>1, <1>2, FailKeeps
<1>3. CASE klist[rkey] \in PublicKeys /\ To("sig") /\ UNCHANGED <<rkey, rimg, ctr, out, report>>
  <2>1. RPlace' /\ RKeys'
    BY <1>1, <1>3 DEF To, SInv, RInv, RPlace, RKeys, Before, Decoded, Gone
  <2>2. RImage' /\ RInfos'
    BY <1>1, <1>3 DEF To, SInv, RInv, RImage, RInfos, Before, Decoded, Gone
  <2>3. ROut' /\ NeverAstray'
    BY <1>1, <1>3 DEF To, ROut, NeverAstray, Before, Decoded, Gone
  <2> QED BY <2>1, <2>2, <2>3 DEF RInv
<1> QED BY <1>2, <1>3 DEF NeedPublicKey

LEMMA VerifySignatureKeeps == ASSUME SInv, ReaderFrame, VerifySignature PROVE RInv'
<1> USE FrameFacts
<1> DEFINE im == rimg
           rs == [p \in 1 .. 3 |-> im.body[lay.sig + p]]
           ok == ecdsa_verify(key, Digest(im, lay.sig), rs)
<1>1. /\ rpc = "sig" /\ report = NoReport /\ tool = "verify" /\ rkey # 0 /\ klist[rkey] = key
      /\ Decoded /\ rimg = Revealed(lay, key, hits, Num(lay)) /\ ctr \in 0 .. lay.blocks
      /\ HasMeta(DamBody(lay, key, hits)) /\ ~HitInfo /\ key \in PublicKeys
      /\ rpc' = "hash" /\ ri' = 1 /\ UNCHANGED <<rkey, rimg, ctr, out>>
  BY DEF VerifySignature, To, SInv, RInv, RPlace, RKeys, RImage, RInfos, ROut, Before, Decoded, Gone
<1>2. /\ MetaOf(im.body).sig = lay.sig /\ im.body = DamBody(lay, key, hits)
      /\ im.hdr = DamHeader(lay, hits) /\ im.info = PlainInfo
  BY <1>1, RevealedHeader
<1>3. report' = [report EXCEPT !.sig = IF ok THEN "OK" ELSE "FAIL"]
  BY <1>1, <1>2 DEF VerifySignature
<1>4. ok <=> ~BadSignature(lay, hits)
  <2>1. ok <=> <<"hdr", 0>> \notin hits /\ \A b \in 1 .. lay.sig + 3 : ~BadBody(hits, b)
    <3>1. im.hdr = Dam({<<"hdr", lay.kind>>}, <<"hdr", 0>> \in hits)
      BY <1>2 DEF DamHeader
    <3> HIDE DEF im
    <3> QED BY <1>2, <3>1, SignatureCovers
  <2> QED BY <1>1, <2>1 DEF BadSignature, HitInfo
<1> HIDE DEF ok
<1>5. report' = Report(lay, hits, 0)
  <2>1. report = [sig |-> "none", hash |-> <<>>]
    BY <1>1 DEF NoReport
  <2>2. Report(lay, hits, 0) = [sig |-> SigVerdict(lay, hits), hash |-> <<>>]
    BY DEF Report
  <2>3. (IF ok THEN "OK" ELSE "FAIL") = SigVerdict(lay, hits)
    BY <1>4 DEF SigVerdict
  <2> QED BY <1>3, <2>1, <2>2, <2>3
<1>6. RPlace' /\ RKeys'
  BY <1>1 DEF SInv, RInv, RPlace, RKeys, Before, Decoded, Gone
<1>7. RImage' /\ RInfos'
  BY <1>1 DEF SInv, RInv, RImage, RInfos, Before, Decoded, Gone
<1>8. ROut' /\ NeverAstray'
  BY <1>1, <1>5 DEF ROut, NeverAstray, Before, Decoded, Gone
<1> QED BY <1>6, <1>7, <1>8 DEF RInv

LEMMA ReportMore ==
    ASSUME NEW L, NEW H, NEW m \in Nat
    PROVE  [Report(L, H, m) EXCEPT !.hash = Append(@, SecVerdict(L, H, m + 1))]
             = Report(L, H, m + 1)
<1> DEFINE w == [j \in 1 .. m |-> SecVerdict(L, H, j)]
           x == [j \in 1 .. m + 1 |-> SecVerdict(L, H, j)]
           S == {SecVerdict(L, H, j) : j \in 1 .. m + 1}
<1>1. w \in Seq(S) /\ x \in Seq(S) /\ SecVerdict(L, H, m + 1) \in S
  OBVIOUS
<1>2. Len(w) = m /\ Len(x) = m + 1 /\ x[m + 1] = SecVerdict(L, H, m + 1)
  BY <1>1
<1>3. \A j \in 1 .. m : w[j] = x[j]
  OBVIOUS
<1>4. Report(L, H, m) = [sig |-> SigVerdict(L, H), hash |-> w]
  BY DEF Report
<1>5. Report(L, H, m + 1) = [sig |-> SigVerdict(L, H), hash |-> x]
  BY DEF Report
<1> HIDE DEF w, x, S
<1>6. Append(w, SecVerdict(L, H, m + 1)) = x
  BY <1>1, <1>2, <1>3
<1> QED BY <1>4, <1>5, <1>6

LEMMA VerifyHashKeeps == ASSUME SInv, ReaderFrame, VerifyHash PROVE RInv'
<1> USE FrameFacts
<1>1. /\ rpc = "hash" /\ tool = "verify" /\ ri \in 1 .. Num(lay) + 1 /\ ri <= nhdr
      /\ Decoded /\ rimg = Revealed(lay, key, hits, Num(lay)) /\ ctr \in 0 .. lay.blocks
      /\ HasMeta(DamBody(lay, key, hits))
      /\ \A i \in 1 .. Num(lay) : HasSec(DamBody(lay, key, hits), i)
      /\ report = Report(lay, hits, ri - 1)
      /\ report' = [report EXCEPT !.hash = Append(@, verify_hash(rsec))]
      /\ ri' = ri + 1 /\ UNCHANGED <<rpc, rkey, rimg, ctr, out>>
  BY DEF VerifyHash, SInv, RInv, RPlace, RImage, RInfos, ROut, Before, Decoded, Gone
<1>2. /\ nhdr = Num(lay) /\ ri \in 1 .. Num(lay) /\ rimg.body = DamBody(lay, key, hits)
      /\ rimg.data = Opened(lay, key, hits)
  BY <1>1, RevealedHeader DEF nhdr, Opened
<1>3. rsec = Sec(lay, ri)
  BY <1>1, <1>2, RevealedHeader DEF rsec
<1>4. verify_hash(Sec(lay, ri)) = SecVerdict(lay, hits, ri)
  <2> DEFINE s == Sec(lay, ri)
             D == DamBody(lay, key, hits)
             e == sha1_hmac(HmacKey(D, Num(lay), s.sha), Section(Opened(lay, key, hits), s))
                    = <<Slot(D, Num(lay), s.sha), Slot(D, Num(lay), s.sha + 1)>>
  <2>1. e <=> /\ \A u \in Units(s) : ~Bad(lay, hits, u)
              /\ \A j \in s.sha .. s.sha + 5 : ~BadSlot(lay, hits, j)
    BY <1>2, DigestCovers
  <2>2. e <=> ~BadHash(lay, hits, s)
    <3> HIDE DEF e, s
    <3> QED BY <2>1 DEF BadHash
  <2>3. verify_hash(s) = IF s.off + s.len > lay.fsize THEN "???" ELSE IF e THEN "OK" ELSE "FAIL*"
    BY <1>2 DEF verify_hash
  <2> HIDE DEF e
  <2> QED BY <2>2, <2>3 DEF SecVerdict
<1>5. report' = Report(lay, hits, ri)
  <2> DEFINE m == ri - 1
  <2>1. m \in Nat /\ m + 1 = ri
    BY <1>2
  <2>2. report' = [Report(lay, hits, m) EXCEPT !.hash = Append(@, SecVerdict(lay, hits, m + 1))]
    BY <1>1, <1>3, <1>4, <2>1
  <2> HIDE DEF m
  <2>3. [Report(lay, hits, m) EXCEPT !.hash = Append(@, SecVerdict(lay, hits, m + 1))]
          = Report(lay, hits, m + 1)
    BY <2>1, ReportMore
  <2> QED BY <2>1, <2>2, <2>3
<1>6. RPlace' /\ RKeys'
  BY <1>1, <1>2 DEF SInv, RInv, RPlace, RKeys, Before, Decoded, Gone
<1>7. RImage' /\ RInfos'
  BY <1>1 DEF SInv, RInv, RImage, RInfos, Before, Decoded, Gone
<1>8. ROut' /\ NeverAstray'
  <2>1. ri' - 1 = ri /\ rpc' = "hash"
    BY <1>1, <1>2
  <2> QED BY <1>1, <1>5, <2>1 DEF ROut, NeverAstray, Before, Decoded, Gone
<1> QED BY <1>6, <1>7, <1>8 DEF RInv

LEMMA VerifiedKeeps == ASSUME SInv, ReaderFrame, Verified PROVE RInv'
<1> USE FrameFacts
<1>1. /\ rpc = "hash" /\ tool = "verify" /\ ri \in 1 .. Num(lay) + 1 /\ ri > nhdr
      /\ Decoded /\ rimg = Revealed(lay, key, hits, Num(lay)) /\ ctr \in 0 .. lay.blocks
      /\ HasMeta(DamBody(lay, key, hits)) /\ report = Report(lay, hits, ri - 1)
      /\ rpc' = "done" /\ ri' = 1 /\ UNCHANGED <<rkey, rimg, ctr, out, report>>
  BY DEF Verified, To, SInv, RInv, RPlace, RImage, RInfos, ROut, Before, Decoded, Gone
<1>2. ri - 1 = Num(lay)
  BY <1>1, RevealedHeader DEF nhdr
<1>3. RPlace' /\ RKeys'
  BY <1>1 DEF SInv, RInv, RPlace, RKeys, Before, Decoded, Gone
<1>4. RImage' /\ RInfos'
  BY <1>1 DEF SInv, RInv, RImage, RInfos, Before, Decoded, Gone
<1>5. ROut' /\ NeverAstray'
  BY <1>1, <1>2 DEF ROut, NeverAstray, Before, Decoded, Gone
<1> QED BY <1>3, <1>4, <1>5 DEF RInv

LEMMA SystemReadStep == ASSUME SInv, Read PROVE SInv'
<1> USE ReadFrame
<1>1. WInv' /\ HInv'
  BY FrameFacts
<1>2. RInv'
  BY MapFileKeeps, ReadHeaderKeeps, TryKeyKeeps, NoKeyFitsKeeps, DecryptMetaKeeps,
     DecryptBodyKeeps, DecryptSectionKeeps, GarbledKeeps, DecryptedKeeps, ExtractKeeps,
     ExtractedKeeps, NeedPublicKeyKeeps, VerifySignatureKeeps, VerifyHashKeeps, VerifiedKeeps
     DEF Read, ReaderNext
<1> QED BY <1>1, <1>2 DEF SInv

LEMMA SInvStep == SInv /\ [Next]_vars => SInv'
<1> SUFFICES ASSUME SInv, [Next]_vars PROVE SInv'
  OBVIOUS
<1>1. CASE WriterNext /\ UNCHANGED <<rvars, hits>>
  BY <1>1, SystemWriterStep
<1>2. CASE Damage
  BY <1>2, SystemDamageStep
<1>3. CASE Read
  BY <1>3, SystemReadStep
<1>4. CASE UNCHANGED vars
  <2>1. WInv'
    BY <1>4 DEF vars, wvars, SInv, WInv, WPlace, WImage, WDisk, Finished, Running, nsec
  <2>2. HInv'
    BY <1>4 DEF vars, wvars, SInv, HInv, Running, Places
  <2>3. RPlace' /\ RKeys' /\ RImage'
    BY <1>4 DEF vars, wvars, rvars, SInv, RInv, RPlace, RKeys, RImage, Before, Decoded, Gone,
                Running, HitInfo
  <2>4. RInfos' /\ ROut' /\ NeverAstray'
    BY <1>4 DEF vars, wvars, rvars, SInv, RInv, RInfos, ROut, Before, Decoded, Gone,
                NeverAstray, SpoiltSignature, HitInfo, HitBody
  <2> QED BY <2>1, <2>2, <2>3, <2>4 DEF SInv, RInv
<1> QED BY <1>1, <1>2, <1>3, <1>4 DEF Next

\* The inductive invariant of writer, storage and reader together.
THEOREM SystemInvariance == Spec => []SInv
<1>1. Init => SInv
  BY SInitInv
<1>2. SInv /\ [Next]_vars => SInv'
  BY SInvStep
<1> QED BY <1>1, <1>2, PTL DEF Spec

-----------------------------------------------------------------------------
(* What the runs check, for every layout, key list and damage. *)

LEMMA SInvKeys == SInv => RightKeyOnly
<1> SUFFICES ASSUME SInv, rpc = "try", ri > Len(klist), key \in Rng(klist) PROVE HitInfo
  BY DEF SInv, RInv, RKeys, RightKeyOnly
<1>1. klist \in Seq(Keys) /\ Len(klist) \in Nat /\ ri \in Nat
  <2>1. klist \in Seq(Keys) /\ ri \in 1 .. Len(klist) + 1
    BY KeyListsAssumption DEF SInv, RInv, RPlace
  <2> QED BY <2>1
<1>2. PICK j \in 1 .. Len(klist) : klist[j] = key
  BY <1>1 DEF Rng
<1>3. j \in 1 .. ri - 1
  BY <1>1
<1> QED BY <1>2, <1>3 DEF SInv, RInv, RKeys

\* The reader goes on past its keys exactly when it has the key the writer used
\* and the metadata info is whole: no other key of any list ever seems to fit,
\* whatever blocks of the info are damaged (sce_decrypt_header's two zero
\* paddings suffice).
THEOREM OnlyTheWritersKey == Spec => []RightKeyOnly
BY SystemInvariance, SInvKeys, PTL

LEMMA SInvVerdicts == SInv => Verdicts
<1> SUFFICES ASSUME SInv PROVE SignatureVerdict /\ HashVerdict
  BY DEF SInv, RInv, Verdicts
<1> USE SameDamage
<1>0. Num(lay) \in Nat
  BY LayFacts DEF SInv, WInv, WPlace
<1>1. CASE rpc = "hash"
  <2>1. report = Report(lay, hits, ri - 1) /\ ri \in 1 .. Num(lay) + 1
    BY <1>1 DEF SInv, RInv, ROut, RPlace
  <2>2. report.sig = SigVerdict(lay, hits) /\ report.hash = [i \in 1 .. ri - 1 |-> SecVerdict(lay, hits, i)]
    BY <2>1 DEF Report
  <2>3. SignatureVerdict
    BY <2>2 DEF SignatureVerdict, SigVerdict
  <2>4. HashVerdict
    BY <2>2 DEF HashVerdict, SecVerdict, Sec
  <2> QED BY <2>3, <2>4
<1>2. CASE rpc = "done" /\ tool = "verify"
  <2>1. report = Report(lay, hits, Num(lay))
    BY <1>2 DEF SInv, RInv, ROut, RPlace
  <2>2. report.sig = SigVerdict(lay, hits) /\ report.hash = [i \in 1 .. Num(lay) |-> SecVerdict(lay, hits, i)]
    BY <2>1 DEF Report
  <2>3. SignatureVerdict
    BY <2>2 DEF SignatureVerdict, SigVerdict
  <2>4. HashVerdict
    BY <2>2 DEF HashVerdict, SecVerdict, Sec
  <2> QED BY <2>3, <2>4
<1>3. CASE ~(rpc = "hash" \/ (rpc = "done" /\ tool = "verify"))
  <2>1. report = NoReport
    BY <1>3 DEF SInv, RInv, ROut
  <2> QED BY <2>1 DEF NoReport, SignatureVerdict, HashVerdict
<1> QED BY <1>1, <1>2, <1>3

\* sceverify's verdicts are right in both directions, and a reader loses its way
\* only in a torn file or where the signature would tell: for every layout,
\* sections that overlap and digests stored in the slot of a key included.
THEOREM VerdictsAreRight == Spec => []Verdicts
BY SystemInvariance, SInvVerdicts, PTL

\* Every unit is in some piece.
LEMMA PartsCover ==
    ASSUME NEW L, WellFormed(L), NEW u \in 0 .. L.units - 1
    PROVE  \E j \in 1 .. Len(Parts(L)) : u \in Parts(L)[j]
<1>1. CASE L.kind = "pkg"
  <2>1. Len(Parts(L)) = 3 /\ \A i \in 1 .. 3 : Parts(L)[i] = Units(Sec(L, i))
    <3> DEFINE P == [i \in 1 .. 3 |-> Units(Sec(L, i))]
    <3>1. P \in Seq({Units(Sec(L, i)) : i \in 1 .. 3})
      OBVIOUS
    <3>2. Len(P) = 3
      BY <3>1
    <3> QED BY <1>1, <3>2 DEF Parts
  <2>2. PICK i \in 1 .. 3 : u \in Units(Sec(L, i))
    BY <1>1 DEF WellFormed, Sec
  <2> QED BY <2>1, <2>2
<1>2. CASE L.kind # "pkg"
  <2>1. Parts(L) = <<0 .. L.fsize - 1>> /\ L.fsize = L.units
    BY <1>2 DEF Parts, WellFormed
  <2>2. Len(Parts(L)) = 1 /\ Parts(L)[1] = 0 .. L.fsize - 1
    BY <2>1
  <2>3. 1 \in 1 .. Len(Parts(L)) /\ u \in Parts(L)[1]
    BY <2>1, <2>2
  <2> QED BY <2>3
<1> QED BY <1>1, <1>2

LEMMA SInvContents == SInv => ContentsIntact
<1> SUFFICES ASSUME SInv, tool = "unpack", rpc = "done",
                    NEW u \in 0 .. lay.fsize - 1, u < lay.units
             PROVE  /\ \E j \in DOMAIN out : u \in DOMAIN out[j]
                    /\ \A j \in DOMAIN out :
                          u \in DOMAIN out[j] => (out[j][u] = Plain(u) <=> ~Spoilt(u))
  BY DEF ContentsIntact
<1>1. /\ WellFormed(lay) /\ out = Written(lay, key, hits, Len(Parts(lay)))
      /\ lay.units \in Nat /\ lay.fsize \in Nat
  BY LayFacts, SectionFacts DEF SInv, WInv, WPlace, RInv, ROut
<1>2. u \in 0 .. lay.units - 1
  BY <1>1
<1>3. \E j \in 1 .. Len(Parts(lay)) : u \in Parts(lay)[j]
  BY <1>1, <1>2, PartsCover
<1>4. /\ DOMAIN out = 1 .. Len(Parts(lay))
      /\ \A j \in DOMAIN out : out[j] = [v \in Parts(lay)[j] |-> Opened(lay, key, hits)[v]]
  BY <1>1 DEF Written
<1>5. Opened(lay, key, hits)[u] = Plain(u) <=> ~Spoilt(u)
  BY <1>1, <1>2, OpenedUnit, SameDamage
<1> QED BY <1>3, <1>4, <1>5

\* A program that ends well has written every unit of the contents, and a unit
\* is wrong exactly when it was damaged or the key or iv it is under was
\* (unpack_content, write_elf: nothing they do checks it).
THEOREM ContentsComeOut == Spec => []ContentsIntact
BY SystemInvariance, SInvContents, PTL

\* A key that does not fit leaves the mapping as it was, for the next key.
THEOREM TrialsLeaveImage == Spec => TrialLeavesImage
<1>1. SInv /\ [Next]_vars => (rpc = "try" /\ rkey' = rkey => rimg' = rimg)
  <2> SUFFICES ASSUME SInv, [Next]_vars, rpc = "try", rkey' = rkey PROVE rimg' = rimg
    OBVIOUS
  <2>1. rkey = 0
    BY DEF SInv, RInv, RKeys, Before
  <2>2. CASE WriterNext /\ UNCHANGED <<rvars, hits>>
    BY <2>2 DEF rvars
  <2>3. CASE Damage
    BY <2>3 DEF Damage
  <2>4. CASE Read
    <3>1. TryKey \/ NoKeyFits
      BY <2>4 DEF Read, ReaderNext, MapFile, ReadHeader, DecryptMeta, DecryptBody, DecryptSection,
                  Garbled, Decrypted, Extract, Extracted, NeedPublicKey, VerifySignature,
                  VerifyHash, Verified
    <3>2. CASE NoKeyFits
      BY <3>2 DEF NoKeyFits, Fail
    <3>3. CASE TryKey
      <4>1. ri # 0
        BY <3>3 DEF SInv, RInv, RPlace
      <4> QED BY <2>1, <3>3, <4>1 DEF TryKey
    <3> QED BY <3>1, <3>2, <3>3
  <2>5. CASE UNCHANGED vars
    BY <2>5 DEF vars, rvars
  <2> QED BY <2>2, <2>3, <2>4, <2>5 DEF Next
<1>2. SInv /\ [Next]_vars => [rpc = "try" /\ rkey' = rkey => rimg' = rimg]_vars
  BY <1>1
<1> QED BY <1>2, SystemInvariance, PTL DEF Spec, TrialLeavesImage

LEMMA KeyedImage ==
    ASSUME NEW H, NEW B, NEW D,
           B = [x \in 1 .. lay.blocks |-> B[x]], D = [u \in 0 .. lay.units - 1 |-> D[u]]
    PROVE  Image(Keyed(lay, H, B, D))
<1> DEFINE h == DamHeader(lay, H)
           a == {<<"key">>}
           c == {<<"iv">>}
           e == {}
<1>1. Keyed(lay, H, B, D) = [hdr |-> h, info |-> <<a, e, c, e>>, body |-> B, data |-> D]
  BY DEF Keyed, PlainInfo
<1> HIDE DEF h, a, c, e
<1> QED BY <1>1, ImageOf

LEMMA SInvTypes == SInv => TypeOK
<1> SUFFICES ASSUME SInv PROVE TypeOK
  OBVIOUS
<1>1. rpc \notin {"map", "failed", "derailed"} => Image(rimg)
  <2>1. ASSUME NEW m PROVE Image(Revealed(lay, key, hits, m))
    <3> DEFINE B == DamBody(lay, key, hits)
               D == Stage(lay, DamBody(lay, key, hits), DamData(lay, key, hits), m)
    <3>1. B = [x \in 1 .. lay.blocks |-> B[x]] /\ D = [u \in 0 .. lay.units - 1 |-> D[u]]
      BY DEF DamBody, Stage
    <3>2. Revealed(lay, key, hits, m) = Keyed(lay, hits, B, D)
      BY DEF Revealed
    <3> HIDE DEF B, D
    <3> QED BY <3>1, <3>2, KeyedImage
  <2>2. Image(Keyed(lay, hits, RawBody(lay, key, hits), DamData(lay, key, hits)))
    <3> DEFINE B == RawBody(lay, key, hits)
               D == DamData(lay, key, hits)
    <3>1. B = [x \in 1 .. lay.blocks |-> B[x]] /\ D = [u \in 0 .. lay.units - 1 |-> D[u]]
      BY DEF RawBody, DamData
    <3> HIDE DEF B, D
    <3>2. Image(Keyed(lay, hits, B, D))
      BY <3>1, KeyedImage
    <3> QED BY <3>2 DEF B, D
  <2>3. Image(Keyed(lay, hits, HalfBody(lay, key, hits), DamData(lay, key, hits)))
    <3> DEFINE B == HalfBody(lay, key, hits)
               D == DamData(lay, key, hits)
    <3>1. B = [x \in 1 .. lay.blocks |-> B[x]] /\ D = [u \in 0 .. lay.units - 1 |-> D[u]]
      BY DEF HalfBody, DamData
    <3> HIDE DEF B, D
    <3>2. Image(Keyed(lay, hits, B, D))
      BY <3>1, KeyedImage
    <3> QED BY <3>2 DEF B, D
  <2>4. /\ rpc \in {"header", "try"} => rimg = Damaged(lay, key, hits)
        /\ rpc = "meta" => rimg = Keyed(lay, hits, RawBody(lay, key, hits), DamData(lay, key, hits))
        /\ rpc = "body" => rimg = Keyed(lay, hits, HalfBody(lay, key, hits), DamData(lay, key, hits))
        /\ rpc = "data" => rimg = Revealed(lay, key, hits, ri - 1)
        /\ Decoded => rimg = Revealed(lay, key, hits, Num(lay))
    BY DEF SInv, RInv, RImage
  <2> SUFFICES ASSUME rpc \notin {"map", "failed", "derailed"} PROVE Image(rimg)
    OBVIOUS
  <2>5. rpc \in {"header", "try"} \/ rpc = "meta" \/ rpc = "body" \/ rpc = "data" \/ Decoded
    BY DEF SInv, RInv, RPlace, Before, Decoded, Gone
  <2>6. CASE rpc \in {"header", "try"}
    BY <2>4, <2>6, DamagedImage
  <2>7. CASE rpc = "meta" \/ rpc = "body"
    BY <2>2, <2>3, <2>4, <2>7
  <2>8. CASE rpc = "data" \/ Decoded
    BY <2>1, <2>4, <2>8
  <2> QED BY <2>5, <2>6, <2>7, <2>8
<1>2. report.sig \in {"none", "OK", "FAIL"}
  BY DEF SInv, RInv, RPlace, ROut, NoReport, Report, SigVerdict
<1>3. nsec = Num(lay)
  BY DEF nsec, Num
<1>4. rpc \in {"map", "header", "try", "meta", "body", "data", "extract", "pub",
               "sig", "hash", "done", "failed", "derailed"}
  BY DEF SInv, RInv, RPlace, Before, Decoded, Gone
<1>5. hits \subseteq Places /\ Cardinality(hits) <= MaxHits
  BY DEF SInv, HInv
<1> QED BY <1>1, <1>2, <1>3, <1>4, <1>5 DEF SInv, RInv, RPlace, RKeys, TypeOK

\* Types: the reader's counters stay within the lists they index, and the
\* counter of sce_decrypt_header never goes past the header.
THEOREM SystemTypes == Spec => []TypeOK
BY SystemInvariance, SInvTypes, PTL

\* Damage leaves what is masked masked.
LEMMA DamMasked ==
    ASSUME NEW c, NEW t \in c, t[1] \in {"aes", "ctr"}, NEW h
    PROVE  Masked(Dam(c, h))
<1>1. t # <<"flip">>
  <2> SUFFICES ASSUME t = <<"flip">> PROVE FALSE
    OBVIOUS
  <2>1. t[1] = "flip"
    OBVIOUS
  <2> QED BY <2>1
<1>2. t \in Dam(c, h)
  BY <1>1 DEF Dam, Flip, Xor
<1> QED BY <1>2 DEF Masked

LEMMA CbcCells ==
    ASSUME NEW k, NEW iv, NEW in, NEW b \in 1 .. 4
    PROVE  \E x : aes256cbc_enc(k, iv, in)[b] = AES_encrypt(k, x)
<1> DEFINE c1 == AES_encrypt(k, Xor(in[1], iv))
           c2 == AES_encrypt(k, Xor(in[2], c1))
           c3 == AES_encrypt(k, Xor(in[3], c2))
           c4 == AES_encrypt(k, Xor(in[4], c3))
           R  == <<c1, c2, c3, c4>>
<1>1. aes256cbc_enc(k, iv, in) = R
  BY DEF aes256cbc_enc
<1>2. R[1] = c1 /\ R[2] = c2 /\ R[3] = c3 /\ R[4] = c4
  <2> HIDE DEF c1, c2, c3, c4
  <2> QED OBVIOUS
<1>3. /\ \E x : c1 = AES_encrypt(k, x)
      /\ \E x : c2 = AES_encrypt(k, x)
      /\ \E x : c3 = AES_encrypt(k, x)
      /\ \E x : c4 = AES_encrypt(k, x)
  OBVIOUS
<1> HIDE DEF c1, c2, c3, c4, R
<1>4. b = 1 \/ b = 2 \/ b = 3 \/ b = 4
  OBVIOUS
<1> QED BY <1>1, <1>2, <1>3, <1>4

LEMMA SInvMasked == SInv => NothingInClear
<1> SUFFICES ASSUME SInv, disk.state \in {"short", "full"}
             PROVE  /\ \A b \in 1 .. 4 : Masked(disk.img.info[b])
                    /\ \A b \in 1 .. lay.blocks : Masked(disk.img.body[b])
                    /\ \A i \in 1 .. nsec : Encrypted(lay.sections[i]) =>
                          \A u \in Units(lay.sections[i]) : Masked(disk.img.data[u])
  BY DEF NothingInClear
<1> DEFINE im == Damaged(lay, key, hits)
<1>1. disk.img = im /\ WellFormed(lay) /\ nsec = Num(lay)
  BY LayFacts DEF SInv, HInv, WInv, WPlace
<1>2. ASSUME NEW b \in 1 .. 4 PROVE Masked(im.info[b])
  <2> DEFINE c == SealedInfo(key)[b]
  <2>1. im.info[b] = Dam(c, <<"info", b>> \in hits)
    <3> DEFINE x(q) == Dam(SealedInfo(key)[q], <<"info", q>> \in hits)
    <3>1. im.info = <<x(1), x(2), x(3), x(4)>>
      BY DEF Damaged
    <3>2. b = 1 \/ b = 2 \/ b = 3 \/ b = 4
      OBVIOUS
    <3> HIDE DEF x, im
    <3>3. im.info[b] = x(b)
      BY <3>1, <3>2
    <3> QED BY <3>3 DEF x
  <2>2. \E t \in c : t[1] = "aes"
    <3>1. PICK x : c = AES_encrypt(RootKey(key), x)
      BY CbcCells DEF SealedInfo
    <3>2. <<"aes", RootKey(key), x>>[1] = "aes" /\ c = {<<"aes", RootKey(key), x>>}
      BY <3>1 DEF AES_encrypt
    <3> QED BY <3>2
  <2> HIDE DEF c, im
  <2> QED BY <2>1, <2>2, DamMasked
<1>3. ASSUME NEW b \in 1 .. lay.blocks PROVE Masked(im.body[b])
  <2> DEFINE c == SealedBody(lay, key)[b]
             t == <<"ctr", {<<"key">>}, {<<"iv">>}, b - 1>>
  <2>1. im.body[b] = Dam(c, BadBody(hits, b))
    BY DEF Damaged
  <2>2. c = Xor(Body(lay, key)[b], {t})
    BY DEF SealedBody, Stream, Keystream
  <2>3. t \notin Body(lay, key)[b]
    <3>1. Clean(Body(lay, key)[b])
      BY <1>1, BodyClean
    <3>2. t[1] = "ctr"
      OBVIOUS
    <3> HIDE DEF t
    <3> QED BY <3>1, <3>2 DEF Clean
  <2>4. t[1] = "ctr"
    OBVIOUS
  <2> HIDE DEF c, t, im
  <2>5. t \in c
    BY <2>2, <2>3 DEF Xor
  <2> QED BY <2>1, <2>4, <2>5, DamMasked
<1>4. ASSUME NEW i \in 1 .. nsec, Encrypted(lay.sections[i]), NEW u \in Units(lay.sections[i])
      PROVE  Masked(im.data[u])
  <2> DEFINE P == Pads(lay, Body(lay, key), Num(lay), u)
             c == Crypted(lay, key, Num(lay))[u]
             t == Pad(lay, Body(lay, key), i, u)
  <2>1. i \in Over(lay, Num(lay), u)
    BY <1>1, <1>4 DEF Over, Sec
  <2>2. u \in 0 .. lay.units - 1
    <3>1. /\ Sec(lay, i).off \in Nat /\ Sec(lay, i).len \in Nat /\ lay.units \in Nat
          /\ Sec(lay, i).off + Sec(lay, i).len <= lay.units /\ u \in Units(Sec(lay, i))
      BY <1>1, SectionFacts DEF Sec
    <3> QED BY <3>1 DEF Units
  <2>3. t \in P /\ t[1] = "ctr" /\ t # <<"data", u>>
    <3>1. t \in P
      BY <2>1 DEF Pads
    <3> HIDE DEF t
    <3>2. t[1] = "ctr" /\ t # <<"data", u>>
      BY <3>1, PadTerms
    <3> QED BY <3>1, <3>2
  <2>4. c = Xor(Plain(u), P)
    BY <2>2 DEF Crypted, Stage, PlainData
  <2>5. im.data[u] = Dam(c, <<"data", u>> \in hits)
    BY <2>2 DEF Damaged, DamData
  <2> HIDE DEF c, t, P, im
  <2>6. t \in c
    BY <2>3, <2>4 DEF Xor, Plain
  <2> QED BY <2>3, <2>5, <2>6, DamMasked
<1> HIDE DEF im
<1> QED BY <1>1, <1>2, <1>3, <1>4

\* Whatever a writer leaves on disk, torn or whole, damaged or not, shows no
\* metadata key, no block behind it and no unit of an encrypted section.
THEOREM SecretsStayMasked == Spec => []NothingInClear
BY SystemInvariance, SInvMasked, PTL

-----------------------------------------------------------------------------
(* The system implements SealedBox: the safety part. *)

\* A damaged slot that a section uses is one the signature tells.
LEMMA SlotsAreSigned ==
    ASSUME NEW L, WellFormed(L), NEW H, NEW i \in 1 .. Num(L), NEW j \in Used(L, i),
           BadSlot(L, H, j)
    PROVE  BadSignature(L, H)
<1> DEFINE b == SlotBlock(Num(L), j)
<1>1. b \in 1 .. L.blocks /\ b <= L.sig /\ L.sig \in Nat
  BY SlotFacts, SectionFacts
<1>2. BadBody(H, b)
  BY DEF BadSlot, BadBody
<1> HIDE DEF b
<1> QED BY <1>1, <1>2 DEF BadSignature

\* A unit that comes out wrong was hit itself, or the signature tells.
LEMMA BadUnits ==
    ASSUME NEW L, WellFormed(L), NEW H, NEW u, Bad(L, H, u)
    PROVE  <<"data", u>> \in H \/ BadSignature(L, H)
<1> SUFFICES ASSUME NEW i \in Over(L, Num(L), u),
                    BadSlot(L, H, Sec(L, i).key) \/ BadSlot(L, H, Sec(L, i).iv)
             PROVE  BadSignature(L, H)
  BY DEF Bad
<1>1. i \in 1 .. Num(L) /\ Sec(L, i).key \in Used(L, i) /\ Sec(L, i).iv \in Used(L, i)
  BY DEF Over, Used
<1> QED BY <1>1, SlotsAreSigned

LEMMA BadHashes ==
    ASSUME NEW L, WellFormed(L), NEW H, NEW i \in 1 .. Num(L), BadHash(L, H, Sec(L, i))
    PROVE  (\E u \in Units(Sec(L, i)) : <<"data", u>> \in H) \/ BadSignature(L, H)
<1>1. CASE \E u \in Units(Sec(L, i)) : Bad(L, H, u)
  BY <1>1, BadUnits
<1>2. CASE \E j \in Sec(L, i).sha .. Sec(L, i).sha + 5 : BadSlot(L, H, j)
  <2>1. PICK j \in Sec(L, i).sha .. Sec(L, i).sha + 5 : BadSlot(L, H, j)
    BY <1>2
  <2>2. j \in Used(L, i)
    BY DEF Used, HashSlots
  <2> QED BY <2>1, <2>2, SlotsAreSigned
<1> QED BY <1>1, <1>2 DEF BadHash

\* The marks, in terms of the damage.
InSection == \E i \in 1 .. Num(lay) : \E u \in Units(Sec(lay, i)) : <<"data", u>> \in hits
InData    == \E u \in 0 .. lay.units - 1 : <<"data", u>> \in hits

LEMMA MarkFacts ==
    ASSUME SInv
    PROVE  /\ Marked \subseteq {"header", "contents", "gap", "slack"}
           /\ "header" \in Marked <=> BadSignature(lay, hits)
           /\ "contents" \in Marked <=> InSection
           /\ "contents" \in Marked \/ "gap" \in Marked <=> InData
<1>1. WellFormed(lay) /\ lay.sig \in Nat /\ nsec = Num(lay)
      /\ lay.blocks \in Nat /\ lay.sig + 3 <= lay.blocks
  BY LayFacts, SectionFacts DEF SInv, WInv, WPlace
<1>2. ASSUME NEW p \in hits
      PROVE  \/ p[1] = "hdr" /\ p[2] = 0 /\ p = <<p[1], p[2]>>
             \/ p[1] = "info" /\ p[2] \in 1 .. 4 /\ p = <<p[1], p[2]>>
             \/ p[1] = "body" /\ p[2] \in 1 .. lay.blocks /\ p = <<p[1], p[2]>>
             \/ p[1] = "data" /\ p[2] \in 0 .. lay.units - 1 /\ p = <<p[1], p[2]>>
  BY DEF SInv, HInv, Places
<1>3. ASSUME NEW p \in hits
      PROVE  /\ MarkOf(p) \in {"header", "contents", "gap", "slack"}
             /\ MarkOf(p) = "header" => BadSignature(lay, hits)
             /\ MarkOf(p) = "contents" => InSection
             /\ MarkOf(p) \in {"contents", "gap"} => InData
  <2>1. CASE p[1] = "data"
    BY <1>1, <1>2, <2>1 DEF MarkOf, InSection, InData, Sec
  <2>2. CASE p[1] = "body"
    BY <1>1, <1>2, <2>2 DEF MarkOf, BadSignature, BadBody
  <2>3. CASE p[1] \in {"hdr", "info"}
    BY <1>2, <2>3 DEF MarkOf, BadSignature
  <2> QED BY <1>2, <2>1, <2>2, <2>3
<1>4. ASSUME BadSignature(lay, hits) PROVE "header" \in Marked
  <2>1. PICK p \in hits : p = <<"hdr", 0>> \/ (\E b \in 1 .. 4 : p = <<"info", b>>)
                          \/ (\E b \in 1 .. lay.sig + 3 : p = <<"body", b>>)
    BY <1>4 DEF BadSignature, BadBody
  <2>2. MarkOf(p) = "header"
    BY <1>1, <2>1 DEF MarkOf
  <2> QED BY <2>2 DEF Marked
<1>5. ASSUME InSection PROVE "contents" \in Marked
  <2>0. PICK i \in 1 .. Num(lay) : \E u \in Units(Sec(lay, i)) : <<"data", u>> \in hits
    BY <1>5 DEF InSection
  <2>1. PICK u \in Units(Sec(lay, i)) : <<"data", u>> \in hits
    BY <2>0
  <2>2. MarkOf(<<"data", u>>) = "contents"
    BY <1>1, <2>1 DEF MarkOf, Sec
  <2> QED BY <2>1, <2>2 DEF Marked
<1>6. ASSUME InData PROVE "contents" \in Marked \/ "gap" \in Marked
  <2>1. PICK u \in 0 .. lay.units - 1 : <<"data", u>> \in hits
    BY <1>6 DEF InData
  <2>2. MarkOf(<<"data", u>>) \in {"contents", "gap"}
    BY DEF MarkOf
  <2> QED BY <2>1, <2>2 DEF Marked
<1> QED BY <1>3, <1>4, <1>5, <1>6 DEF Marked

LEMMA SectionInData == ASSUME SInv, InSection PROVE InData
<1>1. WellFormed(lay)
  BY LayFacts DEF SInv, WInv, WPlace
<1>0. PICK i \in 1 .. Num(lay) : \E u \in Units(Sec(lay, i)) : <<"data", u>> \in hits
  BY DEF InSection
<1>2. PICK u \in Units(Sec(lay, i)) : <<"data", u>> \in hits
  BY <1>0
<1>3. /\ Sec(lay, i).off \in Nat /\ Sec(lay, i).len \in Nat /\ lay.units \in Nat
      /\ Sec(lay, i).off + Sec(lay, i).len <= lay.units
  BY <1>1, SectionFacts
<1>4. u \in 0 .. lay.units - 1
  BY <1>3 DEF Units
<1> QED BY <1>2, <1>4 DEF InData

\* A reader that has got past its keys has what it needs.
LEMMA HasKeyFacts ==
    ASSUME SInv
    PROVE  /\ rkey # 0 => key \in Rng(klist)
           /\ rpc = "done" => HasKey
           /\ rpc = "try" /\ ri > Len(klist) /\ ~HitInfo => ~HasKey
           /\ rpc = "pub" /\ klist[rkey] \notin PublicKeys => ~HasKey
<1>1. klist \in Seq(Keys) /\ Len(klist) \in Nat
  <2>1. klist \in Seq(Keys)
    BY KeyListsAssumption DEF SInv, RInv, RPlace
  <2> QED BY <2>1
<1>2. rkey # 0 => key \in Rng(klist)
  <2> SUFFICES ASSUME rkey # 0 PROVE key \in Rng(klist)
    OBVIOUS
  <2>1. rkey \in 1 .. Len(klist) /\ klist[rkey] = key
    BY <1>1 DEF SInv, RInv, RKeys
  <2> QED BY <1>1, <2>1 DEF Rng
<1>3. rpc = "done" => HasKey
  BY <1>2 DEF SInv, RInv, RKeys, RPlace, Before, Gone, HasKey
<1>4. rpc = "try" /\ ri > Len(klist) /\ ~HitInfo => ~HasKey
  BY SInvKeys DEF RightKeyOnly, HasKey
<1>5. rpc = "pub" /\ klist[rkey] \notin PublicKeys => ~HasKey
  <2> SUFFICES ASSUME rpc = "pub" PROVE klist[rkey] = key /\ tool = "verify"
    BY DEF HasKey
  <2> QED BY DEF SInv, RInv, RKeys, RPlace, Before, Gone
<1> QED BY <1>2, <1>3, <1>4, <1>5

\* What a program that has unpacked the file wrote is exact when no unit of it
\* is bad.
LEMMA ExactFacts ==
    ASSUME SInv, rpc = "done", tool = "unpack"
    PROVE  Exact <=> \A u \in 0 .. lay.units - 1 : ~Bad(lay, hits, u)
<1>1. WellFormed(lay) /\ out = Written(lay, key, hits, Len(Parts(lay)))
  BY LayFacts DEF SInv, WInv, WPlace, RInv, ROut
<1>2. /\ DOMAIN out = 1 .. Len(Parts(lay))
      /\ \A j \in DOMAIN out : out[j] = [v \in Parts(lay)[j] |-> Opened(lay, key, hits)[v]]
  BY <1>1 DEF Written
<1>3. ASSUME NEW u \in 0 .. lay.units - 1
      PROVE  (\E j \in DOMAIN out : u \in DOMAIN out[j] /\ out[j][u] = Plain(u))
               <=> ~Bad(lay, hits, u)
  <2>1. PICK j \in DOMAIN out : u \in Parts(lay)[j]
    BY <1>1, <1>2, PartsCover
  <2>2. Opened(lay, key, hits)[u] = Plain(u) <=> ~Bad(lay, hits, u)
    BY <1>1, OpenedUnit
  <2> QED BY <1>2, <2>1, <2>2
<1> QED BY <1>3 DEF Exact

LEMMA VerdictFacts ==
    ASSUME SInv, rpc = "done", tool = "verify"
    PROVE  /\ Verdict = "forged" <=>
                 \/ BadSignature(lay, hits)
                 \/ \E i \in 1 .. Num(lay) : SecVerdict(lay, hits, i) = "FAIL*"
           /\ Verdict = "genuine" => \A i \in 1 .. Num(lay) : SecVerdict(lay, hits, i) = "OK"
           /\ Verdict \in {"forged", "unsure", "genuine"}
<1>1. report = Report(lay, hits, Num(lay))
  BY DEF SInv, RInv, ROut
<1>2. /\ report.sig = SigVerdict(lay, hits)
      /\ report.hash = [i \in 1 .. Num(lay) |-> SecVerdict(lay, hits, i)]
  BY <1>1 DEF Report
<1>3. Rng(report.hash) = {SecVerdict(lay, hits, i) : i \in 1 .. Num(lay)}
  BY <1>2 DEF Rng
<1>4. report.sig = "FAIL" <=> BadSignature(lay, hits)
  BY <1>2 DEF SigVerdict
<1>5. \A i : SecVerdict(lay, hits, i) \in {"???", "FAIL*", "OK"}
  BY DEF SecVerdict
<1> QED BY <1>3, <1>4, <1>5 DEF Verdict

\* What a program that has come to its end says is permitted.
LEMMA DonePermitted ==
    ASSUME SInv, rpc = "done"
    PROVE  Reply \in Box!Replies /\ Box!Permitted(Reply)
<1>1. WellFormed(lay) /\ disk.state = "full" /\ tool \in {"unpack", "verify"}
  BY LayFacts DEF SInv, WInv, WPlace, RInv, RPlace, Gone
<1>2. Box!Opened
  BY <1>1, HasKeyFacts DEF Box!Opened, BoxState
<1>3. CASE tool = "unpack"
  <2>1. Reply = IF Exact THEN "exact" ELSE "altered"
    BY <1>3 DEF Reply, Stopped
  <2>2. CASE Exact
    <3>1. ~InData
      BY <1>3, <2>2, ExactFacts DEF InData, Bad
    <3>2. Marked \cap {"contents", "gap"} = {}
      BY <3>1, MarkFacts
    <3> QED BY <1>2, <2>1, <2>2, <3>2 DEF Box!Replies, Box!Permitted
  <2>3. CASE ~Exact
    <3>1. PICK u \in 0 .. lay.units - 1 : Bad(lay, hits, u)
      BY <1>3, <2>3, ExactFacts
    <3>2. InData \/ BadSignature(lay, hits)
      BY <1>1, <3>1, BadUnits DEF InData
    <3>3. Marked \cap {"header", "contents", "gap"} # {}
      BY <3>2, MarkFacts
    <3> QED BY <1>2, <2>1, <2>3, <3>3 DEF Box!Replies, Box!Permitted
  <2> QED BY <2>2, <2>3
<1>4. CASE tool = "verify"
  <2>1. Reply = Verdict
    BY <1>4 DEF Reply, Stopped
  <2>2. CASE Verdict = "forged"
    <3>1. BadSignature(lay, hits) \/ InSection
      <4>1. CASE BadSignature(lay, hits)
        BY <4>1
      <4>2. CASE \E i \in 1 .. Num(lay) : SecVerdict(lay, hits, i) = "FAIL*"
        <5>1. PICK i \in 1 .. Num(lay) : SecVerdict(lay, hits, i) = "FAIL*"
          BY <4>2
        <5>2. BadHash(lay, hits, Sec(lay, i))
          BY <5>1 DEF SecVerdict
        <5> QED BY <1>1, <5>2, BadHashes DEF InSection
      <4> QED BY <1>4, <2>2, <4>1, <4>2, VerdictFacts
    <3>2. Marked \cap {"header", "contents"} # {}
      BY <3>1, MarkFacts
    <3> QED BY <1>2, <2>1, <2>2, <3>2 DEF Box!Replies, Box!Permitted
  <2>3. CASE Verdict = "unsure"
    <3>1. ~BadSignature(lay, hits)
      BY <1>4, <2>3, VerdictFacts
    <3>2. "header" \notin Marked
      BY <3>1, MarkFacts
    <3> QED BY <1>2, <2>1, <2>3, <3>2 DEF Box!Replies, Box!Permitted
  <2>4. CASE Verdict = "genuine"
    <3>1. /\ ~BadSignature(lay, hits)
          /\ \A i \in 1 .. Num(lay) : SecVerdict(lay, hits, i) = "OK"
      BY <1>4, <2>4, VerdictFacts
    <3>2. ~InSection
      BY <3>1 DEF InSection, SecVerdict, BadHash, Bad
    <3>3. Marked \cap {"header", "contents"} = {}
      BY <3>1, <3>2, MarkFacts
    <3> QED BY <1>2, <2>1, <2>4, <3>3 DEF Box!Replies, Box!Permitted
  <2> QED BY <1>4, <2>2, <2>3, <2>4, VerdictFacts
<1> QED BY <1>1, <1>3, <1>4

LEMMA DerailPermitted ==
    ASSUME SInv, rpc = "derailed"
    PROVE  Reply \in Box!Replies /\ Box!Permitted(Reply)
<1>1. Reply = "undefined"
  BY DEF Reply, Stopped
<1>2. BoxState = "torn" \/ "header" \in Marked
  <2>1. disk.state \in {"empty", "short"} \/ SpoiltSignature
    BY DEF SInv, RInv, NeverAstray
  <2>2. disk.state \in {"empty", "short"} => BoxState = "torn"
    BY DEF BoxState
  <2> QED BY <2>1, <2>2, SameDamage, MarkFacts
<1> QED BY <1>1, <1>2 DEF Box!Replies, Box!Permitted

LEMMA StoppedPermitted ==
    SInv /\ rpc \in {"done", "derailed"} => Reply \in Box!Replies /\ Box!Permitted(Reply)
BY DonePermitted, DerailPermitted

\* A program gives up for want of a file or a key, or because of damage.
LEMMA FailPermitted ==
    ASSUME SInv, Read, rpc' = "failed"
    PROVE  Box!Permitted("refused")
<1> DEFINE Excused == \/ BoxState = "none"
                      \/ BoxState = "sealed" /\ ~HasKey
                      \/ BoxState = "sealed" /\ Marked \cap {"header", "contents"} # {}
<1> SUFFICES Excused
  BY DEF Box!Permitted
<1>1. rpc # "map" /\ ~Gone => BoxState = "sealed"
  BY DEF SInv, RInv, RPlace, BoxState
<1>2. WellFormed(lay)
  BY LayFacts DEF SInv, WInv, WPlace
<1>3. CASE MapFile
  <2>1. disk.state = "absent"
    BY <1>3 DEF MapFile, Derail, To
  <2> QED BY <2>1 DEF BoxState
<1>4. CASE ReadHeader
  <2>1. rpc = "header" /\ rimg.hdr # {<<"hdr", lay.kind>>} /\ rimg = Damaged(lay, key, hits)
    BY <1>4 DEF ReadHeader, To, SInv, RInv, RImage
  <2>2. BadSignature(lay, hits)
    BY <2>1 DEF Damaged, Dam, BadSignature
  <2> QED BY <1>1, <2>1, <2>2, MarkFacts DEF Gone
<1>5. CASE NoKeyFits
  <2>1. rpc = "try" /\ ri > Len(klist)
    BY <1>5 DEF NoKeyFits
  <2>2. CASE HitInfo
    <3>1. BadSignature(lay, hits)
      BY <2>2 DEF HitInfo, BadSignature
    <3> QED BY <1>1, <2>1, <3>1, MarkFacts DEF Gone
  <2>3. CASE ~HitInfo
    BY <1>1, <2>1, <2>3, HasKeyFacts DEF Gone
  <2> QED BY <2>2, <2>3
<1>6. CASE Extract
  <2>1. /\ rpc = "extract" /\ lay.kind = "pkg" /\ ri = 3
        /\ \E u \in Pieces[ri] : [v \in Pieces[ri] |-> rimg.data[v]][u] # Plain(u)
    BY <1>6 DEF Extract
  <2>2. rimg.data = Opened(lay, key, hits) /\ Pieces = Parts(lay)
    BY <1>2, <2>1, RevealedHeader, PiecesAreParts DEF SInv, RInv, RImage, Decoded, Opened
  <2>3. Parts(lay)[3] = Units(Sec(lay, 3)) /\ 3 \in 1 .. Num(lay)
    <3>1. Num(lay) = 3
      BY <1>2, <2>1 DEF WellFormed, Num
    <3>2. Parts(lay) = [i \in 1 .. 3 |-> Units(Sec(lay, i))]
      BY <2>1 DEF Parts
    <3> QED BY <3>1, <3>2
  <2>4. PICK u \in Units(Sec(lay, 3)) : Opened(lay, key, hits)[u] # Plain(u)
    BY <2>1, <2>2, <2>3
  <2>5. u \in 0 .. lay.units - 1
    <3>1. /\ Sec(lay, 3).off \in Nat /\ Sec(lay, 3).len \in Nat /\ lay.units \in Nat
          /\ Sec(lay, 3).off + Sec(lay, 3).len <= lay.units
      BY <1>2, <2>3, SectionFacts
    <3> QED BY <3>1 DEF Units
  <2>6. Bad(lay, hits, u)
    BY <1>2, <2>4, <2>5, OpenedUnit
  <2>7. InSection \/ BadSignature(lay, hits)
    BY <1>2, <2>3, <2>6, BadUnits DEF InSection
  <2> QED BY <1>1, <2>1, <2>7, MarkFacts DEF Gone
<1>7. CASE NeedPublicKey
  <2>1. rpc = "pub" /\ klist[rkey] \notin PublicKeys
    BY <1>7 DEF NeedPublicKey, To
  <2> QED BY <1>1, <2>1, HasKeyFacts DEF Gone
<1>8. MapFile \/ ReadHeader \/ NoKeyFits \/ Extract \/ NeedPublicKey
  BY DEF Read, ReaderNext, TryKey, DecryptMeta, DecryptBody, DecryptSection, Garbled, Derail,
         Decrypted, Extracted, VerifySignature, VerifyHash, Verified, To
<1> QED BY <1>3, <1>4, <1>5, <1>6, <1>7, <1>8

\* One step of the system is a step of the box, or none.
LEMMA BoxStep ==
    SInv /\ SInv' /\ (SInv /\ rpc \in {"done", "derailed"} => Reply \in Box!Replies /\ Box!Permitted(Reply))'
         /\ [Next]_vars => [Box!Next]_(Box!vars)
<1> SUFFICES ASSUME SInv, SInv', [Next]_vars,
                    (SInv /\ rpc \in {"done", "derailed"} =>
                        Reply \in Box!Replies /\ Box!Permitted(Reply))'
             PROVE  [Box!Next]_(Box!vars)
  OBVIOUS
<1>1. CASE WriterNext /\ UNCHANGED <<rvars, hits>>
  <2>1. WStored /\ Running /\ UNCHANGED <<lay, key>> /\ rpc = "map" /\ hits = {}
    BY <1>1, WriterStep, SystemWriterStep DEF SInv
  <2>2. Marked' = Marked /\ Marked = {}
    BY <1>1, <2>1 DEF Marked
  <2>3. HasKey' = HasKey /\ Reply = "none" /\ Reply' = "none"
    BY <1>1, <2>1 DEF HasKey, Rng, rvars, Reply, Stopped
  <2>4. BoxState' = BoxState \/ (BoxState # "sealed" /\ BoxState' \in {"torn", "sealed"})
    BY <2>1 DEF SInv, WInv, WDisk, WStored, BoxState, Empty, Short, Full
  <2> QED BY <2>2, <2>3, <2>4 DEF Box!Next, Box!Fill, Box!vars
<1>2. CASE Damage
  <2>1. /\ rpc = "map" /\ disk.state = "full" /\ disk'.state = "full"
        /\ UNCHANGED <<lay, key, rvars>>
    BY <1>2 DEF Damage, SInv, WInv, WDisk
  <2>2. PICK p \in Places : hits' = hits \cup {p}
    BY <1>2 DEF Damage
  <2>3. \A q : MarkOf(q)' = MarkOf(q)
    BY <2>1 DEF MarkOf, nsec
  <2>4. Marked' = Marked \cup {MarkOf(p)}
    BY <2>2, <2>3 DEF Marked
  <2>5. MarkOf(p) \in Box!Marks
    BY DEF MarkOf, Box!Marks
  <2>6. HasKey' = HasKey /\ Reply = "none" /\ Reply' = "none"
    BY <2>1 DEF HasKey, Rng, rvars, Reply, Stopped
  <2>7. BoxState = "sealed" /\ BoxState' = "sealed"
    BY <2>1 DEF BoxState
  <2> QED BY <2>4, <2>5, <2>6, <2>7 DEF Box!Next, Box!Mark
<1>3. CASE Read
  <2>1. ReaderFrame
    BY <1>3, ReadFrame
  <2>2. BoxState' = BoxState /\ BoxState # "old"
    BY <2>1 DEF ReaderFrame, BoxState
  <2>3. Marked' = Marked
    BY <2>1 DEF ReaderFrame, Marked, MarkOf, nsec
  <2>4. HasKey' = HasKey
    BY <2>1 DEF ReaderFrame, HasKey, Rng
  <2>5. Reply = "none"
    BY <1>3 DEF Read, ReaderNext, MapFile, ReadHeader, TryKey, NoKeyFits, DecryptMeta, DecryptBody,
                DecryptSection, Garbled, Decrypted, Extract, Extracted, NeedPublicKey,
                VerifySignature, VerifyHash, Verified, Reply, Stopped
  <2>6. CASE ~Stopped'
    <3>1. Reply' = "none"
      BY <2>6 DEF Reply, Stopped
    <3> QED BY <2>2, <2>3, <2>4, <2>5, <3>1 DEF Box!vars
  <2>7. CASE rpc' = "failed"
    <3>1. Reply' = "refused"
      BY <2>7 DEF Reply, Stopped
    <3>2. Box!Permitted("refused")
      BY <1>3, <2>7, FailPermitted
    <3> QED BY <2>2, <2>3, <2>4, <2>5, <3>1, <3>2 DEF Box!Next, Box!Answer, Box!Replies
  <2>8. CASE rpc' \in {"done", "derailed"}
    <3>1. Reply' \in Box!Replies /\ Box!Permitted(Reply)'
      BY <2>8 DEF Box!Replies
    <3>2. Box!Permitted(Reply')
      BY <2>2, <2>3, <2>4, <3>1 DEF Box!Permitted, Box!Opened
    <3> QED BY <2>2, <2>3, <2>4, <2>5, <3>1, <3>2 DEF Box!Next, Box!Answer
  <2> QED BY <2>6, <2>7, <2>8 DEF Stopped
<1>4. CASE UNCHANGED vars
  BY <1>4 DEF vars, wvars, rvars, BoxState, Marked, MarkOf, nsec, HasKey, Rng, Reply, Stopped,
              Verdict, Exact, Box!vars
<1> QED BY <1>1, <1>2, <1>3, <1>4 DEF Next

LEMMA BoxStart == Init => Box!Init
<1> SUFFICES ASSUME Init PROVE Box!Init
  OBVIOUS
<1>1. disk.state \in {"absent", "old"} /\ hits = {} /\ rpc = "map"
  BY DEF Init, WriterInit, ReaderInit, NoFile, OldFile
<1>2. BoxState \in {"none", "old"} /\ Marked = {} /\ Reply = "none"
  BY <1>1 DEF BoxState, Marked, Reply, Stopped
<1>3. HasKey \in BOOLEAN
  BY DEF HasKey
<1> QED BY <1>2, <1>3 DEF Box!Init

\* Every run of the system is a run of SealedBox: whatever a program says of a
\* container, the damage and the keys allow it.
THEOREM SystemKeepsTheBox == Spec => Box!Safety
<1>1. Init => Box!Init
  BY BoxStart
<1>2. SInv /\ SInv' /\ (SInv /\ rpc \in {"done", "derailed"} => Reply \in Box!Replies /\ Box!Permitted(Reply))'
         /\ [Next]_vars => [Box!Next]_(Box!vars)
  BY BoxStep
<1>3. SInv /\ rpc \in {"done", "derailed"} => Reply \in Box!Replies /\ Box!Permitted(Reply)
  BY StoppedPermitted
<1> QED BY <1>1, <1>2, <1>3, SystemInvariance, PTL DEF Spec, Box!Safety
=============================================================================
