--------------------------- MODULE SelfRebuildProofs ---------------------------
(***************************************************************************)
(* Proofs about SelfRebuild: for every original SELF and every new ELF     *)
(* file, of any number of segments and any sizes.                          *)
(***************************************************************************)
EXTENDS SelfRebuild, SequenceTheorems, TLAPS

(* What follows is said of an original o, sizes ms, digests h and data d,   *)
(* so that it can be said of a state and of the next one.                   *)

Spot(o, k, n) == o.phdr[k].at .. o.phdr[k].at + n - 1
Limit(o)      == round_up(o.size, Alignment) + HeaderSize

\* The data with the key streams put on or taken off.
Stream(o, ms, x) == {<<k, x - o.phdr[k].at>> :
                        k \in {k \in 1 .. Len(o.phdr) : o.phdr[k].load /\ x \in Spot(o, k, ms[k])}}

Toggled(o, ms, d) ==
    [x \in DOMAIN d |->
        Cell(d[x].c, (d[x].k \ Stream(o, ms, x)) \union (Stream(o, ms, x) \ d[x].k))]

\* The digests are those of the data, or stand for no section.
Fit(o, ms, h, d) ==
    \A k \in 1 .. Len(o.phdr) :
        \/ o.phdr[k].at + ms[k] > Limit(o)
        \/ h[k] = [x \in Spot(o, k, ms[k]) \intersect DOMAIN d |-> d[x]]

Normal(d) == d = [x \in DOMAIN d |-> Cell(d[x].c, d[x].k)]

Noted(o) == [idx : 1 .. Len(o.phdr), size : Nat \ {0}]

Fill(o, x, n, comp) == x \in Spot(o, comp[n].idx, Size(o.phdr[comp[n].idx]))

InPlace(o, comp, d) ==
    \A x \in DOMAIN d :
        d[x].c[1] = "new" => \E n \in 1 .. Len(comp) : Fill(o, x, n, comp) /\ d[x].c[2] = n

-----------------------------------------------------------------------------
(* The inductive invariant. *)

Typed ==
    /\ old \in Originals /\ new \in Inputs /\ known \in BOOLEAN
    /\ pc \in {"decrypt_header", "read_sections", "get_keys", "write_sections", "retry", "replace",
               "calculate_hashes", "sign_header", "encrypt", "write", "decrypt", "verify",
               "finished", "failed", "crashed"}
    /\ i \in 1 .. Len(old.phdr) + 1 /\ level \in 7 .. 10 /\ size \in Nat
    /\ sizes \in [1 .. Len(old.phdr) -> Nat \ {0}] /\ msizes = sizes
    /\ header \in {"plain", "sealed", "junk"} /\ verdict \in {"none", "ok", "fail"}

Listed ==
    /\ compressed \in Seq(Noted(old)) /\ Len(compressed) <= Len(old.phdr)
    /\ \A n \in 1 .. Len(compressed) : compressed[n].size <= Size(old.phdr[compressed[n].idx])

Where ==
    /\ pc = "decrypt_header" => i = 1 /\ compressed = <<>>
    /\ pc = "read_sections" => Len(compressed) < i
    /\ pc \in {"retry", "replace"} => i <= Len(compressed) /\ size # 0
    /\ pc = "replace" => size <= compressed[i].size

Placed == Normal(self) /\ InPlace(old, compressed, self)

\* Whether the header was opened shows in the metadata.
Opened ==
    /\ pc \in {"read_sections", "get_keys", "write_sections", "retry", "replace",
               "calculate_hashes", "sign_header", "encrypt"}
          => header = IF known THEN "plain" ELSE "junk"
    /\ pc \in {"write", "decrypt"} => header = IF known THEN "sealed" ELSE "junk"
    /\ pc \in {"verify", "finished"} => known

Vouched ==
    /\ pc \in {"sign_header", "encrypt", "verify"} /\ known => Fit(old, msizes, hash, self)
    /\ pc \in {"encrypt", "write", "decrypt", "verify"} /\ known => sig = Signed
    /\ pc \in {"write", "decrypt"} /\ known => Fit(old, msizes, hash, Toggled(old, msizes, self))
    /\ pc = "finished" => verdict = "ok"

Core == Typed /\ Listed /\ Where

IInv == Core /\ Placed /\ Opened /\ Vouched

-----------------------------------------------------------------------------
(* Originals, inputs and the data. *)

LEMMA OriginalTyped ==
    ASSUME NEW o \in Originals
    PROVE  /\ o.size \in Nat /\ Len(o.phdr) \in Nat \ {0}
           /\ \A k \in 1 .. Len(o.phdr) :
                 o.phdr[k] \in Old /\ o.phdr[k].at \in Nat /\ Size(o.phdr[k]) \in Nat \ {0}
<1>1. o.phdr \in Seq(Old) /\ o.phdr # <<>> /\ o.size \in Nat
  BY OriginalsAssumption DEF OriginalsAssumption
<1>2. Len(o.phdr) \in Nat \ {0} BY <1>1, EmptySeq
<1>3. \A k \in 1 .. Len(o.phdr) : o.phdr[k] \in Old BY <1>1
<1>4. \A s \in Old : s.at \in Nat /\ Size(s) \in Nat \ {0} BY DEF Old, Size
<1> QED BY <1>1, <1>2, <1>3, <1>4

LEMMA LevelsTyped ==
    ASSUME new \in Inputs, NEW n \in Nat \ {0}, NEW l \in 6 .. 9
    PROVE  Levels(n)[l] \in Nat \ {0}
<1>1. new \in Seq(New) BY OriginalsAssumption DEF OriginalsAssumption
<1>2. CASE n <= Len(new)
  <2>1. Len(new) \in Nat /\ n \in 1 .. Len(new) BY <1>1, <1>2
  <2>2. new[n] \in New BY <1>1, <2>1
  <2> QED BY <1>2, <2>2 DEF Levels, New
<1>3. CASE ~(n <= Len(new)) BY <1>3 DEF Levels
<1> QED BY <1>2, <1>3

LEMMA OldKept ==
    ASSUME [Next]_vars
    PROVE  old' = old /\ new' = new /\ known' = known
BY DEF Next, vars, decrypt_header, ReadSection, SectionsRead, get_keys, Compress, Retry, Fail, Fits,
       Replace, AllWritten, calculate_hashes, Derail, sign_header, Encrypt, Write, decrypt, Verify,
       input

\* The two forms of the program's operation.
LEMMA ToggledIs ==
    ASSUME NEW d PROVE sce_decrypt_data(d) = Toggled(old, msizes, d)
BY DEF sce_decrypt_data, Toggled, Stream, Spot, At, offset, Sections, phnum

LEMMA CellIs ==
    ASSUME NEW a, NEW b
    PROVE  Cell(a, b).c = a /\ Cell(a, b).k = b
BY DEF Cell

LEMMA ToggledNormal ==
    ASSUME NEW o, NEW ms, NEW d
    PROVE  /\ DOMAIN Toggled(o, ms, d) = DOMAIN d
           /\ \A x \in DOMAIN d : Toggled(o, ms, d)[x].c = d[x].c
           /\ Normal(Toggled(o, ms, d))
<1> DEFINE t == Toggled(o, ms, d)
<1> DEFINE On(x) == (d[x].k \ Stream(o, ms, x)) \union (Stream(o, ms, x) \ d[x].k)
<1>1. t = [x \in DOMAIN d |-> Cell(d[x].c, On(x))] BY DEF Toggled
<1> HIDE DEF t, On
<1>2. DOMAIN t = DOMAIN d BY <1>1
<1>3. \A x \in DOMAIN d : t[x] = Cell(d[x].c, On(x)) BY <1>1
<1>4. ASSUME NEW x \in DOMAIN d PROVE t[x].c = d[x].c /\ t[x].k = On(x)
  BY <1>3, CellIs
<1>5. t = [x \in DOMAIN t |-> Cell(t[x].c, t[x].k)] BY <1>1, <1>2, <1>4
<1> QED BY <1>2, <1>4, <1>5 DEF Normal, t

\* Encrypting and decrypting is the same operation: done twice it changes nothing.
LEMMA Twice ==
    ASSUME NEW o, NEW ms, NEW d, Normal(d)
    PROVE  Toggled(o, ms, Toggled(o, ms, d)) = d
<1> DEFINE t == Toggled(o, ms, d)
<1> DEFINE u == Toggled(o, ms, t)
<1> DEFINE S(x) == Stream(o, ms, x)
<1>1. /\ DOMAIN t = DOMAIN d
      /\ \A x \in DOMAIN d : t[x].c = d[x].c /\ t[x].k = (d[x].k \ S(x)) \union (S(x) \ d[x].k)
  BY DEF Toggled, Cell
<1>2. u = [x \in DOMAIN t |-> Cell(t[x].c, (t[x].k \ S(x)) \union (S(x) \ t[x].k))]
  BY DEF Toggled
<1> HIDE DEF t, u, S
<1>3. ASSUME NEW x \in DOMAIN d PROVE (t[x].k \ S(x)) \union (S(x) \ t[x].k) = d[x].k
  BY <1>1, <1>3
<1>4. u = [x \in DOMAIN d |-> Cell(d[x].c, d[x].k)]
  BY <1>1, <1>2, <1>3
<1> QED BY <1>4 DEF Normal, u, t

\* The invariant's parts are the properties.
LEMMA PlacedIs ==
    ASSUME InPlace(old, compressed, self)
    PROVE  StaysInPlace
BY DEF InPlace, Fill, Spot, StaysInPlace, Place, At, offset, OldSize

LEMMA FitIs ==
    (\A k \in Sections : Phony(k) \/ hash[k] = Hashed(k)) <=> Fit(old, msizes, hash, self)
BY DEF Sections, phnum, Phony, Hashed, At, offset, filesize, Fit, Spot, Limit

-----------------------------------------------------------------------------
(* The initial states. *)

LEMMA InitCore ==
    ASSUME Init
    PROVE  Core
<1>1. old \in Originals BY DEF Init
<1>2. /\ Len(old.phdr) \in Nat \ {0}
      /\ \A k \in 1 .. Len(old.phdr) : Size(old.phdr[k]) \in Nat \ {0}
  BY <1>1, OriginalTyped
<1>3. sizes \in [1 .. Len(old.phdr) -> Nat \ {0}]
  BY <1>2 DEF Init, Sections, phnum, OldSize
<1>4. Typed BY <1>1, <1>2, <1>3 DEF Init, Typed
<1>5. compressed = <<>> BY DEF Init
<1>6. Listed
  <2>1. compressed \in Seq(Noted(old)) /\ Len(compressed) = 0 BY <1>5
  <2> QED BY <1>2, <2>1 DEF Listed
<1>7. Where BY DEF Init, Where
<1> QED BY <1>4, <1>6, <1>7 DEF Core

LEMMA InitPlaced ==
    ASSUME Init
    PROVE  Placed
<1> DEFINE on(x) == {k \in Sections : x \in Place(k)}
<1> DEFINE pick(x) == CHOOSE k \in on(x) : TRUE
<1> DEFINE first(x) == IF on(x) = {} THEN Cell(<<"pad">>, {})
                       ELSE Cell(<<"old", pick(x), x - offset(pick(x))>>,
                                 IF old.phdr[pick(x)].load THEN {<<pick(x), x - offset(pick(x))>>} ELSE {})
<1> DEFINE D == HeaderSize .. offset(phnum) + OldSize(phnum) - 1
<1>1. self = [x \in D |-> first(x)] BY DEF Init
<1>2. \A x : first(x) = Cell(first(x).c, first(x).k) /\ first(x).c[1] # "new"
  <2> TAKE x
  <2>1. CASE on(x) = {}
    <3>1. first(x) = Cell(<<"pad">>, {}) BY <2>1
    <3> HIDE DEF first
    <3>2. first(x).c = <<"pad">> /\ first(x).k = {} BY <3>1, CellIs
    <3> QED BY <3>1, <3>2
  <2>2. CASE on(x) # {}
    <3>1. PICK a, b : first(x) = Cell(<<"old", a, b>>,
                                      IF old.phdr[pick(x)].load THEN {<<pick(x), x - offset(pick(x))>>} ELSE {})
      BY <2>2
    <3>2. PICK s : first(x) = Cell(<<"old", a, b>>, s) BY <3>1
    <3> HIDE DEF first
    <3>3. first(x).c = <<"old", a, b>> /\ first(x).k = s BY <3>2, CellIs
    <3> QED BY <3>2, <3>3
  <2> QED BY <2>1, <2>2
<1> HIDE DEF first, D
<1>3. DOMAIN self = D /\ \A x \in D : self[x] = first(x) BY <1>1
<1>4. self = [x \in DOMAIN self |-> Cell(self[x].c, self[x].k)]
  <2>1. \A x \in D : first(x) = Cell(self[x].c, self[x].k) BY <1>2, <1>3
  <2> QED BY <1>1, <1>3, <2>1
<1>5. \A x \in DOMAIN self : self[x].c[1] # "new" BY <1>2, <1>3
<1> QED BY <1>4, <1>5 DEF Placed, Normal, InPlace

LEMMA InitInv ==
    ASSUME Init
    PROVE  IInv
<1>1. Opened /\ Vouched BY DEF Init, Opened, Vouched
<1> QED BY <1>1, InitCore, InitPlaced DEF IInv

-----------------------------------------------------------------------------
(* Every step keeps the types, the list and where the program is. *)

LEMMA StepCore ==
    ASSUME Core, [Next]_vars
    PROVE  Core'
<1> DEFINE N == Len(old.phdr)
<1> USE DEF Core
<1>1. old' = old /\ new' = new /\ known' = known BY OldKept
<1>2. old \in Originals /\ new \in Inputs BY DEF Typed
<1>3. N \in Nat \ {0} /\ \A k \in 1 .. N : Size(old.phdr[k]) \in Nat \ {0}
  BY <1>2, OriginalTyped
<1>4. Len(compressed) \in Nat /\ i \in Nat \ {0} BY <1>3 DEF Listed, Typed
<1>5. \A n \in 1 .. Len(compressed) :
          /\ compressed[n].idx \in 1 .. N /\ compressed[n].size \in Nat \ {0}
          /\ compressed[n].size <= Size(old.phdr[compressed[n].idx])
  <2>1. \A n \in 1 .. Len(compressed) : compressed[n] \in Noted(old) BY DEF Listed
  <2> QED BY <2>1 DEF Listed, Noted
<1> HIDE DEF N
<1>6. CASE decrypt_header
  BY <1>1, <1>3, <1>4, <1>6 DEF decrypt_header, input, Typed, Listed, Where, N
<1>7. CASE ReadSection
  <2> USE <1>7 DEF ReadSection, input, file
  <2>1. i \in 1 .. N BY <1>3, <1>4 DEF phnum, N
  <2>2. Typed'
    <3>1. i + 1 \in 1 .. N + 1 BY <1>3, <2>1
    <3> QED BY <1>1, <3>1 DEF Typed, N
  <2>3. CASE Deflated(i)
    <3> DEFINE e == [idx |-> i, size |-> OldSize(i)]
    <3>1. e \in Noted(old) /\ e.size = Size(old.phdr[e.idx])
      BY <1>3, <2>1 DEF Noted, OldSize, N
    <3>2. compressed' = Append(compressed, e) BY <2>3
    <3> HIDE DEF e
    <3>3. /\ compressed' \in Seq(Noted(old)) /\ Len(compressed') = Len(compressed) + 1
          /\ \A n \in 1 .. Len(compressed) : compressed'[n] = compressed[n]
          /\ compressed'[Len(compressed) + 1] = e
      BY <3>2, <3>1 DEF Listed
    <3>4. Len(compressed) < i BY DEF Where
    <3>5. Len(compressed') <= N /\ Len(compressed') < i + 1 BY <1>3, <1>4, <2>1, <3>3, <3>4
    <3>6. Size(old.phdr[e.idx]) \in Nat /\ e.idx \in 1 .. N BY <1>3, <2>1, <3>1 DEF Noted, N
    <3>7. ASSUME NEW n \in 1 .. Len(compressed')
          PROVE  compressed'[n].size <= Size(old.phdr[compressed'[n].idx])
      <4>1. n \in 1 .. Len(compressed) \/ n = Len(compressed) + 1 BY <1>4, <3>3
      <4> QED BY <4>1, <1>5, <3>3, <3>1, <3>6
    <3>8. Listed' BY <1>1, <3>3, <3>5, <3>7 DEF Listed, N
    <3>9. Where' BY <3>5 DEF Where
    <3> QED BY <2>2, <3>8, <3>9
  <2>4. CASE ~Deflated(i)
    <3>1. compressed' = compressed BY <2>4
    <3>2. Where' BY <1>4, <3>1 DEF Where
    <3> QED BY <1>1, <2>2, <3>1, <3>2 DEF Listed
  <2> QED BY <2>3, <2>4
<1>8. CASE SectionsRead
  BY <1>1, <1>3, <1>8 DEF SectionsRead, input, file, Typed, Listed, Where, N
<1>9. CASE get_keys
  BY <1>1, <1>9 DEF get_keys, input, file, Typed, Listed, Where
<1>10. CASE Compress
  <2>1. 6 \in 6 .. 9 /\ Levels(i)[6] \in Nat \ {0} BY <1>2, <1>4, LevelsTyped
  <2> QED BY <1>1, <1>10, <2>1 DEF Compress, Fail, input, file, Typed, Listed, Where
<1>11. CASE Retry
  <2>1. CASE Fail BY <1>1, <1>11, <2>1 DEF Retry, Fail, input, file, Typed, Listed, Where
  <2>2. CASE ~(level > 9 \/ Levels(i)[level] > size)
    <3>1. level \in 7 .. 9 /\ level \in 6 .. 9 BY <2>2 DEF Typed
    <3>2. Levels(i)[level] \in Nat \ {0} BY <1>2, <1>4, <3>1, LevelsTyped
    <3>3. /\ size' = Levels(i)[level] /\ level' = level + 1
          /\ UNCHANGED <<input, file, compressed, pc, i, out, verdict>>
      BY <1>11, <2>2 DEF Retry
    <3>4. pc = "retry" BY <1>11 DEF Retry
    <3>5. Typed' BY <1>1, <3>1, <3>2, <3>3 DEF input, file, Typed
    <3>6. Listed' /\ Where' BY <1>1, <3>2, <3>3, <3>4 DEF Listed, Where
    <3> QED BY <3>5, <3>6
  <2> QED BY <1>11, <2>1, <2>2 DEF Retry
<1>12. CASE Fits
  BY <1>1, <1>12 DEF Fits, input, file, Typed, Listed, Where
<1>13. CASE Replace
  <2>1. i \in 1 .. Len(compressed) /\ size \in Nat \ {0} /\ size <= compressed[i].size
    BY <1>4, <1>13 DEF Replace, Where, Typed
  <2>2. i \in 1 .. N /\ i + 1 \in 1 .. N + 1 BY <1>3, <1>4, <2>1 DEF Listed, N
  <2>3. /\ sizes' = [sizes EXCEPT ![i] = size] /\ msizes' = [msizes EXCEPT ![i] = size]
        /\ compressed' = [compressed EXCEPT ![i].size = size]
        /\ i' = i + 1 /\ pc' = "write_sections"
        /\ UNCHANGED <<hash, sig, header, level, size, out, verdict>>
    BY <1>13 DEF Replace
  <2>4. Typed' BY <1>1, <2>1, <2>2, <2>3 DEF Typed, N
  <2>5. /\ compressed' \in Seq(Noted(old)) /\ Len(compressed') = Len(compressed)
        /\ \A n \in 1 .. Len(compressed) :
              compressed'[n].size <= compressed[n].size /\ compressed'[n].idx = compressed[n].idx
    <3> DEFINE e == [compressed[i] EXCEPT !.size = size]
    <3>1. compressed[i] \in Noted(old) BY <2>1 DEF Listed
    <3>2. e \in Noted(old) /\ e.idx = compressed[i].idx /\ e.size = size BY <2>1, <3>1 DEF Noted
    <3>3. compressed' = [compressed EXCEPT ![i] = e] BY <2>3
    <3> HIDE DEF e
    <3>4. compressed \in Seq(Noted(old)) BY DEF Listed
    <3>5. compressed' \in Seq(Noted(old)) /\ Len(compressed') = Len(compressed)
      BY <2>1, <3>2, <3>3, <3>4
    <3>6. \A n \in 1 .. Len(compressed) : compressed'[n] = IF n = i THEN e ELSE compressed[n]
      BY <2>1, <3>3, <3>4
    <3> QED BY <1>5, <2>1, <3>2, <3>5, <3>6
  <2>6. \A n \in 1 .. Len(compressed') : compressed'[n].size <= Size(old.phdr[compressed'[n].idx])
    <3>1. \A n \in 1 .. Len(compressed) : compressed'[n].size \in Nat
      <4>1. \A n \in 1 .. Len(compressed) : compressed'[n] \in Noted(old) BY <2>5
      <4> QED BY <4>1 DEF Noted
    <3> QED BY <1>3, <1>5, <2>5, <3>1
  <2>7. Listed' BY <1>1, <2>5, <2>6 DEF Listed
  <2>8. Where' BY <2>3 DEF Where
  <2> QED BY <2>4, <2>7, <2>8
<1>14. CASE AllWritten
  BY <1>1, <1>14 DEF AllWritten, input, file, Typed, Listed, Where
<1>15. CASE calculate_hashes
  BY <1>1, <1>15 DEF calculate_hashes, Typed, Listed, Where
<1>16. CASE Derail
  BY <1>1, <1>16 DEF Derail, input, file, Typed, Listed, Where
<1>17. CASE sign_header
  BY <1>1, <1>17 DEF sign_header, Typed, Listed, Where
<1>18. CASE Encrypt
  BY <1>1, <1>18 DEF Encrypt, Typed, Listed, Where
<1>19. CASE Write
  BY <1>1, <1>19 DEF Write, input, file, Typed, Listed, Where
<1>20. CASE decrypt
  BY <1>1, <1>20 DEF decrypt, Typed, Listed, Where
<1>21. CASE Verify
  BY <1>1, <1>21 DEF Verify, input, file, Typed, Listed, Where
<1>22. CASE UNCHANGED vars
  BY <1>1, <1>22 DEF vars, Typed, Listed, Where
<1> QED BY <1>6, <1>7, <1>8, <1>9, <1>10, <1>11, <1>12, <1>13, <1>14, <1>15, <1>16, <1>17, <1>18,
            <1>19, <1>20, <1>21, <1>22 DEF Next

-----------------------------------------------------------------------------
(* Every step leaves a new section in the place of the one it replaces. *)

\* Noting one more section does not move the ones that are there.
LEMMA PlacedKept ==
    ASSUME Placed, old' = old, self' = self, Len(compressed) \in Nat, Len(compressed)' \in Nat,
           Len(compressed) <= Len(compressed)',
           \A n \in 1 .. Len(compressed) : compressed'[n].idx = compressed[n].idx
    PROVE  Placed'
<1>1. ASSUME NEW x \in DOMAIN self, NEW n \in 1 .. Len(compressed), Fill(old, x, n, compressed)
      PROVE  n \in 1 .. Len(compressed)' /\ Fill(old, x, n, compressed')
  BY <1>1 DEF Fill
<1>2. InPlace(old, compressed', self) BY <1>1 DEF Placed, InPlace
<1> QED BY <1>2 DEF Placed

\* The same for data whose contents have only changed their key streams.
LEMMA PlacedToggled ==
    ASSUME Placed, old' = old, compressed' = compressed, self' = sce_decrypt_data(self)
    PROVE  Placed'
<1> DEFINE t == Toggled(old, msizes, self)
<1>1. self' = t BY ToggledIs
<1>2. DOMAIN t = DOMAIN self /\ Normal(t) /\ \A x \in DOMAIN self : t[x].c = self[x].c
  BY ToggledNormal
<1> HIDE DEF t
<1>3. InPlace(old, compressed, t) BY <1>2 DEF Placed, InPlace
<1> QED BY <1>1, <1>2, <1>3 DEF Placed

LEMMA StepPlaced ==
    ASSUME Core, Placed, [Next]_vars
    PROVE  Placed'
<1>1. old' = old BY OldKept
<1>2. Len(compressed) \in Nat /\ compressed \in Seq(Noted(old)) BY DEF Core, Listed
<1>3. CASE UNCHANGED <<self, compressed>> BY <1>1, <1>3 DEF Placed
<1>4. CASE ReadSection
  <2>1. CASE ~Deflated(i) BY <1>3, <1>4, <2>1 DEF ReadSection, file
  <2>2. CASE Deflated(i)
    <3> DEFINE e == [idx |-> i, size |-> OldSize(i)]
    <3>1. compressed' = Append(compressed, e) /\ self' = self BY <1>4, <2>2 DEF ReadSection, file
    <3> HIDE DEF e
    <3>2. Len(compressed') = Len(compressed) + 1 /\ \A n \in 1 .. Len(compressed) : compressed'[n] = compressed[n]
      BY <1>2, <3>1
    <3> QED BY <1>1, <1>2, <3>1, <3>2, PlacedKept
  <2> QED BY <2>1, <2>2
<1>5. CASE Replace
  <2>1. /\ i \in 1 .. Len(compressed) /\ size \in Nat \ {0} /\ size <= compressed[i].size
        /\ pc = "replace" /\ self' = Put(i) /\ compressed' = [compressed EXCEPT ![i].size = size]
    BY <1>2, <1>5 DEF Replace, Core, Where, Typed
  <2> DEFINE at == old.phdr[compressed[i].idx].at
  <2> DEFINE cell(x) == IF x \in at .. at + size - 1 THEN Cell(<<"new", i, size, x - at>>, {}) ELSE self[x]
  <2>2. self' = [x \in DOMAIN self |-> cell(x)] BY <2>1 DEF Put, offset
  <2>3. compressed[i] \in Noted(old) /\ compressed[i].size <= Size(old.phdr[compressed[i].idx])
    BY <2>1 DEF Core, Listed
  <2>4. at \in Nat /\ Size(old.phdr[compressed[i].idx]) \in Nat
    <3>1. compressed[i].idx \in 1 .. Len(old.phdr) BY <2>3 DEF Noted
    <3> QED BY <3>1, OriginalTyped DEF Core, Typed
  <2>5. compressed[i].size \in Nat BY <2>3 DEF Noted
  <2>6. \A n \in 1 .. Len(compressed) : compressed'[n].idx = compressed[n].idx
    <3> DEFINE e == [compressed[i] EXCEPT !.size = size]
    <3>1. compressed' = [compressed EXCEPT ![i] = e] BY <2>1
    <3>2. e.idx = compressed[i].idx BY <2>3 DEF Noted
    <3> HIDE DEF e
    <3>3. \A n \in 1 .. Len(compressed) : compressed'[n] = IF n = i THEN e ELSE compressed[n]
      BY <1>2, <2>1, <3>1
    <3> QED BY <3>2, <3>3
  <2>7. Len(compressed') = Len(compressed) BY <1>2, <2>1
  <2>8. \A x \in DOMAIN self : x \in at .. at + size - 1 => Fill(old, x, i, compressed)
    BY <2>1, <2>3, <2>4, <2>5 DEF Fill, Spot
  <2>9. \A x \in DOMAIN self : self[x] = Cell(self[x].c, self[x].k)
    <3>1. self = [x \in DOMAIN self |-> Cell(self[x].c, self[x].k)] BY DEF Placed, Normal
    <3> DEFINE f == [x \in DOMAIN self |-> Cell(self[x].c, self[x].k)]
    <3>2. \A x \in DOMAIN self : f[x] = Cell(self[x].c, self[x].k) OBVIOUS
    <3>3. self = f BY <3>1
    <3> HIDE DEF f
    <3> QED BY <3>2, <3>3
  <2>10. ASSUME NEW x \in DOMAIN self
         PROVE  /\ cell(x) = Cell(cell(x).c, cell(x).k)
                /\ cell(x).c[1] = "new" =>
                      \E n \in 1 .. Len(compressed) : Fill(old, x, n, compressed) /\ cell(x).c[2] = n
    <3>1. CASE x \in at .. at + size - 1
      <4>1. cell(x) = Cell(<<"new", i, size, x - at>>, {}) BY <3>1
      <4> HIDE DEF cell
      <4>2. cell(x).c = <<"new", i, size, x - at>> /\ cell(x).k = {} BY <4>1, CellIs
      <4>3. cell(x).c[2] = i BY <4>2
      <4>4. Fill(old, x, i, compressed) BY <2>8, <3>1
      <4> QED BY <2>1, <4>1, <4>2, <4>3, <4>4
    <3>2. CASE ~(x \in at .. at + size - 1)
      <4>1. cell(x) = self[x] BY <3>2
      <4> HIDE DEF cell
      <4>2. self[x].c[1] = "new" =>
               \E n \in 1 .. Len(compressed) : Fill(old, x, n, compressed) /\ self[x].c[2] = n
        BY DEF Placed, InPlace
      <4> QED BY <2>9, <4>1, <4>2
    <3> QED BY <3>1, <3>2
  <2> HIDE DEF cell
  <2>11. DOMAIN self' = DOMAIN self /\ \A x \in DOMAIN self : self'[x] = cell(x) BY <2>2
  <2>12. Normal(self')
    <3>1. \A x \in DOMAIN self : cell(x) = Cell(self'[x].c, self'[x].k) BY <2>10, <2>11
    <3>2. self' = [x \in DOMAIN self |-> Cell(self'[x].c, self'[x].k)] BY <2>2, <3>1
    <3> QED BY <2>11, <3>2 DEF Normal
  <2>13. InPlace(old, compressed', self')
    <3>1. \A x \in DOMAIN self, n \in 1 .. Len(compressed) :
             Fill(old, x, n, compressed) => Fill(old, x, n, compressed')
      BY <2>6 DEF Fill
    <3>2. \A x \in DOMAIN self :
             cell(x).c[1] = "new" =>
                \E n \in 1 .. Len(compressed) : Fill(old, x, n, compressed) /\ cell(x).c[2] = n
      BY <2>10
    <3> QED BY <2>7, <2>11, <3>1, <3>2 DEF InPlace
  <2> QED BY <1>1, <2>12, <2>13 DEF Placed
<1>6. CASE Encrypt
  <2>1. compressed' = compressed /\ (self' = self \/ self' = sce_decrypt_data(self))
    BY <1>6 DEF Encrypt
  <2> QED BY <1>1, <1>3, <2>1, PlacedToggled
<1>7. CASE decrypt
  <2>1. compressed' = compressed /\ (self' = self \/ self' = sce_decrypt_data(self))
    BY <1>7 DEF decrypt
  <2> QED BY <1>1, <1>3, <2>1, PlacedToggled
<1>8. CASE \/ decrypt_header \/ SectionsRead \/ get_keys \/ Compress \/ Retry \/ Fits \/ AllWritten
           \/ calculate_hashes \/ Derail \/ sign_header \/ Write \/ Verify \/ UNCHANGED vars
  BY <1>3, <1>8 DEF decrypt_header, SectionsRead, get_keys, Compress, Retry, Fail, Fits, AllWritten,
     calculate_hashes, Derail, sign_header, Write, Verify, vars, file
<1> QED BY <1>4, <1>5, <1>6, <1>7, <1>8 DEF Next

-----------------------------------------------------------------------------
(* Every step keeps what the metadata say and what digests and signature are over. *)

LEMMA StepOpened ==
    ASSUME Core, Opened, [Next]_vars
    PROVE  Opened'
<1>1. known' = known /\ known \in BOOLEAN BY OldKept DEF Core, Typed
<1>2. CASE decrypt_header BY <1>1, <1>2 DEF decrypt_header, Opened
<1>3. CASE ReadSection BY <1>1, <1>3 DEF ReadSection, file, Opened
<1>4. CASE SectionsRead BY <1>1, <1>4 DEF SectionsRead, file, Opened
<1>5. CASE get_keys BY <1>1, <1>5 DEF get_keys, file, Opened
<1>6. CASE Compress BY <1>1, <1>6 DEF Compress, Fail, file, Opened
<1>7. CASE Retry BY <1>1, <1>7 DEF Retry, Fail, file, Opened
<1>8. CASE Fits BY <1>1, <1>8 DEF Fits, file, Opened
<1>9. CASE Replace BY <1>1, <1>9 DEF Replace, Opened
<1>10. CASE AllWritten BY <1>1, <1>10 DEF AllWritten, file, Opened
<1>11. CASE calculate_hashes BY <1>1, <1>11 DEF calculate_hashes, Opened
<1>12. CASE Derail BY <1>1, <1>12 DEF Derail, file, Opened
<1>13. CASE sign_header BY <1>1, <1>13 DEF sign_header, Opened
<1>14. CASE Encrypt BY <1>1, <1>14 DEF Encrypt, Opened
<1>15. CASE Write BY <1>1, <1>15 DEF Write, file, Opened
<1>16. CASE decrypt BY <1>1, <1>16 DEF decrypt, Opened
<1>17. CASE Verify BY <1>1, <1>17 DEF Verify, file, Opened
<1>18. CASE UNCHANGED vars BY <1>1, <1>18 DEF vars, Opened
<1> QED BY <1>2, <1>3, <1>4, <1>5, <1>6, <1>7, <1>8, <1>9, <1>10, <1>11, <1>12, <1>13, <1>14,
           <1>15, <1>16, <1>17, <1>18 DEF Next

\* Digests that have just been taken are those of the data, whatever they were.
LEMMA HashesFit ==
    ASSUME NEW h, h = [k \in Sections |-> IF Phony(k) THEN hash[k] ELSE Hashed(k)]
    PROVE  Fit(old, msizes, h, self)
<1>1. \A k \in Sections : h[k] = IF Phony(k) THEN hash[k] ELSE Hashed(k) OBVIOUS
<1>2. \A k \in Sections : Phony(k) \/ h[k] = Hashed(k) BY <1>1
<1> QED BY <1>2 DEF Sections, phnum, Phony, Hashed, At, offset, filesize, Fit, Spot, Limit

LEMMA StepVouched ==
    ASSUME IInv, [Next]_vars
    PROVE  Vouched'
<1> USE DEF IInv
<1>1. known' = known /\ known \in BOOLEAN /\ old' = old BY OldKept DEF Core, Typed
<1>2. CASE decrypt_header BY <1>2 DEF decrypt_header, Vouched
<1>3. CASE ReadSection BY <1>3 DEF ReadSection, file, Vouched
<1>4. CASE SectionsRead BY <1>4 DEF SectionsRead, file, Vouched
<1>5. CASE get_keys BY <1>5 DEF get_keys, file, Vouched
<1>6. CASE Compress BY <1>6 DEF Compress, Fail, file, Vouched
<1>7. CASE Retry BY <1>7 DEF Retry, Fail, file, Vouched
<1>8. CASE Fits BY <1>8 DEF Fits, file, Vouched
<1>9. CASE Replace BY <1>9 DEF Replace, Vouched
<1>10. CASE AllWritten BY <1>10 DEF AllWritten, file, Vouched
<1>11. CASE calculate_hashes
  <2>1. /\ hash' = [k \in Sections |-> IF Phony(k) THEN hash[k] ELSE Hashed(k)]
        /\ pc' = "sign_header" /\ self' = self /\ msizes' = msizes
    BY <1>11 DEF calculate_hashes
  <2>2. Fit(old, msizes, hash', self) BY <2>1, HashesFit
  <2> QED BY <1>1, <2>1, <2>2 DEF Vouched
\* No key has opened the header.
<1>12. CASE Derail
  <2>1. ~known
    <3>1. header = "junk" /\ pc = "calculate_hashes" BY <1>12 DEF Derail
    <3> QED BY <1>1, <3>1 DEF Opened
  <2> QED BY <1>1, <1>12, <2>1 DEF Derail, Vouched
<1>13. CASE sign_header
  <2>1. /\ pc = "sign_header" /\ pc' = "encrypt" /\ UNCHANGED <<self, sizes, msizes, hash>>
        /\ sig' = IF header = "plain" THEN Signed ELSE sig
    BY <1>13 DEF sign_header
  <2>2. known => header = "plain" BY <1>1, <2>1 DEF Opened
  <2>3. Signed' = Signed BY <2>1 DEF Signed
  <2> QED BY <1>1, <2>1, <2>2, <2>3 DEF Vouched
<1>14. CASE Encrypt
  <2>1. /\ pc = "encrypt" /\ pc' = "write" /\ UNCHANGED <<sizes, msizes, hash, sig>>
        /\ header = "plain" => self' = sce_decrypt_data(self)
    BY <1>14 DEF Encrypt
  <2>2. known => self' = Toggled(old, msizes, self)
    BY <1>1, <2>1, ToggledIs DEF Opened
  <2>3. known => Toggled(old, msizes, self') = self
    BY <2>2, Twice DEF Placed
  <2>4. Signed' = Signed BY <2>1 DEF Signed
  <2> QED BY <1>1, <2>1, <2>3, <2>4 DEF Vouched
<1>15. CASE Write
  <2>1. /\ pc = "write" /\ pc' \in {"decrypt", "failed"} /\ UNCHANGED <<self, sizes, msizes, hash, sig>>
    BY <1>15 DEF Write, file
  <2>2. Signed' = Signed BY <2>1 DEF Signed
  <2> QED BY <1>1, <2>1, <2>2 DEF Vouched
<1>16. CASE decrypt
  <2>1. /\ pc = "decrypt" /\ UNCHANGED <<sizes, msizes, hash, sig>>
        /\ pc' = "failed" \/ (pc' = "verify" /\ self' = sce_decrypt_data(self))
    BY <1>16 DEF decrypt
  <2>2. Signed' = Signed BY <2>1 DEF Signed
  <2> QED BY <1>1, <2>1, <2>2, ToggledIs DEF Vouched
<1>17. CASE Verify
  <2>1. pc = "verify" /\ pc' = "finished" BY <1>17 DEF Verify
  <2>2. known BY <2>1 DEF Opened
  <2>3. sig = Signed /\ \A k \in Sections : Phony(k) \/ hash[k] = Hashed(k)
    BY <2>1, <2>2, FitIs DEF Vouched
  <2>4. verdict' = "ok" BY <1>17, <2>3 DEF Verify
  <2> QED BY <2>1, <2>4 DEF Vouched
<1>18. CASE UNCHANGED vars
  <2>1. Signed' = Signed BY <1>18 DEF Signed, vars
  <2> QED BY <1>18, <2>1 DEF vars, Vouched
<1> QED BY <1>2, <1>3, <1>4, <1>5, <1>6, <1>7, <1>8, <1>9, <1>10, <1>11, <1>12, <1>13, <1>14,
           <1>15, <1>16, <1>17, <1>18 DEF Next

-----------------------------------------------------------------------------
(* The theorems. *)

\* The inductive invariant holds of every state the rebuilder reaches.
THEOREM Invariant == Spec => []IInv
<1>1. Init => IInv BY InitInv
<1>2. IInv /\ [Next]_vars => IInv'
  BY StepCore, StepPlaced, StepOpened, StepVouched DEF IInv
<1> QED BY <1>1, <1>2, PTL DEF Spec

LEMMA IInvTypeOK ==
    ASSUME IInv
    PROVE  TypeOK
<1>1. \A k \in Sections : msizes[k] = sizes[k] /\ sizes[k] > 0
  BY DEF IInv, Core, Typed, Sections, phnum
<1> QED BY <1>1 DEF IInv, Core, Typed, Listed, TypeOK, phnum

\* Sizes in the section headers and in the metadata never part, and no more
\* deflated sections are noted than there are program headers.
THEOREM TypeCorrect == Spec => []TypeOK
<1>1. IInv => TypeOK BY IInvTypeOK
<1> QED BY <1>1, Invariant, PTL

\* write_sections never writes outside the places of the sections it replaces,
\* however often it had to compress them.
THEOREM NeverOutside == Spec => []StaysInPlace
<1>1. IInv => StaysInPlace BY PlacedIs DEF IInv, Placed
<1> QED BY <1>1, Invariant, PTL

\* The verification at the end never finds anything wrong: encrypting is undone
\* by decrypting, and digests and signature are of what the program then has.
THEOREM VerdictIsOk == Spec => []AlwaysVerifies
<1>1. IInv => AlwaysVerifies BY DEF IInv, Vouched, AlwaysVerifies
<1> QED BY <1>1, Invariant, PTL

\* An original that no key opens never gets as far as the verification.
THEOREM UnknownFails == Spec => []UnknownNeverFinishes
<1>1. IInv => UnknownNeverFinishes
  BY DEF IInv, Core, Typed, Opened, UnknownNeverFinishes
<1> QED BY <1>1, Invariant, PTL


-----------------------------------------------------------------------------
(* What a reader of the result gets. *)

\* What is noted of the sections before section j.
Ends(o, k) == o.phdr[k].off + o.phdr[k].len >= round_up(o.size, Alignment)

Lead(o, k) == \A l \in 1 .. k : Section(o.phdr[l]) /\ (l < k => ~Ends(o, l))

Marks(o, comp) ==
    /\ \A n \in 1 .. Len(comp) :
          /\ Section(o.phdr[comp[n].idx]) /\ n <= comp[n].idx
          /\ comp[n].idx = n => \A l \in 1 .. n - 1 : comp[l].idx = l
    /\ \A n \in 1 .. Len(comp) - 1 : ~Ends(o, comp[n].idx)
    /\ \A n, m \in 1 .. Len(comp) : n < m => comp[n].idx < comp[m].idx

\* The leading ones of the first j sections are noted in their own places.
Covers(o, comp, j) ==
    \A k \in 1 .. j : Lead(o, k) => k <= Len(comp) /\ comp[k].idx = k

Scanning == {"decrypt_header", "read_sections"}

Marked ==
    /\ Marks(old, compressed)
    /\ pc \in Scanning => /\ \A n \in 1 .. Len(compressed) : compressed[n].idx < i
                          /\ Covers(old, compressed, i - 1)
    /\ pc \notin Scanning => Covers(old, compressed, Len(old.phdr))
    /\ pc = "get_keys" => i = 1

Origin(o, k, x) ==
    Cell(<<"old", k, x - o.phdr[k].at>>,
         IF o.phdr[k].load THEN {<<k, x - o.phdr[k].at>>} ELSE {})

Renewed(o, n, k, s, x) == Cell(<<"new", n, s, x - o.phdr[k].at>>, {})

\* The data once w sections have been replaced, and the sizes.
Laid(o, comp, ms, d, w) ==
    /\ DOMAIN d = HeaderSize .. o.phdr[Len(o.phdr)].at + Size(o.phdr[Len(o.phdr)]) - 1
    /\ \A n \in 1 .. w :
          /\ ms[n] <= Size(o.phdr[comp[n].idx])
          /\ \A x \in Spot(o, comp[n].idx, ms[n]) : d[x] = Renewed(o, n, comp[n].idx, ms[n], x)
    /\ \A k \in 1 .. Len(o.phdr) :
          /\ k > w => ms[k] = Size(o.phdr[k])
          /\ (\A n \in 1 .. w : comp[n].idx # k) =>
                \A x \in Spot(o, k, Size(o.phdr[k])) : d[x] = Origin(o, k, x)

Writing == {"write_sections", "retry", "replace"}
Clear   == {"calculate_hashes", "sign_header", "encrypt", "verify", "finished"}

Contents ==
    /\ pc \in Scanning \cup {"get_keys"} => Laid(old, compressed, msizes, self, 0)
    /\ pc \in Writing => /\ i <= Len(compressed) + 1
                         /\ Laid(old, compressed, msizes, self, i - 1)
    /\ pc \in Clear /\ known => Laid(old, compressed, msizes, self, Len(compressed))
    /\ pc \in {"write", "decrypt"} /\ known =>
          Laid(old, compressed, msizes, Toggled(old, msizes, self), Len(compressed))

\* The file is what was in memory when it was written.
Kept ==
    /\ pc = "decrypt" => out = self
    /\ pc \in {"verify", "finished"} => out = Toggled(old, msizes, self)

RInv == IInv /\ Marked /\ Contents /\ Kept


\* The places of an original's sections.
LEMMA PlacesOf ==
    ASSUME NEW o \in Originals
    PROVE  /\ Len(o.phdr) \in Nat \ {0} /\ HeaderSize \in Nat
           /\ o.phdr[Len(o.phdr)].at \in Nat /\ Size(o.phdr[Len(o.phdr)]) \in Nat
           /\ \A k \in 1 .. Len(o.phdr) :
                 /\ o.phdr[k].at \in Nat /\ Size(o.phdr[k]) \in Nat \ {0}
                 /\ HeaderSize <= o.phdr[k].at
                 /\ o.phdr[k].at + Size(o.phdr[k])
                       <= o.phdr[Len(o.phdr)].at + Size(o.phdr[Len(o.phdr)])
           /\ \A k, l \in 1 .. Len(o.phdr) :
                 k < l => o.phdr[k].at + Size(o.phdr[k]) <= o.phdr[l].at
<1> DEFINE N == Len(o.phdr)
<1> DEFINE at(k) == o.phdr[k].at
<1> DEFINE sz(k) == Size(o.phdr[k])
<1>1. N \in Nat \ {0} /\ \A k \in 1 .. N : at(k) \in Nat /\ sz(k) \in Nat \ {0}
  BY OriginalTyped
<1>2. HeaderSize \in Nat /\ \A k \in 1 .. N : HeaderSize <= at(k)
  BY OriginalsAssumption DEF OriginalsAssumption
<1>3. \A l \in 1 .. N : \A k \in 1 .. l - 1 : at(k) + sz(k) <= at(l)
  BY OriginalsAssumption DEF OriginalsAssumption
<1> HIDE DEF N, at, sz
<1>4. \A k, l \in 1 .. N : k < l => at(k) + sz(k) <= at(l)
  <2> SUFFICES ASSUME NEW k \in 1 .. N, NEW l \in 1 .. N, k < l
               PROVE  at(k) + sz(k) <= at(l)
    OBVIOUS
  <2>1. k \in 1 .. l - 1
    BY <1>1
  <2> QED BY <2>1, <1>3
<1>5. ASSUME NEW k \in 1 .. N
      PROVE  at(k) + sz(k) <= at(N) + sz(N)
  <2>1. N \in 1 .. N
    BY <1>1
  <2>2. CASE k = N
    BY <2>2, <2>1, <1>1
  <2>3. CASE k # N
    <3>1. k < N
      BY <2>3, <1>1
    <3>2. at(k) + sz(k) <= at(N)
      BY <3>1, <2>1, <1>4
    <3> QED BY <3>2, <2>1, <1>1
  <2> QED BY <2>2, <2>3
<1>6. at(N) \in Nat /\ sz(N) \in Nat
  <2>1. N \in 1 .. N
    BY <1>1
  <2> QED BY <2>1, <1>1
<1> QED BY <1>1, <1>2, <1>4, <1>5, <1>6 DEF N, at, sz

\* So no two of them have a cell in common.
LEMMA NoCellShared ==
    ASSUME NEW o \in Originals, NEW k \in 1 .. Len(o.phdr), NEW l \in 1 .. Len(o.phdr), k # l,
           NEW x, x \in Spot(o, k, Size(o.phdr[k])), x \in Spot(o, l, Size(o.phdr[l]))
    PROVE  FALSE
<1>1. /\ Len(o.phdr) \in Nat
      /\ o.phdr[k].at \in Nat /\ Size(o.phdr[k]) \in Nat
      /\ o.phdr[l].at \in Nat /\ Size(o.phdr[l]) \in Nat
  BY PlacesOf
<1>2. CASE k < l
  <2>1. o.phdr[k].at + Size(o.phdr[k]) <= o.phdr[l].at
    BY <1>2, PlacesOf
  <2> QED BY <1>1, <2>1 DEF Spot
<1>3. CASE l < k
  <2>1. o.phdr[l].at + Size(o.phdr[l]) <= o.phdr[k].at
    BY <1>3, PlacesOf
  <2> QED BY SMTT(30), <1>1, <2>1 DEF Spot
<1> QED BY <1>1, <1>2, <1>3

LEMMA CellInside ==
    ASSUME NEW o \in Originals, NEW k \in 1 .. Len(o.phdr),
           NEW x, x \in Spot(o, k, Size(o.phdr[k]))
    PROVE  x \in HeaderSize .. o.phdr[Len(o.phdr)].at + Size(o.phdr[Len(o.phdr)]) - 1
<1>1. /\ HeaderSize \in Nat /\ o.phdr[k].at \in Nat /\ Size(o.phdr[k]) \in Nat
      /\ HeaderSize <= o.phdr[k].at
      /\ o.phdr[k].at + Size(o.phdr[k])
            <= o.phdr[Len(o.phdr)].at + Size(o.phdr[Len(o.phdr)])
  BY PlacesOf
<1>2. PICK b \in Nat, t \in Nat :
         b = o.phdr[Len(o.phdr)].at /\ t = Size(o.phdr[Len(o.phdr)])
  BY PlacesOf
<1>3. PICK a \in Nat, s \in Nat : a = o.phdr[k].at /\ s = Size(o.phdr[k])
  BY <1>1
<1>4. HeaderSize \in Nat /\ HeaderSize <= a /\ a + s <= b + t
  BY <1>1, <1>2, <1>3
<1>5. x \in a .. a + s - 1
  BY <1>3 DEF Spot
<1>6. x \in HeaderSize .. b + t - 1
  BY <1>4, <1>5
<1> QED BY <1>2, <1>6


\* In the original every section has its contents, with the key stream on it.
LEMMA InitLaid == Init => Laid(old, compressed, msizes, self, 0)
<1> SUFFICES ASSUME Init PROVE Laid(old, compressed, msizes, self, 0)
  OBVIOUS
<1> DEFINE on(x) == {k \in Sections : x \in Place(k)}
<1> DEFINE first(x) == IF on(x) = {} THEN Cell(<<"pad">>, {})
                       ELSE LET k == CHOOSE k \in on(x) : TRUE
                            IN  Cell(<<"old", k, x - offset(k)>>,
                                     IF old.phdr[k].load THEN {<<k, x - offset(k)>>} ELSE {})
<1> DEFINE D == HeaderSize .. old.phdr[Len(old.phdr)].at + Size(old.phdr[Len(old.phdr)]) - 1
<1>1. old \in Originals /\ msizes = [k \in Sections |-> OldSize(k)]
  BY DEF Init
<1>2. self = [x \in D |-> first(x)]
  BY DEF Init, offset, OldSize, phnum
<1>3. DOMAIN self = D /\ \A x \in D : self[x] = first(x)
  BY <1>2
<1>4. ASSUME NEW k \in 1 .. Len(old.phdr), NEW x \in Spot(old, k, Size(old.phdr[k]))
      PROVE  self[x] = Origin(old, k, x)
  <2>1. x \in D
    BY <1>1, CellInside
  <2>2. \A l \in 1 .. Len(old.phdr) : x \in Spot(old, l, Size(old.phdr[l])) => l = k
    BY <1>1, NoCellShared
  <2>3. on(x) = {k}
    BY <2>2 DEF Sections, phnum, Place, At, offset, OldSize, Spot
  <2>4. first(x) = Origin(old, k, x)
    BY <2>3 DEF Origin, offset
  <2> HIDE DEF first, D
  <2> QED BY <2>1, <2>4, <1>3
<1>5. \A k \in 1 .. Len(old.phdr) : msizes[k] = Size(old.phdr[k])
  BY <1>1 DEF Sections, phnum, OldSize
<1>6. 1 .. 0 = {}
  OBVIOUS
<1> HIDE DEF first
<1> QED BY <1>3, <1>4, <1>5, <1>6 DEF Laid

LEMMA InitMarked == Init => Marked
<1> SUFFICES ASSUME Init PROVE Marked
  OBVIOUS
<1>1. pc = "decrypt_header" /\ i = 1 /\ compressed = <<>>
  BY DEF Init
<1>2. Len(compressed) = 0 /\ 1 .. 0 = {} /\ 1 .. 0 - 1 = {} /\ i - 1 = 0
  BY <1>1
<1>3. Marks(old, compressed)
  BY <1>2 DEF Marks
<1>4. Covers(old, compressed, i - 1)
  BY <1>2 DEF Covers
<1> QED BY <1>1, <1>2, <1>3, <1>4 DEF Marked, Scanning

LEMMA InitRInv == Init => RInv
<1> SUFFICES ASSUME Init PROVE RInv
  OBVIOUS
<1>1. pc = "decrypt_header"
  BY DEF Init
<1>2. Contents
  BY <1>1, InitLaid DEF Contents, Scanning, Writing, Clear
<1>3. Kept
  BY <1>1 DEF Kept
<1> QED BY <1>2, <1>3, InitInv, InitMarked DEF RInv


-----------------------------------------------------------------------------
\* The marks depend on which sections are noted, and not on their sizes.
LEMMA MarksSame ==
    ASSUME NEW o, NEW c, NEW d, Len(d) = Len(c), \A n \in 1 .. Len(c) : d[n].idx = c[n].idx,
           Len(c) \in Nat
    PROVE  /\ Marks(o, c) => Marks(o, d)
           /\ \A j : Covers(o, c, j) => Covers(o, d, j)
<1>1. ASSUME Marks(o, c) PROVE Marks(o, d)
  <2>1. ASSUME NEW n \in 1 .. Len(c)
        PROVE  /\ Section(o.phdr[d[n].idx]) /\ n <= d[n].idx
               /\ d[n].idx = n => \A l \in 1 .. n - 1 : d[l].idx = l
    <3>1. \A l \in 1 .. n - 1 : l \in 1 .. Len(c)
      OBVIOUS
    <3> QED BY <3>1, <1>1 DEF Marks
  <2>2. ASSUME NEW n \in 1 .. Len(c) - 1
        PROVE  ~Ends(o, d[n].idx)
    <3>1. n \in 1 .. Len(c)
      OBVIOUS
    <3> QED BY <3>1, <1>1 DEF Marks
  <2>3. \A n, m \in 1 .. Len(c) : n < m => d[n].idx < d[m].idx
    BY <1>1 DEF Marks
  <2> QED BY <2>1, <2>2, <2>3 DEF Marks
<1>2. ASSUME NEW j, Covers(o, c, j) PROVE Covers(o, d, j)
  <2> SUFFICES ASSUME NEW k \in 1 .. j, Lead(o, k)
               PROVE  k <= Len(d) /\ d[k].idx = k
    BY DEF Covers
  <2>1. k <= Len(c) /\ c[k].idx = k
    BY <1>2 DEF Covers
  <2>2. k \in 1 .. Len(c)
    BY <2>1
  <2> QED BY <2>1, <2>2
<1> QED BY <1>1, <1>2

\* One deflated section more is noted, none of those before it at the end.
LEMMA MarksMore ==
    ASSUME NEW o, NEW S, NEW c \in Seq(S), NEW e \in S, NEW j \in Nat \ {0}, e.idx = j,
           \A s \in S : s.idx \in Nat,
           Section(o.phdr[j]), Len(c) < j, \A n \in 1 .. Len(c) : c[n].idx < j,
           c = <<>> \/ ~Ends(o, c[Len(c)].idx), Marks(o, c), Covers(o, c, j - 1)
    PROVE  /\ Marks(o, Append(c, e)) /\ Covers(o, Append(c, e), j)
           /\ \A n \in 1 .. Len(Append(c, e)) : Append(c, e)[n].idx < j + 1
<1>1. PICK L \in Nat : L = Len(c)
  OBVIOUS
<1>2. PICK d : d = Append(c, e)
  OBVIOUS
<1>3. /\ Len(d) = L + 1 /\ d[L + 1] = e
      /\ \A n \in 1 .. L : d[n] = c[n] /\ c[n].idx \in Nat
  BY <1>1, <1>2
<1>4. L # 0 => c[L].idx = L \/ L + 1 < j
  <2> SUFFICES ASSUME L # 0 PROVE c[L].idx = L \/ L + 1 < j
    OBVIOUS
  <2>1. L \in 1 .. L
    OBVIOUS
  <2>2. L <= c[L].idx /\ c[L].idx < j /\ c[L].idx \in Nat
    BY <1>1, <1>3, <2>1 DEF Marks
  <2> QED BY <2>2
<1>5. ASSUME NEW n \in 1 .. L + 1
      PROVE  /\ Section(o.phdr[d[n].idx]) /\ n <= d[n].idx /\ d[n].idx < j + 1
             /\ d[n].idx = n => \A l \in 1 .. n - 1 : d[l].idx = l
  <2>1. CASE n = L + 1
    <3>1. d[n].idx = j /\ n <= j /\ j < j + 1
      BY <1>1, <1>3, <2>1
    <3>2. ASSUME j = n, NEW l \in 1 .. n - 1
          PROVE  d[l].idx = l
      <4>1. L # 0 /\ l \in 1 .. L /\ L \in 1 .. L
        BY <2>1
      <4>2. c[L].idx = L
        BY <1>4, <2>1, <3>2, <4>1
      <4>3. \A m \in 1 .. L - 1 : c[m].idx = m
        BY <1>1, <4>1, <4>2 DEF Marks
      <4>4. l = L \/ l \in 1 .. L - 1
        BY <4>1
      <4> QED BY <1>3, <4>1, <4>2, <4>3, <4>4
    <3> QED BY <3>1, <3>2
  <2>2. CASE n # L + 1
    <3>1. n \in 1 .. L
      BY <2>2
    <3>2. \A l \in 1 .. n - 1 : l \in 1 .. L
      BY <3>1
    <3>3. c[n].idx < j /\ c[n].idx \in Nat
      BY <1>1, <1>3, <3>1
    <3>4. /\ Section(o.phdr[c[n].idx]) /\ n <= c[n].idx
          /\ c[n].idx = n => \A l \in 1 .. n - 1 : c[l].idx = l
      BY <1>1, <3>1 DEF Marks
    <3> QED BY <1>3, <3>1, <3>2, <3>3, <3>4
  <2> QED BY <2>1, <2>2
<1>6. ASSUME NEW n \in 1 .. L
      PROVE  ~Ends(o, d[n].idx)
  <2>1. CASE n = L
    <3>1. c # <<>>
      BY <1>1, <2>1
    <3> QED BY <1>1, <1>3, <2>1, <3>1
  <2>2. CASE n # L
    <3>1. n \in 1 .. Len(c) - 1
      BY <1>1, <2>2
    <3> QED BY <1>3, <3>1 DEF Marks
  <2> QED BY <2>1, <2>2
<1>7. ASSUME NEW n \in 1 .. L + 1, NEW m \in 1 .. L + 1, n < m
      PROVE  d[n].idx < d[m].idx
  <2>1. n \in 1 .. L
    BY <1>7
  <2>2. CASE m = L + 1
    BY <1>1, <1>3, <2>1, <2>2
  <2>3. CASE m # L + 1
    <3>1. m \in 1 .. L
      BY <2>3
    <3> QED BY <1>1, <1>3, <1>7, <2>1, <3>1 DEF Marks
  <2> QED BY <2>2, <2>3
<1>8. Marks(o, d)
  <2>1. Len(d) - 1 = L
    BY <1>3
  <2> QED BY <1>3, <1>5, <1>6, <1>7, <2>1 DEF Marks
<1>9. ASSUME NEW k \in 1 .. j, Lead(o, k)
      PROVE  k <= L + 1 /\ d[k].idx = k
  <2>1. CASE k = j
    <3>1. L = j - 1
      <4>1. CASE j = 1
        BY <4>1, <1>1
      <4>2. CASE j # 1
        <5>1. j - 1 \in 1 .. j - 1 /\ \A l \in 1 .. j - 1 : l \in 1 .. k /\ l < k
          BY <2>1, <4>2
        <5>2. Lead(o, j - 1)
          BY <1>9, <5>1 DEF Lead
        <5>3. j - 1 <= L
          BY <1>1, <5>1, <5>2 DEF Covers
        <5> QED BY <1>1, <5>3
      <4> QED BY <4>1, <4>2
    <3> QED BY <1>3, <2>1, <3>1
  <2>2. CASE k # j
    <3>1. k \in 1 .. j - 1
      BY <2>2
    <3>2. k <= L /\ c[k].idx = k
      BY <1>1, <1>9, <3>1 DEF Covers
    <3>3. k \in 1 .. L
      BY <3>2
    <3> QED BY <1>3, <3>2, <3>3
  <2> QED BY <2>1, <2>2
<1>10. Covers(o, d, j)
  BY <1>3, <1>9 DEF Covers
<1> QED BY <1>2, <1>3, <1>5, <1>8, <1>10


\* Reading stops at the first noted section that ends where the ELF file does:
\* what comes behind it is not among the leading ones.
LEMMA ScanEnds ==
    ASSUME NEW o, NEW S, NEW c \in Seq(S), \A s \in S : s.idx \in Nat \ {0},
           NEW j \in Nat, NEW n \in Nat,
           \A m \in 1 .. Len(c) : c[m].idx < j, c # <<>>, Ends(o, c[Len(c)].idx),
           Covers(o, c, j - 1)
    PROVE  Covers(o, c, n)
<1> SUFFICES ASSUME NEW k \in 1 .. n, Lead(o, k)
             PROVE  k <= Len(c) /\ c[k].idx = k
  BY DEF Covers
<1>1. CASE k \in 1 .. j - 1
  BY <1>1 DEF Covers
<1>2. CASE k \notin 1 .. j - 1
  <2>1. Len(c) \in Nat /\ Len(c) # 0 /\ Len(c) \in 1 .. Len(c)
    OBVIOUS
  <2>2. PICK e \in Nat \ {0} : e = c[Len(c)].idx
    BY <2>1
  <2>3. e < j
    BY <2>1, <2>2
  <2>4. e \in 1 .. k /\ e < k
    BY <1>2, <2>3
  <2> QED BY <2>2, <2>4 DEF Lead
<1> QED BY <1>1, <1>2

\* Steps behind read_sections, which change no more than a noted size.
LEMMA MarkedKept ==
    ASSUME Core, Marked, old' = old, pc \notin Scanning, pc' \notin Scanning,
           pc' = "get_keys" => i' = 1,
           Len(compressed') = Len(compressed),
           \A n \in 1 .. Len(compressed) : compressed'[n].idx = compressed[n].idx
    PROVE  Marked'
<1>1. Len(compressed) \in Nat
  BY DEF Core, Listed
<1>2. Marks(old, compressed') /\ Covers(old, compressed', Len(old.phdr))
  BY <1>1, MarksSame DEF Marked
<1> QED BY <1>2 DEF Marked

LEMMA StepMarked ==
    ASSUME Core, Marked, [Next]_vars
    PROVE  Marked'
<1>1. old' = old /\ old \in Originals
  BY OldKept DEF Core, Typed
<1>2. /\ compressed \in Seq(Noted(old)) /\ Len(compressed) \in Nat
      /\ \A s \in Noted(old) : s.idx \in Nat \ {0}
  <2>1. Len(old.phdr) \in Nat
    BY <1>1, PlacesOf
  <2> QED BY <2>1 DEF Core, Listed, Noted
<1>3. i \in Nat \ {0} /\ i \in 1 .. Len(old.phdr) + 1 /\ Len(old.phdr) \in Nat
  BY <1>1, PlacesOf DEF Core, Typed
<1>4. CASE decrypt_header \/ (UNCHANGED vars /\ pc \in Scanning)
  <2>1. pc \in Scanning /\ pc' \in Scanning /\ compressed' = compressed /\ i' = i
    BY <1>4 DEF decrypt_header, vars, Scanning
  <2>2. pc' # "get_keys"
    BY <2>1 DEF Scanning
  <2> QED BY <1>1, <2>1, <2>2 DEF Marked
<1>5. CASE ReadSection
  <2>1. /\ pc = "read_sections" /\ pc' = pc /\ i <= phnum /\ ~AtEnd /\ i' = i + 1
        /\ compressed' = IF Deflated(i)
                         THEN Append(compressed, [idx |-> i, size |-> OldSize(i)])
                         ELSE compressed
    BY <1>5 DEF ReadSection
  <2>2. pc \in Scanning /\ pc' \in Scanning /\ pc' # "get_keys"
    BY <2>1 DEF Scanning
  <2>3. /\ Marks(old, compressed) /\ Covers(old, compressed, i - 1)
        /\ \A n \in 1 .. Len(compressed) : compressed[n].idx < i
    BY <2>2 DEF Marked
  <2>4. compressed = <<>> \/ ~Ends(old, compressed[Len(compressed)].idx)
    BY <2>1 DEF AtEnd, Ends, filesize
  <2>5. i \in 1 .. Len(old.phdr) /\ Len(compressed) < i
    BY <1>3, <2>1 DEF phnum, Core, Where
  <2>6. i' - 1 = i
    BY <1>3, <2>1
  <2>7. CASE Deflated(i)
    <3>1. PICK e \in Noted(old) : e.idx = i /\ compressed' = Append(compressed, e)
      <4>1. OldSize(i) \in Nat \ {0}
        BY <1>1, <2>5, PlacesOf DEF OldSize
      <4> QED BY <2>1, <2>5, <2>7, <4>1 DEF Noted
    <3>2. Section(old.phdr[i])
      BY <2>7 DEF Deflated
    <3>3. \A s \in Noted(old) : s.idx \in Nat
      BY <1>2
    <3>4. /\ Marks(old, Append(compressed, e)) /\ Covers(old, Append(compressed, e), i)
          /\ \A n \in 1 .. Len(Append(compressed, e)) : Append(compressed, e)[n].idx < i + 1
      BY <1>2, <1>3, <2>3, <2>4, <2>5, <3>1, <3>2, <3>3, MarksMore
    <3>5. /\ Marks(old, compressed') /\ Covers(old, compressed', i)
          /\ \A n \in 1 .. Len(compressed') : compressed'[n].idx < i'
      BY <2>1, <3>1, <3>4
    <3> QED BY <1>1, <2>2, <2>6, <3>5 DEF Marked
  <2>8. CASE ~Deflated(i)
    <3>1. compressed' = compressed
      BY <2>1, <2>8
    <3>2. ~Lead(old, i)
      <4>1. i \in 1 .. i
        BY <1>3
      <4> QED BY <2>8, <4>1 DEF Lead, Deflated
    <3>3. \A k \in 1 .. i : k = i \/ k \in 1 .. i - 1
      BY <1>3
    <3>4. Covers(old, compressed, i)
      BY <2>3, <3>2, <3>3 DEF Covers
    <3>5. \A n \in 1 .. Len(compressed) : compressed[n].idx < i + 1
      <4> SUFFICES ASSUME NEW n \in 1 .. Len(compressed)
                   PROVE  compressed[n].idx < i + 1
        OBVIOUS
      <4>1. compressed[n] \in Noted(old)
        BY <1>2
      <4>2. compressed[n].idx \in Nat /\ compressed[n].idx < i
        BY <1>2, <2>3, <4>1
      <4> QED BY <1>3, <4>2
    <3> QED BY <1>1, <2>1, <2>2, <2>3, <2>6, <3>1, <3>4, <3>5 DEF Marked
  <2> QED BY <2>7, <2>8
<1>6. CASE SectionsRead
  <2>1. /\ pc = "read_sections" /\ (i > phnum \/ AtEnd)
        /\ pc' = "get_keys" /\ i' = 1 /\ compressed' = compressed
    BY <1>6 DEF SectionsRead
  <2>2. pc \in Scanning /\ pc' \notin Scanning
    BY <1>6 DEF SectionsRead, Scanning
  <2>3. /\ Marks(old, compressed) /\ Covers(old, compressed, i - 1)
        /\ \A n \in 1 .. Len(compressed) : compressed[n].idx < i
    BY <2>2 DEF Marked
  <2>4. Covers(old, compressed, Len(old.phdr))
    <3>1. CASE AtEnd
      <4>1. compressed # <<>> /\ Ends(old, compressed[Len(compressed)].idx)
        BY <3>1 DEF AtEnd, Ends, filesize
      <4> QED BY <1>2, <1>3, <2>3, <4>1, ScanEnds
    <3>2. CASE ~AtEnd
      <4>1. i - 1 = Len(old.phdr)
        BY <1>3, <1>6, <3>2 DEF SectionsRead, phnum
      <4> QED BY <2>3, <4>1
    <3> QED BY <3>1, <3>2
  <2>5. i' = 1 /\ compressed' = compressed
    BY <1>6 DEF SectionsRead
  <2> QED BY <1>1, <2>2, <2>3, <2>4, <2>5 DEF Marked
<1>7. CASE Replace
  <2>1. /\ pc \notin Scanning /\ pc' \notin Scanning /\ pc' # "get_keys"
        /\ compressed' = [compressed EXCEPT ![i].size = size]
    BY <1>7 DEF Replace, Scanning
  <2>2. i \in 1 .. Len(compressed) /\ size \in Nat \ {0}
    BY <1>2, <1>3, <1>7 DEF Replace, Core, Where, Typed
  <2> DEFINE e == [compressed[i] EXCEPT !.size = size]
  <2>3. compressed' = [compressed EXCEPT ![i] = e]
    BY <2>1
  <2>4. e.idx = compressed[i].idx
    BY <1>2, <2>2 DEF Noted
  <2> HIDE DEF e
  <2>5. /\ Len(compressed') = Len(compressed)
        /\ \A n \in 1 .. Len(compressed) : compressed'[n].idx = compressed[n].idx
    <3>1. \A n \in 1 .. Len(compressed) : compressed'[n] = IF n = i THEN e ELSE compressed[n]
      BY <1>2, <2>2, <2>3
    <3>2. Len(compressed') = Len(compressed)
      BY <1>2, <2>2, <2>3
    <3> QED BY <2>4, <3>1, <3>2
  <2> QED BY <1>1, <2>1, <2>5, MarkedKept
<1>8. CASE \/ get_keys \/ Compress \/ Retry \/ Fits \/ AllWritten \/ calculate_hashes \/ Derail
           \/ sign_header \/ Encrypt \/ Write \/ decrypt \/ Verify
           \/ (UNCHANGED vars /\ pc \notin Scanning)
  <2>1. /\ pc \notin Scanning /\ pc' \notin Scanning /\ compressed' = compressed
        /\ pc' # "get_keys" \/ (i' = i /\ pc = "get_keys")
    BY <1>8 DEF get_keys, Compress, Retry, Fail, Fits, AllWritten, calculate_hashes, Derail,
       sign_header, Encrypt, Write, decrypt, Verify, vars, Scanning
  <2>2. pc' = "get_keys" => i' = 1
    BY <2>1 DEF Marked
  <2> QED BY <1>1, <2>1, <2>2, MarkedKept
<1> QED BY <1>4, <1>5, <1>6, <1>7, <1>8 DEF Next


-----------------------------------------------------------------------------
LEMMA LaidSame ==
    ASSUME NEW o, NEW c, NEW d, NEW ms, NEW s, NEW w, Laid(o, c, ms, s, w),
           \A n \in 1 .. w : d[n].idx = c[n].idx
    PROVE  Laid(o, d, ms, s, w)
BY DEF Laid

\* One section more is replaced.
LEMMA LaidMore ==
    ASSUME NEW o \in Originals, NEW c, NEW ms, NEW s, NEW j \in Nat \ {0},
           Laid(o, c, ms, s, j - 1),
           \A n \in 1 .. j : c[n].idx \in 1 .. Len(o.phdr),
           \A n, m \in 1 .. j : n < m => c[n].idx # c[m].idx,
           ms \in [1 .. Len(o.phdr) -> Nat \ {0}], j \in 1 .. Len(o.phdr),
           NEW z \in Nat \ {0}, z <= Size(o.phdr[c[j].idx]),
           NEW t, t = [x \in DOMAIN s |-> IF x \in Spot(o, c[j].idx, z)
                                          THEN Renewed(o, j, c[j].idx, z, x) ELSE s[x]]
    PROVE  Laid(o, c, [ms EXCEPT ![j] = z], t, j)
<1>1. PICK k \in 1 .. Len(o.phdr) : k = c[j].idx
  <2>1. j \in 1 .. j
    OBVIOUS
  <2> QED BY <2>1
<1>2. PICK u : u = [ms EXCEPT ![j] = z]
  OBVIOUS
<1>3. u[j] = z /\ \A n \in 1 .. Len(o.phdr) : n # j => u[n] = ms[n]
  BY <1>2
<1>4. DOMAIN s = HeaderSize .. o.phdr[Len(o.phdr)].at + Size(o.phdr[Len(o.phdr)]) - 1
  BY DEF Laid
<1>5. /\ DOMAIN t = DOMAIN s
      /\ \A x \in DOMAIN s : x \in Spot(o, k, z) => t[x] = Renewed(o, j, k, z, x)
      /\ \A x \in DOMAIN s : x \notin Spot(o, k, z) => t[x] = s[x]
  BY <1>1
<1>6. \A x : x \in Spot(o, k, z) => x \in Spot(o, k, Size(o.phdr[k]))
  <2>1. o.phdr[k].at \in Nat /\ Size(o.phdr[k]) \in Nat /\ z <= Size(o.phdr[k])
    BY <1>1, PlacesOf
  <2> QED BY <2>1 DEF Spot
<1>7. ASSUME NEW l \in 1 .. Len(o.phdr), NEW x \in Spot(o, l, Size(o.phdr[l]))
      PROVE  x \in DOMAIN s /\ (l # k => x \notin Spot(o, k, z))
  BY <1>4, <1>6, CellInside, NoCellShared
<1>8. ASSUME NEW n \in 1 .. j
      PROVE  /\ u[n] <= Size(o.phdr[c[n].idx])
             /\ \A x \in Spot(o, c[n].idx, u[n]) : t[x] = Renewed(o, n, c[n].idx, u[n], x)
  <2>1. CASE n = j
    <3>1. \A x \in Spot(o, k, z) : t[x] = Renewed(o, j, k, z, x)
      BY <1>5, <1>6, <1>7
    <3> QED BY <1>1, <1>3, <2>1, <3>1
  <2>2. CASE n # j
    <3>1. n \in 1 .. j - 1 /\ n \in 1 .. Len(o.phdr) /\ n < j /\ j \in 1 .. j
      BY <2>2, PlacesOf
    <3>2. PICK l \in 1 .. Len(o.phdr) : l = c[n].idx
      OBVIOUS
    <3>3. l # k
      BY <1>1, <3>1, <3>2
    <3>4. u[n] = ms[n] /\ ms[n] <= Size(o.phdr[l]) /\ ms[n] \in Nat
      BY <1>3, <2>2, <3>1, <3>2 DEF Laid
    <3>5. \A x : x \in Spot(o, l, ms[n]) => x \in Spot(o, l, Size(o.phdr[l]))
      <4>1. o.phdr[l].at \in Nat /\ Size(o.phdr[l]) \in Nat
        BY PlacesOf
      <4> QED BY <3>4, <4>1 DEF Spot
    <3>6. \A x \in Spot(o, l, ms[n]) : s[x] = Renewed(o, n, l, ms[n], x)
      BY <3>1, <3>2 DEF Laid
    <3>7. \A x \in Spot(o, l, ms[n]) : t[x] = s[x]
      BY <1>5, <1>7, <3>3, <3>5
    <3> QED BY <3>2, <3>4, <3>6, <3>7
  <2> QED BY <2>1, <2>2
<1>9. ASSUME NEW l \in 1 .. Len(o.phdr)
      PROVE  /\ l > j => u[l] = Size(o.phdr[l])
             /\ (\A n \in 1 .. j : c[n].idx # l) =>
                   \A x \in Spot(o, l, Size(o.phdr[l])) : t[x] = Origin(o, l, x)
  <2>1. ASSUME l > j PROVE u[l] = Size(o.phdr[l])
    <3>1. l > j - 1 /\ l # j
      BY <2>1, PlacesOf
    <3> QED BY <1>3, <3>1 DEF Laid
  <2>2. ASSUME \A n \in 1 .. j : c[n].idx # l, NEW x \in Spot(o, l, Size(o.phdr[l]))
        PROVE  t[x] = Origin(o, l, x)
    <3>1. j \in 1 .. j /\ \A n \in 1 .. j - 1 : n \in 1 .. j
      OBVIOUS
    <3>2. l # k
      BY <1>1, <2>2, <3>1
    <3>3. s[x] = Origin(o, l, x)
      BY <2>2, <3>1 DEF Laid
    <3> QED BY <1>5, <1>7, <3>2, <3>3
  <2> QED BY <2>1, <2>2
<1>10. Laid(o, c, u, t, j)
  BY <1>4, <1>5, <1>8, <1>9 DEF Laid
<1> QED BY <1>2, <1>10


LEMMA StepContents ==
    ASSUME IInv, Marked, Contents, [Next]_vars
    PROVE  Contents'
<1>1. old' = old /\ known' = known /\ old \in Originals /\ known \in BOOLEAN
  BY OldKept DEF IInv, Core, Typed
<1>2. /\ compressed \in Seq(Noted(old)) /\ Len(compressed) \in Nat
      /\ Len(compressed) <= Len(old.phdr) /\ Len(old.phdr) \in Nat
  BY <1>1, PlacesOf DEF IInv, Core, Listed
<1>3. i \in Nat \ {0} /\ size \in Nat
  BY <1>2 DEF IInv, Core, Typed
<1>4. CASE ReadSection
  <2>1. /\ pc = "read_sections" /\ pc' = pc /\ UNCHANGED <<msizes, self>>
    BY <1>4 DEF ReadSection, file
  <2>2. Laid(old, compressed, msizes, self, 0)
    BY <2>1 DEF Contents, Scanning
  <2>3. \A n \in 1 .. 0 : compressed'[n].idx = compressed[n].idx
    OBVIOUS
  <2>4. Laid(old, compressed', msizes, self, 0)
    BY <2>2, <2>3, LaidSame
  <2> QED BY <1>1, <2>1, <2>4 DEF Contents, Scanning, Writing, Clear
<1>5. CASE decrypt_header \/ SectionsRead
  BY <1>1, <1>5 DEF decrypt_header, SectionsRead, file, Contents, Scanning, Writing, Clear
<1>6. CASE get_keys
  <2>1. /\ pc = "get_keys" /\ pc' \in {"write_sections", "failed"}
        /\ UNCHANGED <<msizes, self, compressed, i>>
    BY <1>6 DEF get_keys, file
  <2>2. i = 1
    BY <2>1 DEF Marked
  <2>3. i' - 1 = 0 /\ i' <= Len(compressed) + 1
    BY <1>2, <2>1, <2>2
  <2>4. Laid(old, compressed, msizes, self, 0)
    BY <2>1 DEF Contents
  <2> QED BY <1>1, <2>1, <2>3, <2>4 DEF Contents, Scanning, Writing, Clear
<1>7. CASE Compress \/ Retry \/ Fits
  BY <1>1, <1>7 DEF Compress, Retry, Fail, Fits, file, Contents, Scanning, Writing, Clear
<1>8. CASE Replace
  <2>1. /\ pc = "replace" /\ pc' = "write_sections" /\ self' = Put(i) /\ i' = i + 1
        /\ msizes' = [msizes EXCEPT ![i] = size]
        /\ compressed' = [compressed EXCEPT ![i].size = size]
    BY <1>8 DEF Replace
  <2>2. i \in 1 .. Len(compressed) /\ size \in Nat \ {0} /\ size <= compressed[i].size
    BY <1>2, <1>3, <2>1 DEF IInv, Core, Where
  <2>3. Laid(old, compressed, msizes, self, i - 1)
    BY <2>1 DEF Contents, Writing
  <2>4. \A n \in 1 .. Len(compressed) :
           /\ compressed[n].idx \in 1 .. Len(old.phdr)
           /\ compressed[n].size \in Nat
           /\ compressed[n].size <= Size(old.phdr[compressed[n].idx])
    <3>1. \A n \in 1 .. Len(compressed) : compressed[n] \in Noted(old)
      BY <1>2
    <3> QED BY <3>1 DEF Noted, IInv, Core, Listed
  <2>5. \A n \in 1 .. i : n \in 1 .. Len(compressed)
    BY <1>2, <2>2
  <2>6. \A n, m \in 1 .. i : n < m => compressed[n].idx # compressed[m].idx
    <3> SUFFICES ASSUME NEW n \in 1 .. i, NEW m \in 1 .. i, n < m
                 PROVE  compressed[n].idx # compressed[m].idx
      OBVIOUS
    <3>1. compressed[n].idx < compressed[m].idx
      BY <2>5 DEF Marked, Marks
    <3>2. compressed[n].idx \in Nat /\ compressed[m].idx \in Nat
      BY <1>2, <2>4, <2>5
    <3> QED BY <3>1, <3>2
  <2>7. size <= Size(old.phdr[compressed[i].idx])
    <3>1. compressed[i].idx \in 1 .. Len(old.phdr) /\ compressed[i].size \in Nat
          /\ compressed[i].size <= Size(old.phdr[compressed[i].idx])
      BY <2>2, <2>4
    <3>2. Size(old.phdr[compressed[i].idx]) \in Nat
      BY <1>1, <3>1, PlacesOf
    <3> QED BY <2>2, <3>1, <3>2
  <2>8. self' = [x \in DOMAIN self |->
                   IF x \in Spot(old, compressed[i].idx, size)
                   THEN Renewed(old, i, compressed[i].idx, size, x) ELSE self[x]]
    BY <2>1 DEF Put, Spot, Renewed, offset
  <2>9. msizes \in [1 .. Len(old.phdr) -> Nat \ {0}] /\ i \in 1 .. Len(old.phdr)
    BY <1>2, <2>2 DEF IInv, Core, Typed
  <2>10. Laid(old, compressed, msizes', self', i)
    <3>1. \A n \in 1 .. i : compressed[n].idx \in 1 .. Len(old.phdr)
      BY <2>4, <2>5
    <3>2. PICK t : t = self'
      OBVIOUS
    <3>3. Laid(old, compressed, [msizes EXCEPT ![i] = size], t, i)
      BY <1>1, <1>3, <2>2, <2>3, <2>6, <2>7, <2>8, <2>9, <3>1, <3>2, LaidMore
    <3> QED BY <2>1, <3>2, <3>3
  <2>11. /\ Len(compressed') = Len(compressed)
         /\ \A n \in 1 .. Len(compressed) : compressed'[n].idx = compressed[n].idx
    <3> DEFINE e == [compressed[i] EXCEPT !.size = size]
    <3>1. compressed' = [compressed EXCEPT ![i] = e]
      BY <2>1
    <3>2. e.idx = compressed[i].idx
      BY <1>2, <2>2 DEF Noted
    <3> HIDE DEF e
    <3>3. \A n \in 1 .. Len(compressed) : compressed'[n] = IF n = i THEN e ELSE compressed[n]
      BY <1>2, <2>2, <3>1
    <3>4. Len(compressed') = Len(compressed)
      BY <1>2, <2>2, <3>1
    <3> QED BY <3>2, <3>3, <3>4
  <2>12. Laid(old, compressed', msizes', self', i)
    BY <2>5, <2>10, <2>11, LaidSame
  <2>13. i' - 1 = i /\ i' <= Len(compressed') + 1
    BY <1>2, <1>3, <2>1, <2>2, <2>11
  <2> QED BY <1>1, <2>1, <2>12, <2>13 DEF Contents, Scanning, Writing, Clear
<1>9. CASE AllWritten
  <2>1. /\ pc = "write_sections" /\ i > Len(compressed) /\ pc' = "calculate_hashes"
        /\ UNCHANGED <<msizes, self, compressed>>
    BY <1>9 DEF AllWritten, file
  <2>2. i <= Len(compressed) + 1 /\ Laid(old, compressed, msizes, self, i - 1)
    BY <2>1 DEF Contents, Writing
  <2>3. i - 1 = Len(compressed)
    BY <1>2, <1>3, <2>1, <2>2
  <2> QED BY <1>1, <2>1, <2>2, <2>3 DEF Contents, Scanning, Writing, Clear
<1>10. CASE calculate_hashes \/ Derail \/ sign_header \/ Write \/ Verify \/ UNCHANGED vars
  BY <1>1, <1>10 DEF calculate_hashes, Derail, sign_header, Write, Verify, vars, file,
     Contents, Scanning, Writing, Clear
<1>11. CASE Encrypt
  <2>1. /\ pc = "encrypt" /\ pc' = "write" /\ UNCHANGED <<msizes, compressed>>
        /\ header = "plain" => self' = sce_decrypt_data(self)
    BY <1>11 DEF Encrypt
  <2>2. known => self' = Toggled(old, msizes, self)
    BY <1>1, <2>1, ToggledIs DEF IInv, Opened
  <2>3. known => Toggled(old, msizes, self') = self
    BY <2>2, Twice DEF IInv, Placed
  <2>4. known => Laid(old, compressed, msizes, self, Len(compressed))
    BY <2>1 DEF Contents, Clear
  <2> QED BY <1>1, <2>1, <2>3, <2>4 DEF Contents, Scanning, Writing, Clear
<1>12. CASE decrypt
  <2>1. /\ pc = "decrypt" /\ UNCHANGED <<msizes, compressed>>
        /\ pc' = "failed" \/ (pc' = "verify" /\ self' = sce_decrypt_data(self))
    BY <1>12 DEF decrypt
  <2> QED BY <1>1, <2>1, ToggledIs DEF Contents, Scanning, Writing, Clear
<1> QED BY <1>4, <1>5, <1>6, <1>7, <1>8, <1>9, <1>10, <1>11, <1>12 DEF Next

\* What is in memory after decrypting is what the file decrypts to.
LEMMA StepKept ==
    ASSUME IInv, Kept, [Next]_vars
    PROVE  Kept'
<1>1. old' = old
  BY OldKept
<1>2. CASE Write
  BY <1>2 DEF Write, file, Kept
<1>3. CASE decrypt
  <2>1. /\ pc = "decrypt" /\ UNCHANGED <<msizes, out>>
        /\ pc' = "failed" \/ (pc' = "verify" /\ self' = sce_decrypt_data(self))
    BY <1>3 DEF decrypt
  <2>2. pc' = "verify" => Toggled(old, msizes, self') = self
    BY <2>1, ToggledIs, Twice DEF IInv, Placed
  <2> QED BY <1>1, <2>1, <2>2 DEF Kept
<1>4. CASE Verify \/ UNCHANGED vars
  BY <1>1, <1>4 DEF Verify, vars, file, Kept
<1>5. CASE \/ decrypt_header \/ ReadSection \/ SectionsRead \/ get_keys \/ Compress \/ Retry
           \/ Fits \/ Replace \/ AllWritten \/ calculate_hashes \/ Derail \/ sign_header \/ Encrypt
  <2>1. pc' \notin {"decrypt", "verify", "finished"}
    BY <1>5 DEF decrypt_header, ReadSection, SectionsRead, get_keys, Compress, Retry, Fail, Fits,
       Replace, AllWritten, calculate_hashes, Derail, sign_header, Encrypt
  <2> QED BY <2>1 DEF Kept
<1> QED BY <1>2, <1>3, <1>4, <1>5 DEF Next

LEMMA StepRInv == RInv /\ [Next]_vars => RInv'
<1> SUFFICES ASSUME RInv, [Next]_vars PROVE RInv'
  OBVIOUS
<1>1. IInv'
  BY StepCore, StepPlaced, StepOpened, StepVouched DEF RInv, IInv
<1> QED BY <1>1, StepMarked, StepContents, StepKept DEF RInv, IInv


-----------------------------------------------------------------------------
\* The two ways to say that an original's section is among the leading ones.
LEMMA LeadIs ==
    ASSUME old \in Originals, NEW k \in Sections
    PROVE  Leading(k) <=> Lead(old, k)
<1>1. PICK f \in Int : f = round_up(old.size, Alignment) /\ f = filesize
  <2>1. old.size \in Nat /\ Alignment \in Nat \ {0}
    BY OriginalsAssumption DEF OriginalsAssumption
  <2>2. round_up(old.size, Alignment) \in Int
    BY <2>1 DEF round_up
  <2> QED BY <2>2 DEF filesize
<1>2. \A l \in 1 .. k : /\ l \in 1 .. Len(old.phdr)
                        /\ old.phdr[l].off + old.phdr[l].len \in Nat
  <2> SUFFICES ASSUME NEW l \in 1 .. k
               PROVE  l \in 1 .. Len(old.phdr) /\ old.phdr[l].off + old.phdr[l].len \in Nat
    OBVIOUS
  <2>1. l \in 1 .. Len(old.phdr)
    BY OriginalTyped DEF Sections, phnum
  <2>2. old.phdr[l] \in Old
    BY <2>1, OriginalTyped
  <2> QED BY <2>1, <2>2 DEF Old
<1>3. \A l \in 1 .. k : old.phdr[l].off + old.phdr[l].len < filesize <=> ~Ends(old, l)
  BY <1>1, <1>2 DEF Ends
<1> QED BY <1>3 DEF Leading, Lead, Deflated

LEMMA NewIs == RInv => NewComesOut
<1> SUFFICES ASSUME RInv, pc = "finished", NEW k \in Sections
             PROVE  ComesOut(k) <=> Leading(k)
  BY DEF NewComesOut
<1>1. old \in Originals /\ known /\ k \in 1 .. Len(old.phdr)
  BY DEF RInv, IInv, Core, Typed, Opened, Sections, phnum
<1>2. PICK L \in Nat : L = Len(compressed)
  BY DEF RInv, IInv, Core, Listed
<1>3. Laid(old, compressed, msizes, self, L) /\ msizes = sizes
  BY <1>1, <1>2 DEF RInv, Contents, Clear, IInv, Core, Typed
<1>4. Marks(old, compressed) /\ Covers(old, compressed, Len(old.phdr))
  BY DEF RInv, Marked, Scanning
<1>5. Len(old.phdr) \in Nat /\ old.phdr[k].at \in Nat /\ Size(old.phdr[k]) \in Nat \ {0}
  BY <1>1, PlacesOf
<1>6. ASSUME Leading(k) PROVE ComesOut(k)
  <2>1. Lead(old, k)
    BY <1>1, <1>6, LeadIs
  <2>2. k <= L /\ compressed[k].idx = k
    BY <1>1, <1>2, <1>4, <2>1 DEF Covers
  <2>3. k \in 1 .. L /\ k \in 1 .. k
    BY <1>1, <1>2, <1>5, <2>2
  <2>4. \A x \in Spot(old, k, sizes[k]) : self[x] = Renewed(old, k, k, sizes[k], x)
    BY <1>3, <2>2, <2>3 DEF Laid
  <2>5. Deflated(k)
    BY <2>1, <2>3 DEF Lead, Deflated
  <2> QED BY <2>4, <2>5 DEF ComesOut, At, offset, Spot, Renewed
<1>7. ASSUME ComesOut(k) PROVE Leading(k)
  <2>1. PICK a \in Nat : a = old.phdr[k].at
    BY <1>5
  <2>2. a \in Spot(old, k, Size(old.phdr[k]))
    BY <1>5, <2>1 DEF Spot
  <2>3. a \in DOMAIN self
    BY <1>1, <1>3, <2>2, CellInside DEF Laid
  <2>4. sizes[k] \in Nat \ {0}
    BY <1>1 DEF RInv, IInv, Core, Typed
  <2>5. a \in At(k, sizes[k])
    BY <2>1, <2>4 DEF At, offset
  <2>6. self[a].c = <<"new", k, sizes[k], a - offset(k)>>
    <3>1. self[a] = Cell(<<"new", k, sizes[k], a - offset(k)>>, {})
      BY <1>7, <2>5 DEF ComesOut
    <3> QED BY <3>1, CellIs
  <2>7. PICK n \in 1 .. L : Fill(old, a, n, compressed) /\ self[a].c[2] = n
    <3>1. InPlace(old, compressed, self)
      BY DEF RInv, IInv, Placed
    <3> QED BY <1>2, <2>3, <2>6, <3>1 DEF InPlace
  <2>8. n = k
    BY <2>6, <2>7
  <2>9. k \in 1 .. L /\ Fill(old, a, k, compressed)
    BY <2>7, <2>8
  <2>10. compressed[k].idx \in 1 .. Len(old.phdr)
    <3>1. compressed[k] \in Noted(old)
      BY <1>2, <2>9 DEF RInv, IInv, Core, Listed
    <3> QED BY <3>1 DEF Noted
  <2>11. compressed[k].idx = k
    BY <1>1, <2>2, <2>9, <2>10, NoCellShared DEF Fill
  <2>12. \A l \in 1 .. k : compressed[l].idx = l /\ l \in 1 .. L
    <3> SUFFICES ASSUME NEW l \in 1 .. k
                 PROVE  compressed[l].idx = l /\ l \in 1 .. L
      OBVIOUS
    <3>1. l \in 1 .. L /\ (l = k \/ l \in 1 .. k - 1)
      BY <2>9
    <3>2. \A m \in 1 .. k - 1 : compressed[m].idx = m
      BY <1>2, <1>4, <2>9, <2>11 DEF Marks
    <3> QED BY <2>11, <3>1, <3>2
  <2>13. \A l \in 1 .. k : Section(old.phdr[l])
    BY <1>2, <1>4, <2>12 DEF Marks
  <2>14. \A l \in 1 .. k : l < k => ~Ends(old, l)
    <3> SUFFICES ASSUME NEW l \in 1 .. k, l < k
                 PROVE  ~Ends(old, l)
      OBVIOUS
    <3>1. l \in 1 .. Len(compressed) - 1
      BY <1>2, <2>9
    <3> QED BY <1>4, <2>12, <3>1 DEF Marks
  <2> QED BY <1>1, <2>13, <2>14, LeadIs DEF Lead
<1> QED BY <1>6, <1>7

\* Where contents and headers fit together, the rest is the original's.
LEMMA RestIs == RInv => RawTurnedOver
<1> SUFFICES ASSUME RInv, pc = "finished", Fitting,
                    NEW k \in Len(compressed) + 1 .. phnum, NEW x \in Place(k)
             PROVE  /\ self[x].c = <<"old", k, x - offset(k)>>
                    /\ out[x].k = {}
                    /\ self[x].k = {} <=> ~old.phdr[k].load
  BY DEF RawTurnedOver
<1>1. PICK L \in Nat : L = Len(compressed)
  BY DEF RInv, IInv, Core, Listed
<1>2. /\ old \in Originals /\ known /\ k \in 1 .. Len(old.phdr) /\ k > L
      /\ Len(old.phdr) \in Nat /\ L <= Len(old.phdr)
  <2>1. old \in Originals /\ known
    BY DEF RInv, IInv, Core, Typed, Opened
  <2>2. Len(old.phdr) \in Nat
    BY <2>1, PlacesOf
  <2>3. k \in 1 .. Len(old.phdr) /\ k > L
    BY <1>1, <2>2 DEF phnum
  <2>4. L <= Len(old.phdr)
    BY <1>1 DEF RInv, IInv, Core, Listed
  <2> QED BY <2>1, <2>2, <2>3, <2>4
<1>3. Laid(old, compressed, msizes, self, L)
  BY <1>1, <1>2 DEF RInv, Contents, Clear
<1>4. \A n \in 1 .. L : compressed[n].idx = n
  BY <1>1 DEF Fitting
<1>5. x \in Spot(old, k, Size(old.phdr[k]))
  BY DEF Place, At, offset, OldSize, Spot
<1>6. self[x] = Origin(old, k, x)
  <2>1. \A n \in 1 .. L : compressed[n].idx # k
    BY <1>2, <1>4
  <2> QED BY <1>2, <1>3, <1>5, <2>1 DEF Laid
<1>7. PICK s : /\ s = IF old.phdr[k].load THEN {<<k, x - old.phdr[k].at>>} ELSE {}
               /\ self[x] = Cell(<<"old", k, x - old.phdr[k].at>>, s)
  BY <1>6 DEF Origin
<1>8. self[x].c = <<"old", k, x - offset(k)>> /\ self[x].k = s
  BY <1>7, CellIs DEF offset
<1>9. s = {} <=> ~old.phdr[k].load
  BY <1>7
<1>10. msizes[k] = Size(old.phdr[k])
  BY <1>2, <1>3 DEF Laid
<1>11. ASSUME NEW l \in 1 .. Len(old.phdr), x \in Spot(old, l, msizes[l])
       PROVE  l = k
  <2>1. msizes[l] <= Size(old.phdr[l])
    <3>1. CASE l \in 1 .. L
      BY <1>3, <1>4, <3>1 DEF Laid
    <3>2. CASE l \notin 1 .. L
      <4>1. l > L
        BY <1>2, <3>2
      <4>2. msizes[l] = Size(old.phdr[l]) /\ Size(old.phdr[l]) \in Nat
        BY <1>2, <1>3, <4>1, PlacesOf DEF Laid
      <4> QED BY <4>2
    <3> QED BY <3>1, <3>2
  <2>2. msizes[l] \in Nat /\ old.phdr[l].at \in Nat /\ Size(old.phdr[l]) \in Nat
    BY <1>2, PlacesOf DEF RInv, IInv, Core, Typed
  <2>3. x \in Spot(old, l, Size(old.phdr[l]))
    BY <1>11, <2>1, <2>2 DEF Spot
  <2> QED BY <1>2, <1>5, <2>3, NoCellShared
<1>12. Stream(old, msizes, x) = s
  <2>1. x \in Spot(old, k, msizes[k])
    BY <1>5, <1>10
  <2>2. {l \in 1 .. Len(old.phdr) : old.phdr[l].load /\ x \in Spot(old, l, msizes[l])}
          = IF old.phdr[k].load THEN {k} ELSE {}
    BY <1>2, <1>11, <2>1
  <2> QED BY <1>7, <2>2 DEF Stream
<1>13. out[x].k = {}
  <2>1. out = Toggled(old, msizes, self)
    BY DEF RInv, Kept
  <2>2. x \in DOMAIN self
    BY <1>2, <1>3, <1>5, CellInside DEF Laid
  <2>3. out[x] = Cell(self[x].c, (self[x].k \ Stream(old, msizes, x))
                                   \union (Stream(old, msizes, x) \ self[x].k))
    BY <2>1, <2>2 DEF Toggled
  <2>4. out[x].k = (s \ s) \union (s \ s)
    BY <1>8, <1>12, <2>3, CellIs
  <2> QED BY <2>4
<1> QED BY <1>8, <1>9, <1>13

\* A reader gets the new segments exactly where the original's are deflated from
\* the first one on; where nothing else is replaced, the rest comes out as the
\* original's, the encrypted sections with their key stream still on.
THEOREM ReaderGetsThem == Spec => []ReaderGets
<1>1. Spec => []RInv
  BY InitRInv, StepRInv, PTL DEF Spec
<1>2. RInv => ReaderGets
  BY NewIs, RestIs DEF ReaderGets
<1> QED BY <1>1, <1>2, PTL
=================================================================================
