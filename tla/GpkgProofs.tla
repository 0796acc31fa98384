------------------------------ MODULE GpkgProofs ------------------------------
(***************************************************************************)
(* Proofs about the two tools that decrypt a file with a key of            *)
(* key_get_simple and then decide what to write, the components of         *)
(* KeyedTools: Gpkg, for every package, of any size, and every block size  *)
(* and width of the loop's counter; and DatFile, for texts of any length,  *)
(* any keys and any block size.                                            *)
(***************************************************************************)
EXTENDS KeyedTools, SequenceTheorems, FiniteSetTheorems, WellFoundedInduction, TLAPS

\* The mapping of a package of n bytes of data with the key stream off the
\* first m of them.
Cleared(n, m) ==
    [x \in 0 .. HeaderLen + n - 1 |-> IF x < HeaderLen + m THEN None ELSE x - HeaderLen]

\* Where aes128ctr stands, whatever its counter has lost.
pos == ctr * Unit + (i % Unit)

Debug ==
    /\ i <= p.size /\ pkg = Cleared(p.size, i)
    /\ ctr * Unit <= i /\ i <= ctr * Unit + Unit
    /\ i # 0 => ctr * Unit < i

Retail ==
    /\ i < Word /\ i <= p.size
    /\ pos <= p.size /\ pkg = Cleared(p.size, pos)
    /\ p.size < Word => pos = i

Where ==
    /\ pc = "start" => i = 0 /\ ctr = 0 /\ pkg = Cleared(p.size, 0)
    /\ pc = "debug" => Debug
    /\ pc = "retail" => Retail /\ p.retail
    /\ pc = "overrun" => p.retail /\ Word <= p.size
    /\ pc \in {"unpack", "done"} => pkg = Cleared(p.size, p.size)

Tree == IsDir(<<>>) /\ \A path \in DOMAIN fs : path = <<>> \/ IsDir(Parent(path))

IInv ==
    /\ p \in Packages
    /\ pc \in {"start", "debug", "retail", "unpack", "done", "failed", "crashed", "overrun"}
    /\ i \in 0 .. p.size + Entries + 1 /\ ctr \in 0 .. p.size + 1
    /\ \E m \in 0 .. p.size : pkg = Cleared(p.size, m)
    /\ Where
    /\ Tree

-----------------------------------------------------------------------------
(* Arithmetic. *)

LEMMA Quotient ==
    ASSUME NEW x \in Nat
    PROVE  \E q \in Nat : x = q * Unit + (x % Unit) /\ x % Unit \in 0 .. Unit - 1
<1>1. Unit \in Nat \ {0} BY GpkgAssumption DEF GpkgAssumption
<1>2. x = (x \div Unit) * Unit + (x % Unit) /\ x % Unit \in 0 .. Unit - 1
      /\ x \div Unit \in Nat
  BY <1>1
<1> QED BY <1>2

\* Division with remainder has one result.
LEMMA Division ==
    ASSUME NEW u \in Nat \ {0}, NEW q \in Nat, NEW r \in 0 .. u - 1
    PROVE  (q * u + r) \div u = q /\ (q * u + r) % u = r /\ q * u + r \in Nat
<1>1. PICK x \in Nat : x = q * u + r
  <2>1. q * u + r \in Nat OBVIOUS
  <2> QED BY <2>1
<1>2. x = (x \div u) * u + (x % u) /\ x % u \in 0 .. u - 1 /\ x \div u \in Nat OBVIOUS
<1>3. PICK k \in Nat : k = x \div u BY <1>2
<1>4. PICK s \in 0 .. u - 1 : s = x % u BY <1>2
<1>5. q * u + r = k * u + s BY <1>1, <1>2, <1>3, <1>4
<1>6. q = k
  <2>1. CASE q < k
    <3>1. PICK d \in Nat : k = q + 1 + d
      <4>1. k - q - 1 \in Nat /\ k = q + 1 + (k - q - 1) BY <2>1
      <4> QED BY <4>1
    <3>2. r = u + d * u + s BY <1>5, <3>1
    <3>3. d * u \in Nat OBVIOUS
    <3> QED BY <3>2, <3>3
  <2>2. CASE k < q
    <3>1. PICK d \in Nat : q = k + 1 + d
      <4>1. q - k - 1 \in Nat /\ q = k + 1 + (q - k - 1) BY <2>2
      <4> QED BY <4>1
    <3>2. s = u + d * u + r BY <1>5, <3>1
    <3>3. d * u \in Nat OBVIOUS
    <3> QED BY <3>2, <3>3
  <2> QED BY <2>1, <2>2
<1>7. r = s
  <2>1. PICK z \in Nat : z = q * u
    <3>1. q * u \in Nat OBVIOUS
    <3> QED BY <3>1
  <2> QED BY <2>1, <1>5, <1>6
<1> QED BY <1>1, <1>3, <1>4, <1>6, <1>7

\* A remainder is what is left below Unit.
LEMMA Unique ==
    ASSUME NEW q \in Nat, NEW r \in 0 .. Unit - 1
    PROVE  (q * Unit + r) % Unit = r
<1>1. Unit \in Nat \ {0} BY GpkgAssumption DEF GpkgAssumption
<1> QED BY <1>1, Division

\* The next remainder: one more, or none behind the last.
LEMMA Next2 ==
    ASSUME NEW x \in Nat
    PROVE  (x + 1) % Unit = IF x % Unit = Unit - 1 THEN 0 ELSE (x % Unit) + 1
<1>1. Unit \in Nat \ {0} BY GpkgAssumption DEF GpkgAssumption
<1>2. PICK q \in Nat : x = q * Unit + (x % Unit) /\ x % Unit \in 0 .. Unit - 1
  BY Quotient
<1>3. PICK s \in 0 .. Unit - 1 : s = x % Unit BY <1>2
<1>4. CASE s = Unit - 1
  <2>1. x + 1 = (q + 1) * Unit + 0
    <3>1. x + 1 = q * Unit + Unit BY <1>1, <1>2, <1>3, <1>4
    <3> QED BY <3>1, <1>1
  <2>2. q + 1 \in Nat /\ 0 \in 0 .. Unit - 1 BY <1>1
  <2>3. ((q + 1) * Unit + 0) % Unit = 0 BY <2>2, Unique
  <2> QED BY <2>1, <2>3, <1>3, <1>4
<1>5. CASE s # Unit - 1
  <2>1. x + 1 = q * Unit + (s + 1)
    <3>1. PICK z \in Nat : z = q * Unit
      <4>1. q * Unit \in Nat BY <1>1
      <4> QED BY <4>1
    <3> QED BY <3>1, <1>2, <1>3
  <2>2. s + 1 \in 0 .. Unit - 1 BY <1>1, <1>5
  <2>3. (q * Unit + (s + 1)) % Unit = s + 1 BY <2>2, Unique
  <2> QED BY <2>1, <2>3, <1>3, <1>5
<1> QED BY <1>4, <1>5

LEMMA Wraps ==
    ASSUME NEW m \in Nat \ {0}
    PROVE  m % m = 0 /\ \A x \in 0 .. m - 1 : x % m = x
OBVIOUS

-----------------------------------------------------------------------------
\* Taking the right byte of the key stream off the next byte.
LEMMA OneMore ==
    ASSUME NEW n \in Nat, NEW m \in Nat, m < n, pkg = Cleared(n, m)
    PROVE  /\ HeaderLen + m \in DOMAIN pkg
           /\ [pkg EXCEPT ![HeaderLen + m] = Taken(HeaderLen + m, m)] = Cleared(n, m + 1)
<1>1. HeaderLen \in Nat BY GpkgAssumption DEF GpkgAssumption
<1>2. HeaderLen + m \in 0 .. HeaderLen + n - 1 BY <1>1
<1>3. pkg[HeaderLen + m] = m BY <1>1, <1>2 DEF Cleared
<1>4. Taken(HeaderLen + m, m) = None BY <1>3 DEF Taken
<1>5. DOMAIN pkg = 0 .. HeaderLen + n - 1 BY DEF Cleared
<1>6. [pkg EXCEPT ![HeaderLen + m] = None]
         = [x \in 0 .. HeaderLen + n - 1 |-> IF x = HeaderLen + m THEN None ELSE pkg[x]]
  BY <1>2, <1>5
<1>7. ASSUME NEW x \in 0 .. HeaderLen + n - 1
      PROVE  (IF x = HeaderLen + m THEN None ELSE pkg[x])
             = (IF x < HeaderLen + (m + 1) THEN None ELSE x - HeaderLen)
  <2>1. pkg[x] = IF x < HeaderLen + m THEN None ELSE x - HeaderLen BY DEF Cleared
  <2>2. x \in Int /\ HeaderLen + m \in Int BY <1>1
  <2> QED BY <2>1, <2>2, <1>1
<1> QED BY <1>2, <1>4, <1>5, <1>6, <1>7 DEF Cleared

LEMMA InitIInv == Init => IInv
<1> SUFFICES ASSUME Init PROVE IInv OBVIOUS
<1>1. /\ p \in Packages /\ pc = "start" /\ i = 0 /\ ctr = 0
      /\ pkg = [x \in 0 .. HeaderLen + p.size - 1 |-> IF x < HeaderLen THEN None ELSE x - HeaderLen]
      /\ fs = [path \in {<<>>} |-> Dir]
  BY DEF Init
<1>2. HeaderLen \in Nat /\ p.size \in Nat /\ Entries \in Nat
  BY <1>1, GpkgAssumption DEF GpkgAssumption, Entries
<1>3. pkg = Cleared(p.size, 0) BY <1>1, <1>2 DEF Cleared
<1>4. Tree BY <1>1 DEF Tree, IsDir, Dir
<1>5. 0 \in 0 .. p.size /\ i \in 0 .. p.size + Entries + 1 /\ ctr \in 0 .. p.size + 1
  BY <1>1, <1>2
<1>6. Where BY <1>1, <1>3 DEF Where
<1> QED BY <1>1, <1>3, <1>4, <1>5, <1>6 DEF IInv

LEMMA SameTree == Tree /\ UNCHANGED fs => Tree'
BY DEF Tree, IsDir, Parent, Dir

LEMMA DebugStep ==
    ASSUME IInv, decrypt_debug_pkg PROVE IInv'
<1>1. /\ pc = "debug" /\ i < p.size /\ p' = p /\ pc' = "debug" /\ fs' = fs
      /\ i' = i + 1
      /\ ctr' = IF i # 0 /\ i % Unit = 0 THEN ctr + 1 ELSE ctr
      /\ pkg' = [pkg EXCEPT ![HeaderLen + i] = Taken(HeaderLen + i, Stream(ctr', i % Unit))]
  BY DEF decrypt_debug_pkg
<1>2. /\ p.size \in Nat /\ i \in Nat /\ ctr \in Nat /\ Unit \in Nat \ {0} /\ Entries \in Nat
  BY GpkgAssumption DEF IInv, GpkgAssumption, Entries
<1>3. Debug BY <1>1 DEF IInv, Where
<1>4. PICK z \in Nat : z = ctr * Unit
  <2>1. ctr * Unit \in Nat BY <1>2
  <2> QED BY <2>1
<1>5. z <= i /\ i <= z + Unit /\ (i # 0 => z < i) BY <1>3, <1>4 DEF Debug
<1>6. (ctr + 1) * Unit = z + Unit BY <1>2, <1>4
<1>7. Stream(ctr', i % Unit) = i /\ ctr' * Unit <= i /\ i < ctr' * Unit + Unit /\ ctr' \in Nat
  <2>1. CASE i = z + Unit
    <3>1. (ctr + 1) * Unit + 0 = i /\ ctr + 1 \in Nat /\ 0 \in 0 .. Unit - 1
      BY <2>1, <1>2, <1>6
    <3>2. i % Unit = 0 BY <3>1, Unique
    <3>3. ctr' = ctr + 1 BY <3>2, <2>1, <1>1, <1>2
    <3> QED BY <3>1, <3>2, <3>3, <1>2 DEF Stream
  <2>2. CASE i # z + Unit
    <3>1. PICK r \in 0 .. Unit - 1 : r = i - z
      <4>1. i - z \in 0 .. Unit - 1 BY <2>2, <1>2, <1>5
      <4> QED BY <4>1
    <3>2. ctr * Unit + r = i BY <3>1, <1>2, <1>4
    <3>3. i % Unit = r BY <3>2, <1>2, Unique
    <3>4. ctr' = ctr
      <4>1. i # 0 => r # 0 BY <3>1, <1>2, <1>5
      <4> QED BY <4>1, <3>3, <1>1
    <3> QED BY <3>1, <3>2, <3>3, <3>4, <1>2, <1>4, <1>5 DEF Stream
  <2> QED BY <2>1, <2>2
<1>8. pkg' = Cleared(p.size, i + 1)
  <2>1. pkg' = [pkg EXCEPT ![HeaderLen + i] = Taken(HeaderLen + i, i)] BY <1>1, <1>7
  <2>2. pkg = Cleared(p.size, i) BY <1>3 DEF Debug
  <2> QED BY <2>1, <2>2, <1>1, <1>2, OneMore
<1>9. ctr' \in 0 .. p.size + 1
  <2>1. PICK c \in Nat : c = ctr' BY <1>7
  <2>2. c <= c * Unit BY <1>2
  <2>3. PICK y \in Nat : y = c * Unit
    <3>1. c * Unit \in Nat BY <1>2
    <3> QED BY <3>1
  <2> QED BY <2>1, <2>2, <2>3, <1>1, <1>2, <1>7
<1>10. Debug'
  <2>1. PICK c \in Nat : c = ctr' BY <1>7
  <2>2. PICK y \in Nat : y = c * Unit
    <3>1. c * Unit \in Nat BY <1>2
    <3> QED BY <3>1
  <2>3. y <= i /\ i < y + Unit BY <2>1, <2>2, <1>7
  <2>4. y <= i + 1 /\ i + 1 <= y + Unit /\ y < i + 1 BY <2>3, <1>2
  <2>5. i' <= p'.size BY <1>1, <1>2
  <2> QED BY <2>1, <2>2, <2>4, <2>5, <1>1, <1>8 DEF Debug
<1>11. Entries' = Entries BY <1>1 DEF Entries
<1>12. \E m \in 0 .. p'.size : pkg' = Cleared(p'.size, m)
  <2>1. i + 1 \in 0 .. p'.size BY <1>1, <1>2
  <2> QED BY <2>1, <1>1, <1>8
<1>13. Tree' BY <1>1, SameTree DEF IInv
<1>14. Where' BY <1>1, <1>10 DEF Where
<1>15. i' \in 0 .. p'.size + Entries' + 1 BY <1>1, <1>2, <1>11
<1> QED BY <1>1, <1>9, <1>12, <1>13, <1>14, <1>15 DEF IInv

LEMMA RetailStep ==
    ASSUME IInv, aes128ctr PROVE IInv'
<1> DEFINE n == HeaderLen + ctr * Unit + (i % Unit)
<1>1. /\ pc = "retail" /\ i < p.size /\ p' = p /\ fs' = fs
      /\ i' = (i + 1) % Word
      /\ ctr' = IF (i + 1) % Unit = 0 THEN ctr + 1 ELSE ctr
      /\ n \in DOMAIN pkg => pkg' = [pkg EXCEPT ![n] = Taken(n, Stream(ctr, i % Unit))] /\ pc' = pc
      /\ n \notin DOMAIN pkg => pc' = "overrun" /\ pkg' = pkg
  BY DEF aes128ctr
<1>2. /\ p.size \in Nat /\ i \in Nat /\ ctr \in Nat /\ Unit \in Nat \ {0} /\ Entries \in Nat
      /\ HeaderLen \in Nat /\ Word \in Nat \ {0} /\ Word % Unit = 0
  BY GpkgAssumption DEF IInv, GpkgAssumption, Entries
<1>3. Retail BY <1>1 DEF IInv, Where
<1>4. PICK r \in 0 .. Unit - 1 : r = i % Unit
  <2>1. i % Unit \in 0 .. Unit - 1 BY <1>2, Quotient
  <2> QED BY <2>1
<1>5. PICK z \in Nat : z = ctr * Unit
  <2>1. ctr * Unit \in Nat BY <1>2
  <2> QED BY <2>1
<1>6. pos = z + r /\ pos \in Nat /\ pos <= p.size BY <1>2, <1>3, <1>4, <1>5 DEF pos, Retail
<1>7. n = HeaderLen + pos /\ Stream(ctr, i % Unit) = pos BY <1>2, <1>4, <1>5, <1>6 DEF Stream
<1>8. (i + 1) % Unit = IF r = Unit - 1 THEN 0 ELSE r + 1 BY <1>2, <1>4, Next2
<1>9. i' \in Nat /\ i' < Word /\ i' <= i + 1 /\ i' % Unit = (i + 1) % Unit
      /\ (p.size < Word => i' = i + 1)
  <2>1. i + 1 <= Word BY <1>2, <1>3 DEF Retail
  <2>2. CASE i + 1 < Word
    <3>1. i + 1 \in 0 .. Word - 1 BY <2>2, <1>2
    <3>2. i' = i + 1 BY <3>1, <1>1, <1>2, Wraps
    <3> QED BY <3>2, <2>2, <1>2
  <2>3. CASE i + 1 = Word
    <3>1. i' = 0 BY <2>3, <1>1, <1>2, Wraps
    <3>2. 0 % Unit = 0
      <4>1. 0 * Unit + 0 = 0 /\ 0 \in Nat /\ 0 \in 0 .. Unit - 1 BY <1>2
      <4> QED BY <4>1, Unique
    <3>3. ~(p.size < Word) BY <2>3, <1>1, <1>2
    <3> QED BY <3>1, <3>2, <3>3, <2>3, <1>2
  <2> QED BY <2>1, <2>2, <2>3, <1>2
<1>10. ctr' \in Nat /\ ctr' * Unit + (i' % Unit) = pos + 1 /\ ctr' <= ctr + 1
  <2>1. CASE r = Unit - 1
    <3>1. ctr' = ctr + 1 /\ i' % Unit = 0 BY <2>1, <1>1, <1>8, <1>9
    <3>2. (ctr + 1) * Unit = z + Unit BY <1>2, <1>5
    <3> QED BY <3>1, <3>2, <2>1, <1>2, <1>6
  <2>2. CASE r # Unit - 1
    <3>1. ctr' = ctr /\ i' % Unit = r + 1 BY <2>2, <1>1, <1>2, <1>8, <1>9
    <3> QED BY <3>1, <1>2, <1>5, <1>6
  <2> QED BY <2>1, <2>2
<1>11. ctr' \in 0 .. p.size + 1
  <2>1. ctr <= ctr * Unit BY <1>2
  <2>2. ctr <= z BY <2>1, <1>5
  <2> QED BY <2>2, <1>2, <1>6, <1>10
<1>12. Entries' = Entries BY <1>1 DEF Entries
<1>13. i' \in 0 .. p'.size + Entries' + 1
  <2>1. i' <= p.size BY <1>1, <1>2, <1>9
  <2> QED BY <2>1, <1>1, <1>2, <1>9, <1>12
<1>14. Tree' BY <1>1, SameTree DEF IInv
<1>15. pkg = Cleared(p.size, pos) BY <1>3 DEF Retail
<1>16. CASE pos < p.size
  <2>1. HeaderLen + pos \in DOMAIN pkg
        /\ [pkg EXCEPT ![HeaderLen + pos] = Taken(HeaderLen + pos, pos)] = Cleared(p.size, pos + 1)
    BY <1>2, <1>6, <1>15, <1>16, OneMore
  <2>2. pkg' = Cleared(p.size, pos + 1) /\ pc' = "retail" BY <2>1, <1>1, <1>7
  <2>3. pos' = pos + 1 BY <1>10 DEF pos
  <2>4. Retail'
    <3>1. p.size < Word => pos = i BY <1>3 DEF Retail
    <3> QED BY <3>1, <2>2, <2>3, <1>1, <1>2, <1>6, <1>9, <1>16 DEF Retail
  <2>5. \E m \in 0 .. p'.size : pkg' = Cleared(p'.size, m)
    <3>1. pos + 1 \in 0 .. p'.size BY <1>1, <1>2, <1>6, <1>16
    <3> QED BY <3>1, <2>2, <1>1
  <2>6. p'.retail BY <1>1 DEF IInv, Where
  <2>7. Where' BY <2>2, <2>4, <2>6 DEF Where
  <2> QED BY <2>2, <2>5, <2>7, <1>1, <1>11, <1>13, <1>14 DEF IInv
<1>17. CASE pos = p.size
  <2>1. n \notin DOMAIN pkg BY <1>2, <1>7, <1>15, <1>17 DEF Cleared
  <2>2. pc' = "overrun" /\ pkg' = pkg BY <2>1, <1>1
  <2>3. \E m \in 0 .. p'.size : pkg' = Cleared(p'.size, m) BY <2>2, <1>1 DEF IInv
  <2>4. p'.retail /\ Word <= p'.size
    <3>1. p.retail BY <1>1 DEF IInv, Where
    <3>2. ~(p.size < Word) BY <1>1, <1>2, <1>3, <1>17 DEF Retail
    <3> QED BY <3>1, <3>2, <1>1, <1>2
  <2>5. Where' BY <2>2, <2>4 DEF Where
  <2> QED BY <2>2, <2>3, <2>5, <1>1, <1>11, <1>13, <1>14 DEF IInv
<1> QED BY <1>2, <1>6, <1>16, <1>17

-----------------------------------------------------------------------------
(* Unpacking. *)

LEMMA WithIs ==
    ASSUME NEW path, NEW what, fs' = With(path, what)
    PROVE  /\ DOMAIN fs' = DOMAIN fs \union {path} /\ fs'[path] = what
           /\ \A q \in DOMAIN fs : q # path => fs'[q] = fs[q]
BY DEF With

\* A directory stays one, and files stay in place but for the one written.
LEMMA DirStays ==
    ASSUME NEW path, NEW what, fs' = With(path, what), ~IsDir(path), NEW q, IsDir(q)
    PROVE  (IsDir(q))'
<1>1. q # path /\ q \in DOMAIN fs /\ fs[q] = Dir BY DEF IsDir
<1>2. q \in DOMAIN fs' /\ fs'[q] = Dir BY <1>1, WithIs
<1> QED BY <1>2 DEF IsDir, Dir

\* A name's directory is there before the name is.
LEMMA GrownTree ==
    ASSUME Tree, NEW path, NEW what, IsDir(Parent(path)), ~IsDir(path), fs' = With(path, what)
    PROVE  Tree'
<1>1. ASSUME NEW q, IsDir(q) PROVE (IsDir(q))' BY <1>1, DirStays
<1>2. ASSUME NEW q \in DOMAIN fs' PROVE q = <<>> \/ (IsDir(Parent(q)))'
  <2>1. q \in DOMAIN fs \/ q = path BY WithIs
  <2>2. q = <<>> \/ IsDir(Parent(q)) BY <2>1 DEF Tree
  <2>3. PICK d : d = Parent(q) /\ d = (Parent(q))' BY DEF Parent
  <2> QED BY <1>1, <2>2, <2>3 DEF IsDir
<1> QED BY <1>1, <1>2 DEF Tree, Parent

\* Unpacking leaves the data alone.
LEMMA UnpackKeeps ==
    ASSUME IInv, pc = "unpack", p' = p, pkg' = pkg, ctr' = ctr, Tree',
           pc' \in {"unpack", "done", "failed", "crashed"},
           i' = i \/ (i' = i + 1 /\ i <= Entries)
    PROVE  IInv'
<1>1. p.size \in Nat /\ Entries \in Nat BY GpkgAssumption DEF IInv, GpkgAssumption, Entries
<1>2. Entries' = Entries BY DEF Entries
<1>3. i' \in 0 .. p'.size + Entries' + 1 BY <1>1, <1>2 DEF IInv
<1>4. Where' BY DEF IInv, Where
<1> QED BY <1>3, <1>4 DEF IInv

LEMMA NextIInv == IInv /\ [Next]_vars => IInv'
<1> SUFFICES ASSUME IInv, [Next]_vars PROVE IInv' OBVIOUS
<1>0. /\ p.size \in Nat /\ i \in Nat /\ Entries \in Nat /\ Word \in Nat \ {0}
      /\ Unit \in Nat \ {0}
  BY GpkgAssumption DEF IInv, GpkgAssumption, Entries
<1>1. CASE Start
  <2>1. /\ pc = "start" /\ p' = p /\ pkg' = pkg /\ i' = i /\ ctr' = ctr /\ fs' = fs
        /\ pc' \in {"debug", "retail", "failed"} /\ (pc' = "retail" => p.retail)
    BY <1>1 DEF Start
  <2>2. i = 0 /\ ctr = 0 /\ pkg = Cleared(p.size, 0) BY <2>1 DEF IInv, Where
  <2>3. Entries' = Entries /\ Tree' BY <2>1, SameTree DEF Entries, IInv
  <2>4. Debug' BY <2>1, <2>2, <1>0 DEF Debug
  <2>5. Retail'
    <3>1. 0 % Unit = 0
      <4>1. 0 * Unit + 0 = 0 /\ 0 \in Nat /\ 0 \in 0 .. Unit - 1 BY <1>0
      <4> QED BY <4>1, Unique
    <3>2. pos' = 0
      <4>1. 0 * Unit = 0 BY <1>0
      <4> QED BY <4>1, <3>1, <2>1, <2>2 DEF pos
    <3> QED BY <3>2, <2>1, <2>2, <1>0 DEF Retail
  <2>6. Where' BY <2>1, <2>4, <2>5 DEF Where
  <2> QED BY <2>1, <2>3, <2>6 DEF IInv
<1>2. CASE decrypt_debug_pkg BY <1>2, DebugStep
<1>3. CASE aes128ctr BY <1>3, RetailStep
<1>4. CASE Decrypted
  <2>1. /\ pc \in {"debug", "retail"} /\ i >= p.size
        /\ p' = p /\ pkg' = pkg /\ ctr' = ctr /\ fs' = fs /\ pc' = "unpack" /\ i' = 1
    BY <1>4 DEF Decrypted
  <2>2. pkg = Cleared(p.size, p.size)
    <3>1. CASE pc = "debug"
      <4>1. i = p.size BY <3>1, <2>1, <1>0 DEF IInv, Where, Debug
      <4> QED BY <4>1, <3>1 DEF IInv, Where, Debug
    <3>2. CASE pc = "retail"
      <4>1. Retail BY <3>2 DEF IInv, Where
      <4>2. p.size < Word /\ i = p.size BY <4>1, <2>1, <1>0 DEF Retail
      <4> QED BY <4>1, <4>2 DEF Retail
    <3> QED BY <3>1, <3>2, <2>1
  <2>3. Entries' = Entries /\ Tree' BY <2>1, SameTree DEF Entries, IInv
  <2>4. i' \in 0 .. p'.size + Entries' + 1 BY <2>1, <2>3, <1>0
  <2>5. Where' BY <2>1, <2>2 DEF Where
  <2> QED BY <2>1, <2>3, <2>4, <2>5 DEF IInv
<1>5. CASE NameTooLong \/ UnknownFlags \/ Done
  <2>1. pc = "unpack" /\ pc' \in {"failed", "done"}
        /\ p' = p /\ pkg' = pkg /\ i' = i /\ ctr' = ctr /\ fs' = fs
    BY <1>5 DEF NameTooLong, UnknownFlags, Done, Stop
  <2>2. Tree' BY <2>1, SameTree DEF IInv
  <2> QED BY <2>1, <2>2, UnpackKeeps
<1>6. CASE MakeDir
  <2>1. /\ pc = "unpack" /\ i <= Entries
        /\ p' = p /\ pkg' = pkg /\ ctr' = ctr /\ pc' = pc /\ i' = i + 1
        /\ fs' = IF IsDir(Parent(Current.name)) /\ Current.name \notin DOMAIN fs
                 THEN With(Current.name, Dir) ELSE fs
    BY <1>6 DEF MakeDir, Next1
  <2>2. Tree'
    <3>1. CASE fs' = fs BY <3>1, SameTree DEF IInv
    <3>2. CASE /\ IsDir(Parent(Current.name)) /\ Current.name \notin DOMAIN fs
               /\ fs' = With(Current.name, Dir)
      BY <3>2, <2>1, GrownTree DEF IInv, IsDir
    <3> QED BY <3>1, <3>2, <2>1
  <2> QED BY <2>1, <2>2, UnpackKeeps
<1>7. CASE WriteFile
  <2>1. pc = "unpack" /\ i <= Entries /\ p' = p /\ pkg' = pkg /\ ctr' = ctr
    BY <1>7 DEF WriteFile, Next1, Stop
  <2>2. CASE Writable(Current.name)
    <3>1. fs' = With(Current.name, <<Current.at, Current.size>>) /\ i' = i + 1 /\ pc' = pc
      BY <2>2, <1>7 DEF WriteFile, Next1
    <3>2. Tree' BY <3>1, <2>2, GrownTree DEF IInv, Writable
    <3> QED BY <3>1, <3>2, <2>1, UnpackKeeps
  <2>3. CASE ~Writable(Current.name)
    <3>1. fs' = fs /\ i' = i /\ pc' = "crashed" BY <2>3, <1>7 DEF WriteFile, Stop
    <3>2. Tree' BY <3>1, SameTree DEF IInv
    <3> QED BY <3>1, <3>2, <2>1, UnpackKeeps
  <2> QED BY <2>2, <2>3
<1>8. CASE UNCHANGED vars
  <2>1. p' = p /\ haskey' = haskey /\ pkg' = pkg /\ pc' = pc /\ i' = i /\ ctr' = ctr /\ fs' = fs
    BY <1>8 DEF vars
  <2>2. Tree' BY <2>1, SameTree DEF IInv
  <2> QED BY <2>1, <2>2 DEF IInv, Where, Debug, Retail, pos, Entries
<1> QED BY <1>1, <1>2, <1>3, <1>4, <1>5, <1>6, <1>7, <1>8 DEF Next

-----------------------------------------------------------------------------
\* For every package whose table and contents are inside its data: the mapping
\* keeps its extent and its header, no byte of the data ever carries another one's
\* key stream, only a retail package of Word bytes or more drives aes128ctr out of
\* the mapping, and whatever is made in the target is in a directory.
THEOREM TypeCorrect == Spec => []TypeOK
<1>1. IInv => TypeOK
  <2> SUFFICES ASSUME IInv PROVE TypeOK OBVIOUS
  <2>1. p.size \in Nat /\ HeaderLen \in Nat BY GpkgAssumption DEF IInv, GpkgAssumption
  <2>2. PICK m \in 0 .. p.size : pkg = Cleared(p.size, m) BY DEF IInv
  <2>3. DOMAIN pkg = 0 .. HeaderLen + p.size - 1 BY <2>2 DEF Cleared
  <2>4. \A x \in DOMAIN pkg :
           pkg[x] \in {None} \union (IF x < HeaderLen THEN {} ELSE {x - HeaderLen})
    BY <2>1, <2>2 DEF Cleared
  <2>5. pc = "overrun" => p.retail /\ Word <= p.size BY DEF IInv, Where
  <2> QED BY <2>3, <2>4, <2>5 DEF IInv, TypeOK, Tree
<1> QED BY InitIInv, NextIInv, <1>1, PTL DEF Spec

\* In both modes, every byte of the data has lost exactly its own byte of the
\* key stream before the table is read, whatever the size of the data.
THEOREM DecryptedOnce == Spec => []InClear
<1>1. IInv => InClear
  <2> SUFFICES ASSUME IInv, pc \in {"unpack", "done"}, NEW x \in DOMAIN pkg PROVE pkg[x] = None
    BY DEF InClear
  <2>1. p.size \in Nat /\ HeaderLen \in Nat BY GpkgAssumption DEF IInv, GpkgAssumption
  <2>2. pkg = Cleared(p.size, p.size) BY DEF IInv, Where
  <2> QED BY <2>1, <2>2 DEF Cleared
<1> QED BY InitIInv, NextIInv, <1>1, PTL DEF Spec

-----------------------------------------------------------------------------
(* What is in the directory: the files of the entries that have been unpacked, *)
(* each with the contents of the last of its name, and nothing else.           *)

IsFile(k) == kind(p.table[k]) # 4
Last(k, n) == \A m \in k + 1 .. n : ~(p.table[m].name = p.table[k].name /\ IsFile(m))

Unpacked(n) ==
    \A k \in 1 .. n : IsFile(k) =>
        /\ p.table[k].name \in DOMAIN fs /\ IsDir(Parent(p.table[k].name))
        /\ Last(k, n) => fs[p.table[k].name] = <<p.table[k].at, p.table[k].size>>

Only(n) ==
    \A path \in DOMAIN fs \ {<<>>} :
        \E k \in 1 .. n : p.table[k].name = path /\ (IsDir(path) <=> ~IsFile(k))

Files ==
    /\ pc \in {"start", "debug", "retail", "overrun"} => DOMAIN fs = {<<>>}
    /\ pc = "unpack" => i \in 1 .. Entries + 1
    /\ pc = "done" => i = Entries + 1
    /\ pc \in {"unpack", "done", "failed", "crashed"} =>
          i \in 0 .. Entries + 1 /\ Unpacked(i - 1) /\ Only(i - 1)

FInv == IInv /\ Files

LEMMA SameTable ==
    UNCHANGED p => /\ Entries' = Entries
                   /\ \A k : (IsFile(k))' <=> IsFile(k)
                   /\ \A k, n : (Last(k, n))' <=> Last(k, n)
                   /\ \A path : (Parent(path))' = Parent(path)
<1> SUFFICES ASSUME p' = p
    PROVE  /\ Entries' = Entries
           /\ \A k : (IsFile(k))' <=> IsFile(k)
           /\ \A k, n : (Last(k, n))' <=> Last(k, n)
           /\ \A path : (Parent(path))' = Parent(path)
    OBVIOUS
<1>1. \A k : (IsFile(k))' <=> IsFile(k) BY DEF IsFile, kind
<1>2. \A k, n : (Last(k, n))' <=> Last(k, n) BY <1>1 DEF Last
<1> QED BY <1>1, <1>2 DEF Entries, Parent

LEMMA SameFiles ==
    ASSUME UNCHANGED <<p, fs>>, NEW n
    PROVE  ((Unpacked(n))' <=> Unpacked(n)) /\ ((Only(n))' <=> Only(n))
<1>1. /\ \A k : (IsFile(k))' <=> IsFile(k)
      /\ \A k : (Last(k, n))' <=> Last(k, n)
  BY SameTable
<1>2. \A path : (IsDir(path))' <=> IsDir(path) BY DEF IsDir, Dir
<1>3. \A path : (IsDir(Parent(path)))' <=> IsDir(Parent(path)) BY DEF IsDir, Dir, Parent
<1>4. (Only(n))' <=> Only(n) BY <1>1, <1>2 DEF Only
<1>5. (Unpacked(n))' <=> Unpacked(n) BY <1>1, <1>3 DEF Unpacked
<1> QED BY <1>4, <1>5

\* An entry that is a file is written, another one leaves the files alone.
LEMMA OneEntry ==
    ASSUME FInv, pc = "unpack", i <= Entries, p' = p, i' = i + 1, pc' = "unpack",
           \/ fs' = fs /\ ~IsFile(i)
           \/ fs' = With(Current.name, Dir) /\ Current.name \notin DOMAIN fs /\ ~IsFile(i)
           \/ fs' = With(Current.name, <<Current.at, Current.size>>) /\ Writable(Current.name)
              /\ IsFile(i)
    PROVE  Files'
<1>1. i \in 1 .. Entries + 1 /\ Entries \in Nat /\ i \in Nat
  <2>1. Entries \in Nat BY GpkgAssumption DEF FInv, IInv, GpkgAssumption, Entries
  <2>2. i \in 1 .. Entries + 1 BY DEF FInv, Files
  <2> QED BY <2>1, <2>2
<1>2. Unpacked(i - 1) /\ Only(i - 1) BY DEF FInv, Files
<1> DEFINE path == Current.name
<1>3. \A q : IsDir(q) => (IsDir(q))'
  <2> SUFFICES ASSUME NEW q, IsDir(q) PROVE (IsDir(q))' OBVIOUS
  <2>1. CASE fs' = fs BY <2>1 DEF IsDir, Dir
  <2>2. CASE fs' = With(path, Dir) /\ path \notin DOMAIN fs
    <3>1. ~IsDir(path) BY <2>2 DEF IsDir
    <3> QED BY <2>2, <3>1, DirStays
  <2>3. CASE fs' = With(path, <<Current.at, Current.size>>) /\ Writable(path)
    <3>1. ~IsDir(path) BY <2>3 DEF Writable
    <3> QED BY <2>3, <3>1, DirStays
  <2> QED BY <2>1, <2>2, <2>3
<1>4. DOMAIN fs \subseteq DOMAIN fs'
  <2>1. CASE fs' = fs BY <2>1
  <2>2. CASE \E what : fs' = With(path, what) BY <2>2, WithIs
  <2> QED BY <2>1, <2>2
<1>5. ASSUME NEW k \in 1 .. i, IsFile(k)
      PROVE  /\ p.table[k].name \in DOMAIN fs' /\ (IsDir(Parent(p.table[k].name)))'
             /\ Last(k, i) => fs'[p.table[k].name] = <<p.table[k].at, p.table[k].size>>
  <2> DEFINE name == p.table[k].name
  <2>1. CASE k = i
    <3>1. fs' = With(path, <<Current.at, Current.size>>) /\ Writable(path) BY <1>5, <2>1
    <3>2. name = path /\ p.table[k] = Current BY <2>1 DEF Current
    <3>3. IsDir(Parent(path)) BY <3>1 DEF Writable
    <3>4. path \in DOMAIN fs' /\ fs'[path] = <<Current.at, Current.size>>
      <4>1. PICK q, w : q = path /\ w = <<Current.at, Current.size>> OBVIOUS
      <4>2. fs' = With(q, w) BY <3>1, <4>1
      <4>3. DOMAIN fs' = DOMAIN fs \union {q} /\ fs'[q] = w BY <4>2, WithIs
      <4>4. q \in DOMAIN fs' BY <4>3
      <4> QED BY <4>1, <4>3, <4>4
    <3>5. (IsDir(Parent(name)))' BY <1>3, <3>2, <3>3, SameTable
    <3> QED BY <3>2, <3>4, <3>5
  <2>2. CASE k # i
    <3>1. k \in 1 .. i - 1 BY <1>1, <2>2
    <3>2. /\ name \in DOMAIN fs /\ IsDir(Parent(name))
          /\ Last(k, i - 1) => fs[name] = <<p.table[k].at, p.table[k].size>>
      BY <3>1, <1>2, <1>5 DEF Unpacked
    <3>3. (IsDir(Parent(name)))' BY <1>3, <3>2, SameTable
    <3>4. ASSUME Last(k, i) PROVE fs'[name] = fs[name] /\ Last(k, i - 1)
      <4>1. Last(k, i - 1)
        <5>1. \A m \in k + 1 .. i - 1 : m \in k + 1 .. i BY <1>1
        <5> QED BY <3>4, <5>1 DEF Last
      <4>2. ~(path = name /\ IsFile(i))
        <5>1. i \in k + 1 .. i BY <1>1, <3>1
        <5> QED BY <3>4, <5>1 DEF Last, Current
      <4>3. CASE fs' = fs BY <4>1, <4>3
      <4>4. CASE fs' = With(path, Dir) /\ path \notin DOMAIN fs
        <5>1. name # path BY <3>2, <4>4
        <5> QED BY <3>2, <4>1, <4>4, <5>1, WithIs
      <4>5. CASE fs' = With(path, <<Current.at, Current.size>>) /\ IsFile(i)
        <5>1. name # path BY <4>2, <4>5
        <5> QED BY <3>2, <4>1, <4>5, <5>1, WithIs
      <4> QED BY <4>3, <4>4, <4>5
    <3> HIDE DEF name
    <3> QED BY <1>4, <3>2, <3>3, <3>4 DEF name
  <2> QED BY <2>1, <2>2
<1>6. PICK n \in Nat : n = i BY <1>1
<1>7. (Unpacked(n))'
  <2> SUFFICES ASSUME NEW k \in 1 .. n, (IsFile(k))'
               PROVE  /\ p'.table[k].name \in DOMAIN fs' /\ (IsDir(Parent(p.table[k].name)))'
                      /\ (Last(k, n))' => fs'[p'.table[k].name] = <<p'.table[k].at, p'.table[k].size>>
    BY DEF Unpacked
  <2>1. IsFile(k) /\ ((Last(k, n))' <=> Last(k, n)) BY SameTable
  <2> QED BY <2>1, <1>5, <1>6
<1>8. i' - 1 = n /\ i' \in 1 .. Entries' + 1
  <2>1. Entries' = Entries BY SameTable
  <2> QED BY <2>1, <1>1, <1>6
<1>9. (Only(n))'
  <2> SUFFICES ASSUME NEW q \in DOMAIN fs', q # <<>>
               PROVE  \E k \in 1 .. n : /\ p'.table[k].name = q
                                        /\ (IsDir(q))' <=> ~(IsFile(k))'
    BY DEF Only
  <2>1. \A k : (IsFile(k))' <=> IsFile(k) BY SameTable
  <2>2. n \in 1 .. n /\ \A k \in 1 .. n - 1 : k \in 1 .. n BY <1>1, <1>6
  <2>3. CASE q \in DOMAIN fs /\ fs'[q] = fs[q]
    <3>1. PICK k \in 1 .. n - 1 : p.table[k].name = q /\ (IsDir(q) <=> ~IsFile(k))
      BY <1>2, <1>6, <2>3 DEF Only
    <3>2. (IsDir(q))' <=> IsDir(q) BY <2>3 DEF IsDir, Dir
    <3> QED BY <2>1, <2>2, <3>1, <3>2
  <2>4. CASE ~(q \in DOMAIN fs /\ fs'[q] = fs[q])
    <3>1. PICK name, what : /\ name = path /\ fs' = With(name, what)
                            /\ what = Dir <=> ~IsFile(i)
      <4>1. <<Current.at, Current.size>> # Dir BY DEF Dir
      <4>2. CASE fs' = With(path, Dir) /\ ~IsFile(i) BY <4>2
      <4>3. CASE fs' = With(path, <<Current.at, Current.size>>) /\ IsFile(i) BY <4>1, <4>3
      <4> QED BY <2>4, <4>2, <4>3
    <3>2. q = name /\ fs'[q] = what BY <2>4, <3>1, WithIs
    <3>3. (IsDir(q))' <=> ~IsFile(n) BY <1>6, <3>1, <3>2 DEF IsDir, Dir
    <3>4. p'.table[n].name = q BY <1>6, <3>1, <3>2 DEF Current
    <3> QED BY <2>1, <2>2, <3>3, <3>4
  <2> QED BY <2>3, <2>4
<1>10. i' \in 0 .. Entries' + 1 BY <1>8
<1> QED BY <1>7, <1>8, <1>9, <1>10 DEF Files

\* A non-empty set of naturals has a least element: among the intervals from 0
\* to its elements, one is minimal for strict inclusion.
LEMMA LeastNat ==
    ASSUME NEW S \in SUBSET Nat, S # {}
    PROVE  \E k \in S : \A l \in S : k <= l
<1> DEFINE R == StrictSubsetOrdering(Nat)
           F == FiniteSubsetsOf(Nat)
           T == {0 .. s : s \in S}
<1>1. IsWellFoundedOn(R, F)
  BY FS_StrictSubsetOrderingWellFounded
<1>2. T \subseteq F /\ T # {}
  <2>1. \A s \in S : 0 .. s \in SUBSET Nat /\ IsFiniteSet(0 .. s)
    BY FS_Interval
  <2> QED BY <2>1 DEF FiniteSubsetsOf
<1>3. PICK x \in T : \A y \in T : ~ (<<y, x>> \in R)
  <2> HIDE DEF R, F, T
  <2> QED BY <1>1, <1>2, WFMin
<1>4. PICK k \in S : x = 0 .. k
  OBVIOUS
<1>5. ASSUME NEW l \in S, l < k
      PROVE  FALSE
  <2>1. 0 .. l \in T /\ 0 .. l \subseteq x /\ k \in x /\ k \notin 0 .. l
    BY <1>4, <1>5
  <2>2. 0 .. l \in SUBSET Nat /\ x \in SUBSET Nat
    BY <1>4
  <2>3. <<0 .. l, x>> \in R
    BY <2>1, <2>2 DEF StrictSubsetOrdering
  <2> QED BY <1>3, <2>1, <2>3
<1> QED BY <1>5

\* So one of naturals below a bound has a greatest.
LEMMA GreatestNat ==
    ASSUME NEW n \in Nat, NEW S \in SUBSET (1 .. n), S # {}
    PROVE  \E k \in S : \A l \in S : l <= k
<1> DEFINE T == {n - s : s \in S}
<1>1. T \in SUBSET Nat /\ T # {}
  <2>1. \A s \in S : n - s \in Nat OBVIOUS
  <2>2. T \subseteq Nat BY <2>1, Zenon
  <2>3. PICK s \in S : TRUE OBVIOUS
  <2>4. n - s \in T BY Zenon
  <2> QED BY <2>2, <2>4
<1>2. PICK t \in T : \A u \in T : t <= u
  <2> HIDE DEF T
  <2> QED BY <1>1, LeastNat
<1>3. PICK k \in S : t = n - k OBVIOUS
<1>4. ASSUME NEW l \in S PROVE l <= k
  <2>1. n - l \in T OBVIOUS
  <2> QED BY <1>2, <1>3, <2>1
<1> QED BY <1>4

-----------------------------------------------------------------------------
LEMMA InitFInv == Init => FInv
<1> SUFFICES ASSUME Init PROVE FInv OBVIOUS
<1>1. pc = "start" /\ DOMAIN fs = {<<>>} BY DEF Init
<1> QED BY <1>1, InitIInv DEF FInv, Files

\* Where the program stops, the target is left as it is.
LEMMA Stopped ==
    ASSUME FInv, pc = "unpack", UNCHANGED <<p, fs, i>>,
           \/ pc' \in {"failed", "crashed"}
           \/ pc' = "done" /\ i > Entries
    PROVE  Files'
<1>1. i \in 1 .. Entries + 1 /\ Unpacked(i - 1) /\ Only(i - 1) BY DEF FInv, Files
<1>2. Entries \in Nat BY GpkgAssumption DEF FInv, IInv, GpkgAssumption, Entries
<1>3. PICK n : n = i - 1 OBVIOUS
<1>4. Unpacked(n)' /\ Only(n)' BY <1>1, <1>3, SameFiles
<1>5. Entries' = Entries /\ i' - 1 = n BY <1>3, SameTable
<1>6. i' \in 0 .. Entries' + 1 /\ (pc' = "done" => i' = Entries' + 1) BY <1>1, <1>2, <1>5
<1> QED BY <1>4, <1>5, <1>6 DEF Files

\* Every step keeps what the entries it has been through have made.
LEMMA NextFInv == FInv /\ [Next]_vars => FInv'
<1> SUFFICES ASSUME FInv, [Next]_vars PROVE FInv' OBVIOUS
<1>0. IInv /\ IInv' BY NextIInv DEF FInv
<1> SUFFICES Files' BY <1>0 DEF FInv
<1>0a. Entries \in Nat BY <1>0, GpkgAssumption DEF IInv, GpkgAssumption, Entries
<1>1. CASE Start
  <2>1. /\ pc = "start" /\ pc' \in {"debug", "retail", "failed"}
        /\ p' = p /\ i' = i /\ fs' = fs
    BY <1>1 DEF Start
  <2>2. i = 0 /\ DOMAIN fs = {<<>>} BY <1>0, <2>1 DEF IInv, Where, FInv, Files
  <2>3. (Unpacked(-1))' /\ (Only(-1))' BY <2>1, <2>2 DEF Unpacked, Only
  <2>4. Entries' = Entries /\ i' - 1 = -1 /\ i' \in 0 .. Entries' + 1
    BY <2>1, <2>2, <1>0a, SameTable
  <2> QED BY <2>1, <2>2, <2>3, <2>4 DEF Files
<1>2. CASE decrypt_debug_pkg \/ aes128ctr
  <2>1. /\ pc \in {"debug", "retail"} /\ pc' \in {"debug", "retail", "overrun"} /\ fs' = fs
    BY <1>2 DEF decrypt_debug_pkg, aes128ctr
  <2> QED BY <2>1 DEF FInv, Files
<1>3. CASE Decrypted
  <2>1. pc \in {"debug", "retail"} /\ pc' = "unpack" /\ i' = 1 /\ p' = p /\ fs' = fs
    BY <1>3 DEF Decrypted
  <2>2. Entries' = Entries BY <2>1, SameTable
  <2>3. (Unpacked(0))' /\ (Only(0))' BY <2>1 DEF Unpacked, Only, FInv, Files
  <2>4. i' \in 1 .. Entries' + 1 /\ i' \in 0 .. Entries' + 1 /\ i' - 1 = 0
    BY <2>1, <2>2, <1>0a
  <2> QED BY <2>1, <2>3, <2>4 DEF Files
<1>4. CASE NameTooLong \/ UnknownFlags \/ Done
  <2>1. /\ pc = "unpack" /\ UNCHANGED <<p, fs, i>>
        /\ pc' = "failed" \/ (pc' = "done" /\ i > Entries)
    BY <1>4 DEF NameTooLong, UnknownFlags, Done, Stop
  <2> QED BY <2>1, Stopped
<1>5. CASE MakeDir
  <2>1. /\ pc = "unpack" /\ i <= Entries /\ kind(Current) = 4 /\ p' = p /\ pc' = "unpack"
        /\ i' = i + 1
        /\ fs' = IF IsDir(Parent(Current.name)) /\ Current.name \notin DOMAIN fs
                 THEN With(Current.name, Dir) ELSE fs
    BY <1>5 DEF MakeDir, Next1
  <2>2. ~IsFile(i) BY <2>1 DEF IsFile, Current
  <2> QED BY <2>1, <2>2, OneEntry
<1>6. CASE WriteFile
  <2>1. pc = "unpack" /\ i <= Entries /\ kind(Current) \in {1, 3} BY <1>6 DEF WriteFile
  <2>2. CASE Writable(Current.name)
    <3>1. /\ fs' = With(Current.name, <<Current.at, Current.size>>) /\ p' = p /\ pc' = "unpack"
          /\ i' = i + 1
      BY <1>6, <2>2 DEF WriteFile, Next1
    <3>2. IsFile(i) BY <2>1 DEF IsFile, Current
    <3> QED BY <2>1, <2>2, <3>1, <3>2, OneEntry
  <2>3. CASE ~Writable(Current.name)
    <3>1. pc' = "crashed" /\ UNCHANGED <<p, fs, i>> BY <1>6, <2>3 DEF WriteFile, Stop
    <3> QED BY <2>1, <3>1, Stopped
  <2> QED BY <2>2, <2>3
<1>7. CASE UNCHANGED vars
  <2>1. p' = p /\ pc' = pc /\ i' = i /\ fs' = fs BY <1>7 DEF vars
  <2>2. Entries' = Entries BY <2>1, SameTable
  <2>3. PICK n : n = i - 1 OBVIOUS
  <2>4. ((Unpacked(n))' <=> Unpacked(n)) /\ ((Only(n))' <=> Only(n)) BY <2>1, SameFiles
  <2>5. i' - 1 = n BY <2>1, <2>3
  <2> QED BY <2>1, <2>2, <2>3, <2>4, <2>5 DEF FInv, Files
<1> QED BY <1>1, <1>2, <1>3, <1>4, <1>5, <1>6, <1>7 DEF Next

\* The target is what the entries the program is through with make of it.
LEMMA TargetIsTable == FInv => TreeIsTable
<1> SUFFICES ASSUME FInv PROVE TreeIsTable OBVIOUS
<1>1. Entries \in Nat BY GpkgAssumption DEF FInv, IInv, GpkgAssumption, Entries
<1>2. PICK n \in 0 .. Entries : /\ Passed = 1 .. n /\ Unpacked(n) /\ Only(n)
                                /\ pc = "done" => n = Entries
  <2>1. CASE pc \in {"unpack", "done", "failed", "crashed"}
    <3>1. i \in 0 .. Entries + 1 /\ Unpacked(i - 1) /\ Only(i - 1)
      BY <2>1 DEF FInv, Files
    <3>2. CASE i = 0
      <4>1. Passed = 1 .. 0 BY <3>2, <1>1 DEF Passed
      <4>2. 1 .. i - 1 = 1 .. 0 BY <3>2
      <4>3. Unpacked(0) /\ Only(0) BY <3>1, <4>2 DEF Unpacked, Only
      <4>4. pc # "done" BY <3>2, <1>1 DEF FInv, Files
      <4> QED BY <4>1, <4>3, <4>4, <1>1
    <3>3. CASE i # 0
      <4>1. i - 1 \in 0 .. Entries BY <3>1, <3>3, <1>1
      <4>2. Passed = 1 .. i - 1 BY <2>1, <3>1, <3>3, <1>1 DEF Passed
      <4>3. pc = "done" => i - 1 = Entries BY <1>1 DEF FInv, Files
      <4> QED BY <3>1, <4>1, <4>2, <4>3
    <3> QED BY <3>2, <3>3
  <2>2. CASE pc \notin {"unpack", "done", "failed", "crashed"}
    <3>1. pc \in {"start", "debug", "retail", "overrun"} BY <2>2 DEF FInv, IInv
    <3>2. DOMAIN fs = {<<>>} BY <3>1 DEF FInv, Files
    <3>3. Unpacked(0) /\ Only(0) BY <3>2 DEF Unpacked, Only
    <3>4. Passed = 1 .. 0 BY <2>2 DEF Passed
    <3> QED BY <2>2, <3>3, <3>4, <1>1
  <2> QED BY <2>1, <2>2
<1>3. pc = "done" => Passed = 1 .. Entries BY <1>2
<1>4. ASSUME NEW path \in DOMAIN fs \ {<<>>}
      PROVE  \E k \in Passed : p.table[k].name = path /\ (IsDir(path) <=> kind(p.table[k]) = 4)
  BY <1>2 DEF Only, IsFile
<1>5. ASSUME NEW k \in Passed, kind(p.table[k]) # 4
      PROVE  LET path == p.table[k].name
                 same == {l \in Passed : p.table[l].name = path /\ kind(p.table[l]) # 4}
                 last == CHOOSE l \in same : \A m \in same : m <= l
             IN  /\ path \in DOMAIN fs /\ fs[path] = <<p.table[last].at, p.table[last].size>>
                 /\ IsDir(Parent(path))
  <2> DEFINE path == p.table[k].name
             same == {l \in Passed : p.table[l].name = path /\ kind(p.table[l]) # 4}
             last == CHOOSE l \in same : \A m \in same : m <= l
  <2>1. last \in same /\ \A m \in same : m <= last
    <3>1. n \in Nat /\ k \in same /\ same \in SUBSET (1 .. n) BY <1>1, <1>2, <1>5
    <3> HIDE DEF same
    <3>2. \E l \in same : \A m \in same : m <= l BY <3>1, GreatestNat
    <3> QED BY <3>2
  <2>2. last \in 1 .. n /\ p.table[last].name = path /\ IsFile(last)
    BY <1>2, <2>1 DEF IsFile
  <2>3. Last(last, n)
    <3> SUFFICES ASSUME NEW m \in last + 1 .. n,
                        p.table[m].name = p.table[last].name, IsFile(m)
                 PROVE  FALSE
      BY DEF Last
    <3>1. m \in 1 .. n /\ ~(m <= last) BY <1>1, <1>2, <2>2
    <3>2. m \in same BY <1>2, <2>2, <3>1 DEF IsFile
    <3> QED BY <2>1, <3>1, <3>2
  <2> HIDE DEF last, same
  <2>4. /\ path \in DOMAIN fs /\ IsDir(Parent(path))
        /\ fs[path] = <<p.table[last].at, p.table[last].size>>
    BY <1>2, <2>2, <2>3 DEF Unpacked
  <2> QED BY <2>4 DEF last, same
<1> QED BY <1>3, <1>4, <1>5 DEF TreeIsTable

\* Whatever the table is, at every step of unpack_pkg and wherever it stops, each
\* file of the entries before is there, in a directory and with the contents of the
\* last of its name, and nothing is in the target that none of them names; when
\* ungpkg finishes, these are all the entries.
THEOREM TreeComesOut == Spec => []TreeIsTable
BY InitFInv, NextFInv, TargetIsTable, PTL DEF Spec

-----------------------------------------------------------------------------
(* The other tool, index.dat, for all texts, keys and block sizes.            *)

Junk == {<<"junk">>}
Iv(k) == {<<"iv", k>>}

\* A chain of ciphertext blocks c over plain text in, the iv in front.
Chained(k, in, c, n) ==
    /\ DOMAIN c = 0 .. n /\ c[0] = Iv(k)
    /\ \A b \in 1 .. n : c[b] = Index!AES_encrypt(k, Index!Xor(in[b], c[b - 1]))

Link(k, in, c, b) ==
    IF b = 0 THEN Iv(k) ELSE Index!AES_encrypt(k, Index!Xor(in[b], c[b - 1]))

\* There is one for every number of blocks.
LEMMA ChainExists ==
    ASSUME NEW k, NEW in, NEW n \in Nat
    PROVE  \E c : c = [b \in 0 .. n |-> Link(k, in, c, b)]
<1> DEFINE Has(m) == \E c : c = [b \in 0 .. m |-> Link(k, in, c, b)]
           S == {m \in Nat : ~Has(m)}
<1>1. Has(0)
  <2> DEFINE c == [b \in 0 .. 0 |-> Iv(k)]
  <2>1. \A b \in 0 .. 0 : Link(k, in, c, b) = Iv(k) BY DEF Link
  <2>2. c = [b \in 0 .. 0 |-> Link(k, in, c, b)] BY <2>1
  <2> QED BY <2>2
<1>2. ASSUME NEW m \in Nat, Has(m) PROVE Has(m + 1)
  <2>1. PICK c : c = [b \in 0 .. m |-> Link(k, in, c, b)] BY <1>2
  <2> DEFINE last == Index!AES_encrypt(k, Index!Xor(in[m + 1], c[m]))
             d == [b \in 0 .. m + 1 |-> IF b = m + 1 THEN last ELSE c[b]]
  <2>2. \A b \in 0 .. m + 1 : d[b] = Link(k, in, d, b)
    <3> SUFFICES ASSUME NEW b \in 0 .. m + 1 PROVE d[b] = Link(k, in, d, b) OBVIOUS
    <3>1. CASE b = m + 1
      <4>1. d[b] = last /\ b # 0 /\ b - 1 = m /\ d[m] = c[m] BY <3>1
      <4> QED BY <4>1, <3>1 DEF Link
    <3>2. CASE b \in 1 .. m
      <4>1. d[b] = c[b] /\ d[b - 1] = c[b - 1] /\ b \in 0 .. m BY <3>2
      <4>2. c[b] = Link(k, in, c, b) BY <2>1, <4>1
      <4> QED BY <4>1, <4>2, <3>2 DEF Link
    <3>3. CASE b = 0
      <4>1. d[b] = c[b] /\ b \in 0 .. m BY <3>3
      <4>2. c[b] = Link(k, in, c, b) BY <2>1, <4>1
      <4> QED BY <4>1, <4>2, <3>3 DEF Link
    <3> QED BY <3>1, <3>2, <3>3
  <2>3. d = [b \in 0 .. m + 1 |-> Link(k, in, d, b)]
    <3>1. DOMAIN d = 0 .. m + 1 /\ d = [b \in 0 .. m + 1 |-> d[b]] OBVIOUS
    <3> HIDE DEF d
    <3> QED BY <2>2, <3>1
  <2> QED BY <2>3
<1> HIDE DEF Has
<1>3. ASSUME S # {} PROVE FALSE
  <2>1. S \in SUBSET Nat OBVIOUS
  <2>2. PICK m \in S : \A l \in S : m <= l BY <1>3, <2>1, LeastNat
  <2>3. m # 0 /\ m \in Nat BY <2>2, <1>1
  <2>4. m - 1 \in Nat /\ m - 1 \notin S BY <2>2, <2>3
  <2>5. Has(m - 1) BY <2>4
  <2>6. Has((m - 1) + 1) BY <2>4, <2>5, <1>2
  <2> QED BY <2>2, <2>3, <2>6
<1>4. Has(n) BY <1>3
<1> QED BY <1>4 DEF Has

\* What dat's encryption makes.
LEMMA Encrypted ==
    ASSUME NEW k, NEW in, Len(in) \in Nat
    PROVE  \E c : /\ Chained(k, in, c, Len(in))
                  /\ Index!aes128cbc_enc(k, in) = [b \in 1 .. Len(in) |-> c[b]]
<1> DEFINE n == Len(in)
           c == CHOOSE f : f = [b \in 0 .. n |-> IF b = 0 THEN {<<"iv", k>>}
                                ELSE Index!AES_encrypt(k, Index!Xor(in[b], f[b - 1]))]
<1>1. Index!aes128cbc_enc(k, in) = [b \in 1 .. n |-> c[b]]
  BY DEF Index!aes128cbc_enc
<1>2. c = [b \in 0 .. n |-> Link(k, in, c, b)]
  <2>1. \E f : f = [b \in 0 .. n |-> Link(k, in, f, b)] BY ChainExists
  <2> QED BY <2>1 DEF Link, Iv
<1> HIDE DEF c
<1>3. Chained(k, in, c, n)
  <2>1. DOMAIN c = 0 .. n BY <1>2
  <2>2. 0 \in 0 .. n /\ c[0] = Iv(k) BY <1>2 DEF Link
  <2>3. ASSUME NEW b \in 1 .. n
        PROVE  c[b] = Index!AES_encrypt(k, Index!Xor(in[b], c[b - 1]))
    <3>1. b \in 0 .. n /\ b # 0 OBVIOUS
    <3>2. c[b] = Link(k, in, c, b) BY <1>2, <3>1
    <3> QED BY <3>1, <3>2 DEF Link
  <2> QED BY <2>1, <2>2, <2>3 DEF Chained
<1> QED BY <1>1, <1>3

-----------------------------------------------------------------------------
LEMMA DatInverse ==
    ASSUME NEW k, NEW x
    PROVE  Index!AES_decrypt(k, Index!AES_encrypt(k, x)) = x
<1> DEFINE t == <<"aes", k, x>>
<1>1. (CHOOSE s \in {t} : TRUE) = t OBVIOUS
<1>2. \E s \in {t} : {t} = {s} /\ s[1] = "aes" /\ s[2] = k OBVIOUS
<1> QED BY <1>1, <1>2 DEF Index!AES_decrypt, Index!AES_encrypt

\* A foreign block comes out as nothing known.
LEMMA DatForeign ==
    ASSUME NEW k, NEW r, NEW x, k # r
    PROVE  Index!AES_decrypt(r, Index!AES_encrypt(k, x)) = {<<"inv", r, Index!AES_encrypt(k, x)>>}
<1> DEFINE t == <<"aes", k, x>>
<1>1. ~ \E s \in {t} : {t} = {s} /\ s[1] = "aes" /\ s[2] = r OBVIOUS
<1> QED BY <1>1 DEF Index!AES_decrypt, Index!AES_encrypt

LEMMA DatJunk ==
    ASSUME NEW r
    PROVE  Index!AES_decrypt(r, Junk) = {<<"inv", r, Junk>>}
<1> DEFINE t == <<"junk">>
<1>1. ~ \E s \in {t} : {t} = {s} /\ s[1] = "aes" /\ s[2] = r OBVIOUS
<1> QED BY <1>1 DEF Index!AES_decrypt, Junk

LEMMA DatXor ==
    ASSUME NEW a, NEW b, NEW c
    PROVE  /\ Index!Xor(Index!Xor(a, b), b) = a
           /\ Index!Xor(a, c) = Index!Xor(b, c) => a = b
<1>1. \A x, y : Index!Xor(Index!Xor(x, y), y) = x BY DEF Index!Xor
<1> QED BY <1>1

-----------------------------------------------------------------------------
\* What a block of dat's plain text is, and what a block of a file is after a fault.
IsPlain(x) == \E t : x = {t} /\ t[1] \in {"sha1", "sha1 end", "text"}
WithDigest(in, n) == /\ in[1] = {<<"sha1", SubSeq(in, 3, n)>>}
                     /\ in[2] = {<<"sha1 end", SubSeq(in, 3, n)>>}
IsHead(x) == \E s : x = {<<"sha1", s>>}
Blocks(c, n) == {Junk} \cup {c[j] : j \in 1 .. n}

\* A digest comes out in front only of the first block under the right key.
LEMMA FirstBlock ==
    ASSUME NEW k, NEW r, NEW in, NEW n \in Nat, NEW c, Chained(k, in, c, n),
           \A b \in 1 .. n : IsPlain(in[b]),
           NEW x \in Blocks(c, n), IsHead(Index!Xor(Index!AES_decrypt(r, x), Iv(r)))
    PROVE  r = k /\ x = c[1] /\ n # 0
<1> DEFINE ivt == <<"iv", r>>
           got == Index!AES_decrypt(r, x)
<1>0. PICK s : Index!Xor(Index!AES_decrypt(r, x), Iv(r)) = {<<"sha1", s>>} BY DEF IsHead
<1>1. ivt \notin {<<"sha1", s>>} OBVIOUS
<1>2. ivt \in got
  <2> HIDE DEF ivt, got
  <2> SUFFICES ASSUME ivt \notin got PROVE FALSE OBVIOUS
  <2>1. Iv(r) = {ivt} BY DEF Iv, ivt
  <2>2. ivt \in Index!Xor(got, {ivt}) BY DEF Index!Xor
  <2> QED BY <1>0, <1>1, <2>1, <2>2 DEF got
<1>3. x # Junk
  <2> SUFFICES ASSUME x = Junk PROVE FALSE OBVIOUS
  <2>1. got = {<<"inv", r, Junk>>} BY DatJunk
  <2>2. ivt # <<"inv", r, Junk>> OBVIOUS
  <2> QED BY <1>2, <2>1, <2>2
<1>4. PICK j \in 1 .. n : x = c[j] BY <1>3 DEF Blocks
<1>5. c[j] = Index!AES_encrypt(k, Index!Xor(in[j], c[j - 1])) BY DEF Chained
<1>6. r = k
  <2> SUFFICES ASSUME r # k PROVE FALSE OBVIOUS
  <2>1. got = {<<"inv", r, x>>} BY <1>4, <1>5, DatForeign
  <2>2. ivt # <<"inv", r, x>> OBVIOUS
  <2> QED BY <1>2, <2>1, <2>2
<1>7. got = Index!Xor(in[j], c[j - 1]) BY <1>4, <1>5, <1>6, DatInverse
<1>8. j = 1
  <2> SUFFICES ASSUME j # 1 PROVE FALSE OBVIOUS
  <2>1. PICK t : in[j] = {t} /\ t[1] \in {"sha1", "sha1 end", "text"} BY DEF IsPlain
  <2>2. ivt[1] = "iv" OBVIOUS
  <2>3. ivt \notin in[j] BY <2>1, <2>2
  <2>4. j - 1 \in 1 .. n BY <1>4
  <2>5. c[j - 1] = Index!AES_encrypt(k, Index!Xor(in[j - 1], c[(j - 1) - 1]))
    BY <2>4 DEF Chained
  <2>6. \A y : ivt # <<"aes", k, y>> OBVIOUS
  <2>7. ivt \notin c[j - 1] BY <2>5, <2>6 DEF Index!AES_encrypt
  <2> HIDE DEF ivt, got
  <2> QED BY <1>2, <1>7, <2>3, <2>7 DEF Index!Xor
<1> QED BY <1>4, <1>6, <1>8

\* A plain block comes out behind an untouched block only of the block that
\* belongs there.
LEMMA LaterBlock ==
    ASSUME NEW k, NEW in, NEW n \in Nat, NEW c, Chained(k, in, c, n),
           \A b \in 1 .. n : IsPlain(in[b]),
           NEW x \in Blocks(c, n), NEW b \in 2 .. n,
           Index!Xor(Index!AES_decrypt(k, x), c[b - 1]) = in[b]
    PROVE  x = c[b]
<1>1. b \in 1 .. n /\ b - 1 \in 1 .. n OBVIOUS
<1>2. c[b] = Index!AES_encrypt(k, Index!Xor(in[b], c[b - 1])) BY <1>1 DEF Chained
<1>3. Index!AES_decrypt(k, x) = Index!Xor(in[b], c[b - 1])
  <2> DEFINE got == Index!AES_decrypt(k, x)
  <2>1. Index!Xor(Index!Xor(got, c[b - 1]), c[b - 1]) = got BY DatXor
  <2> HIDE DEF got
  <2>2. Index!Xor(got, c[b - 1]) = in[b] BY DEF got
  <2> QED BY <2>1, <2>2 DEF got
<1>4. CASE x = Junk
  <2> DEFINE v == <<"inv", k, Junk>>
             a == <<"aes", k, Index!Xor(in[b - 1], c[(b - 1) - 1])>>
  <2>1. Index!AES_decrypt(k, x) = {v} BY <1>4, DatJunk
  <2>2. c[b - 1] = {a} BY <1>1 DEF Chained, Index!AES_encrypt
  <2>3. PICK t : in[b] = {t} /\ t[1] \in {"sha1", "sha1 end", "text"} BY <1>1 DEF IsPlain
  <2>4. a[1] = "aes" /\ v[1] = "inv" OBVIOUS
  <2> HIDE DEF a, v
  <2>5. Index!Xor({t}, {a}) = {v} BY <1>3, <2>1, <2>2, <2>3
  <2>6. v # t /\ v # a BY <2>3, <2>4
  <2> QED BY <2>5, <2>6 DEF Index!Xor
<1>5. CASE x # Junk
  <2>1. PICK j \in 1 .. n : x = c[j] BY <1>5 DEF Blocks
  <2>2. c[j] = Index!AES_encrypt(k, Index!Xor(in[j], c[j - 1])) BY DEF Chained
  <2>3. Index!AES_decrypt(k, x) = Index!Xor(in[j], c[j - 1]) BY <2>1, <2>2, DatInverse
  <2> QED BY <1>2, <1>3, <2>1, <2>2, <2>3
<1> QED BY <1>4, <1>5

AllPlain(in, n) == \A b \in 1 .. n : IsPlain(in[b])
Mixed(x, m, c, n) == \A b \in 1 .. m : x[b] \in Blocks(c, n)
Same(x, y, n) == \A b \in 1 .. n : x[b] = y[b]

\* What undat's comparison lets through: under the right key the very blocks
\* that dat wrote, and nothing under another one.
LEMMA MatchIsOriginal ==
    ASSUME NEW k, NEW r, NEW in, NEW n \in Nat, n >= 2, NEW c, Chained(k, in, c, n),
           AllPlain(in, n), WithDigest(in, n),
           NEW m \in Nat, m >= 2, NEW x, Len(x) = m, Mixed(x, m, c, n),
           Index!Matches(Index!aes128cbc(r, x))
    PROVE  r = k /\ m = n /\ Same(x, c, n) /\ Same(Index!aes128cbc(r, x), in, n)
<1> USE DEF AllPlain, Mixed, Same
<1> DEFINE plain == Index!aes128cbc(r, x)
           rest == SubSeq(plain, 3, m)
           text == SubSeq(in, 3, n)
<1>1. /\ Len(plain) = m
      /\ \A b \in 1 .. m : plain[b] = Index!Xor(Index!AES_decrypt(r, x[b]),
                                                IF b = 1 THEN Iv(r) ELSE x[b - 1])
  BY DEF Index!aes128cbc, Iv
<1>2. plain[1] = {<<"sha1", rest>>} /\ plain[2] = {<<"sha1 end", rest>>}
  <2>1. /\ Index!Digest(rest)[1] = {<<"sha1", rest>>}
        /\ Index!Digest(rest)[2] = {<<"sha1 end", rest>>}
    BY DEF Index!Digest
  <2> HIDE DEF plain, rest
  <2>2. plain[1] = Index!Digest(rest)[1] /\ plain[2] = Index!Digest(rest)[2]
    BY <1>1 DEF Index!Matches, plain, rest
  <2> QED BY <2>1, <2>2
<1> HIDE DEF plain, rest, text
<1>3. r = k /\ x[1] = c[1]
  <2>1. x[1] \in Blocks(c, n) /\ plain[1] = Index!Xor(Index!AES_decrypt(r, x[1]), Iv(r))
    BY <1>1
  <2>2. IsHead(plain[1]) BY <1>2 DEF IsHead
  <2>3. r = k /\ x[1] = c[1] BY <2>1, <2>2, FirstBlock
  <2> QED BY <2>3
<1>4. c[1] = Index!AES_encrypt(k, Index!Xor(in[1], c[0])) /\ c[0] = Iv(k)
  BY DEF Chained
<1>5. plain[1] = in[1]
  <2>1. plain[1] = Index!Xor(Index!AES_decrypt(r, x[1]), Iv(r)) BY <1>1
  <2>2. Index!AES_decrypt(r, x[1]) = Index!Xor(in[1], Iv(k)) BY <1>3, <1>4, DatInverse
  <2>3. Index!Xor(Index!Xor(in[1], Iv(k)), Iv(k)) = in[1] BY DatXor
  <2> QED BY <2>1, <2>2, <2>3, <1>3
<1>6. rest = text
  <2>1. in[1] = {<<"sha1", text>>} BY DEF text, WithDigest
  <2>2. <<"sha1", text>> = <<"sha1", rest>> BY <2>1, <1>2, <1>5
  <2> QED BY <2>2
<1>7. /\ Len(rest) = m - 2 /\ \A b \in 3 .. m : rest[b - 2] = plain[b]
      /\ Len(text) = n - 2 /\ \A b \in 3 .. n : text[b - 2] = in[b]
  BY DEF rest, text
<1>8. m = n BY <1>6, <1>7
<1>9. \A b \in 1 .. n : plain[b] = in[b]
  <2> SUFFICES ASSUME NEW b \in 1 .. n PROVE plain[b] = in[b] OBVIOUS
  <2>1. CASE b = 1 BY <2>1, <1>5
  <2>2. CASE b = 2
    <3>1. in[2] = {<<"sha1 end", text>>} BY DEF text, WithDigest
    <3> QED BY <3>1, <2>2, <1>2, <1>6
  <2>3. CASE b \in 3 .. n BY <2>3, <1>6, <1>7, <1>8
  <2> QED BY <2>1, <2>2, <2>3
<1>10. \A b \in 1 .. n : x[b] = c[b]
  <2> DEFINE S == {b \in 1 .. n : x[b] # c[b]}
  <2>1. SUFFICES ASSUME S # {} PROVE FALSE OBVIOUS
  <2>2. S \in SUBSET Nat OBVIOUS
  <2>3. PICK b \in S : \A l \in S : b <= l BY <2>1, <2>2, LeastNat
  <2>4. b \in 2 .. n /\ b # 1 BY <2>3, <1>3
  <2>5. b - 1 \in 1 .. n /\ b - 1 \notin S BY <2>3, <2>4
  <2>6. x[b - 1] = c[b - 1] BY <2>5
  <2>7. plain[b] = Index!Xor(Index!AES_decrypt(k, x[b]), c[b - 1])
    BY <2>4, <2>6, <1>1, <1>3, <1>8
  <2>8. x[b] \in Blocks(c, n) BY <2>4, <1>8
  <2>9. in[b] = plain[b] BY <2>4, <1>9
  <2>10. Index!Xor(Index!AES_decrypt(k, x[b]), c[b - 1]) = in[b] BY <2>7, <2>9
  <2>11. x[b] = c[b]
    <3>1. \A q \in 1 .. n : IsPlain(in[q]) BY DEF AllPlain
    <3>2. PICK d \in 2 .. n : d = b BY <2>4
    <3>3. PICK y \in Blocks(c, n) : y = x[d] BY <3>2, <2>8
    <3>4. Index!Xor(Index!AES_decrypt(k, y), c[d - 1]) = in[d] BY <3>2, <3>3, <2>10
    <3> HIDE DEF S
    <3>5. y = c[d] BY <3>1, <3>4, LaterBlock
    <3> QED BY <3>2, <3>3, <3>5
  <2> QED BY <2>3, <2>11
<1> QED BY <1>3, <1>8, <1>9, <1>10 DEF plain

-----------------------------------------------------------------------------
\* The padded length: whole blocks, two more than the text's.
LEMMA PaddedLength ==
    ASSUME NEW n \in Nat
    PROVE  \E t \in Nat : /\ Index!new_len(n) = (t + 2) * DatBlock
                          /\ (Index!new_len(n) - Index!HeadLen) \div DatBlock = t
                          /\ Index!Count(Index!new_len(n)) = t + 2
                          /\ (t + 2) * DatBlock < n + Index!HeadLen + DatBlock
<1>1. DatBlock \in Nat \ {0} /\ Index!HeadLen = 2 * DatBlock
  BY IndexAssumption DEF Index!DatAssumption, Index!HeadLen
<1>2. PICK u \in Nat \ {0} : u = DatBlock BY <1>1
<1>3. n = (n \div u) * u + (n % u) /\ n % u \in 0 .. u - 1 /\ n \div u \in Nat BY <1>2
<1>4. PICK q \in Nat : q = n \div u BY <1>3
<1>5. PICK r \in 0 .. u - 1 : r = n % u BY <1>3
<1>6. n = q * u + r BY <1>3, <1>4, <1>5
<1>7. n + 2 * u = (q + 2) * u + r BY <1>6
<1>8. (n + 2 * u) % u = r
  <2>1. q + 2 \in Nat OBVIOUS
  <2>2. ((q + 2) * u + r) % u = r BY <2>1, Division
  <2> QED BY <2>2, <1>7
<1>9. PICK t \in Nat : t = IF r # 0 THEN q + 1 ELSE q OBVIOUS
<1>10. Index!new_len(n) = (t + 2) * u
  <2>1. Index!new_len(n) = n + 2 * u + (IF r # 0 THEN u - r ELSE 0)
    BY <1>1, <1>2, <1>8 DEF Index!new_len
  <2>2. CASE r = 0 BY <2>1, <2>2, <1>7, <1>9
  <2>3. CASE r # 0
    <3>1. PICK z \in Nat : z = (q + 2) * u
      <4>1. (q + 2) * u \in Nat OBVIOUS
      <4> QED BY <4>1
    <3>2. Index!new_len(n) = z + u BY <2>1, <2>3, <1>7, <3>1
    <3>3. (t + 2) * u = (q + 2) * u + u BY <1>9, <2>3
    <3> QED BY <3>1, <3>2, <3>3
  <2> QED BY <2>2, <2>3
<1>11. (Index!new_len(n) - Index!HeadLen) \div DatBlock = t
  <2>1. (t + 2) * u - 2 * u = t * u + 0 OBVIOUS
  <2>2. 0 \in 0 .. u - 1 OBVIOUS
  <2>3. (t * u + 0) \div u = t BY <2>2, Division
  <2> QED BY <2>1, <2>3, <1>1, <1>2, <1>10
<1>12. Index!Count(Index!new_len(n)) = t + 2
  <2>1. t + 2 \in Nat /\ u - 1 \in 0 .. u - 1 OBVIOUS
  <2>2. ((t + 2) * u + (u - 1)) \div u = t + 2 BY <2>1, Division
  <2>3. PICK z \in Nat : z = (t + 2) * u
    <3>1. (t + 2) * u \in Nat OBVIOUS
    <3> QED BY <3>1
  <2>4. z + u - 1 = z + (u - 1) OBVIOUS
  <2> QED BY <2>2, <2>3, <2>4, <1>2, <1>10 DEF Index!Count
<1>13. (t + 2) * u < n + 2 * u + u
  <2>1. PICK z \in Nat : z = (q + 2) * u
    <3>1. (q + 2) * u \in Nat OBVIOUS
    <3> QED BY <3>1
  <2>2. CASE r = 0
    <3>1. (t + 2) * u = z BY <1>9, <2>1, <2>2
    <3> QED BY <3>1, <2>1, <2>2, <1>7
  <2>3. CASE r # 0
    <3>1. (t + 2) * u = (q + 2) * u + u BY <1>9, <2>3
    <3> QED BY <3>1, <2>1, <2>3, <1>7
  <2> QED BY <2>2, <2>3
<1> QED BY <1>1, <1>2, <1>10, <1>11, <1>12, <1>13

\* What dat encrypts.
Clear(n) == Index!Digest(Index!Text(n)) \o Index!Text(n)

LEMMA ClearText ==
    ASSUME NEW n \in Nat
    PROVE  \E m \in Nat : /\ m >= 2 /\ Len(Clear(n)) = m
                          /\ Index!new_len(n) = m * DatBlock
                          /\ Index!Count(Index!new_len(n)) = m
                          /\ m * DatBlock < n + Index!HeadLen + DatBlock
                          /\ \A b \in 1 .. m : IsPlain(Clear(n)[b])
                          /\ WithDigest(Clear(n), m)
                          /\ SubSeq(Clear(n), 3, m) = Index!Text(n)
<1>1. PICK t \in Nat : /\ Index!new_len(n) = (t + 2) * DatBlock
                       /\ (Index!new_len(n) - Index!HeadLen) \div DatBlock = t
                       /\ Index!Count(Index!new_len(n)) = t + 2
                       /\ (t + 2) * DatBlock < n + Index!HeadLen + DatBlock
  BY PaddedLength
<1> DEFINE T == Index!Text(n)
           d1 == {<<"sha1", T>>}
           d2 == {<<"sha1 end", T>>}
<1>2. T = [b \in 1 .. t |-> T[b]] /\ \A b \in 1 .. t : IsPlain(T[b])
  <2> DEFINE w(b) == IF b * DatBlock <= n THEN DatBlock ELSE n % DatBlock
  <2>1. T = [b \in 1 .. t |-> {<<"text", b, w(b)>>}] BY <1>1 DEF Index!Text
  <2>2. \A b \in 1 .. t : T[b] = {<<"text", b, w(b)>>} BY <2>1
  <2>3. \A b : <<"text", b, w(b)>>[1] \in {"sha1", "sha1 end", "text"} OBVIOUS
  <2> HIDE DEF T, w
  <2>4. \A b \in 1 .. t : IsPlain(T[b]) BY <2>2, <2>3 DEF IsPlain
  <2>5. T = [b \in 1 .. t |-> T[b]] BY <2>1
  <2> QED BY <2>4, <2>5
<1>3. IsPlain(d1) /\ IsPlain(d2)
  <2>1. <<"sha1", T>>[1] = "sha1" /\ <<"sha1 end", T>>[1] = "sha1 end" OBVIOUS
  <2> HIDE DEF T
  <2> QED BY <2>1 DEF IsPlain
<1>4. Index!Digest(T) = <<d1, d2>> BY DEF Index!Digest
<1> HIDE DEF T, d1, d2
<1> DEFINE S == {d1, d2} \cup {T[b] : b \in 1 .. t}
           D == <<d1, d2>>
           U == D \o T
<1>5. T \in Seq(S) /\ Len(T) = t BY <1>2
<1>6. D \in Seq(S) /\ Len(D) = 2 /\ D[1] = d1 /\ D[2] = d2 OBVIOUS
<1> HIDE DEF S, D
<1>7. /\ U \in Seq(S) /\ Len(U) = 2 + t
      /\ \A b \in 1 .. 2 + t : U[b] = IF b <= 2 THEN D[b] ELSE T[b - 2]
  <2>1. /\ U \in Seq(S) /\ Len(U) = Len(D) + Len(T)
        /\ \A b \in 1 .. Len(D) + Len(T) : U[b] = IF b <= Len(D) THEN D[b] ELSE T[b - Len(D)]
    BY <1>5, <1>6, ConcatProperties
  <2> HIDE DEF U
  <2> QED BY <2>1, <1>5, <1>6
<1>8. Clear(n) = U BY <1>4 DEF Clear, T, D
<1> HIDE DEF U
<1>9. U[1] = d1 /\ U[2] = d2 /\ \A b \in 1 .. t : U[b + 2] = T[b] BY <1>6, <1>7
<1>10. SubSeq(U, 3, 2 + t) = T
  <2> DEFINE V == SubSeq(U, 3, 2 + t)
  <2>1. \A b \in 3 .. 2 + t : U[b] \in S BY <1>7
  <2>2. /\ V \in Seq(S) /\ Len(V) = IF 3 <= 2 + t THEN 2 + t - 3 + 1 ELSE 0
        /\ \A b \in 1 .. 2 + t - 3 + 1 : V[b] = U[3 + b - 1]
    BY <2>1, SubSeqProperties
  <2>3. Len(V) = t /\ \A b \in 1 .. t : V[b] = U[b + 2] BY <2>2
  <2> HIDE DEF V
  <2>4. \A b \in 1 .. Len(V) : V[b] = T[b] BY <2>3, <1>9
  <2>5. V = T BY <2>2, <2>3, <2>4, <1>5, SeqEqual
  <2> QED BY <2>5 DEF V
<1>11. \A b \in 1 .. 2 + t : IsPlain(U[b])
  <2> SUFFICES ASSUME NEW b \in 1 .. 2 + t PROVE IsPlain(U[b]) OBVIOUS
  <2>1. CASE b \in 1 .. 2
    <3>1. b = 1 \/ b = 2 BY <2>1
    <3> QED BY <3>1, <1>3, <1>9
  <2>2. CASE b \in 3 .. 2 + t
    <3>1. b - 2 \in 1 .. t /\ ~(b <= 2) BY <2>2
    <3>2. U[b] = T[b - 2] BY <3>1, <1>7
    <3> QED BY <3>1, <3>2, <1>2
  <2> QED BY <2>1, <2>2
<1>12. WithDigest(U, 2 + t) BY <1>9, <1>10 DEF WithDigest, d1, d2
<1>13. 2 + t = t + 2 /\ 2 + t \in Nat /\ 2 + t >= 2 OBVIOUS
<1> QED BY <1>1, <1>7, <1>8, <1>10, <1>11, <1>12, <1>13 DEF T

-----------------------------------------------------------------------------
(* The file between the two programs. *)

Original == Index!aes128cbc_enc(dat_key, Clear(dat_len))

\* A file as dat left it, or with one fault: then its blocks are others, or it
\* ends inside one.
FileIs(f, o) ==
    /\ \A b \in 1 .. Len(f.blocks) : f.blocks[b] \in {Junk} \cup {o[j] : j \in 1 .. Len(o)}
    /\ ~dat_faulty => f.blocks = o /\ f.len = Index!new_len(dat_len)
    /\ dat_faulty => f.blocks # o \/ f.len % DatBlock # 0

FileTyped(f) ==
    /\ f = [blocks |-> f.blocks, len |-> f.len]
    /\ f.len \in Nat /\ f.blocks = [b \in 1 .. Index!Count(f.len) |-> f.blocks[b]]

DInv ==
    /\ dat_len \in DatTexts /\ dat_faulty \in BOOLEAN
    /\ dat_pc \in {"dat", "store", "decrypt", "refused", "mismatch", "done", "failed", "crashed"}
    /\ FileTyped(dat_file)
    /\ dat_pc = "dat" => ~dat_faulty
    /\ dat_pc \in {"store", "decrypt"} => FileIs(dat_file, Original)
    /\ dat_pc = "decrypt" => ~Index!TooShort
    /\ Index!OnlyTheText

LEMMA CountNat ==
    ASSUME NEW n \in Nat
    PROVE  Index!Count(n) \in Nat
<1>1. DatBlock \in Nat \ {0} BY IndexAssumption DEF Index!DatAssumption
<1> QED BY <1>1 DEF Index!Count

\* What dat leaves.
LEMMA OriginalIs ==
    ASSUME dat_len \in DatTexts
    PROVE  \E m \in Nat : \E c :
              /\ m >= 2 /\ Chained(dat_key, Clear(dat_len), c, m)
              /\ Original = [b \in 1 .. m |-> c[b]]
              /\ Index!new_len(dat_len) = m * DatBlock
              /\ Index!Count(Index!new_len(dat_len)) = m
              /\ m * DatBlock < dat_len + Index!HeadLen + DatBlock
              /\ \A b \in 1 .. m : IsPlain(Clear(dat_len)[b])
              /\ WithDigest(Clear(dat_len), m)
              /\ SubSeq(Clear(dat_len), 3, m) = Index!Text(dat_len)
<1>1. dat_len \in Nat BY IndexAssumption DEF Index!DatAssumption
<1>2. PICK m \in Nat : /\ m >= 2 /\ Len(Clear(dat_len)) = m
                       /\ Index!new_len(dat_len) = m * DatBlock
                       /\ Index!Count(Index!new_len(dat_len)) = m
                       /\ m * DatBlock < dat_len + Index!HeadLen + DatBlock
                       /\ \A b \in 1 .. m : IsPlain(Clear(dat_len)[b])
                       /\ WithDigest(Clear(dat_len), m)
                       /\ SubSeq(Clear(dat_len), 3, m) = Index!Text(dat_len)
  BY <1>1, ClearText
<1>3. PICK c : /\ Chained(dat_key, Clear(dat_len), c, m)
               /\ Original = [b \in 1 .. m |-> c[b]]
  <2> DEFINE in == Clear(dat_len)
  <2>1. Len(in) \in Nat BY <1>2
  <2> HIDE DEF in
  <2>2. PICK c : /\ Chained(dat_key, in, c, Len(in))
                 /\ Index!aes128cbc_enc(dat_key, in) = [b \in 1 .. Len(in) |-> c[b]]
    BY <2>1, Encrypted
  <2>3. Len(in) = m BY <1>2 DEF in
  <2>4. Original = Index!aes128cbc_enc(dat_key, in) BY DEF Original, in
  <2>5. Chained(dat_key, Clear(dat_len), c, m) BY <2>2, <2>3 DEF in
  <2> QED BY <2>2, <2>3, <2>4, <2>5
<1> QED BY <1>2, <1>3

\* A file cut at a byte n has blocks of the original, and fewer if n is a
\* block's end.
LEMMA CutBlocks ==
    ASSUME NEW m \in Nat, NEW n \in Nat, n < m * DatBlock
    PROVE  /\ Index!Count(n) \in 0 .. m
           /\ n % DatBlock = 0 => Index!Count(n) < m
<1>1. PICK u \in Nat \ {0} : u = DatBlock BY IndexAssumption DEF Index!DatAssumption
<1>2. n = (n \div u) * u + (n % u) /\ n % u \in 0 .. u - 1 /\ n \div u \in Nat OBVIOUS
<1>3. PICK q \in Nat : q = n \div u BY <1>2
<1>4. PICK r \in 0 .. u - 1 : r = n % u BY <1>2
<1>5. n = q * u + r BY <1>2, <1>3, <1>4
<1>6. q < m
  <2> SUFFICES ASSUME m <= q PROVE FALSE OBVIOUS
  <2>1. PICK d \in Nat : q = m + d
    <3>1. q - m \in Nat /\ q = m + (q - m) OBVIOUS
    <3> QED BY <3>1
  <2>2. q * u = m * u + d * u BY <2>1
  <2>3. d * u \in Nat /\ m * u \in Nat OBVIOUS
  <2> QED BY <2>2, <2>3, <1>1, <1>5
<1>7. Index!Count(n) = IF r = 0 THEN q ELSE q + 1
  <2>1. PICK z \in Nat : z = q * u
    <3>1. q * u \in Nat OBVIOUS
    <3> QED BY <3>1
  <2>2. CASE r = 0
    <3>1. u - 1 \in 0 .. u - 1 OBVIOUS
    <3>2. (q * u + (u - 1)) \div u = q BY <3>1, Division
    <3>3. n + u - 1 = q * u + (u - 1) BY <2>1, <2>2, <1>5
    <3> QED BY <3>2, <3>3, <2>2, <1>1 DEF Index!Count
  <2>3. CASE r # 0
    <3>1. r - 1 \in 0 .. u - 1 /\ q + 1 \in Nat BY <2>3
    <3>2. ((q + 1) * u + (r - 1)) \div u = q + 1 BY <3>1, Division
    <3>3. (q + 1) * u = q * u + u OBVIOUS
    <3>4. n + u - 1 = (q + 1) * u + (r - 1) BY <2>1, <3>3, <1>5
    <3> QED BY <3>2, <3>4, <2>3, <1>1 DEF Index!Count
  <2> QED BY <2>2, <2>3
<1> QED BY <1>1, <1>4, <1>6, <1>7

\* So many blocks, so long a file.
LEMMA WholeBlocks ==
    ASSUME NEW m \in Nat
    PROVE  m * DatBlock \in Nat /\ Index!Count(m * DatBlock) = m
<1>1. PICK u \in Nat \ {0} : u = DatBlock BY IndexAssumption DEF Index!DatAssumption
<1>2. u - 1 \in 0 .. u - 1 OBVIOUS
<1>3. (m * u + (u - 1)) \div u = m BY <1>2, Division
<1>4. PICK z \in Nat : z = m * u
  <2>1. m * u \in Nat OBVIOUS
  <2> QED BY <2>1
<1>5. z + u - 1 = z + (u - 1) OBVIOUS
<1> QED BY <1>1, <1>3, <1>4, <1>5 DEF Index!Count

-----------------------------------------------------------------------------
LEMMA DatInit == Index!Init => DInv
<1> SUFFICES ASSUME Index!Init PROVE DInv OBVIOUS
<1>1. DatBlock \in Nat \ {0} BY IndexAssumption DEF Index!DatAssumption
<1>2. Index!Count(0) = 0
  <2>1. PICK u \in Nat \ {0} : u = DatBlock BY <1>1
  <2>2. 0 * u + (u - 1) = u - 1 /\ u - 1 \in 0 .. u - 1 OBVIOUS
  <2>3. (0 * u + (u - 1)) \div u = 0 BY <2>2, Division
  <2>4. 0 + u - 1 = u - 1 OBVIOUS
  <2> QED BY <2>1, <2>2, <2>3, <2>4 DEF Index!Count
<1>3. FileTyped(dat_file)
  <2>1. dat_file = [blocks |-> <<>>, len |-> 0] BY DEF Index!Init
  <2>2. dat_file.blocks = <<>> /\ dat_file.len = 0 BY <2>1
  <2>3. <<>> = [b \in 1 .. 0 |-> dat_file.blocks[b]] OBVIOUS
  <2> QED BY <2>1, <2>2, <2>3, <1>2 DEF FileTyped
<1> QED BY <1>3 DEF DInv, Index!Init, Index!OnlyTheText

LEMMA DatWrites == DInv /\ Index!dat => DInv'
<1> SUFFICES ASSUME DInv, Index!dat PROVE DInv' OBVIOUS
<1>1. /\ dat_pc = "dat" /\ dat_pc' = "store" /\ ~dat_faulty
      /\ dat_len' = dat_len /\ dat_key' = dat_key /\ dat_faulty' = dat_faulty
      /\ undat_key' = undat_key /\ dat_out' = dat_out
      /\ dat_file' = [blocks |-> Original, len |-> Index!new_len(dat_len)]
  BY DEF DInv, Index!dat, Original, Clear
<1>2. dat_len \in DatTexts BY DEF DInv
<1>3a. PICK m \in Nat : \E c :
          /\ Original = [b \in 1 .. m |-> c[b]]
          /\ Index!new_len(dat_len) = m * DatBlock
          /\ Index!Count(Index!new_len(dat_len)) = m
  BY <1>2, OriginalIs
<1>3. PICK c :
          /\ Original = [b \in 1 .. m |-> c[b]]
          /\ Index!new_len(dat_len) = m * DatBlock
          /\ Index!Count(Index!new_len(dat_len)) = m
  BY <1>3a
<1>4. m * DatBlock \in Nat BY WholeBlocks
<1>5. Original' = Original BY <1>1 DEF Original
<1>6. PICK o, l : o = Original /\ l = Index!new_len(dat_len) OBVIOUS
<1>7. dat_file'.blocks = o /\ dat_file'.len = l /\ dat_file' = [blocks |-> o, len |-> l]
  BY <1>1, <1>6
<1>8. Len(o) = m /\ DOMAIN o = 1 .. m BY <1>3, <1>6
<1>9. FileTyped(dat_file')
  <2>1. o = [b \in 1 .. m |-> o[b]] BY <1>3, <1>6
  <2> QED BY <2>1, <1>3, <1>4, <1>6, <1>7 DEF FileTyped
<1>10. (FileIs(dat_file, Original))'
  <2>1. \A b \in 1 .. Len(o) : o[b] \in {o[j] : j \in 1 .. Len(o)} OBVIOUS
  <2>2. (Index!new_len(dat_len))' = l BY <1>1, <1>6 DEF Index!new_len
  <2> QED BY <2>1, <2>2, <1>1, <1>5, <1>6, <1>7 DEF FileIs
<1> QED BY <1>1, <1>9, <1>10 DEF DInv, Index!OnlyTheText, FileTyped

\* One fault, whatever it is.
LEMMA DatFaults ==
    DInv /\ (Index!Cut \/ Index!Damage \/ Index!Swap \/ Index!Grow) => DInv'
<1> SUFFICES ASSUME DInv, Index!Cut \/ Index!Damage \/ Index!Swap \/ Index!Grow
             PROVE  DInv'
  OBVIOUS
<1>1. PICK f :
        /\ Index!Faulty(f)
        /\ \/ \E n \in 0 .. dat_file.len - 1 :
                 f = [blocks |-> SubSeq(dat_file.blocks, 1, Index!Count(n)), len |-> n]
           \/ \E b \in DOMAIN dat_file.blocks : f = [dat_file EXCEPT !.blocks[b] = Junk]
           \/ \E b, d \in DOMAIN dat_file.blocks :
                 f = [dat_file EXCEPT !.blocks[b] = dat_file.blocks[d],
                                      !.blocks[d] = dat_file.blocks[b]]
           \/ f = [blocks |-> Append(dat_file.blocks, Junk), len |-> dat_file.len + DatBlock]
  <2>1. CASE Index!Cut BY <2>1 DEF Index!Cut
  <2>2. CASE Index!Damage BY <2>2 DEF Index!Damage, Junk
  <2>3. CASE Index!Swap BY <2>3 DEF Index!Swap
  <2>4. CASE Index!Grow BY <2>4 DEF Index!Grow, Junk
  <2> QED BY <2>1, <2>2, <2>3, <2>4
<1>2. /\ dat_pc = "store" /\ ~dat_faulty /\ dat_file' = f /\ f # dat_file /\ dat_faulty' = TRUE
      /\ UNCHANGED <<dat_len, dat_key, undat_key, dat_pc, dat_out>>
  BY <1>1 DEF Index!Faulty
<1>3a. PICK m \in Nat : \E c :
          /\ m >= 2 /\ Original = [b \in 1 .. m |-> c[b]]
          /\ Index!new_len(dat_len) = m * DatBlock
          /\ Index!Count(Index!new_len(dat_len)) = m
  <2>1. dat_len \in DatTexts BY DEF DInv
  <2> QED BY <2>1, OriginalIs
<1>3. PICK c :
          /\ m >= 2 /\ Original = [b \in 1 .. m |-> c[b]]
          /\ Index!new_len(dat_len) = m * DatBlock
          /\ Index!Count(Index!new_len(dat_len)) = m
  BY <1>3a
<1>4. PICK o, l : o = dat_file.blocks /\ l = dat_file.len OBVIOUS
<1>5. /\ o = Original /\ l = m * DatBlock /\ Index!Count(l) = m
      /\ o = [b \in 1 .. m |-> o[b]] /\ Len(o) = m /\ DOMAIN o = 1 .. m
      /\ dat_file = [blocks |-> o, len |-> l]
  <2>1. FileIs(dat_file, Original) /\ FileTyped(dat_file) BY <1>2 DEF DInv
  <2>2. o = Original /\ l = m * DatBlock BY <2>1, <1>2, <1>3, <1>4 DEF FileIs
  <2>3. DOMAIN o = 1 .. m /\ o = [b \in 1 .. m |-> o[b]] BY <2>2, <1>3
  <2> HIDE DEF FileIs
  <2>4. Len(o) = m BY <2>3
  <2>5. dat_file = [blocks |-> o, len |-> l] BY <2>1, <1>4 DEF FileTyped
  <2> QED BY <2>2, <2>3, <2>4, <2>5, <1>3
<1>6. l \in Nat /\ DatBlock \in Nat \ {0}
  BY <1>5, WholeBlocks, IndexAssumption DEF Index!DatAssumption
<1> DEFINE Fine(x, y, z) ==
             /\ x = [b \in 1 .. z |-> x[b]] /\ y \in Nat /\ Index!Count(y) = z /\ z \in Nat
             /\ \A b \in 1 .. z : x[b] \in {Junk} \cup {o[j] : j \in 1 .. m}
             /\ x # o \/ y % DatBlock # 0
<1>7. \E x, y, z : f = [blocks |-> x, len |-> y] /\ Fine(x, y, z)
  <2>1. CASE \E n \in 0 .. dat_file.len - 1 :
                f = [blocks |-> SubSeq(dat_file.blocks, 1, Index!Count(n)), len |-> n]
    <3>1. PICK n \in 0 .. l - 1 : f = [blocks |-> SubSeq(o, 1, Index!Count(n)), len |-> n]
      BY <2>1, <1>4
    <3>2. n \in Nat /\ n < m * DatBlock BY <3>1, <1>5, <1>6
    <3>3. PICK z : z = Index!Count(n) OBVIOUS
    <3>4. z \in 0 .. m /\ (n % DatBlock = 0 => z < m) BY <3>2, <3>3, CutBlocks
    <3> DEFINE x == SubSeq(o, 1, z)
    <3>5. x = [b \in 1 .. z |-> o[b]] BY <3>4, <1>5
    <3> HIDE DEF x
    <3>6. DOMAIN x = 1 .. z /\ \A b \in 1 .. z : x[b] = o[b] /\ b \in 1 .. m
      BY <3>4, <3>5
    <3>7. x = [b \in 1 .. z |-> x[b]] BY <3>5, <3>6
    <3>8. x # o \/ n % DatBlock # 0
      <4> SUFFICES ASSUME n % DatBlock = 0, x = o PROVE FALSE OBVIOUS
      <4>1. 1 .. z = 1 .. m /\ z < m BY <3>4, <3>6, <1>5
      <4>2. m \in 1 .. m /\ m \notin 1 .. z BY <4>1, <3>4, <1>3
      <4> QED BY <4>1, <4>2
    <3>9. Fine(x, n, z) BY <3>2, <3>3, <3>4, <3>6, <3>7, <3>8
    <3> QED BY <3>1, <3>3, <3>9 DEF x
  <2>2. CASE \E b \in DOMAIN dat_file.blocks : f = [dat_file EXCEPT !.blocks[b] = Junk]
    <3>1. PICK d \in 1 .. m : f = [dat_file EXCEPT !.blocks[d] = Junk]
      BY <2>2, <1>4, <1>5
    <3> DEFINE x == [b \in 1 .. m |-> IF b = d THEN Junk ELSE o[b]]
    <3>2. x = [o EXCEPT ![d] = Junk] BY <1>5
    <3>3. f = [blocks |-> [o EXCEPT ![d] = Junk], len |-> l] BY <3>1, <1>5
    <3>4. f = [blocks |-> x, len |-> l] BY <3>2, <3>3
    <3>5. x # o BY <3>4, <1>2, <1>5
    <3>6. \A b \in 1 .. m : x[b] \in {Junk} \cup {o[j] : j \in 1 .. m} OBVIOUS
    <3>7. x = [b \in 1 .. m |-> x[b]] OBVIOUS
    <3> HIDE DEF x
    <3>8. Fine(x, l, m) BY <3>5, <3>6, <3>7, <1>5, <1>6
    <3> QED BY <3>4, <3>8
  <2>3. CASE \E b, d \in DOMAIN dat_file.blocks :
                f = [dat_file EXCEPT !.blocks[b] = dat_file.blocks[d],
                                     !.blocks[d] = dat_file.blocks[b]]
    <3>1. PICK d \in 1 .. m, e \in 1 .. m :
             f = [dat_file EXCEPT !.blocks[d] = dat_file.blocks[e],
                                  !.blocks[e] = dat_file.blocks[d]]
      BY <2>3, <1>4, <1>5
    <3> DEFINE x == [b \in 1 .. m |-> IF b = e THEN o[d] ELSE IF b = d THEN o[e] ELSE o[b]]
    <3>2. x = [o EXCEPT ![d] = o[e], ![e] = o[d]] BY <1>5
    <3>3. f = [blocks |-> [o EXCEPT ![d] = o[e], ![e] = o[d]], len |-> l]
      BY <3>1, <1>4, <1>5
    <3>4. f = [blocks |-> x, len |-> l] BY <3>2, <3>3
    <3>5. x # o BY <3>4, <1>2, <1>5
    <3>6. \A b \in 1 .. m : x[b] \in {Junk} \cup {o[j] : j \in 1 .. m} OBVIOUS
    <3>7. x = [b \in 1 .. m |-> x[b]] OBVIOUS
    <3> HIDE DEF x
    <3>8. Fine(x, l, m) BY <3>5, <3>6, <3>7, <1>5, <1>6
    <3> QED BY <3>4, <3>8
  <2>4. CASE f = [blocks |-> Append(dat_file.blocks, Junk), len |-> dat_file.len + DatBlock]
    <3> DEFINE x == [b \in 1 .. m + 1 |-> IF b = m + 1 THEN Junk ELSE o[b]]
    <3>1. x = Append(o, Junk) BY <1>5
    <3>2. f = [blocks |-> x, len |-> l + DatBlock] BY <2>4, <3>1, <1>4
    <3>3. l + DatBlock = (m + 1) * DatBlock /\ m + 1 \in Nat BY <1>5, <1>6
    <3>4. Index!Count(l + DatBlock) = m + 1 /\ l + DatBlock \in Nat BY <3>3, WholeBlocks
    <3>5. x # o
      <4>1. m + 1 \in DOMAIN x /\ m + 1 \notin DOMAIN o BY <1>5
      <4> HIDE DEF x
      <4> QED BY <4>1
    <3>6. \A b \in 1 .. m + 1 : x[b] \in {Junk} \cup {o[j] : j \in 1 .. m} OBVIOUS
    <3>7. x = [b \in 1 .. m + 1 |-> x[b]] OBVIOUS
    <3> HIDE DEF x
    <3>8. Fine(x, l + DatBlock, m + 1) BY <3>3, <3>4, <3>5, <3>6, <3>7
    <3> QED BY <3>2, <3>8
  <2> QED BY <1>1, <2>1, <2>2, <2>3, <2>4
<1>8. PICK x, y, z : f = [blocks |-> x, len |-> y] /\ Fine(x, y, z) BY <1>7
<1>9. dat_file'.blocks = x /\ dat_file'.len = y /\ dat_file' = [blocks |-> x, len |-> y]
  BY <1>2, <1>8
<1>10. FileTyped(dat_file') BY <1>8, <1>9 DEF FileTyped
<1>11. Original' = o BY <1>2, <1>5 DEF Original
<1>12. Len(x) = z BY <1>8
<1>13. (FileIs(dat_file, Original))' BY <1>2, <1>5, <1>8, <1>9, <1>11, <1>12 DEF FileIs
<1>14. (Index!OnlyTheText)' /\ dat_pc' = "store" BY <1>2 DEF Index!OnlyTheText
<1> QED BY <1>2, <1>10, <1>13, <1>14 DEF DInv, FileTyped

\* undat's comparison.
LEMMA DatDecrypts == DInv /\ Index!Decrypt => DInv'
<1> SUFFICES ASSUME DInv, Index!Decrypt PROVE DInv' OBVIOUS
<1> DEFINE plain == Index!aes128cbc(undat_key, dat_file.blocks)
<1>1. /\ dat_pc = "decrypt" /\ dat_file.len % DatBlock = 0
      /\ dat_pc' \in {"done", "mismatch"}
      /\ UNCHANGED <<dat_len, dat_key, undat_key, dat_file, dat_faulty>>
      /\ dat_pc' = "done" => Index!Matches(plain) /\ dat_out' = SubSeq(plain, 3, Len(plain))
  BY DEF Index!Decrypt
<1>2. CASE dat_pc' = "mismatch"
  BY <1>1, <1>2 DEF DInv, Index!OnlyTheText, FileTyped
<1>3. CASE dat_pc' = "done"
  <2>1. dat_len \in DatTexts /\ FileTyped(dat_file) /\ FileIs(dat_file, Original)
        /\ ~Index!TooShort
    BY <1>1 DEF DInv
  <2>2a. PICK n \in Nat : \E c :
            /\ n >= 2 /\ Chained(dat_key, Clear(dat_len), c, n)
            /\ Original = [b \in 1 .. n |-> c[b]]
            /\ \A b \in 1 .. n : IsPlain(Clear(dat_len)[b])
            /\ WithDigest(Clear(dat_len), n)
            /\ SubSeq(Clear(dat_len), 3, n) = Index!Text(dat_len)
    BY <2>1, OriginalIs
  <2>2. PICK c :
            /\ n >= 2 /\ Chained(dat_key, Clear(dat_len), c, n)
            /\ Original = [b \in 1 .. n |-> c[b]]
            /\ \A b \in 1 .. n : IsPlain(Clear(dat_len)[b])
            /\ WithDigest(Clear(dat_len), n)
            /\ SubSeq(Clear(dat_len), 3, n) = Index!Text(dat_len)
    BY <2>2a
  <2>3. PICK x, l : x = dat_file.blocks /\ l = dat_file.len OBVIOUS
  <2>4. PICK m \in Nat : m = Index!Count(l) BY <2>1, <2>3, CountNat DEF FileTyped
  <2>5. x = [b \in 1 .. m |-> x[b]] /\ l \in Nat BY <2>1, <2>3, <2>4 DEF FileTyped
  <2>6. DOMAIN x = 1 .. m /\ Len(x) = m BY <2>5
  <2>7. m >= 2
    <3>1. PICK u \in Nat \ {0, 1} : u = DatBlock BY IndexAssumption DEF Index!DatAssumption
    <3>2. l >= 2 * u - 1 /\ l % u = 0
      BY <1>1, <2>1, <2>3, <2>5, <3>1 DEF Index!TooShort, Index!HeadLen
    <3>3. l = (l \div u) * u + (l % u) /\ l \div u \in Nat BY <2>5, <3>1
    <3>4. PICK q \in Nat : q = l \div u BY <3>3
    <3>5. l = q * DatBlock BY <3>1, <3>2, <3>3, <3>4
    <3>6. m = q BY <2>4, <3>5, WholeBlocks
    <3>7. CASE q = 0 BY <3>1, <3>2, <3>5, <3>7
    <3>8. CASE q = 1 BY <3>1, <3>2, <3>5, <3>8
    <3> QED BY <3>6, <3>7, <3>8
  <2>8. Mixed(x, m, c, n)
    <3>1. Len(Original) = n /\ \A j \in 1 .. n : Original[j] = c[j] BY <2>2
    <3>2. {Original[j] : j \in 1 .. Len(Original)} = {c[j] : j \in 1 .. n} BY <3>1
    <3> QED BY <2>1, <2>3, <2>6, <3>2 DEF FileIs, Blocks, Mixed
  <2>9. PICK in : in = Clear(dat_len) OBVIOUS
  <2>10. PICK k, r : k = dat_key /\ r = undat_key OBVIOUS
  <2>11. r = k /\ m = n /\ Same(x, c, n) /\ Same(Index!aes128cbc(r, x), in, n)
    <3>1. Chained(k, in, c, n) /\ WithDigest(in, n) /\ AllPlain(in, n)
      BY <2>2, <2>9, <2>10 DEF AllPlain
    <3>2. n \in Nat /\ n >= 2 /\ m \in Nat /\ m >= 2 /\ Len(x) = m BY <2>2, <2>4, <2>6, <2>7
    <3>3. Index!Matches(Index!aes128cbc(r, x)) BY <1>1, <1>3, <2>3, <2>10
    <3> QED BY <2>8, <3>1, <3>2, <3>3, MatchIsOriginal
  <2>12. x = Original BY <2>2, <2>5, <2>11 DEF Same
  <2>13. ~dat_faulty BY <1>1, <2>1, <2>3, <2>12 DEF FileIs
  <2>14. dat_out' = Index!Text(dat_len)
    <3> DEFINE got == Index!aes128cbc(r, x)
    <3>1. Len(got) = n BY <2>6, <2>11 DEF Index!aes128cbc
    <3>2. dat_out' = SubSeq(got, 3, n) BY <1>1, <1>3, <2>3, <2>10, <3>1
    <3>3. \A b \in 1 .. n : got[b] = in[b] BY <2>11 DEF Same
    <3> HIDE DEF got
    <3> DEFINE S == {in[b] : b \in 1 .. n}
               u == SubSeq(got, 3, n)
               v == SubSeq(in, 3, n)
    <3>4. \A b \in 3 .. n : got[b] \in S /\ in[b] \in S BY <3>3
    <3> HIDE DEF S
    <3>5. /\ u \in Seq(S) /\ Len(u) = IF 3 <= n THEN n - 3 + 1 ELSE 0
          /\ \A b \in 1 .. n - 3 + 1 : u[b] = got[3 + b - 1]
      BY <2>2, <3>4, SubSeqProperties
    <3>6. /\ v \in Seq(S) /\ Len(v) = IF 3 <= n THEN n - 3 + 1 ELSE 0
          /\ \A b \in 1 .. n - 3 + 1 : v[b] = in[3 + b - 1]
      BY <2>2, <3>4, SubSeqProperties
    <3> HIDE DEF u, v
    <3>7. Len(u) = n - 2 /\ Len(v) = n - 2 BY <2>2, <3>5, <3>6
    <3>8. ASSUME NEW b \in 1 .. Len(u) PROVE u[b] = v[b]
      <4>1. b \in 1 .. n - 3 + 1 /\ 3 + b - 1 \in 1 .. n BY <2>2, <3>7
      <4> QED BY <4>1, <3>3, <3>5, <3>6
    <3>9. u = v BY <3>5, <3>6, <3>7, <3>8, SeqEqual
    <3> QED BY <2>2, <2>9, <3>2, <3>9 DEF u, v
  <2>15. (Index!Text(dat_len))' = Index!Text(dat_len) BY <1>1 DEF Index!Text, Index!new_len
  <2>16. (Index!OnlyTheText)'
    BY <1>1, <2>10, <2>11, <2>13, <2>14, <2>15 DEF Index!OnlyTheText
  <2> QED BY <1>1, <1>3, <2>1, <2>16 DEF DInv, FileTyped
<1> QED BY <1>1, <1>2, <1>3

LEMMA DatStep == DInv /\ [Index!Next]_(Index!vars) => DInv'
<1> SUFFICES ASSUME DInv, [Index!Next]_(Index!vars) PROVE DInv' OBVIOUS
<1>1. CASE Index!dat BY <1>1, DatWrites
<1>2. CASE Index!Cut \/ Index!Damage \/ Index!Swap \/ Index!Grow BY <1>2, DatFaults
<1>3. CASE Index!Decrypt BY <1>3, DatDecrypts
<1>4. CASE Index!NoKeyFile \/ Index!Runaway
  <2>1. /\ dat_pc' \in {"failed", "crashed"}
        /\ UNCHANGED <<dat_len, dat_key, undat_key, dat_file, dat_faulty, dat_out>>
    BY <1>4 DEF Index!NoKeyFile, Index!Runaway
  <2> QED BY <2>1 DEF DInv, Index!OnlyTheText, FileTyped
<1>5. CASE Index!undat
  <2>1. /\ dat_pc = "store" /\ dat_pc' \in {"refused", "decrypt"}
        /\ dat_pc' = "decrypt" => ~Index!TooShort
        /\ UNCHANGED <<dat_len, dat_key, undat_key, dat_file, dat_faulty, dat_out>>
    BY <1>5 DEF Index!undat
  <2>2. FileIs(dat_file, Original) BY <2>1 DEF DInv
  <2>3. (FileIs(dat_file, Original))'
    BY <2>1, <2>2 DEF FileIs, Original, Clear, Index!Text, Index!new_len
  <2> QED BY <2>1, <2>3 DEF DInv, Index!OnlyTheText, FileTyped, Index!TooShort
<1>6. CASE UNCHANGED Index!vars
  <2>1. UNCHANGED <<dat_len, dat_key, undat_key, dat_pc, dat_file, dat_faulty, dat_out>>
    BY <1>6 DEF Index!vars
  <2>2. ASSUME dat_pc \in {"store", "decrypt"} PROVE (FileIs(dat_file, Original))'
    <3>1. FileIs(dat_file, Original) BY <2>2 DEF DInv
    <3>2. /\ dat_file' = dat_file /\ dat_len' = dat_len /\ dat_faulty' = dat_faulty
          /\ Original' = Original
      BY <2>1 DEF Original
    <3>3. PICK o : o = Original OBVIOUS
    <3>4. FileIs(dat_file, o) /\ Original' = o BY <3>1, <3>2, <3>3
    <3> QED BY <3>2, <3>4 DEF FileIs
  <2> QED BY <2>1, <2>2 DEF DInv, Index!OnlyTheText, FileTyped, Index!TooShort, Index!Text, Index!new_len
<1> QED BY <1>1, <1>2, <1>3, <1>4, <1>5, <1>6 DEF Index!Next

LEMMA DatTypes == DInv => Index!TypeOK
<1> SUFFICES ASSUME DInv PROVE Index!TypeOK OBVIOUS
<1>1. PICK m \in Nat : m = Index!Count(dat_file.len) BY CountNat DEF DInv, FileTyped
<1>2. Len(dat_file.blocks) = m
  <2>1. PICK x : x = dat_file.blocks OBVIOUS
  <2>2. x = [b \in 1 .. m |-> x[b]] BY <1>1, <2>1 DEF DInv, FileTyped
  <2>3. Len(x) = m BY <2>2
  <2> QED BY <2>1, <2>3
<1>3. ASSUME dat_pc \in {"store", "decrypt"}, ~dat_faulty
      PROVE  Index!Count(dat_file.len) * DatBlock < dat_len + Index!HeadLen + DatBlock
  <2>1. dat_len \in DatTexts /\ dat_file.len = Index!new_len(dat_len)
    BY <1>3 DEF DInv, FileIs
  <2>2. PICK n \in Nat : /\ Index!Count(Index!new_len(dat_len)) = n
                         /\ n * DatBlock < dat_len + Index!HeadLen + DatBlock
    BY <2>1, OriginalIs
  <2> QED BY <2>1, <2>2
<1> QED BY <1>1, <1>2, <1>3 DEF Index!TypeOK, DInv

LEMMA ToolsInitDInv == ToolsInit => DInv
<1>1. ToolsInit => Index!Init BY DEF ToolsInit, IndexIdle
<1> QED BY <1>1, DatInit

LEMMA ToolsNextDInv == DInv /\ [ToolsNext]_all => DInv'
<1>1. [ToolsNext]_all => [Index!Next]_(Index!vars)
  BY DEF ToolsNext, Ungpkg, DatUndat, all, index, Index!vars
<1> QED BY <1>1, DatStep

\* For texts of any length, any keys and any block of at least two bytes: undat
\* writes exactly the text dat was given, under the right key and from the very
\* file dat left, or it writes nothing; no damaged, exchanged or added block and
\* no cut gives another text.
THEOREM OnlyTheTextComesOut == ToolsSpec => []OnlyTheText
<1>1. DInv => OnlyTheText BY DatTypes DEF DInv, OnlyTheText
<1> QED BY <1>1, ToolsInitDInv, ToolsNextDInv, PTL DEF ToolsSpec
===============================================================================
