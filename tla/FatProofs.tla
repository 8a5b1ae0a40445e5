----------------------------- MODULE FatProofs ------------------------------
(***************************************************************************)
(* The kernel's FAT driver keeps its tables, for every volume, every set of*)
(* entries, values and faults.                                             *)
(*                                                                         *)
(* The invariant is about bytes: Value is the entry as the bytes of a      *)
(* table give it.  A write changes the bytes so that its own entry has the *)
(* new value and every other one its old value; that two entries of FAT12  *)
(* share a byte is the difficult case.  That the bytes are the digits the  *)
(* format asks for is arithmetic.                                          *)
(***************************************************************************)
EXTENDS KernelFat, TLAPS

Bytes8 == 0..255
Tables == [FatCopies \X (0..LastByte) -> Bytes8]
Status == {"ok", "io", "signature", "invalid value"}
Regs == [refs : [Blocks -> Int], table : Tables, st : Status]

----------------------------------------------------------------------------
(* Blocks that are fetched are released.                                    *)

Up(f, b) == [f EXCEPT ![b] = @ + 1]
Down(f, b) == [f EXCEPT ![b] = @ - 1]

\* A reference that is taken is given back.
LEMMA UpDown ==
    ASSUME NEW f \in [Blocks -> Int], NEW b
    PROVE  Down(Up(f, b), b) = f /\ Up(f, b) \in [Blocks -> Int]
<1>1. CASE b \in Blocks
  <2>1. Up(f, b) \in [Blocks -> Int]
    BY <1>1 DEF Up
  <2>2. /\ DOMAIN Down(Up(f, b), b) = Blocks
        /\ \A x \in Blocks : Down(Up(f, b), b)[x] = f[x]
    BY <1>1 DEF Up, Down
  <2>3. Down(Up(f, b), b) = [x \in Blocks |-> Down(Up(f, b), b)[x]]
    BY <2>2, Zenon DEF Down, Up
  <2> QED
    BY <2>1, <2>2, <2>3
<1>2. CASE b \notin Blocks
  <2>1. Up(f, b) = f
    BY <1>2 DEF Up
  <2>2. Down(f, b) = f
    BY <1>2 DEF Down
  <2> QED
    BY <2>1, <2>2
<1> QED
  BY <1>1, <1>2

\* q has the references and the tables of r.
Same(r, q) == q.refs = r.refs /\ q.table = r.table /\ q \in Regs

\* A block was fetched, or not.
LEMMA Fetched ==
    ASSUME NEW r \in Regs, NEW bad, NEW b
    PROVE  LET f == fetch(r, bad, b)
           IN  /\ f \in Regs /\ f.table = r.table /\ f.st \in {"ok", "io"}
               /\ f.st = "ok" => f.refs = Up(r.refs, b)
               /\ f.st # "ok" => f.refs = r.refs
<1> DEFINE f == fetch(r, bad, b)
<1>1. CASE b \in bad
  <2>1. f = [r EXCEPT !.st = "io"]
    BY <1>1 DEF fetch
  <2> QED
    BY <2>1, Zenon DEF Regs, Status
<1>2. CASE b \notin bad
  <2>1. f = [r EXCEPT !.st = "ok", !.refs = Up(r.refs, b)]
    BY <1>2 DEF fetch, Up, Regs
  <2>2. Up(r.refs, b) \in [Blocks -> Int]
    BY UpDown DEF Regs
  <2> QED
    BY <2>1, <2>2, Zenon DEF Regs, Status
<1> QED
  BY <1>1, <1>2

\* A block is released.
LEMMA Let ==
    ASSUME NEW r \in Regs, NEW b
    PROVE  LET q == release(r, b)
           IN  /\ q \in Regs /\ q.table = r.table /\ q.st = r.st
               /\ q.refs = Down(r.refs, b)
  BY DEF release, Regs, Down

\* An entry in one block.
LEMMA FetchedOne ==
    ASSUME NEW r \in Regs, NEW bad, NEW b
    PROVE  LET f == fetch_one(r, bad, b)
           IN  Same(r, f) /\ f.st \in {"ok", "io"}
<1> DEFINE a == fetch(r, bad, b)
           q == release(a, b)
<1>1. /\ a \in Regs /\ a.table = r.table /\ a.st \in {"ok", "io"}
      /\ a.st = "ok" => a.refs = Up(r.refs, b)
      /\ a.st # "ok" => a.refs = r.refs
  BY Fetched
<1>2. fetch_one(r, bad, b) = IF a.st = "ok" THEN q ELSE a
  BY DEF fetch_one
<1> HIDE DEF a
<1>3. q \in Regs /\ q.table = a.table /\ q.st = a.st /\ q.refs = Down(a.refs, b)
  BY <1>1, Let
<1> HIDE DEF q
<1>4. Down(Up(r.refs, b), b) = r.refs
  BY UpDown DEF Regs
<1> QED
  BY <1>1, <1>2, <1>3, <1>4 DEF Same

\* Two blocks are fetched and released in the opposite order, or the first
\* alone when the second one cannot be fetched.
LEMMA FetchedTwo ==
    ASSUME NEW r \in Regs, NEW bad, NEW x, NEW y,
           fetch(r, bad, x).st = "ok"
    PROVE  LET a == fetch(r, bad, x)
               b == fetch(a, bad, y)
           IN  /\ Same(r, release(a, x))
               /\ b.st # "ok" => Same(r, release(b, x))
               /\ b.st = "ok" => Same(r, release(release(b, y), x))
<1> DEFINE a == fetch(r, bad, x)
           b == fetch(a, bad, y)
           c == release(b, y)
<1>1. a \in Regs /\ a.table = r.table /\ a.refs = Up(r.refs, x)
  BY Fetched
<1> HIDE DEF a
<1>2. /\ b \in Regs /\ b.table = a.table
      /\ b.st = "ok" => b.refs = Up(a.refs, y)
      /\ b.st # "ok" => b.refs = a.refs
  BY <1>1, Fetched
<1> HIDE DEF b
<1>3. c \in Regs /\ c.table = b.table /\ c.refs = Down(b.refs, y)
  BY <1>2, Let
<1> HIDE DEF c
<1>4. /\ Down(Up(r.refs, x), x) = r.refs
      /\ Down(Up(a.refs, y), y) = a.refs
  BY <1>1, UpDown DEF Regs
<1>5. ASSUME NEW q \in Regs, q.table = r.table, q.refs = Up(r.refs, x)
      PROVE  Same(r, release(q, x))
  BY <1>4, <1>5, Let DEF Same
<1>6. Same(r, release(a, x))
  BY <1>1, <1>5
<1>7. b.st # "ok" => Same(r, release(b, x))
  BY <1>1, <1>2, <1>5
<1>8. b.st = "ok" => Same(r, release(c, x))
  BY <1>1, <1>2, <1>3, <1>4, <1>5
<1> QED
  BY <1>6, <1>7, <1>8 DEF a, b, c

\* The status is all that changes.
LEMMA WithStatus ==
    ASSUME NEW r, NEW q, Same(r, q), NEW s \in Status
    PROVE  Same(r, [q EXCEPT !.st = s]) /\ [q EXCEPT !.st = s].st = s
  BY DEF Same, Regs

\* The entry of 12 bits, which may lie in two blocks.
LEMMA FetchedTwelve ==
    ASSUME NEW r \in Regs, NEW bad, NEW d, NEW fat, NEW entry
    PROVE  Same(r, fetch12(r, bad, d, fat, entry))
<1> DEFINE at == entry + entry \div 2
           x == Block(d, fat, at \div BlockBytes)
           y == Block(d, fat, at \div BlockBytes + 1)
           two == at % BlockBytes = BlockBytes - 1
           a == fetch(r, bad, x)
           b == fetch(a, bad, y)
           e == [release(b, x) EXCEPT !.st = "io"]
           f == fetch12(r, bad, d, fat, entry)
<1>1. f = CASE a.st # "ok" -> a
            [] a.st = "ok" /\ two /\ b.st # "ok" -> e
            [] a.st = "ok" /\ two /\ b.st = "ok" ->
                 release(release(b, y), x)
            [] OTHER -> release(a, x)
  BY Zenon DEF fetch12
<1> HIDE DEF x, y, two, f
<1>2. a.st # "ok" => Same(r, a)
  BY Fetched DEF Same
<1>3. a.st = "ok" => /\ Same(r, release(a, x))
                     /\ b.st # "ok" => Same(r, release(b, x))
                     /\ b.st = "ok" => Same(r, release(release(b, y), x))
  BY FetchedTwo, Zenon
<1>4. Same(r, release(b, x)) => Same(r, e)
  BY WithStatus, Zenon DEF Status
<1> HIDE DEF a, b, e
<1>5. Same(r, f)
  BY <1>1, <1>2, <1>3, <1>4, Zenon
<1> QED
  BY <1>5 DEF f

\* Recognising a volume leaves no block fetched.
LEMMA InfoRead ==
    ASSUME NEW r \in Regs, NEW bad, NEW v
    PROVE  Same(r, ReadInfo(r, bad, v))
<1> DEFINE p == fetch(r, bad, 0)
           f == fetch(p, bad, v.fsinfo)
           Back(x, st) == [release(x, 0) EXCEPT !.st = st]
           g == release(f, v.fsinfo)
           last == IF v.fsinfo_ok THEN "ok" ELSE "signature"
           all == IF f.st # "ok" THEN Back(f, "io") ELSE Back(g, last)
           q == ReadInfo(r, bad, v)
<1>1. q = CASE p.st # "ok" -> p
            [] p.st = "ok" /\ ~(v.signature /\ v.fs_type) ->
                 Back(p, "signature")
            [] p.st = "ok" /\ v.signature /\ v.fs_type /\ KType(v) # 32 ->
                 Back(p, "ok")
            [] OTHER -> all
  BY Zenon DEF ReadInfo
<1>2. p.st # "ok" => Same(r, p)
  BY Fetched DEF Same
<1>3. p.st = "ok" => /\ Same(r, release(p, 0))
                     /\ f.st # "ok" => Same(r, release(f, 0))
                     /\ f.st = "ok" => Same(r, release(g, 0))
  BY FetchedTwo, Zenon
<1>4. last \in Status /\ "io" \in Status /\ "ok" \in Status
      /\ "signature" \in Status
  BY DEF Status
<1> HIDE DEF p, f, g, last, q
<1>5. ASSUME NEW x, Same(r, release(x, 0)), NEW s \in Status
      PROVE  Same(r, Back(x, s))
  BY <1>5, WithStatus
<1>6. p.st = "ok" => Same(r, Back(p, "signature")) /\ Same(r, Back(p, "ok"))
  BY <1>3, <1>4, <1>5
<1>7. p.st = "ok" => Same(r, all)
  BY <1>3, <1>4, <1>5
<1> HIDE DEF Back, all
<1>8. Same(r, q)
  BY <1>1, <1>2, <1>6, <1>7, Zenon
<1> QED
  BY <1>8 DEF q

----------------------------------------------------------------------------
(* The entries in the bytes of a table.                                     *)

Place(e) == e + e \div 2
Even12(lo, hi) == lo + 256 * (hi % 16)
Odd12(lo, hi) == lo \div 16 + 16 * hi
Value12(t, f, e) ==
    IF e % 2 = 1 THEN Odd12(t[<<f, Place(e)>>], t[<<f, Place(e) + 1>>])
    ELSE Even12(t[<<f, Place(e)>>], t[<<f, Place(e) + 1>>])
Value16(t, f, e) == t[<<f, 2 * e>>] + 256 * t[<<f, 2 * e + 1>>]
Join32(a, b, c, d) == a + 256 * b + 65536 * c + 16777216 * (d % 16)
Value32(t, f, e) == Join32(t[<<f, 4 * e>>], t[<<f, 4 * e + 1>>],
                           t[<<f, 4 * e + 2>>], t[<<f, 4 * e + 3>>])
\* The entry as the bytes give it.
Value(t, type, f, e) ==
    CASE type = 12 -> Value12(t, f, e)
      [] type = 16 -> Value16(t, f, e)
      [] OTHER -> Value32(t, f, e)

\* What a write makes of the table.
Written12(t, f, e, v) ==
    [t EXCEPT ![<<f, Place(e) + 1>>] = IF e % 2 = 1 THEN v \div 16
                                       ELSE 16 * (@ \div 16) + v \div 256,
              ![<<f, Place(e)>>] = IF e % 2 = 1 THEN (@ % 16) + 16 * (v % 16)
                                   ELSE v % 256]
Written16(t, f, e, v) ==
    [t EXCEPT ![<<f, 2 * e>>] = Byte(v, 0), ![<<f, 2 * e + 1>>] = Byte(v, 1)]
TopByte(v, old) == 16 * (old \div 16) + (Byte(v, 3) % 16)
Written32(t, f, e, v) ==
    [t EXCEPT ![<<f, 4 * e>>] = Byte(v, 0), ![<<f, 4 * e + 1>>] = Byte(v, 1),
              ![<<f, 4 * e + 2>>] = Byte(v, 2),
              ![<<f, 4 * e + 3>>] = TopByte(v, @)]
Written(t, type, f, e, v) ==
    CASE type = 12 -> Written12(t, f, e, v)
      [] type = 16 -> Written16(t, f, e, v)
      [] OTHER -> Written32(t, f, e, v)

\* Where an entry of 12 bits begins.
LEMMA PlaceOf ==
    ASSUME NEW e \in Nat
    PROVE  \E k \in Nat :
             \/ e = 2 * k /\ e % 2 = 0 /\ Place(e) = 3 * k
             \/ e = 2 * k + 1 /\ e % 2 = 1 /\ Place(e) = 3 * k + 1
<1> DEFINE k == e \div 2
<1>1. k \in Nat /\ e % 2 \in {0, 1} /\ e = 2 * k + (e % 2)
  OBVIOUS
<1>2. Place(e) = e + k
  BY DEF Place
<1> HIDE DEF k
<1> QED
  BY <1>1, <1>2

\* The parts of 12 bits, in two bytes.
LEMMA Parts12 ==
    ASSUME NEW lo \in Bytes8, NEW hi \in Bytes8, NEW v \in 0..END12
    PROVE  /\ v % 256 \in Bytes8 /\ 16 * (hi \div 16) + v \div 256 \in Bytes8
           /\ v \div 16 \in Bytes8 /\ (lo % 16) + 16 * (v % 16) \in Bytes8
           /\ Even12(v % 256, 16 * (hi \div 16) + v \div 256) = v
           /\ Odd12((lo % 16) + 16 * (v % 16), v \div 16) = v
           /\ (16 * (hi \div 16) + v \div 256) \div 16 = hi \div 16
           /\ ((lo % 16) + 16 * (v % 16)) % 16 = lo % 16
<1>1. lo \in 0..255 /\ hi \in 0..255 /\ v \in 0..4095
  BY DEF Bytes8, END12
<1>2. v % 256 \in 0..255 /\ v \div 256 \in 0..15
      /\ v = 256 * (v \div 256) + (v % 256)
  BY <1>1
<1>3. v % 16 \in 0..15 /\ v \div 16 \in 0..255
      /\ v = 16 * (v \div 16) + (v % 16)
  BY <1>1
<1>4. hi \div 16 \in 0..15 /\ lo % 16 \in 0..15
  BY <1>1
<1>5. ASSUME NEW x \in 0..15, NEW y \in 0..15
      PROVE  (16 * x + y) \div 16 = x /\ (16 * x + y) % 16 = y
  OBVIOUS
<1> QED
  BY <1>2, <1>3, <1>4, <1>5 DEF Even12, Odd12, Bytes8

\* The byte that two entries share keeps its lower half.
LEMMA Low12 ==
    ASSUME NEW lo \in Bytes8, NEW v \in 0..END12
    PROVE  ((lo % 16) + 16 * (v % 16)) % 16 = lo % 16
<1>1. lo % 16 \in 0..15 /\ v % 16 \in 0..15
  BY DEF Bytes8, END12
<1>2. ASSUME NEW x \in 0..15, NEW y \in 0..15 PROVE (x + 16 * y) % 16 = x
  OBVIOUS
<1> QED
  BY <1>1, <1>2, Zenon

\* The bytes of an entry are in the table.
LEMMA InTable ==
    ASSUME NEW e \in KEntries
    PROVE  /\ e \in Nat /\ LastByte \in Nat
           /\ Place(e) \in 0..LastByte /\ Place(e) + 1 \in 0..LastByte
           /\ \A i \in 0..1 : 2 * e + i \in 0..LastByte
           /\ \A i \in 0..3 : 4 * e + i \in 0..LastByte
<1>1. e \in Nat /\ LastByte \in Nat /\ 4 * e + 3 <= LastByte
  BY KernelFatAssumption
<1>2. PICK k \in Nat :
        \/ e = 2 * k /\ Place(e) = 3 * k
        \/ e = 2 * k + 1 /\ Place(e) = 3 * k + 1
  BY <1>1, PlaceOf
<1> QED
  BY <1>1, <1>2

SetByte(t, f, i, b) == [t EXCEPT ![<<f, i>>] = b]
IsSet(w, t, f, i, b) ==
    /\ w \in Tables
    /\ \A g \in FatCopies, j \in 0..LastByte :
         w[<<g, j>>] = IF g = f /\ j = i THEN b ELSE t[<<g, j>>]

\* Writing a byte leaves the other bytes.
LEMMA ByteSet ==
    ASSUME NEW t \in Tables, NEW f \in FatCopies, NEW i \in 0..LastByte,
           NEW b \in Bytes8
    PROVE  IsSet(SetByte(t, f, i, b), t, f, i, b)
  BY DEF Tables, SetByte, IsSet

\* A write of 12 bits: the new entry has its value, and every other entry,
\* the ones in the same bytes too, has the value it had.
LEMMA Kept12 ==
    ASSUME NEW t \in Tables, NEW fat \in FatCopies, NEW entry \in KEntries,
           NEW v \in 0..END12
    PROVE  LET w == Written12(t, fat, entry, v)
           IN  /\ w \in Tables
               /\ \A f \in FatCopies, e \in KEntries :
                    Value12(w, f, e) = IF f = fat /\ e = entry THEN v
                                       ELSE Value12(t, f, e)
<1> DEFINE P == Place(entry)
           lo == t[<<fat, P>>]
           hi == t[<<fat, P + 1>>]
           A == IF entry % 2 = 1 THEN v \div 16
                ELSE 16 * (hi \div 16) + v \div 256
           B == IF entry % 2 = 1 THEN (lo % 16) + 16 * (v % 16) ELSE v % 256
           u == SetByte(t, fat, P + 1, A)
           w == Written12(t, fat, entry, v)
<1>1. P \in 0..LastByte /\ P + 1 \in 0..LastByte /\ entry \in Nat
  BY InTable
<1>2. lo \in Bytes8 /\ hi \in Bytes8
  BY <1>1 DEF Tables
<1> HIDE DEF lo, hi
<1>3. A \in Bytes8 /\ B \in Bytes8
  BY <1>2, Parts12
<1>4. IsSet(u, t, fat, P + 1, A) /\ u \in Tables
  <2> HIDE DEF A, P
  <2> QED
    BY <1>1, <1>3, ByteSet DEF IsSet
<1>5. w = SetByte(u, fat, P, B)
  BY Zenon DEF Written12, SetByte, hi, lo
<1> HIDE DEF A, B, P, u, w
<1>6. IsSet(w, u, fat, P, B)
  BY <1>1, <1>3, <1>4, <1>5, ByteSet, Zenon
<1>7. \A g \in FatCopies, j \in 0..LastByte :
        w[<<g, j>>] = IF g = fat /\ j = P THEN B
                      ELSE IF g = fat /\ j = P + 1 THEN A ELSE t[<<g, j>>]
  BY <1>4, <1>6, Zenon DEF IsSet
<1>8. ASSUME NEW f \in FatCopies, NEW e \in KEntries
      PROVE  Value12(w, f, e) = IF f = fat /\ e = entry THEN v
                                ELSE Value12(t, f, e)
  <2> DEFINE q == Place(e)
  <2>1. q \in 0..LastByte /\ q + 1 \in 0..LastByte /\ e \in Nat
    BY InTable
  <2>2. /\ w[<<f, q>>] = IF f = fat /\ q = P THEN B
                         ELSE IF f = fat /\ q = P + 1 THEN A ELSE t[<<f, q>>]
        /\ w[<<f, q + 1>>] = IF f = fat /\ q + 1 = P THEN B
                             ELSE IF f = fat /\ q + 1 = P + 1 THEN A
                             ELSE t[<<f, q + 1>>]
    BY <1>7, <2>1
  <2>3. Value12(w, f, e) = IF e % 2 = 1 THEN Odd12(w[<<f, q>>], w[<<f, q + 1>>])
                           ELSE Even12(w[<<f, q>>], w[<<f, q + 1>>])
    BY DEF Value12
  <2>4. Value12(t, f, e) = IF e % 2 = 1 THEN Odd12(t[<<f, q>>], t[<<f, q + 1>>])
                           ELSE Even12(t[<<f, q>>], t[<<f, q + 1>>])
    BY DEF Value12
  <2>5. PICK k \in Nat :
          \/ entry = 2 * k /\ entry % 2 = 0 /\ P = 3 * k
          \/ entry = 2 * k + 1 /\ entry % 2 = 1 /\ P = 3 * k + 1
    BY <1>1, PlaceOf DEF P
  <2>6. PICK j \in Nat :
          \/ e = 2 * j /\ e % 2 = 0 /\ q = 3 * j
          \/ e = 2 * j + 1 /\ e % 2 = 1 /\ q = 3 * j + 1
    BY <2>1, PlaceOf
  <2> HIDE DEF q
  <2>7. CASE f # fat \/ j # k
    <3>1. w[<<f, q>>] = t[<<f, q>>] /\ w[<<f, q + 1>>] = t[<<f, q + 1>>]
      BY <2>2, <2>5, <2>6, <2>7
    <3> QED
      BY <2>3, <2>4, <2>5, <2>6, <2>7, <3>1
  <2>8. CASE f = fat /\ e = entry
    <3>1. w[<<f, q>>] = B /\ w[<<f, q + 1>>] = A
      BY <2>2, <2>8, <2>1 DEF P, q
    <3> QED
      BY <2>3, <2>8, <3>1, <1>2, Parts12, <2>5 DEF A, B
  <2>9. CASE f = fat /\ j = k /\ e # entry
    <3>1. CASE e % 2 = 1
      <4>1. entry % 2 = 0 /\ q = P + 1 /\ q + 1 # P /\ q + 1 # P + 1
        BY <2>5, <2>6, <2>9, <3>1
      <4>2. w[<<f, q>>] = A /\ w[<<f, q + 1>>] = t[<<f, q + 1>>]
            /\ t[<<f, q>>] = hi
        BY <2>2, <2>5, <2>6, <2>9, <4>1 DEF hi
      <4>3. A = 16 * (hi \div 16) + v \div 256
        BY <4>1 DEF A
      <4>4. A \div 16 = hi \div 16
        BY <4>3, <1>2, Parts12
      <4> QED
        BY <2>3, <2>4, <2>9, <3>1, <4>2, <4>4 DEF Odd12
    <3>2. CASE e % 2 # 1
      <4>1. entry % 2 = 1 /\ q + 1 = P /\ q # P /\ q # P + 1
        BY <2>5, <2>6, <2>9, <3>2
      <4>2. w[<<f, q>>] = t[<<f, q>>] /\ w[<<f, q + 1>>] = B
            /\ t[<<f, q + 1>>] = lo
        BY <2>2, <2>9, <4>1 DEF lo
      <4>3. B = (lo % 16) + 16 * (v % 16)
        BY <4>1 DEF B
      <4>4. ((lo % 16) + 16 * (v % 16)) % 16 = lo % 16
        BY <1>2, Low12, Zenon
      <4>5. B % 16 = lo % 16
        BY <4>3, <4>4, Zenon
      <4> QED
        BY <2>3, <2>4, <2>9, <3>2, <4>2, <4>5 DEF Even12
    <3> QED
      BY <3>1, <3>2
  <2> QED
    BY <2>7, <2>8, <2>9
<1> QED
  BY <1>6, <1>8 DEF w, IsSet

\* A write of 16 bits.
LEMMA Kept16 ==
    ASSUME NEW t \in Tables, NEW fat \in FatCopies, NEW entry \in KEntries,
           NEW v \in Nat, v <= END16
    PROVE  LET w == Written16(t, fat, entry, v)
           IN  /\ w \in Tables
               /\ \A f \in FatCopies, e \in KEntries :
                    Value16(w, f, e) = IF f = fat /\ e = entry THEN v
                                       ELSE Value16(t, f, e)
<1> DEFINE A == Byte(v, 0)
           B == Byte(v, 1)
           u == SetByte(t, fat, 2 * entry, A)
           w == Written16(t, fat, entry, v)
<1>1. /\ entry \in Nat /\ 2 * entry \in 0..LastByte
      /\ 2 * entry + 1 \in 0..LastByte
  BY InTable
<1>2. A \in Bytes8 /\ B \in Bytes8 /\ v = A + 256 * B
  BY SMT DEF Bytes8, END16, Byte
<1>3. w = SetByte(u, fat, 2 * entry + 1, B)
  BY Zenon DEF Written16, SetByte
<1> HIDE DEF A, B, w
<1>4. IsSet(u, t, fat, 2 * entry, A) /\ u \in Tables
  <2>1. IsSet(u, t, fat, 2 * entry, A)
    BY <1>1, <1>2, ByteSet, Zenon
  <2> QED
    BY <2>1 DEF IsSet
<1> HIDE DEF u
<1>5. IsSet(w, u, fat, 2 * entry + 1, B)
  BY <1>1, <1>2, <1>3, <1>4, ByteSet, Zenon
<1>6. ASSUME NEW f \in FatCopies, NEW e \in KEntries
      PROVE  Value16(w, f, e) = IF f = fat /\ e = entry THEN v
                                ELSE Value16(t, f, e)
  <2>1. /\ e \in Nat /\ 2 * e \in 0..LastByte
        /\ 2 * e + 1 \in 0..LastByte
    BY InTable
  <2>2. /\ w[<<f, 2 * e>>] = IF f = fat /\ e = entry THEN A
                             ELSE t[<<f, 2 * e>>]
        /\ w[<<f, 2 * e + 1>>] = IF f = fat /\ e = entry THEN B
                                 ELSE t[<<f, 2 * e + 1>>]
    BY <1>1, <1>4, <1>5, <2>1 DEF IsSet
  <2> QED
    BY <1>2, <2>2 DEF Value16
<1> QED
  BY <1>5, <1>6 DEF w, IsSet

\* The parts of 28 bits, in four bytes.
LEMMA Parts32 ==
    ASSUME NEW hi \in Bytes8, NEW v \in Nat, v <= END32
    PROVE  /\ Byte(v, 0) \in Bytes8 /\ Byte(v, 1) \in Bytes8
           /\ Byte(v, 2) \in Bytes8 /\ TopByte(v, hi) \in Bytes8
           /\ TopByte(v, hi) \div 16 = hi \div 16
           /\ Join32(Byte(v, 0), Byte(v, 1), Byte(v, 2), TopByte(v, hi)) = v
<1>1. hi \in 0..255 /\ v <= 268435455
  BY SMT DEF Bytes8, END32
<1> DEFINE a == v \div 256
           b == a \div 256
           c == b \div 256
<1>2. /\ a \in Nat /\ a <= 1048575 /\ v % 256 \in 0..255
      /\ v = 256 * a + (v % 256)
  BY <1>1, SMT
<1> HIDE DEF a
<1>3. /\ b \in 0..4095 /\ a % 256 \in 0..255
      /\ a = 256 * b + (a % 256)
  BY <1>2, SMT
<1> HIDE DEF b
<1>4. /\ c \in 0..15 /\ b % 256 \in 0..255
      /\ b = 256 * c + (b % 256)
  BY <1>3, SMT
<1> HIDE DEF c
<1>5. v \div 65536 = b /\ v \div 16777216 = c
  BY <1>1, <1>2, <1>3, <1>4, SMT
<1>6. hi \div 16 \in 0..15
  BY <1>1, SMT
<1>7. ASSUME NEW x \in 0..15, NEW y \in 0..15
      PROVE  (16 * x + y) \div 16 = x /\ (16 * x + y) % 16 = y
             /\ 16 * x + y \in 0..255
  OBVIOUS
<1>8. /\ (16 * (hi \div 16) + c) \div 16 = hi \div 16
      /\ (16 * (hi \div 16) + c) % 16 = c
      /\ 16 * (hi \div 16) + c \in 0..255
  BY <1>4, <1>6, <1>7
<1>9. v = (v % 256) + 256 * (a % 256) + 65536 * (b % 256) + 16777216 * c
  BY <1>2, <1>3, <1>4, SMT
<1>10. /\ Byte(v, 0) = v % 256 /\ Byte(v, 1) = a % 256
       /\ Byte(v, 2) = b % 256 /\ Byte(v, 3) = c % 256
  BY <1>5, SMT DEF a, Byte
<1>11. (c % 256) % 16 = c
  BY <1>4, SMT
<1>12. TopByte(v, hi) = 16 * (hi \div 16) + c
  BY <1>10, <1>11, SMT DEF TopByte
<1> QED
  BY <1>2, <1>3, <1>4, <1>8, <1>9, <1>10, <1>12, SMTT(30) DEF Bytes8, Join32

\* A write of 28 bits: the four bits above them stay as well.
LEMMA Kept32 ==
    ASSUME NEW t \in Tables, NEW fat \in FatCopies, NEW entry \in KEntries,
           NEW v \in Nat, v <= END32
    PROVE  LET w == Written32(t, fat, entry, v)
           IN  /\ w \in Tables
               /\ \A f \in FatCopies, e \in KEntries :
                    /\ Value32(w, f, e) = IF f = fat /\ e = entry THEN v
                                          ELSE Value32(t, f, e)
                    /\ w[<<f, 4 * e + 3>>] \div 16 =
                         t[<<f, 4 * e + 3>>] \div 16
<1> DEFINE hi == t[<<fat, 4 * entry + 3>>]
           A == Byte(v, 0)
           B == Byte(v, 1)
           C == Byte(v, 2)
           D == TopByte(v, hi)
           u1 == SetByte(t, fat, 4 * entry, A)
           u2 == SetByte(u1, fat, 4 * entry + 1, B)
           u3 == SetByte(u2, fat, 4 * entry + 2, C)
           w == Written32(t, fat, entry, v)
<1>1. /\ entry \in Nat /\ 4 * entry \in 0..LastByte
      /\ 4 * entry + 1 \in 0..LastByte /\ 4 * entry + 2 \in 0..LastByte
      /\ 4 * entry + 3 \in 0..LastByte
  BY InTable
<1>2. hi \in Bytes8
  BY <1>1 DEF Tables
<1>3. w = SetByte(u3, fat, 4 * entry + 3, D)
  BY Zenon DEF Written32, SetByte
<1> HIDE DEF hi
<1>4. /\ A \in Bytes8 /\ B \in Bytes8 /\ C \in Bytes8 /\ D \in Bytes8
      /\ Join32(A, B, C, D) = v
      /\ D \div 16 = hi \div 16
  BY <1>2, Parts32
<1> HIDE DEF A, B, C, D, w
<1>5. IsSet(u1, t, fat, 4 * entry, A) /\ u1 \in Tables
  <2>1. IsSet(u1, t, fat, 4 * entry, A)
    BY <1>1, <1>4, ByteSet, Zenon
  <2> QED
    BY <2>1 DEF IsSet
<1> HIDE DEF u1
<1>6. IsSet(u2, u1, fat, 4 * entry + 1, B) /\ u2 \in Tables
  <2>1. IsSet(u2, u1, fat, 4 * entry + 1, B)
    BY <1>1, <1>4, <1>5, ByteSet, Zenon
  <2> QED
    BY <2>1 DEF IsSet
<1> HIDE DEF u2
<1>7. IsSet(u3, u2, fat, 4 * entry + 2, C) /\ u3 \in Tables
  <2>1. IsSet(u3, u2, fat, 4 * entry + 2, C)
    BY <1>1, <1>4, <1>6, ByteSet, Zenon
  <2> QED
    BY <2>1 DEF IsSet
<1> HIDE DEF u3
<1>8. IsSet(w, u3, fat, 4 * entry + 3, D)
  BY <1>1, <1>3, <1>4, <1>7, ByteSet, Zenon
<1>9. ASSUME NEW f \in FatCopies, NEW e \in KEntries
      PROVE  /\ Value32(w, f, e) = IF f = fat /\ e = entry THEN v
                                   ELSE Value32(t, f, e)
             /\ w[<<f, 4 * e + 3>>] \div 16 = t[<<f, 4 * e + 3>>] \div 16
  <2>1. /\ e \in Nat /\ 4 * e \in 0..LastByte
        /\ 4 * e + 1 \in 0..LastByte /\ 4 * e + 2 \in 0..LastByte
        /\ 4 * e + 3 \in 0..LastByte
    BY InTable
  <2> DEFINE mine == f = fat /\ e = entry
  <2>2. w[<<f, 4 * e>>] = IF mine THEN A ELSE t[<<f, 4 * e>>]
    BY <1>1, <1>5, <1>6, <1>7, <1>8, <2>1 DEF IsSet
  <2>3. w[<<f, 4 * e + 1>>] = IF mine THEN B ELSE t[<<f, 4 * e + 1>>]
    BY <1>1, <1>5, <1>6, <1>7, <1>8, <2>1 DEF IsSet
  <2>4. w[<<f, 4 * e + 2>>] = IF mine THEN C ELSE t[<<f, 4 * e + 2>>]
    BY <1>1, <1>5, <1>6, <1>7, <1>8, <2>1 DEF IsSet
  <2>5. w[<<f, 4 * e + 3>>] = IF mine THEN D ELSE t[<<f, 4 * e + 3>>]
    BY <1>1, <1>5, <1>6, <1>7, <1>8, <2>1 DEF IsSet
  <2>6. mine => t[<<f, 4 * e + 3>>] = hi
    BY DEF hi
  <2>7. CASE mine
    BY <1>4, <2>2, <2>3, <2>4, <2>5, <2>6, <2>7 DEF Value32
  <2>8. CASE ~mine
    <3>1. /\ w[<<f, 4 * e>>] = t[<<f, 4 * e>>]
          /\ w[<<f, 4 * e + 1>>] = t[<<f, 4 * e + 1>>]
          /\ w[<<f, 4 * e + 2>>] = t[<<f, 4 * e + 2>>]
          /\ w[<<f, 4 * e + 3>>] = t[<<f, 4 * e + 3>>]
      BY <2>2, <2>3, <2>4, <2>5, <2>8
    <3> QED
      BY <3>1, <2>8 DEF Value32
  <2> QED
    BY <2>7, <2>8
<1> QED
  BY <1>8, <1>9 DEF w, IsSet

----------------------------------------------------------------------------
(* What the functions on entries do.                                        *)

\* g is the answer to a read: x, when the table exists and no block fails.
Answers(r, d, fat, x, g) ==
    /\ Same(r, g.r)
    /\ g.r.st = "ok" => /\ ~(fat < 0) /\ ~(fat >= d.fat_count)
                        /\ g.value = x

\* g is what a write leaves: the table w, or everything as it was.
Writes(r, d, fat, v, end, w, g) ==
    /\ g.refs = r.refs
    /\ g.st # "ok" => g.table = r.table
    /\ g.st = "ok" => /\ ~(fat < 0) /\ ~(fat >= d.fat_count) /\ ~(v > end)
                      /\ g.table = w

\* Reading an entry of 12 bits.
LEMMA Read12 ==
    ASSUME NEW r \in Regs, NEW bad, NEW d, NEW fat, NEW entry
    PROVE  Answers(r, d, fat, Value12(r.table, fat, entry),
                   read_fat_entry12(r, bad, d, fat, entry))
<1> DEFINE f == fetch12(r, bad, d, fat, entry)
           g == read_fat_entry12(r, bad, d, fat, entry)
           no == [r EXCEPT !.st = INVALID]
           x == Value12(r.table, fat, entry)
           out == Bad(d, fat, entry, MAX12)
<1>1. Same(r, f)
  BY FetchedTwelve, Zenon
<1>2. Same(r, no) /\ no.st # "ok"
  BY WithStatus, Zenon DEF Same, Status, INVALID, Regs
<1>3. g = IF out THEN [r |-> no, value |-> 0]
          ELSE [r |-> f, value |-> IF f.st # "ok" THEN 0 ELSE x]
  BY Zenon DEF read_fat_entry12, Value12, Odd12, Even12, Place
<1>4. ~out => ~(fat < 0) /\ ~(fat >= d.fat_count)
  BY Zenon DEF Bad
<1> HIDE DEF f, no, x, out
<1>5. g.r = (IF out THEN no ELSE f) /\ (~out /\ f.st = "ok" => g.value = x)
  BY <1>3
<1> HIDE DEF g
<1>6. Answers(r, d, fat, x, g)
  BY <1>1, <1>2, <1>4, <1>5, Zenon DEF Answers
<1> QED
  BY <1>6 DEF g, x

\* Reading an entry of 16 bits.
LEMMA Read16 ==
    ASSUME NEW r \in Regs, NEW bad, NEW d, NEW fat, NEW entry \in Nat
    PROVE  Answers(r, d, fat, Value16(r.table, fat, entry),
                   read_fat_entry16(r, bad, d, fat, entry))
<1> DEFINE f == fetch_one(r, bad, Block(d, fat, entry \div (BlockBytes \div 2)))
           g == read_fat_entry16(r, bad, d, fat, entry)
           no == [r EXCEPT !.st = INVALID]
           x == Value16(r.table, fat, entry)
           out == Bad(d, fat, entry, MAX16)
<1>0. 2 * entry + 0 = 2 * entry
  OBVIOUS
<1>1. Same(r, f)
  BY FetchedOne, Zenon
<1>2. Same(r, no) /\ no.st # "ok"
  BY WithStatus, Zenon DEF Same, Status, INVALID, Regs
<1>3. g = IF out THEN [r |-> no, value |-> 0]
          ELSE [r |-> f, value |-> IF f.st # "ok" THEN 0 ELSE x]
  BY <1>0, Zenon DEF read_fat_entry16, Value16
<1>4. ~out => ~(fat < 0) /\ ~(fat >= d.fat_count)
  BY Zenon DEF Bad
<1> HIDE DEF f, no, x, out
<1>5. g.r = (IF out THEN no ELSE f) /\ (~out /\ f.st = "ok" => g.value = x)
  BY <1>3
<1> HIDE DEF g
<1>6. Answers(r, d, fat, x, g)
  BY <1>1, <1>2, <1>4, <1>5, Zenon DEF Answers
<1> QED
  BY <1>6 DEF g, x

\* Reading an entry of 32 bits.
LEMMA Read32 ==
    ASSUME NEW r \in Regs, NEW bad, NEW d, NEW fat, NEW entry \in Nat
    PROVE  Answers(r, d, fat, Value32(r.table, fat, entry),
                   read_fat_entry32(r, bad, d, fat, entry))
<1> DEFINE f == fetch_one(r, bad, Block(d, fat, entry \div (BlockBytes \div 4)))
           g == read_fat_entry32(r, bad, d, fat, entry)
           no == [r EXCEPT !.st = INVALID]
           x == Value32(r.table, fat, entry)
           out == Bad(d, fat, entry, MAX32)
<1>0. 4 * entry + 0 = 4 * entry
  OBVIOUS
<1>1. Same(r, f)
  BY FetchedOne, Zenon
<1>2. Same(r, no) /\ no.st # "ok"
  BY WithStatus, Zenon DEF Same, Status, INVALID, Regs
<1>3. g = IF out THEN [r |-> no, value |-> 0]
          ELSE [r |-> f, value |-> IF f.st # "ok" THEN 0 ELSE x]
  BY <1>0, SMT DEF read_fat_entry32, Value32, Join32
<1>4. ~out => ~(fat < 0) /\ ~(fat >= d.fat_count)
  BY Zenon DEF Bad
<1> HIDE DEF f, no, x, out
<1>5. g.r = (IF out THEN no ELSE f) /\ (~out /\ f.st = "ok" => g.value = x)
  BY <1>3
<1> HIDE DEF g
<1>6. Answers(r, d, fat, x, g)
  BY <1>1, <1>2, <1>4, <1>5, Zenon DEF Answers
<1> QED
  BY <1>6 DEF g, x

\* Writing an entry of 12 bits: all of it, or nothing.
LEMMA Write12 ==
    ASSUME NEW r \in Regs, NEW bad, NEW d, NEW fat, NEW entry, NEW v
    PROVE  Writes(r, d, fat, v, END12, Written12(r.table, fat, entry, v),
                  write_fat_entry12(r, bad, d, fat, entry, v))
<1> DEFINE f == fetch12(r, bad, d, fat, entry)
           g == write_fat_entry12(r, bad, d, fat, entry, v)
           no == [r EXCEPT !.st = INVALID]
           w == Written12(r.table, fat, entry, v)
           new == [f EXCEPT !.table = w]
           out == v > END12 \/ Bad(d, fat, entry, MAX12)
<1>1. Same(r, f)
  BY FetchedTwelve, Zenon
<1>2. Same(r, no) /\ no.st # "ok"
  BY WithStatus, Zenon DEF Same, Status, INVALID, Regs
<1>3. g = IF out THEN no ELSE IF f.st # "ok" THEN f
          ELSE [f EXCEPT !.table = Written12(f.table, fat, entry, v)]
  BY ZenonT(30) DEF write_fat_entry12, Written12, Place
<1>4. f.table = r.table
  BY <1>1 DEF Same
<1>5. ~out => ~(fat < 0) /\ ~(fat >= d.fat_count) /\ ~(v > END12)
  BY Zenon DEF Bad
<1> HIDE DEF f, no, out
<1>6. g = IF out THEN no ELSE IF f.st # "ok" THEN f ELSE new
  BY <1>3, <1>4, Zenon
<1> HIDE DEF w, g
<1>7. new.refs = r.refs /\ new.table = w /\ new.st = f.st
  BY <1>1 DEF Same, Regs
<1> HIDE DEF new
<1>8. Writes(r, d, fat, v, END12, w, g)
  BY <1>1, <1>2, <1>5, <1>6, <1>7, Zenon DEF Writes, Same
<1> QED
  BY <1>8, Zenon DEF g, w

\* Writing an entry of 16 bits: all of it, or nothing.
LEMMA Write16 ==
    ASSUME NEW r \in Regs, NEW bad, NEW d, NEW fat, NEW entry, NEW v
    PROVE  Writes(r, d, fat, v, END16, Written16(r.table, fat, entry, v),
                  write_fat_entry16(r, bad, d, fat, entry, v))
<1> DEFINE f == fetch_one(r, bad, Block(d, fat, entry \div (BlockBytes \div 2)))
           g == write_fat_entry16(r, bad, d, fat, entry, v)
           no == [r EXCEPT !.st = INVALID]
           w == Written16(r.table, fat, entry, v)
           new == [f EXCEPT !.table = w]
           out == v > END16 \/ Bad(d, fat, entry, MAX16)
<1>1. Same(r, f)
  BY FetchedOne, Zenon
<1>2. Same(r, no) /\ no.st # "ok"
  BY WithStatus, Zenon DEF Same, Status, INVALID, Regs
<1>3. g = IF out THEN no ELSE IF f.st # "ok" THEN f
          ELSE [f EXCEPT !.table = Written16(f.table, fat, entry, v)]
  BY Zenon DEF write_fat_entry16, Written16
<1>4. f.table = r.table
  BY <1>1 DEF Same
<1>5. ~out => ~(fat < 0) /\ ~(fat >= d.fat_count) /\ ~(v > END16)
  BY Zenon DEF Bad
<1> HIDE DEF f, no, out
<1>6. g = IF out THEN no ELSE IF f.st # "ok" THEN f ELSE new
  BY <1>3, <1>4, Zenon
<1> HIDE DEF w, g
<1>7. new.refs = r.refs /\ new.table = w /\ new.st = f.st
  BY <1>1 DEF Same, Regs
<1> HIDE DEF new
<1>8. Writes(r, d, fat, v, END16, w, g)
  BY <1>1, <1>2, <1>5, <1>6, <1>7, Zenon DEF Writes, Same
<1> QED
  BY <1>8, Zenon DEF g, w

\* Writing an entry of 32 bits: all of it, or nothing.
LEMMA Write32 ==
    ASSUME NEW r \in Regs, NEW bad, NEW d, NEW fat, NEW entry, NEW v
    PROVE  Writes(r, d, fat, v, END32, Written32(r.table, fat, entry, v),
                  write_fat_entry32(r, bad, d, fat, entry, v))
<1> DEFINE f == fetch_one(r, bad, Block(d, fat, entry \div (BlockBytes \div 4)))
           g == write_fat_entry32(r, bad, d, fat, entry, v)
           no == [r EXCEPT !.st = INVALID]
           w == Written32(r.table, fat, entry, v)
           new == [f EXCEPT !.table = w]
           out == v > END32 \/ Bad(d, fat, entry, MAX32)
<1>1. Same(r, f)
  BY FetchedOne, Zenon
<1>2. Same(r, no) /\ no.st # "ok"
  BY WithStatus, Zenon DEF Same, Status, INVALID, Regs
<1>3. g = IF out THEN no ELSE IF f.st # "ok" THEN f
          ELSE [f EXCEPT !.table = Written32(f.table, fat, entry, v)]
  BY Zenon DEF write_fat_entry32, Written32, TopByte
<1>4. f.table = r.table
  BY <1>1 DEF Same
<1>5. ~out => ~(fat < 0) /\ ~(fat >= d.fat_count) /\ ~(v > END32)
  BY Zenon DEF Bad
<1> HIDE DEF f, no, out
<1>6. g = IF out THEN no ELSE IF f.st # "ok" THEN f ELSE new
  BY <1>3, <1>4, Zenon
<1> HIDE DEF w, g
<1>7. new.refs = r.refs /\ new.table = w /\ new.st = f.st
  BY <1>1 DEF Same, Regs
<1> HIDE DEF new
<1>8. Writes(r, d, fat, v, END32, w, g)
  BY <1>1, <1>2, <1>5, <1>6, <1>7, Zenon DEF Writes, Same
<1> QED
  BY <1>8, Zenon DEF g, w

----------------------------------------------------------------------------
(* The bytes are the digits that the format asks for.                       *)

\* The weights of the digits.
LEMMA Weights ==
    /\ Weight(0) = 1 /\ Weight(1) = 16 /\ Weight(2) = 256 /\ Weight(3) = 4096
    /\ Weight(4) = 65536 /\ Weight(5) = 1048576 /\ Weight(6) = 16777216
  BY SMT DEF Weight

\* A byte holds two digits.
LEMMA DigitIs ==
    ASSUME NEW f, NEW j \in Nat, table[<<f, j>>] \in Bytes8
    PROVE  /\ Digit(f, 2 * j) = table[<<f, j>>] % 16
           /\ Digit(f, 2 * j + 1) = table[<<f, j>>] \div 16
<1>1. /\ (2 * j) \div 2 = j /\ (2 * j) % 2 = 0
      /\ (2 * j + 1) \div 2 = j /\ (2 * j + 1) % 2 = 1
  OBVIOUS
<1> DEFINE b == table[<<f, j>>]
<1>2. (b \div 1) % 16 = b % 16 /\ (b \div 16) % 16 = b \div 16
  BY DEF Bytes8
<1>3. Weight(0) = 1 /\ Weight(1) = 16
  BY Weights
<1> HIDE DEF b
<1>4. Digit(f, 2 * j) = (b \div Weight(0)) % 16
      /\ Digit(f, 2 * j + 1) = (b \div Weight(1)) % 16
  BY <1>1, Zenon DEF Digit, b
<1> QED
  BY <1>2, <1>3, <1>4 DEF b

Nibbles == 0..15
Nibble(v, i) == (v \div Weight(i)) % 16
Number(a, b, c, d, e, f, g) ==
    a + 16 * b + 256 * c + 4096 * d + 65536 * e + 1048576 * f + 16777216 * g
HasDigits(v, a, b, c, d, e, f, g) ==
    /\ Nibble(v, 0) = a /\ Nibble(v, 1) = b /\ Nibble(v, 2) = c
    /\ Nibble(v, 3) = d /\ Nibble(v, 4) = e /\ Nibble(v, 5) = f
    /\ Nibble(v, 6) = g
    /\ v \in Nat /\ v <= 268435455
    /\ d = 0 /\ e = 0 /\ f = 0 /\ g = 0 => v <= 4095
    /\ e = 0 /\ f = 0 /\ g = 0 => v <= 65535

\* The digits of a number.
LEMMA DigitsOf ==
    ASSUME NEW a \in Nibbles, NEW b \in Nibbles, NEW c \in Nibbles,
           NEW d \in Nibbles, NEW e \in Nibbles, NEW f \in Nibbles,
           NEW g \in Nibbles
    PROVE  HasDigits(Number(a, b, c, d, e, f, g), a, b, c, d, e, f, g)
<1> DEFINE v6 == f + 16 * g
           v5 == e + 16 * v6
           v4 == d + 16 * v5
           v3 == c + 16 * v4
           v2 == b + 16 * v3
           v1 == a + 16 * v2
           v == Number(a, b, c, d, e, f, g)
<1>1. v = v1
  BY SMT DEF Number, Nibbles
<1>2. v6 \in Nat /\ v5 \in Nat /\ v4 \in Nat /\ v3 \in Nat /\ v2 \in Nat
      /\ v1 \in Nat
  BY DEF Nibbles
<1>3. v <= 268435455 /\ (d = 0 /\ e = 0 /\ f = 0 /\ g = 0 => v <= 4095)
      /\ (e = 0 /\ f = 0 /\ g = 0 => v <= 65535)
  BY SMT DEF Number, Nibbles
<1>4. /\ v1 = a + 16 * v2 /\ v2 = b + 16 * v3 /\ v3 = c + 16 * v4
      /\ v4 = d + 16 * v5 /\ v5 = e + 16 * v6 /\ v6 = f + 16 * g
  OBVIOUS
<1> HIDE DEF v, v1, v2, v3, v4, v5, v6
<1>5. /\ v1 % 16 = a /\ v1 \div 16 = v2 /\ v2 % 16 = b /\ v2 \div 16 = v3
      /\ v3 % 16 = c /\ v3 \div 16 = v4 /\ v4 % 16 = d /\ v4 \div 16 = v5
      /\ v5 % 16 = e /\ v5 \div 16 = v6 /\ v6 % 16 = f /\ v6 \div 16 = g
  <2> DEFINE Put(z, x, y) == z = x + 16 * y
             Got(z, x, y) == z % 16 = x /\ z \div 16 = y
  <2>1. ASSUME NEW x \in Nibbles, NEW y \in Nat, NEW z, Put(z, x, y)
        PROVE  Got(z, x, y)
    BY <2>1, SMT DEF Nibbles
  <2>2. g \in Nat
    BY DEF Nibbles
  <2>3. /\ Put(v1, a, v2) /\ Put(v2, b, v3) /\ Put(v3, c, v4)
        /\ Put(v4, d, v5) /\ Put(v5, e, v6) /\ Put(v6, f, g)
    BY <1>4, Zenon
  <2> HIDE DEF Put, Got
  <2>4. /\ Got(v1, a, v2) /\ Got(v2, b, v3) /\ Got(v3, c, v4)
        /\ Got(v4, d, v5) /\ Got(v5, e, v6) /\ Got(v6, f, g)
    BY <1>2, <2>1, <2>2, <2>3, Zenon
  <2> QED
    BY <2>4, Zenon DEF Got
<1>6. /\ v1 \div 1 = v1 /\ v1 \div 256 = v3 /\ v1 \div 4096 = v4
      /\ v1 \div 65536 = v5 /\ v1 \div 1048576 = v6
      /\ v1 \div 16777216 = g
  BY <1>2, <1>5, SMT DEF Nibbles
<1>7. g % 16 = g
  BY DEF Nibbles
<1>8. /\ Nibble(v, 0) = (v1 \div 1) % 16 /\ Nibble(v, 1) = (v1 \div 16) % 16
      /\ Nibble(v, 2) = (v1 \div 256) % 16
      /\ Nibble(v, 3) = (v1 \div 4096) % 16
      /\ Nibble(v, 4) = (v1 \div 65536) % 16
      /\ Nibble(v, 5) = (v1 \div 1048576) % 16
      /\ Nibble(v, 6) = (v1 \div 16777216) % 16
  BY <1>1, Weights, SMT DEF Nibble
<1>9. HasDigits(v, a, b, c, d, e, f, g)
  BY <1>1, <1>2, <1>3, <1>5, <1>6, <1>7, <1>8, SMT DEF HasDigits
<1> QED
  BY <1>9, Zenon DEF v

\* The two digits of a byte.
LEMMA Halves ==
    ASSUME NEW b \in Bytes8
    PROVE  /\ b % 16 \in Nibbles /\ b \div 16 \in Nibbles
           /\ b = (b % 16) + 16 * (b \div 16)
  BY DEF Bytes8, Nibbles

\* What Holds says, for the three widths.
Shows12(f, e, v) == /\ v \in Nat /\ v <= 4095
                    /\ \A i \in 0..2 : Digit(f, 3 * e + i) = Nibble(v, i)
Shows16(f, e, v) == /\ v \in Nat /\ v <= 65535
                    /\ \A i \in 0..3 : Digit(f, 4 * e + i) = Nibble(v, i)
Shows32(f, e, v) == /\ v \in Nat /\ v <= 268435455
                    /\ \A i \in 0..6 : Digit(f, 8 * e + i) = Nibble(v, i)

\* A number that has the digits is held.
LEMMA HoldsIs ==
    ASSUME NEW f, NEW e, NEW v
    PROVE  /\ kdata.type = 12 /\ Shows12(f, e, v) => Holds(f, e, v)
           /\ kdata.type = 16 /\ Shows16(f, e, v) => Holds(f, e, v)
           /\ kdata.type = 32 /\ Shows32(f, e, v) => Holds(f, e, v)
<1> DEFINE Has(place, last) ==
             /\ v \in 0..(16 * Weight(last) - 1)
             /\ \A i \in 0..last : Digit(f, place * e + i) = Nibble(v, i)
<1>1. CASE kdata.type = 12
  <2>1. Holds(f, e, v) <=> Has(3, 2)
    BY <1>1, SMT DEF Holds, Nibble
  <2> QED
    BY <1>1, <2>1, Weights, SMT DEF Shows12
<1>2. CASE kdata.type = 16
  <2>1. Holds(f, e, v) <=> Has(4, 3)
    BY <1>2, SMT DEF Holds, Nibble
  <2> QED
    BY <1>2, <2>1, Weights, SMT DEF Shows16
<1>3. CASE kdata.type = 32
  <2>1. Holds(f, e, v) <=> Has(8, 6)
    BY <1>3, SMT DEF Holds, Nibble
  <2> QED
    BY <1>3, <2>1, Weights, SMT DEF Shows32
<1> QED
  BY <1>1, <1>2, <1>3, SMT

\* An entry of 12 bits is the three digits at its place.
LEMMA Shown12 ==
    ASSUME table \in Tables, kdata.type = 12,
           NEW f \in FatCopies, NEW e \in KEntries
    PROVE  Holds(f, e, Value12(table, f, e)) /\ Value12(table, f, e) \in Nat
<1> DEFINE q == Place(e)
           lo == table[<<f, q>>]
           hi == table[<<f, q + 1>>]
           v == Value12(table, f, e)
           x == IF e % 2 = 1 THEN lo \div 16 ELSE lo % 16
           y == IF e % 2 = 1 THEN hi % 16 ELSE lo \div 16
           z == IF e % 2 = 1 THEN hi \div 16 ELSE hi % 16
<1>1. q \in Nat /\ q \in 0..LastByte /\ q + 1 \in 0..LastByte /\ e \in Nat
  BY InTable
<1>2. lo \in Bytes8 /\ hi \in Bytes8
  BY <1>1 DEF Tables
<1>3. PICK k \in Nat :
        \/ e = 2 * k /\ e % 2 = 0 /\ q = 3 * k
        \/ e = 2 * k + 1 /\ e % 2 = 1 /\ q = 3 * k + 1
  BY <1>1, PlaceOf
<1>4. /\ Digit(f, 2 * q) = lo % 16 /\ Digit(f, 2 * q + 1) = lo \div 16
      /\ Digit(f, 2 * (q + 1)) = hi % 16
      /\ Digit(f, 2 * (q + 1) + 1) = hi \div 16
  BY <1>1, <1>2, DigitIs
<1>5. v = IF e % 2 = 1 THEN Odd12(lo, hi) ELSE Even12(lo, hi)
  BY DEF Value12
<1> HIDE DEF q, lo, hi, v
<1>6. lo % 16 \in Nibbles /\ lo \div 16 \in Nibbles /\ hi % 16 \in Nibbles
      /\ hi \div 16 \in Nibbles /\ lo = (lo % 16) + 16 * (lo \div 16)
      /\ hi = (hi % 16) + 16 * (hi \div 16)
  BY <1>2, Halves
<1>7. x \in Nibbles /\ y \in Nibbles /\ z \in Nibbles /\ 0 \in Nibbles
  BY <1>6 DEF Nibbles
<1>8. v = Number(x, y, z, 0, 0, 0, 0)
  BY <1>3, <1>5, <1>6, SMT DEF Number, Odd12, Even12, Nibbles
<1>9. Digit(f, 3 * e) = x /\ Digit(f, 3 * e + 1) = y /\ Digit(f, 3 * e + 2) = z
  <2>1. CASE e = 2 * k /\ e % 2 = 0 /\ q = 3 * k
    <3>1. 3 * e = 2 * q /\ 3 * e + 1 = 2 * q + 1 /\ 3 * e + 2 = 2 * (q + 1)
      BY <2>1
    <3> QED
      BY <2>1, <3>1, <1>4
  <2>2. CASE e = 2 * k + 1 /\ e % 2 = 1 /\ q = 3 * k + 1
    <3>1. /\ 3 * e = 2 * q + 1 /\ 3 * e + 1 = 2 * (q + 1)
          /\ 3 * e + 2 = 2 * (q + 1) + 1
      BY <2>2
    <3> QED
      BY <2>2, <3>1, <1>4
  <2> QED
    BY <1>3, <2>1, <2>2
<1> HIDE DEF x, y, z
<1>10. HasDigits(v, x, y, z, 0, 0, 0, 0)
  BY <1>7, <1>8, DigitsOf, Zenon
<1>11. Shows12(f, e, v)
  <2>1. /\ Nibble(v, 0) = x /\ Nibble(v, 1) = y /\ Nibble(v, 2) = z
        /\ v \in Nat /\ v <= 4095
    BY <1>10, SMT DEF HasDigits
  <2>2. 3 * e + 0 = 3 * e
    BY <1>1
  <2> QED
    BY <1>9, <2>1, <2>2, SMT DEF Shows12
<1>12. Holds(f, e, v)
  BY <1>11, HoldsIs, Zenon
<1> QED
  BY <1>11, <1>12, SMT DEF v, Shows12

\* An entry of 16 bits is the four digits at its place.
LEMMA Shown16 ==
    ASSUME table \in Tables, kdata.type = 16,
           NEW f \in FatCopies, NEW e \in KEntries
    PROVE  Holds(f, e, Value16(table, f, e)) /\ Value16(table, f, e) \in Nat
<1> DEFINE q == 2 * e
           lo == table[<<f, q>>]
           hi == table[<<f, q + 1>>]
           v == Value16(table, f, e)
<1>1. q \in Nat /\ q \in 0..LastByte /\ q + 1 \in 0..LastByte /\ e \in Nat
  BY InTable
<1>2. lo \in Bytes8 /\ hi \in Bytes8
  BY <1>1 DEF Tables
<1>3. /\ Digit(f, 2 * q) = lo % 16 /\ Digit(f, 2 * q + 1) = lo \div 16
      /\ Digit(f, 2 * (q + 1)) = hi % 16
      /\ Digit(f, 2 * (q + 1) + 1) = hi \div 16
  <2> HIDE DEF q
  <2> QED
    BY <1>1, <1>2, DigitIs
<1>4. v = lo + 256 * hi
  BY DEF Value16
<1>5. /\ 4 * e + 0 = 2 * q /\ 4 * e + 1 = 2 * q + 1
      /\ 4 * e + 2 = 2 * (q + 1) /\ 4 * e + 3 = 2 * (q + 1) + 1
  BY <1>1
<1> DEFINE a == lo % 16
           b == lo \div 16
           c == hi % 16
           d == hi \div 16
<1> HIDE DEF q, lo, hi, v
<1>6. /\ a \in Nibbles /\ b \in Nibbles /\ c \in Nibbles /\ d \in Nibbles
      /\ lo = a + 16 * b /\ hi = c + 16 * d /\ 0 \in Nibbles
  BY <1>2, Halves DEF Nibbles
<1> HIDE DEF a, b, c, d
<1>7. v = Number(a, b, c, d, 0, 0, 0)
  BY <1>4, <1>6, SMT DEF Number, Nibbles
<1>8. HasDigits(v, a, b, c, d, 0, 0, 0)
  BY <1>6, <1>7, DigitsOf, Zenon
<1>9. Shows16(f, e, v)
  <2>1. /\ Nibble(v, 0) = a /\ Nibble(v, 1) = b
        /\ Nibble(v, 2) = c /\ Nibble(v, 3) = d
        /\ v \in Nat /\ v <= 65535
    BY <1>8, SMT DEF HasDigits
  <2>2. \A i \in 0..3 : Digit(f, 4 * e + i) = Nibble(v, i)
    BY <1>3, <1>5, <2>1 DEF a, b, c, d
  <2> QED
    BY <2>1, <2>2, SMT DEF Shows16
<1>10. Holds(f, e, v)
  BY <1>9, HoldsIs, Zenon
<1> QED
  BY <1>9, <1>10, SMT DEF v, Shows16

\* An entry of 28 bits is the seven digits at its place, and the eighth is
\* the upper half of its last byte.
LEMMA Shown32 ==
    ASSUME table \in Tables, kdata.type = 32,
           NEW f \in FatCopies, NEW e \in KEntries
    PROVE  /\ Holds(f, e, Value32(table, f, e)) /\ Value32(table, f, e) \in Nat
           /\ Digit(f, 8 * e + 7) = table[<<f, 4 * e + 3>>] \div 16
<1> DEFINE q == 4 * e
           s == table[<<f, q>>]
           t == table[<<f, q + 1>>]
           u == table[<<f, q + 2>>]
           w == table[<<f, q + 3>>]
           v == Value32(table, f, e)
<1>1. /\ q \in Nat /\ q \in 0..LastByte /\ q + 1 \in 0..LastByte
      /\ q + 2 \in 0..LastByte /\ q + 3 \in 0..LastByte /\ e \in Nat
  BY InTable
<1>2. s \in Bytes8 /\ t \in Bytes8 /\ u \in Bytes8 /\ w \in Bytes8
  BY <1>1 DEF Tables
<1>3. /\ Digit(f, 2 * q) = s % 16 /\ Digit(f, 2 * q + 1) = s \div 16
      /\ Digit(f, 2 * (q + 1)) = t % 16
      /\ Digit(f, 2 * (q + 1) + 1) = t \div 16
      /\ Digit(f, 2 * (q + 2)) = u % 16
      /\ Digit(f, 2 * (q + 2) + 1) = u \div 16
      /\ Digit(f, 2 * (q + 3)) = w % 16
      /\ Digit(f, 2 * (q + 3) + 1) = w \div 16
  <2> HIDE DEF q
  <2>1. q + 1 \in Nat /\ q + 2 \in Nat /\ q + 3 \in Nat
    BY <1>1
  <2> QED
    BY <1>1, <1>2, <2>1, DigitIs, ZenonT(30)
<1>4. v = Join32(s, t, u, w)
  BY DEF Value32
<1>5. /\ 8 * e + 0 = 2 * q /\ 8 * e + 1 = 2 * q + 1
      /\ 8 * e + 2 = 2 * (q + 1) /\ 8 * e + 3 = 2 * (q + 1) + 1
      /\ 8 * e + 4 = 2 * (q + 2) /\ 8 * e + 5 = 2 * (q + 2) + 1
      /\ 8 * e + 6 = 2 * (q + 3) /\ 8 * e + 7 = 2 * (q + 3) + 1
  BY <1>1
<1>6. Digit(f, 8 * e + 7) = table[<<f, 4 * e + 3>>] \div 16
  BY <1>3, <1>5
<1> DEFINE a == s % 16
           b == s \div 16
           c == t % 16
           d == t \div 16
           g == u % 16
           h == u \div 16
           k == w % 16
<1> HIDE DEF q, s, t, u, w, v
<1>7. /\ a \in Nibbles /\ b \in Nibbles /\ c \in Nibbles /\ d \in Nibbles
      /\ g \in Nibbles /\ h \in Nibbles /\ k \in Nibbles
      /\ s = a + 16 * b /\ t = c + 16 * d /\ u = g + 16 * h
  BY <1>2, Halves
<1>8. v = s + 256 * t + 65536 * u + 16777216 * k
  BY <1>4, SMT DEF Join32
<1> HIDE DEF a, b, c, d, g, h, k
<1>9. v = Number(a, b, c, d, g, h, k)
  BY <1>7, <1>8, SMT DEF Number, Nibbles
<1>10. HasDigits(v, a, b, c, d, g, h, k)
  BY <1>7, <1>9, DigitsOf, Zenon
<1>11. Shows32(f, e, v)
  <2>1. /\ Nibble(v, 0) = a /\ Nibble(v, 1) = b /\ Nibble(v, 2) = c
        /\ Nibble(v, 3) = d /\ Nibble(v, 4) = g /\ Nibble(v, 5) = h
        /\ Nibble(v, 6) = k /\ v \in Nat /\ v <= 268435455
    BY <1>10, SMT DEF HasDigits
  <2>2. \A i \in 0..6 : Digit(f, 8 * e + i) = Nibble(v, i)
    BY <1>3, <1>5, <2>1 DEF a, b, c, d, g, h, k
  <2> QED
    BY <2>1, <2>2, SMT DEF Shows32
<1>12. Holds(f, e, v)
  BY <1>11, HoldsIs, Zenon
<1> QED
  BY <1>6, <1>11, <1>12, SMT DEF v, Shows32

----------------------------------------------------------------------------
(* The invariant.                                                           *)

Info(b) == [type |-> KType(b), reserved |-> b.reserved,
            fat_size |-> b.fat_size, fat_count |-> b.fat_count]

\* The tables hold the entries, as bytes.
InBytes(t, type, es) ==
    /\ \A f \in FatCopies, e \in KEntries : es[<<f, e>>] = Value(t, type, f, e)
    /\ type = 32 => \A f \in FatCopies, e \in KEntries :
                      t[<<f, 4 * e + 3>>] \div 16 = 10

Calm == [l \in Blocks |-> 0]
Answered(a, es) ==
    /\ "ok" \in DOMAIN a
    /\ a.ok => a.asked \in FatCopies \X KEntries /\ a.value = es[a.asked]

FatInv ==
    /\ kvol \in KVolumes
    /\ refs = Calm
    /\ table \in Tables
    /\ kdata \in {NoInfo, Info(kvol)}
    /\ live \in [fs : Int, data : Int, dir : Int]
    /\ live.fs = (IF kdata = NoInfo THEN 0 ELSE 1)
    /\ entries \in [FatCopies \X KEntries -> Nat]
    /\ InBytes(table, KType(kvol), entries)
    /\ Answered(answer, entries)

\* There are three widths.
LEMMA Widths ==
    ASSUME NEW b
    PROVE  KType(b) \in {12, 16, 32} /\ Info(b) # NoInfo /\ Info(b).type = KType(b)
           /\ Info(b).fat_count = b.fat_count
<1>1. KType(b) \in {12, 16, 32}
  <2> DEFINE p == KClusters(b) <= MAX12
             q == KClusters(b) > MAX12 /\ KClusters(b) <= MAX16
  <2>1. KType(b) = CASE p -> 12 [] q -> 16 [] OTHER -> 32
    BY Zenon DEF KType
  <2> HIDE DEF p, q
  <2> QED
    BY <2>1
<1>2. Info(b).type = KType(b) /\ Info(b).fat_count = b.fat_count
  BY DEF Info
<1>3. NoInfo.type = 0
  BY DEF NoInfo
<1> QED
  BY <1>1, <1>2, <1>3

\* The volume is empty at first.
LEMMA FatStart == KfInit => FatInv
<1> SUFFICES ASSUME KfInit PROVE FatInv
  OBVIOUS
<1>1. kvol \in KVolumes /\ refs = Calm /\ kdata = NoInfo
  BY DEF KfInit, Calm
<1>2. live \in [fs : Int, data : Int, dir : Int] /\ live.fs = 0
  BY DEF KfInit
<1>3. Answered(answer, entries)
  BY DEF KfInit, Answered
<1>4. /\ entries \in [FatCopies \X KEntries -> Nat]
      /\ \A f \in FatCopies, e \in KEntries : entries[<<f, e>>] = 0
  BY DEF KfInit
<1>5. \A f \in FatCopies, i \in 0..LastByte :
        table[<<f, i>>] = FirstByte(kvol, i)
  BY DEF KfInit
<1>6. table \in Tables
  <2>1. \A i : FirstByte(kvol, i) \in Bytes8
    BY DEF FirstByte, Bytes8
  <2> QED
    BY <2>1 DEF KfInit, Tables
<1>7. ASSUME NEW f \in FatCopies, NEW e \in KEntries
      PROVE  /\ Value(table, KType(kvol), f, e) = 0
             /\ KType(kvol) = 32 => table[<<f, 4 * e + 3>>] \div 16 = 10
  <2>1. KType(kvol) \in {12, 16, 32}
    BY Widths
  <2>2. e \in Nat
    BY InTable
  <2>3. CASE KType(kvol) = 12
    <3>1. table[<<f, Place(e)>>] = 0 /\ table[<<f, Place(e) + 1>>] = 0
      BY <1>5, <2>3, InTable DEF FirstByte
    <3> QED
      BY <2>3, <3>1 DEF Value, Value12, Odd12, Even12
  <2>4. CASE KType(kvol) = 16
    <3>1. 2 * e \in 0..LastByte /\ 2 * e + 1 \in 0..LastByte
      BY InTable
    <3>2. table[<<f, 2 * e>>] = 0 /\ table[<<f, 2 * e + 1>>] = 0
      BY <1>5, <2>4, <3>1 DEF FirstByte
    <3> QED
      BY <2>4, <3>2 DEF Value, Value16
  <2>5. CASE KType(kvol) = 32
    <3>1. /\ 4 * e \in 0..LastByte /\ 4 * e + 1 \in 0..LastByte
          /\ 4 * e + 2 \in 0..LastByte /\ 4 * e + 3 \in 0..LastByte
      BY InTable
    <3>2. /\ (4 * e) % 4 = 0 /\ (4 * e + 1) % 4 = 1 /\ (4 * e + 2) % 4 = 2
          /\ (4 * e + 3) % 4 = 3
      BY <2>2
    <3>3. /\ table[<<f, 4 * e>>] = 0 /\ table[<<f, 4 * e + 1>>] = 0
          /\ table[<<f, 4 * e + 2>>] = 0 /\ table[<<f, 4 * e + 3>>] = 160
      BY <1>5, <2>5, <3>1, <3>2 DEF FirstByte
    <3>4. Join32(0, 0, 0, 160) = 0 /\ 160 \div 16 = 10
      BY SMT DEF Join32
    <3> QED
      BY <2>5, <3>3, <3>4 DEF Value, Value32
  <2> QED
    BY <2>1, <2>3, <2>4, <2>5
<1>8. InBytes(table, KType(kvol), entries)
  BY <1>4, <1>7, Zenon DEF InBytes
<1> QED
  BY <1>1, <1>2, <1>3, <1>4, <1>6, <1>8 DEF FatInv

\* What the invariant says of the bytes is what TablesKept says of the digits.
LEMMA FatShown == FatInv => TablesKept
<1> SUFFICES ASSUME FatInv PROVE TablesKept
  OBVIOUS
<1>1. /\ \A l \in Blocks : refs[l] = 0
      /\ live.fs = (IF kdata = NoInfo THEN 0 ELSE 1)
  BY DEF FatInv, Calm
<1>2. ASSUME kdata # NoInfo
      PROVE  /\ \A x \in DOMAIN entries : Holds(x[1], x[2], entries[x])
             /\ kdata.type = 32 =>
                  \A x \in DOMAIN entries : Digit(x[1], 8 * x[2] + 7) = 10
             /\ answer.ok => answer.value = entries[answer.asked]
  <2>1. kdata = Info(kvol) /\ table \in Tables
        /\ entries \in [FatCopies \X KEntries -> Nat]
        /\ InBytes(table, KType(kvol), entries)
    BY <1>2 DEF FatInv
  <2>2. kdata.type = KType(kvol) /\ kdata.type \in {12, 16, 32}
    BY <2>1, Widths
  <2>3. ASSUME NEW f \in FatCopies, NEW e \in KEntries
        PROVE  /\ Holds(f, e, entries[<<f, e>>])
               /\ kdata.type = 32 => Digit(f, 8 * e + 7) = 10
    <3>1. entries[<<f, e>>] = Value(table, kdata.type, f, e)
      BY <2>1, <2>2 DEF InBytes
    <3>2. CASE kdata.type = 12
      BY <2>1, <3>1, <3>2, Shown12 DEF Value
    <3>3. CASE kdata.type = 16
      BY <2>1, <3>1, <3>3, Shown16 DEF Value
    <3>4. CASE kdata.type = 32
      <4>1. table[<<f, 4 * e + 3>>] \div 16 = 10
        BY <2>1, <2>2, <3>4 DEF InBytes
      <4> QED
        BY <2>1, <3>1, <3>4, <4>1, Shown32 DEF Value
    <3> QED
      BY <2>2, <3>2, <3>3, <3>4
  <2>4. DOMAIN entries = FatCopies \X KEntries
    BY <2>1
  <2>5. \A x \in FatCopies \X KEntries :
          x[1] \in FatCopies /\ x[2] \in KEntries /\ x = <<x[1], x[2]>>
    OBVIOUS
  <2>6. answer.ok => answer.value = entries[answer.asked]
    BY Zenon DEF FatInv, Answered
  <2> QED
    BY <2>3, <2>4, <2>5, <2>6
<1> QED
  BY <1>1, <1>2, Zenon DEF TablesKept

\* Registers for a call.
LEMMA CallStarts ==
    ASSUME FatInv
    PROVE  /\ Registers \in Regs /\ Registers.refs = refs
           /\ Registers.table = table
  BY DEF FatInv, Registers, Regs, Status, Calm

\* A read gives the entry, or fails.
LEMMA ReadStep ==
    ASSUME NEW r \in Regs, NEW bad, NEW d, NEW fat, NEW entry \in Nat,
           d.type \in {12, 16, 32}
    PROVE  Answers(r, d, fat, Value(r.table, d.type, fat, entry),
                   read_fat_entry(r, bad, d, fat, entry))
<1>1. CASE d.type = 12
  BY <1>1, Read12 DEF read_fat_entry, Value
<1>2. CASE d.type = 16
  BY <1>2, Read16 DEF read_fat_entry, Value
<1>3. CASE d.type = 32
  BY <1>3, Read32 DEF read_fat_entry, Value
<1> QED
  BY <1>1, <1>2, <1>3

End(type) == CASE type = 12 -> END12 [] type = 16 -> END16 [] OTHER -> END32

\* A write changes the table as Written says, or nothing.
LEMMA WriteStep ==
    ASSUME NEW r \in Regs, NEW bad, NEW d, NEW fat, NEW entry, NEW v,
           d.type \in {12, 16, 32}
    PROVE  Writes(r, d, fat, v, End(d.type),
                  Written(r.table, d.type, fat, entry, v),
                  write_fat_entry(r, bad, d, fat, entry, v))
<1>1. CASE d.type = 12
  BY <1>1, Write12 DEF write_fat_entry, Written, End
<1>2. CASE d.type = 16
  BY <1>2, Write16 DEF write_fat_entry, Written, End
<1>3. CASE d.type = 32
  BY <1>3, Write32 DEF write_fat_entry, Written, End
<1> QED
  BY <1>1, <1>2, <1>3

\* The table after a write: one entry has changed.
LEMMA WrittenKept ==
    ASSUME NEW t \in Tables, NEW type \in {12, 16, 32},
           NEW fat \in FatCopies, NEW entry \in KEntries,
           NEW v \in Nat, v <= End(type),
           NEW es \in [FatCopies \X KEntries -> Nat], InBytes(t, type, es)
    PROVE  LET w == Written(t, type, fat, entry, v)
           IN  /\ w \in Tables
               /\ InBytes(w, type, [es EXCEPT ![<<fat, entry>>] = v])
<1> DEFINE w == Written(t, type, fat, entry, v)
           new == [es EXCEPT ![<<fat, entry>>] = v]
<1>1. \A f \in FatCopies, e \in KEntries :
        new[<<f, e>>] = IF f = fat /\ e = entry THEN v ELSE es[<<f, e>>]
  OBVIOUS
<1>2. \A f \in FatCopies, e \in KEntries : es[<<f, e>>] = Value(t, type, f, e)
  BY Zenon DEF InBytes
<1> HIDE DEF new
<1>3. CASE type = 12
  <2>1. w = Written12(t, fat, entry, v) /\ v \in 0..END12
    <3>1. w = Written12(t, fat, entry, v) /\ v <= END12
      BY <1>3 DEF Written, End
    <3> QED
      BY <3>1 DEF END12
  <2> HIDE DEF w
  <2>2. /\ w \in Tables
        /\ \A f \in FatCopies, e \in KEntries :
             Value12(w, f, e) = IF f = fat /\ e = entry THEN v
                                ELSE Value12(t, f, e)
    BY <2>1, Kept12
  <2>3. \A f, e : /\ Value(w, type, f, e) = Value12(w, f, e)
                  /\ Value(t, type, f, e) = Value12(t, f, e)
    BY <1>3 DEF Value
  <2> QED
    BY <1>1, <1>2, <1>3, <2>2, <2>3 DEF InBytes, w, new
<1>4. CASE type = 16
  <2>1. w = Written16(t, fat, entry, v) /\ v <= END16
    BY <1>4 DEF Written, End
  <2> HIDE DEF w
  <2>2. /\ w \in Tables
        /\ \A f \in FatCopies, e \in KEntries :
             Value16(w, f, e) = IF f = fat /\ e = entry THEN v
                                ELSE Value16(t, f, e)
    BY <2>1, Kept16
  <2>3. \A f, e : /\ Value(w, type, f, e) = Value16(w, f, e)
                  /\ Value(t, type, f, e) = Value16(t, f, e)
    BY <1>4 DEF Value
  <2> QED
    BY <1>1, <1>2, <1>4, <2>2, <2>3 DEF InBytes, w, new
<1>5. CASE type = 32
  <2>1. w = Written32(t, fat, entry, v) /\ v <= END32
    BY <1>5 DEF Written, End
  <2> HIDE DEF w
  <2>2. /\ w \in Tables
        /\ \A f \in FatCopies, e \in KEntries :
             /\ Value32(w, f, e) = IF f = fat /\ e = entry THEN v
                                   ELSE Value32(t, f, e)
             /\ w[<<f, 4 * e + 3>>] \div 16 = t[<<f, 4 * e + 3>>] \div 16
    BY <2>1, Kept32
  <2>3. \A f, e : /\ Value(w, type, f, e) = Value32(w, f, e)
                  /\ Value(t, type, f, e) = Value32(t, f, e)
    BY <1>5 DEF Value
  <2>4. \A f \in FatCopies, e \in KEntries : t[<<f, 4 * e + 3>>] \div 16 = 10
    BY <1>5, Zenon DEF InBytes
  <2>5. \A f \in FatCopies, e \in KEntries : w[<<f, 4 * e + 3>>] \div 16 = 10
    <3> TAKE f \in FatCopies, e \in KEntries
    <3>1. w[<<f, 4 * e + 3>>] \div 16 = t[<<f, 4 * e + 3>>] \div 16
      BY <2>2, Zenon
    <3> QED
      BY <2>4, <3>1, Zenon
  <2>6. \A f \in FatCopies, e \in KEntries :
          new[<<f, e>>] = Value(w, type, f, e)
    <3> TAKE f \in FatCopies, e \in KEntries
    <3>1. new[<<f, e>>] = IF f = fat /\ e = entry THEN v ELSE es[<<f, e>>]
      BY <1>1
    <3>2. es[<<f, e>>] = Value32(t, f, e)
      BY <1>2, <2>3, Zenon
    <3>3. Value(w, type, f, e) = IF f = fat /\ e = entry THEN v
                                 ELSE Value32(t, f, e)
      BY <2>2, <2>3, ZenonT(30)
    <3> QED
      BY <3>1, <3>2, <3>3
  <2>7. InBytes(w, type, new)
    BY <2>5, <2>6, Zenon DEF InBytes
  <2> QED
    BY <2>2, <2>7 DEF w, new
<1> QED
  BY <1>3, <1>4, <1>5

\* What stays together: all that a call on entries does not touch.
LEMMA FatFrame ==
    ASSUME FatInv, kvol' = kvol, refs' = Calm, table' = table,
           kdata' = kdata, live' \in [fs : Int, data : Int, dir : Int],
           live'.fs = live.fs, entries' = entries, Answered(answer', entries)
    PROVE  FatInv'
  BY DEF FatInv, Calm, Tables

\* A probe and a mount.
LEMMA ProbeKeeps ==
    ASSUME FatInv, NEW bad, KProbe(bad)
    PROVE  FatInv'
<1>1. Same(Registers, ReadInfo(Registers, bad, kvol))
  BY CallStarts, InfoRead
<1>2. refs' = Calm
  BY <1>1, CallStarts DEF KProbe, kfat_probe, Same, FatInv
<1> QED
  BY <1>2, FatFrame DEF KProbe, FatInv

\* A mount succeeds or leaves nothing behind.
LEMMA MountKeeps ==
    ASSUME FatInv, NEW bad, NEW poor, KMount(bad, poor)
    PROVE  FatInv'
<1> DEFINE q == ReadInfo(Registers, bad, kvol)
           done == poor = "none" /\ q.st = "ok"
           m == kfat_mount(Registers, bad, kvol, poor)
<1>1. Same(Registers, q)
  BY CallStarts, InfoRead
<1>2. /\ m.r = IF poor = "none" THEN q ELSE Registers
      /\ m.info = IF done THEN Info(kvol) ELSE NoInfo
      /\ m.made = IF done THEN 1 ELSE 0
  BY DEF kfat_mount, Info
<1>3. /\ kdata = NoInfo /\ refs' = m.r.refs /\ kdata' = m.info
      /\ live' = [live EXCEPT !.fs = @ + m.made, !.data = @ + m.made]
      /\ UNCHANGED <<kvol, table, entries, answer>>
  BY DEF KMount
<1> HIDE DEF q, done, m
<1>4. refs' = Calm
  BY <1>1, <1>2, <1>3, CallStarts DEF Same, FatInv
<1>5. live.fs = 0 /\ live \in [fs : Int, data : Int, dir : Int]
  BY <1>3 DEF FatInv
<1>6. m.made \in {0, 1}
  BY <1>2
<1>7. live' \in [fs : Int, data : Int, dir : Int] /\ live'.fs = m.made
  <2> DEFINE n == m.made
  <2>1. live' = [live EXCEPT !.fs = live.fs + n, !.data = live.data + n]
    BY <1>3
  <2>2. n \in {0, 1}
    BY <1>6
  <2> HIDE DEF n
  <2> DEFINE a == live.fs + n
             b == live.data + n
  <2>3. a = n /\ a \in Int /\ b \in Int
    BY <1>5, <2>2
  <2>4. live' = [live EXCEPT !.fs = a, !.data = b]
    BY <2>1
  <2> HIDE DEF a, b
  <2>5. live' \in [fs : Int, data : Int, dir : Int] /\ live'.fs = a
    BY <1>5, <2>3, <2>4, Zenon
  <2> QED
    BY <2>3, <2>5 DEF n
<1>8. kdata' \in {NoInfo, Info(kvol)}
      /\ m.made = (IF kdata' = NoInfo THEN 0 ELSE 1)
  BY <1>2, <1>3, Widths
<1> QED
  BY <1>3, <1>4, <1>7, <1>8 DEF FatInv, Calm, Tables

\* Unmounting, and the root directory.
LEMMA UnmountKeeps ==
    ASSUME FatInv, KUnmount
    PROVE  FatInv'
<1>1. /\ kdata # NoInfo /\ kdata' = NoInfo /\ live' = [live EXCEPT !.fs = @ - 1]
      /\ answer' = [answer EXCEPT !.ok = FALSE]
      /\ UNCHANGED <<kvol, refs, table, entries>>
  BY DEF KUnmount, kfat_unmount
<1>2. live' \in [fs : Int, data : Int, dir : Int] /\ live'.fs = 0
  BY <1>1 DEF FatInv
<1>3. Answered(answer', entries)
  BY <1>1 DEF FatInv, Answered
<1> QED
  BY <1>1, <1>2, <1>3 DEF FatInv, Calm, Tables

\* The root directory is counted apart.
LEMMA RootDirKeeps ==
    ASSUME FatInv, NEW poor, KRootDir(poor)
    PROVE  FatInv'
<1>1. live' = (IF live.dir = 0 THEN open_root_dir(live, poor)
               ELSE close_dir(live))
      /\ UNCHANGED <<kvol, refs, table, kdata, entries, answer>>
  BY DEF KRootDir
<1>2. live' \in [fs : Int, data : Int, dir : Int] /\ live'.fs = live.fs
  BY <1>1 DEF FatInv, open_root_dir, close_dir
<1> QED
  BY <1>1, <1>2, FatFrame DEF FatInv

\* A table that was found is a table of the volume.
LEMMA TableKnown ==
    ASSUME NEW b \in KVolumes, NEW fat \in KFats, ~(fat < 0),
           ~(fat >= b.fat_count)
    PROVE  fat \in FatCopies
<1>1. b.fat_count \in Nat /\ fat \in Int
  BY KernelFatAssumption
<1>2. fat \in 0..(b.fat_count - 1)
  BY <1>1
<1> QED
  BY <1>2, KernelFatAssumption

\* A read.
LEMMA ReadKeeps ==
    ASSUME FatInv, NEW fat \in KFats, NEW entry \in KEntries, NEW bad,
           KRead(fat, entry, bad)
    PROVE  FatInv'
<1> DEFINE g == read_fat_entry(Registers, bad, kdata, fat, entry)
           x == Value(table, kdata.type, fat, entry)
<1>1. /\ kdata # NoInfo /\ refs' = g.r.refs
      /\ answer' = [asked |-> <<fat, entry>>, ok |-> g.r.st = "ok",
                    value |-> g.value]
      /\ UNCHANGED <<kvol, table, kdata, live, entries>>
  BY Zenon DEF KRead
<1>2. /\ kdata = Info(kvol) /\ kdata.type = KType(kvol)
      /\ kdata.type \in {12, 16, 32} /\ kdata.fat_count = kvol.fat_count
  BY <1>1, Widths, Zenon DEF FatInv
<1>3. Answers(Registers, kdata, fat, x, g)
  <2>1. entry \in Nat
    BY InTable
  <2> QED
    BY <1>2, <2>1, CallStarts, ReadStep, Zenon
<1> HIDE DEF g
<1>4. refs' = Calm
  BY <1>1, <1>3, CallStarts, Zenon DEF Answers, Same, FatInv
<1>5. g.r.st = "ok" => fat \in FatCopies /\ g.value = x
  BY <1>2, <1>3, TableKnown, Zenon DEF Answers, FatInv
<1>6. fat \in FatCopies => entries[<<fat, entry>>] = x
  BY <1>2 DEF FatInv, InBytes
<1>7. Answered(answer', entries)
  <2> DEFINE a == [asked |-> <<fat, entry>>, ok |-> g.r.st = "ok",
                   value |-> g.value]
  <2>1. /\ "ok" \in DOMAIN a /\ a.ok = (g.r.st = "ok")
        /\ a.asked = <<fat, entry>> /\ a.value = g.value
    BY Zenon
  <2> HIDE DEF a, x
  <2>2. g.r.st = "ok" => <<fat, entry>> \in FatCopies \X KEntries
    BY <1>5
  <2>3. Answered(a, entries)
    BY <1>5, <1>6, <2>1, <2>2, Zenon DEF Answered
  <2> QED
    BY <1>1, <2>3, Zenon DEF a
<1> QED
  BY <1>1, <1>4, <1>7, FatFrame, Zenon DEF FatInv

\* A write.
LEMMA WriteKeeps ==
    ASSUME FatInv, NEW fat \in KFats, NEW entry \in KEntries,
           NEW v \in KValues, NEW bad, KWrite(fat, entry, v, bad)
    PROVE  FatInv'
<1> DEFINE g == write_fat_entry(Registers, bad, kdata, fat, entry, v)
           w == Written(table, kdata.type, fat, entry, v)
           new == [entries EXCEPT ![<<fat, entry>>] = v]
<1>1. /\ kdata # NoInfo /\ refs' = g.refs /\ table' = g.table
      /\ entries' = IF g.st = "ok" THEN new ELSE entries
      /\ answer' = [answer EXCEPT !.ok = FALSE]
      /\ UNCHANGED <<kvol, kdata, live>>
  BY DEF KWrite
<1>2. /\ kdata = Info(kvol) /\ kdata.type = KType(kvol)
      /\ kdata.type \in {12, 16, 32} /\ kdata.fat_count = kvol.fat_count
  BY <1>1, Widths DEF FatInv
<1>3. Writes(Registers, kdata, fat, v, End(kdata.type), w, g)
  BY <1>2, CallStarts, WriteStep, SMTT(30)
<1> HIDE DEF g
<1>4. refs' = Calm
  BY <1>1, <1>3, CallStarts DEF Writes, FatInv
<1>5. Answered(answer', entries')
  BY <1>1 DEF FatInv, Answered
<1>6. CASE g.st # "ok"
  <2>1. table' = table /\ entries' = entries
    BY <1>1, <1>3, <1>6, CallStarts DEF Writes
  <2> QED
    BY <1>1, <1>4, <1>5, <2>1, FatFrame, Zenon DEF FatInv
<1>7. CASE g.st = "ok"
  <2>1. fat \in FatCopies /\ ~(v > End(kdata.type)) /\ table' = w
    BY <1>1, <1>2, <1>3, <1>7, TableKnown DEF Writes, FatInv
  <2>2. v \in Nat /\ End(kdata.type) \in Nat
    <3>1. v \in Nat
      BY KernelFatAssumption
    <3>2. END12 \in Nat /\ END16 \in Nat /\ END32 \in Nat
      BY SMT DEF END12, END16, END32
    <3> QED
      BY <1>2, <3>1, <3>2 DEF End
  <2>3. v <= End(kdata.type)
    BY <2>1, <2>2
  <2>4. w \in Tables /\ InBytes(w, kdata.type, new)
    <3>1. /\ table \in Tables /\ entries \in [FatCopies \X KEntries -> Nat]
          /\ InBytes(table, kdata.type, entries)
      BY <1>2, Zenon DEF FatInv
    <3> QED
      BY <1>2, <2>1, <2>2, <2>3, <3>1, WrittenKept, Zenon
  <2>5. entries' = new /\ new \in [FatCopies \X KEntries -> Nat]
    BY <1>1, <1>7, <2>2, Zenon DEF FatInv
  <2> HIDE DEF w, new
  <2> QED
    BY <1>1, <1>2, <1>4, <1>5, <2>1, <2>4, <2>5 DEF FatInv, Calm, Tables
<1> QED
  BY <1>6, <1>7

\* Every step keeps the invariant.
LEMMA FatStep == FatInv /\ [KfNext]_kfvars => FatInv'
<1> SUFFICES ASSUME FatInv, [KfNext]_kfvars PROVE FatInv'
  OBVIOUS
<1>1. ASSUME NEW bad \in KFaults, KProbe(bad) PROVE FatInv'
  BY <1>1, ProbeKeeps
<1>2. ASSUME NEW bad \in KFaults, NEW poor \in {"none", "fs", "data"},
             KMount(bad, poor)
      PROVE  FatInv'
  BY <1>2, MountKeeps
<1>3. CASE KUnmount
  BY <1>3, UnmountKeeps
<1>4. ASSUME NEW poor \in {"none", "dir"}, KRootDir(poor) PROVE FatInv'
  BY <1>4, RootDirKeeps
<1>5. ASSUME NEW fat \in KFats, NEW e \in KEntries, NEW bad \in KFaults,
             KRead(fat, e, bad)
      PROVE  FatInv'
  BY <1>5, ReadKeeps
<1>6. ASSUME NEW fat \in KFats, NEW e \in KEntries, NEW x \in KValues,
             NEW bad \in KFaults, KWrite(fat, e, x, bad)
      PROVE  FatInv'
  BY <1>6, WriteKeeps
<1>7. CASE UNCHANGED kfvars
  BY <1>7 DEF kfvars, FatInv, Calm, Tables
<1> QED
  BY <1>1, <1>2, <1>3, <1>4, <1>5, <1>6, <1>7, Zenon DEF KfNext

\* The tables of a volume hold exactly what write_fat_entry12, 16 and 32
\* wrote, read_fat_entry12, 16 and 32 give it back, and no call of the driver
\* keeps a block, for every volume, all entries and every failing block.
THEOREM FatTablesKept == KfSpec => []TablesKept
<1>1. KfInit => FatInv
  BY FatStart
<1>2. FatInv /\ [KfNext]_kfvars => FatInv'
  BY FatStep
<1>3. FatInv => TablesKept
  BY FatShown
<1> QED
  BY <1>1, <1>2, <1>3, PTL DEF KfSpec
=============================================================================
