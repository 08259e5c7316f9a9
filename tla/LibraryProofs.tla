--------------------------- MODULE LibraryProofs ---------------------------
(***************************************************************************)
(* The library's arithmetic, for all byte strings, tables and handles:    *)
(* the table builders, the combine functions that work from checksums     *)
(* alone, the chunked streaming of the crc command, the digests of        *)
(* digest.rs, the fuzzer's models of them all, computed in one piece and  *)
(* byte by byte, and the calls of the C ABI.  All of it rests on what a   *)
(* fold over a concatenation is.  Last comes the benchmark, which calls   *)
(* the library on a buffer that its calls write to.                       *)
(***************************************************************************)
EXTENDS SliceBy8, TableBuild, Combine, ChecksumStream, Digests, CAbi, ResultBlocks, Bench,
        FiniteSetTheorems, TLAPS

-----------------------------------------------------------------------------
(* Algebra of the kernels: exclusive or is a commutative group operation  *)
(* on registers, every shift is linear over it, and therefore so is the   *)
(* step that folds a byte into a register, for every register width of at *)
(* least a byte and every polynomial.                                     *)

(* Exclusive or as membership: the form in which the provers use it. *)
LEMMA XorMember == \A r, s, x : x \in r ^^ s <=> ~(x \in r <=> x \in s)
BY DEF ^^, SymDiff

(* Exclusive or is associative and commutative, {} is its unit and every  *)
(* register its own inverse.                                              *)
LEMMA XorAlgebra ==
  ASSUME NEW r, NEW s, NEW t
  PROVE  /\ (r ^^ s) ^^ t = r ^^ (s ^^ t)
         /\ r ^^ s = s ^^ r
         /\ r ^^ {} = r
         /\ {} ^^ r = r
         /\ r ^^ r = {}
<1>1. (r ^^ s) ^^ t = r ^^ (s ^^ t)
  BY DEF ^^, SymDiff
<1>2. r ^^ s = s ^^ r
  BY DEF ^^, SymDiff
<1>3. r ^^ {} = r /\ {} ^^ r = r /\ r ^^ r = {}
  BY DEF ^^, SymDiff
<1>4. QED
  BY <1>1, <1>2, <1>3

(* Exclusive or stays inside the register. *)
LEMMA XorType ==
  ASSUME NEW w, NEW r \in Register(w), NEW s \in Register(w)
  PROVE  r ^^ s \in Register(w)
BY DEF ^^, SymDiff, Register

(* The shifts of u16, u32 and u64, and the reading of a byte, are linear *)
(* over exclusive or.                                                    *)
LEMMA ShiftsLinear ==
  ASSUME NEW w, NEW n, NEW r, NEW s
  PROVE  /\ Shr(w, r ^^ s, n) = Shr(w, r, n) ^^ Shr(w, s, n)
         /\ Shl(w, r ^^ s, n) = Shl(w, r, n) ^^ Shl(w, s, n)
         /\ ByteAt(r ^^ s, n) = ByteAt(r, n) ^^ ByteAt(s, n)
BY DEF ^^, SymDiff, Shr, Shl, ByteAt

(* A shift never leaves a bit beyond the register's width. *)
LEMMA ShiftsType ==
  ASSUME NEW w, NEW n, NEW r
  PROVE  /\ Shr(w, r, n) \in Register(w)
         /\ Shl(w, r, n) \in Register(w)
         /\ ByteAt(r, n) \in Byte
BY DEF Shr, Shl, ByteAt, Register, Byte, Bits

(* One turn of a table builder's loop is linear in the register. *)
LEMMA ShiftLinear ==
  ASSUME NEW k, NEW r, NEW s
  PROVE  Shift(k, r ^^ s) = Shift(k, r) ^^ Shift(k, s)
<1>1. ReflectedShift(k.width, k.poly, r ^^ s)
        = ReflectedShift(k.width, k.poly, r) ^^ ReflectedShift(k.width, k.poly, s)
  <2> DEFINE a == Shr(k.width, r, 1)
             b == Shr(k.width, s, 1)
             p == k.poly
  <2>1. Shr(k.width, r ^^ s, 1) = a ^^ b
    BY ShiftsLinear
  <2>2. 0 \in r ^^ s <=> ~(0 \in r <=> 0 \in s)
    BY XorMember
  <2> HIDE DEF a, b, p
  <2>3. /\ (a ^^ p) ^^ (b ^^ p) = a ^^ b
        /\ (a ^^ p) ^^ b = (a ^^ b) ^^ p
        /\ a ^^ (b ^^ p) = (a ^^ b) ^^ p
    BY DEF ^^, SymDiff
  <2>4. QED
    BY <2>1, <2>2, <2>3 DEF ReflectedShift, a, b, p
<1>2. ForwardShift(k.width, k.poly, r ^^ s)
        = ForwardShift(k.width, k.poly, r) ^^ ForwardShift(k.width, k.poly, s)
  <2> DEFINE a == Shl(k.width, r, 1)
             b == Shl(k.width, s, 1)
             p == k.poly
             m == k.width - 1
  <2>1. Shl(k.width, r ^^ s, 1) = a ^^ b
    BY ShiftsLinear
  <2>2. m \in r ^^ s <=> ~(m \in r <=> m \in s)
    BY XorMember
  <2> HIDE DEF a, b, p
  <2>3. /\ (a ^^ p) ^^ (b ^^ p) = a ^^ b
        /\ (a ^^ p) ^^ b = (a ^^ b) ^^ p
        /\ a ^^ (b ^^ p) = (a ^^ b) ^^ p
    BY DEF ^^, SymDiff
  <2>4. QED
    BY <2>1, <2>2, <2>3 DEF ForwardShift, a, b, p
<1>3. QED
  BY <1>1, <1>2 DEF Shift

(* Eight turns of a table builder are linear. *)
LEMMA Shift8Linear ==
  ASSUME NEW k, NEW r, NEW s
  PROVE  Shift8(k, r ^^ s) = Shift8(k, r) ^^ Shift8(k, s)
BY ShiftLinear DEF Shift8

(* TABLE[a ^ b] = TABLE[a] ^ TABLE[b]. *)
LEMMA RowLinear ==
  ASSUME NEW k, NEW a, NEW b
  PROVE  Row(k, a ^^ b) = Row(k, a) ^^ Row(k, b)
<1>1. Inject(k, a ^^ b) = Inject(k, a) ^^ Inject(k, b)
  BY ShiftsLinear DEF Inject
<1>2. QED
  BY <1>1, Shift8Linear DEF Row

(* The two halves of a step, the byte that indexes the table and the rest *)
(* of the register, are linear.                                           *)
LEMMA HeadRestLinear ==
  ASSUME NEW k, NEW r, NEW s
  PROVE  /\ Head8(k, r ^^ s) = Head8(k, r) ^^ Head8(k, s)
         /\ Rest8(k, r ^^ s) = Rest8(k, r) ^^ Rest8(k, s)
<1>1. CASE k.reflected
  BY <1>1, ShiftsLinear DEF Head8, Rest8
<1>2. CASE ~k.reflected
  BY <1>2, ShiftsLinear DEF Head8, Rest8
<1>3. QED
  BY <1>1, <1>2

(* The step every table-driven checksum is made of is linear in the       *)
(* register and the message byte together.                                *)
THEOREM UpdateLinear ==
  ASSUME NEW k, NEW u, NEW v, NEW a, NEW b
  PROVE  Update(k, u ^^ v, a ^^ b) = Update(k, u, a) ^^ Update(k, v, b)
<1> DEFINE hc == Head8(k, u)
           hd == Head8(k, v)
           rc == Rest8(k, u)
           rd == Rest8(k, v)
<1>1. Update(k, u ^^ v, a ^^ b) = (rc ^^ rd) ^^ Row(k, (hc ^^ hd) ^^ (a ^^ b))
  BY HeadRestLinear DEF Update
<1>2. (hc ^^ hd) ^^ (a ^^ b) = (hc ^^ a) ^^ (hd ^^ b)
  BY DEF ^^, SymDiff
<1>3. Row(k, (hc ^^ a) ^^ (hd ^^ b)) = Row(k, hc ^^ a) ^^ Row(k, hd ^^ b)
  BY RowLinear
<1> DEFINE p == Row(k, hc ^^ a)
           q == Row(k, hd ^^ b)
<1>4. Update(k, u, a) = rc ^^ p /\ Update(k, v, b) = rd ^^ q
  BY DEF Update
<1>5. Update(k, u ^^ v, a ^^ b) = (rc ^^ rd) ^^ (p ^^ q)
  BY <1>1, <1>2, <1>3
<1> HIDE DEF hc, hd, rc, rd, p, q
<1>6. (rc ^^ rd) ^^ (p ^^ q) = (rc ^^ p) ^^ (rd ^^ q)
  BY DEF ^^, SymDiff
<1>7. QED
  BY <1>4, <1>5, <1>6

(* One turn of a table builder keeps the register's width. *)
LEMMA ShiftType ==
  ASSUME NEW k, IsKernel(k), NEW r
  PROVE  Shift(k, r) \in Register(k.width)
<1> DEFINE w == k.width
<1>1. k.poly \in Register(w)
  BY DEF IsKernel
<1>2. ReflectedShift(w, k.poly, r) \in Register(w)
  BY <1>1, ShiftsType, XorType DEF ReflectedShift
<1>3. ForwardShift(w, k.poly, r) \in Register(w)
  BY <1>1, ShiftsType, XorType DEF ForwardShift
<1>4. QED
  BY <1>2, <1>3 DEF Shift

(* A row of a table is as wide as the register. *)
LEMMA RowType ==
  ASSUME NEW k, IsKernel(k), NEW b
  PROVE  Row(k, b) \in Register(k.width)
BY ShiftType DEF Row, Shift8

(* So is the register after a step of update_crc_*. *)
LEMMA UpdateType ==
  ASSUME NEW k, IsKernel(k), NEW acc, NEW b
  PROVE  Update(k, acc, b) \in Register(k.width)
<1>1. Rest8(k, acc) \in Register(k.width)
  BY ShiftsType DEF Rest8
<1>2. QED
  BY <1>1, RowType, XorType DEF Update

-----------------------------------------------------------------------------
(* The byte-at-a-time loop over a byte string, and over n zero bytes: the *)
(* map that combine.rs calls the operator to the power n.                 *)
Crc == INSTANCE FoldLemmas WITH Op <- Update

Loop(k, acc, data) == Crc!Fold(k, acc, data)

ZeroBytes(n) == [i \in 1 .. n |-> {}]

Advanced(k, acc, n) == Loop(k, acc, ZeroBytes(n))

(* The register keeps its width, over any byte string. *)
LEMMA LoopType ==
  ASSUME NEW k, IsKernel(k), NEW acc \in Register(k.width), NEW E, NEW data \in Seq(E)
  PROVE  Loop(k, acc, data) \in Register(k.width)
<1>1. \A r \in Register(k.width), e \in E : Update(k, r, e) \in Register(k.width)
  BY UpdateType
<1> QED
  BY <1>1, Crc!FoldType DEF Loop

(* A string of n zero bytes, and the string one zero byte longer. *)
LEMMA ZeroBytesSeq ==
  ASSUME NEW n \in Nat
  PROVE  /\ ZeroBytes(n) \in Seq({{}})
         /\ ZeroBytes(0) = <<>>
         /\ ZeroBytes(n + 1) = Append(ZeroBytes(n), {})
BY DEF ZeroBytes

(* One zero byte more is one step more. *)
LEMMA AdvancedStep ==
  ASSUME NEW k, NEW acc, NEW n \in Nat
  PROVE  /\ Advanced(k, acc, 0) = acc
         /\ Advanced(k, acc, n + 1) = Update(k, Advanced(k, acc, n), {})
<1> DEFINE z == ZeroBytes(n)
<1>1. z \in Seq({{}}) /\ ZeroBytes(n + 1) = Append(z, {}) /\ ZeroBytes(0) = <<>>
  BY ZeroBytesSeq
<1> HIDE DEF z
<1>2. Crc!Fold(k, acc, Append(z, {})) = Update(k, Crc!Fold(k, acc, z), {})
  BY <1>1, {} \in {{}}, Crc!FoldAppend
<1>3. Crc!Fold(k, acc, <<>>) = acc
  BY Crc!FoldEmpty
<1> QED
  BY <1>1, <1>2, <1>3 DEF Advanced, Loop, z

(* Zero bytes keep the register's width. *)
LEMMA AdvancedType ==
  ASSUME NEW k, IsKernel(k), NEW acc \in Register(k.width), NEW n \in Nat
  PROVE  Advanced(k, acc, n) \in Register(k.width)
<1>1. ZeroBytes(n) \in Seq({{}})
  BY ZeroBytesSeq
<1> QED
  BY <1>1, LoopType DEF Advanced

(* Powers of the operator add up, ... *)
LEMMA AdvancedSum ==
  ASSUME NEW k, NEW acc, NEW m \in Nat, NEW n \in Nat
  PROVE  Advanced(k, Advanced(k, acc, m), n) = Advanced(k, acc, m + n)
<1>1. ZeroBytes(m) \in Seq({{}}) /\ ZeroBytes(n) \in Seq({{}})
  BY ZeroBytesSeq
<1>2. ZeroBytes(m) \o ZeroBytes(n) = ZeroBytes(m + n)
  BY DEF ZeroBytes
<1>3. Crc!Fold(k, acc, ZeroBytes(m) \o ZeroBytes(n))
        = Crc!Fold(k, Crc!Fold(k, acc, ZeroBytes(m)), ZeroBytes(n))
  BY <1>1, Crc!FoldConcat
<1> QED
  BY <1>2, <1>3 DEF Advanced, Loop

(* ... and each of them is linear. *)
LEMMA AdvancedLinear ==
  ASSUME NEW k, NEW r, NEW s, NEW n \in Nat
  PROVE  /\ Advanced(k, r ^^ s, n) = Advanced(k, r, n) ^^ Advanced(k, s, n)
         /\ Advanced(k, {}, n) = {}
<1> DEFINE L(a, b) == {i \in Nat : Advanced(k, a ^^ b, i) = Advanced(k, a, i) ^^ Advanced(k, b, i)}
<1>1. ASSUME NEW a, NEW b
      PROVE  Nat \subseteq L(a, b)
  <2>1. 0 \in L(a, b)
    BY AdvancedStep
  <2>2. ASSUME NEW i \in Nat, i \in L(a, b) PROVE i + 1 \in L(a, b)
    <3> DEFINE ra == Advanced(k, a, i)
               rb == Advanced(k, b, i)
    <3>1. Update(k, ra ^^ rb, {} ^^ {}) = Update(k, ra, {}) ^^ Update(k, rb, {})
      BY UpdateLinear
    <3>2. {} ^^ {} = {}
      BY XorAlgebra
    <3>3. Advanced(k, a ^^ b, i + 1) = Update(k, ra ^^ rb, {})
      BY <2>2, AdvancedStep
    <3>4. /\ Advanced(k, a, i + 1) = Update(k, ra, {})
          /\ Advanced(k, b, i + 1) = Update(k, rb, {})
      BY AdvancedStep
    <3> QED
      BY <3>1, <3>2, <3>3, <3>4
  <2> HIDE DEF L
  <2> QED
    BY <2>1, <2>2, Crc!NatSetInduction
<1>2. Advanced(k, r ^^ s, n) = Advanced(k, r, n) ^^ Advanced(k, s, n)
  BY <1>1
<1>3. Advanced(k, {} ^^ {}, n) = Advanced(k, {}, n) ^^ Advanced(k, {}, n)
  BY <1>1
<1> DEFINE z == Advanced(k, {}, n)
<1>4. {} ^^ {} = {} /\ z ^^ z = {}
  BY XorAlgebra
<1> QED
  BY <1>2, <1>3, <1>4

-----------------------------------------------------------------------------
(* The next byte of a register, and the bytes behind it. *)

(* The first byte of the register is the one a step would index the table *)
(* with.                                                                  *)
LEMMA StateByteHead ==
  ASSUME NEW k, NEW r
  PROVE  StateByte(k, r, 0) = Head8(k, r)
BY DEF StateByte, Head8

(* What a step shifts down is the register one byte further on. *)
LEMMA StateByteRest ==
  ASSUME NEW k, IsKernel(k), NEW r \in Register(k.width), NEW j \in 0 .. 7
  PROVE  StateByte(k, Rest8(k, r), j) = StateByte(k, r, j + 1)
<1>1. CASE k.reflected
  BY <1>1 DEF StateByte, Rest8, ByteAt, Shr, IsKernel, Register, Bits
<1>2. CASE ~k.reflected
  BY <1>2 DEF StateByte, Rest8, ByteAt, Shl, IsKernel, Register, Bits
<1>3. QED
  BY <1>1, <1>2

(* A block index is the state byte xored into the message byte, also      *)
(* where the code does not xor, because the register has no such byte.    *)
LEMMA IndexIsXor ==
  ASSUME NEW k, IsKernel(k), NEW r \in Register(k.width), NEW b, NEW j \in 0 .. 7
  PROVE  Index(k, r, b, j) = StateByte(k, r, j) ^^ b[j + 1]
<1>1. CASE j < k.width \div 8
  BY <1>1 DEF Index
<1>2. CASE ~(j < k.width \div 8)
  <2>1. 8 * j >= k.width
    BY <1>2 DEF IsKernel
  <2>2. StateByte(k, r, j) = {}
    BY <2>1 DEF StateByte, ByteAt, IsKernel, Register, Bits
  <2>3. QED
    BY <1>2, <2>2, XorAlgebra DEF Index
<1>3. QED
  BY <1>1, <1>2

-----------------------------------------------------------------------------
(* Folding one byte into a register that is the xor of a part a already   *)
(* folded and a part s that the table has not seen yet.                   *)
LEMMA OneByte ==
  ASSUME NEW k, NEW a, NEW s, NEW m
  PROVE  Update(k, a ^^ s, m)
           = (ByteShift(k, a) ^^ Row(k, Head8(k, s) ^^ m)) ^^ Rest8(k, s)
<1> DEFINE q == Row(k, Head8(k, s) ^^ m)
           z == Rest8(k, s)
           p == Row(k, Head8(k, a))
           y == Rest8(k, a)
<1>1. {} ^^ m = m
  BY XorAlgebra
<1>2. Update(k, a ^^ s, {} ^^ m) = Update(k, a, {}) ^^ Update(k, s, m)
  BY UpdateLinear
<1>3. Update(k, a, {}) = ByteShift(k, a)
  BY XorAlgebra DEF Update, ByteShift
<1>4. Update(k, s, m) = z ^^ q
  BY DEF Update
<1>5. Update(k, a ^^ s, m) = ByteShift(k, a) ^^ (z ^^ q)
  BY <1>1, <1>2, <1>3, <1>4
<1> HIDE DEF q, z
<1>6. ByteShift(k, a) ^^ (z ^^ q) = (ByteShift(k, a) ^^ q) ^^ z
  BY DEF ^^, SymDiff
<1>7. QED
  BY <1>5, <1>6 DEF q, z

(* A step over a zero byte is linear in the register. *)
LEMMA ByteShiftLinear ==
  ASSUME NEW k, NEW r, NEW s
  PROVE  ByteShift(k, r ^^ s) = ByteShift(k, r) ^^ ByteShift(k, s)
<1>1. \A v : ByteShift(k, v) = Update(k, v, {})
  BY XorAlgebra DEF Update, ByteShift
<1>2. Update(k, r ^^ s, {} ^^ {}) = Update(k, r, {}) ^^ Update(k, s, {})
  BY UpdateLinear
<1>3. {} ^^ {} = {}
  BY XorAlgebra
<1>4. QED
  BY <1>1, <1>2, <1>3

(* Eight bytes on, nothing is left of the register the block began with. *)
LEMMA NothingLeft ==
  ASSUME NEW k, IsKernel(k), NEW r \in Register(k.width)
  PROVE  Rest8(k, Rest8(k, Rest8(k, Rest8(k, Rest8(k, Rest8(k, Rest8(k, Rest8(k, r))))))))
           = {}
<1> DEFINE w == k.width
           Low(n)  == {s \in Register(w) : \A i \in s : i + n < 64}
           High(n) == {s \in Register(w) : \A i \in s : i >= n}
<1>w. w \in {8, 16, 32, 64}
  BY DEF IsKernel
<1>1. ASSUME k.reflected, NEW n \in Nat, NEW s \in Low(n)
      PROVE  Rest8(k, s) \in Low(n + 8)
  BY <1>1, <1>w DEF Rest8, Shr, Register, Bits
<1>2. ASSUME ~k.reflected, NEW n \in Nat, NEW s \in High(n)
      PROVE  Rest8(k, s) \in High(n + 8)
  BY <1>2, <1>w DEF Rest8, Shl, Register, Bits
<1>3. r \in Low(0) /\ r \in High(0)
  BY <1>w DEF Register, Bits
<1>4. \A s \in Low(64) : s = {}
  BY <1>w DEF Register, Bits
<1>5. \A s \in High(64) : s = {}
  BY <1>w DEF Register, Bits
<1> HIDE DEF Low, High
<1> DEFINE a1 == Rest8(k, r)
           a2 == Rest8(k, a1)
           a3 == Rest8(k, a2)
           a4 == Rest8(k, a3)
           a5 == Rest8(k, a4)
           a6 == Rest8(k, a5)
           a7 == Rest8(k, a6)
           a8 == Rest8(k, a7)
<1>6. CASE k.reflected
  <2>1. a1 \in Low(8)  BY <1>1, <1>3, <1>6
  <2>2. a2 \in Low(16) BY <1>1, <1>6, <2>1
  <2>3. a3 \in Low(24) BY <1>1, <1>6, <2>2
  <2>4. a4 \in Low(32) BY <1>1, <1>6, <2>3
  <2>5. a5 \in Low(40) BY <1>1, <1>6, <2>4
  <2>6. a6 \in Low(48) BY <1>1, <1>6, <2>5
  <2>7. a7 \in Low(56) BY <1>1, <1>6, <2>6
  <2>8. a8 \in Low(64) BY <1>1, <1>6, <2>7
  <2>9. QED BY <1>4, <2>8
<1>7. CASE ~k.reflected
  <2>1. a1 \in High(8)  BY <1>2, <1>3, <1>7
  <2>2. a2 \in High(16) BY <1>2, <1>7, <2>1
  <2>3. a3 \in High(24) BY <1>2, <1>7, <2>2
  <2>4. a4 \in High(32) BY <1>2, <1>7, <2>3
  <2>5. a5 \in High(40) BY <1>2, <1>7, <2>4
  <2>6. a6 \in High(48) BY <1>2, <1>7, <2>5
  <2>7. a7 \in High(56) BY <1>2, <1>7, <2>6
  <2>8. a8 \in High(64) BY <1>2, <1>7, <2>7
  <2>9. QED BY <1>5, <2>8
<1>8. QED
  BY <1>6, <1>7

(* slice8.rs: one iteration of the folded loop is eight iterations of     *)
(* libcrc's own loop.  Byte by byte, the register is the xor of a part    *)
(* that has been through the table and what is left of the register the   *)
(* block began with; after eight bytes the second part is empty.          *)
THEOREM BlockIsEightUpdates ==
  ASSUME NEW k, IsKernel(k), NEW r \in Register(k.width), NEW b
  PROVE  EightAtOnce(k, r, b) = EightUpdates(k, r, b)
<1> DEFINE s0 == r
           s1 == Rest8(k, s0)
           s2 == Rest8(k, s1)
           s3 == Rest8(k, s2)
           s4 == Rest8(k, s3)
           s5 == Rest8(k, s4)
           s6 == Rest8(k, s5)
           s7 == Rest8(k, s6)
           s8 == Rest8(k, s7)
           x0 == Index(k, r, b, 0)
           x1 == Index(k, r, b, 1)
           x2 == Index(k, r, b, 2)
           x3 == Index(k, r, b, 3)
           x4 == Index(k, r, b, 4)
           x5 == Index(k, r, b, 5)
           x6 == Index(k, r, b, 6)
           x7 == Index(k, r, b, 7)
           a1 == T0(k, x0)
           a2 == T1(k, x0) ^^ T0(k, x1)
           a3 == (T2(k, x0) ^^ T1(k, x1)) ^^ T0(k, x2)
           a4 == ((T3(k, x0) ^^ T2(k, x1)) ^^ T1(k, x2)) ^^ T0(k, x3)
           a5 == (((T4(k, x0) ^^ T3(k, x1)) ^^ T2(k, x2)) ^^ T1(k, x3)) ^^ T0(k, x4)
           a6 == ((((T5(k, x0) ^^ T4(k, x1)) ^^ T3(k, x2)) ^^ T2(k, x3)) ^^ T1(k, x4))
                   ^^ T0(k, x5)
           a7 == (((((T6(k, x0) ^^ T5(k, x1)) ^^ T4(k, x2)) ^^ T3(k, x3)) ^^ T2(k, x4))
                   ^^ T1(k, x5)) ^^ T0(k, x6)
           a8 == ((((((T7(k, x0) ^^ T6(k, x1)) ^^ T5(k, x2)) ^^ T4(k, x3)) ^^ T3(k, x4))
                   ^^ T2(k, x5)) ^^ T1(k, x6)) ^^ T0(k, x7)
<1>1. /\ s1 \in Register(k.width) /\ s2 \in Register(k.width)
      /\ s3 \in Register(k.width) /\ s4 \in Register(k.width)
      /\ s5 \in Register(k.width) /\ s6 \in Register(k.width)
      /\ s7 \in Register(k.width)
  BY ShiftsType DEF Rest8
<1>2. /\ x0 = Head8(k, s0) ^^ b[1]
      /\ x1 = Head8(k, s1) ^^ b[2]
      /\ x2 = Head8(k, s2) ^^ b[3]
      /\ x3 = Head8(k, s3) ^^ b[4]
      /\ x4 = Head8(k, s4) ^^ b[5]
      /\ x5 = Head8(k, s5) ^^ b[6]
      /\ x6 = Head8(k, s6) ^^ b[7]
      /\ x7 = Head8(k, s7) ^^ b[8]
  <2> HIDE DEF s1, s2, s3, s4, s5, s6, s7
  <2> DEFINE SB(s, j) == StateByte(k, s, j)
  <2>0. ASSUME NEW s \in Register(k.width), NEW j \in 0 .. 7
        PROVE  SB(Rest8(k, s), j) = SB(s, j + 1)
    BY <2>0, StateByteRest
  <2>a. \A s : SB(s, 0) = Head8(k, s)
    BY StateByteHead
  <2> HIDE DEF SB
  <2>1. SB(s1, 0) = SB(r, 1)
    BY <2>0 DEF s1
  <2>2. SB(s2, 0) = SB(s1, 1) /\ SB(s1, 1) = SB(r, 2)
    BY <1>1, <2>0 DEF s1, s2
  <2>3. SB(s3, 0) = SB(s2, 1) /\ SB(s2, 1) = SB(s1, 2) /\ SB(s1, 2) = SB(r, 3)
    BY <1>1, <2>0 DEF s1, s2, s3
  <2>4. /\ SB(s4, 0) = SB(s3, 1) /\ SB(s3, 1) = SB(s2, 2) /\ SB(s2, 2) = SB(s1, 3)
        /\ SB(s1, 3) = SB(r, 4)
    BY <1>1, <2>0 DEF s1, s2, s3, s4
  <2>5. /\ SB(s5, 0) = SB(s4, 1) /\ SB(s4, 1) = SB(s3, 2) /\ SB(s3, 2) = SB(s2, 3)
        /\ SB(s2, 3) = SB(s1, 4) /\ SB(s1, 4) = SB(r, 5)
    BY <1>1, <2>0 DEF s1, s2, s3, s4, s5
  <2>6. /\ SB(s6, 0) = SB(s5, 1) /\ SB(s5, 1) = SB(s4, 2) /\ SB(s4, 2) = SB(s3, 3)
        /\ SB(s3, 3) = SB(s2, 4) /\ SB(s2, 4) = SB(s1, 5) /\ SB(s1, 5) = SB(r, 6)
    BY <1>1, <2>0 DEF s1, s2, s3, s4, s5, s6
  <2>7. /\ SB(s7, 0) = SB(s6, 1) /\ SB(s6, 1) = SB(s5, 2) /\ SB(s5, 2) = SB(s4, 3)
        /\ SB(s4, 3) = SB(s3, 4) /\ SB(s3, 4) = SB(s2, 5) /\ SB(s2, 5) = SB(s1, 6)
        /\ SB(s1, 6) = SB(r, 7)
    BY <1>1, <2>0 DEF s1, s2, s3, s4, s5, s6, s7
  <2>8. /\ x0 = SB(r, 0) ^^ b[1] /\ x1 = SB(r, 1) ^^ b[2]
        /\ x2 = SB(r, 2) ^^ b[3] /\ x3 = SB(r, 3) ^^ b[4]
        /\ x4 = SB(r, 4) ^^ b[5] /\ x5 = SB(r, 5) ^^ b[6]
        /\ x6 = SB(r, 6) ^^ b[7] /\ x7 = SB(r, 7) ^^ b[8]
    BY IndexIsXor DEF SB
  <2>9. QED
    BY <2>a, <2>1, <2>2, <2>3, <2>4, <2>5, <2>6, <2>7, <2>8
<1> HIDE DEF x0, x1, x2, x3, x4, x5, x6, x7
(* The part that has been through the table: shifting it on is what the   *)
(* derived slices tabulate.                                               *)
<1>3. /\ ByteShift(k, a1) ^^ T0(k, x1) = a2
      /\ ByteShift(k, a2) ^^ T0(k, x2) = a3
      /\ ByteShift(k, a3) ^^ T0(k, x3) = a4
      /\ ByteShift(k, a4) ^^ T0(k, x4) = a5
  BY ByteShiftLinear DEF T1, T2, T3, T4
<1>4. /\ ByteShift(k, a5) ^^ T0(k, x5) = a6
      /\ ByteShift(k, a6) ^^ T0(k, x6) = a7
      /\ ByteShift(k, a7) ^^ T0(k, x7) = a8
  BY ByteShiftLinear DEF T1, T2, T3, T4, T5, T6, T7
<1> DEFINE u1 == Update(k, r,  b[1])
           u2 == Update(k, u1, b[2])
           u3 == Update(k, u2, b[3])
           u4 == Update(k, u3, b[4])
           u5 == Update(k, u4, b[5])
           u6 == Update(k, u5, b[6])
           u7 == Update(k, u6, b[7])
           u8 == Update(k, u7, b[8])
<1> HIDE DEF s1, s2, s3, s4, s5, s6, s7, s8
<1>5. u1 = a1 ^^ s1
  BY <1>2, XorAlgebra DEF Update, T0, s1
<1> HIDE DEF a1, a2, a3, a4, a5, a6, a7, a8
<1>6. u2 = a2 ^^ s2
  BY <1>2, <1>3, <1>5, OneByte DEF T0, s2
<1>7. u3 = a3 ^^ s3
  BY <1>2, <1>3, <1>6, OneByte DEF T0, s3
<1>8. u4 = a4 ^^ s4
  BY <1>2, <1>3, <1>7, OneByte DEF T0, s4
<1>9. u5 = a5 ^^ s5
  BY <1>2, <1>3, <1>8, OneByte DEF T0, s5
<1>10. u6 = a6 ^^ s6
  BY <1>2, <1>4, <1>9, OneByte DEF T0, s6
<1>11. u7 = a7 ^^ s7
  BY <1>2, <1>4, <1>10, OneByte DEF T0, s7
<1>12. u8 = a8 ^^ s8
  BY <1>2, <1>4, <1>11, OneByte DEF T0, s8
<1>13. s8 = {}
  BY NothingLeft DEF s1, s2, s3, s4, s5, s6, s7, s8
<1>14. a8 = EightUpdates(k, r, b)
  BY <1>12, <1>13, XorAlgebra DEF EightUpdates
<1>15. QED
  BY <1>14 DEF EightAtOnce, a8, x0, x1, x2, x3, x4, x5, x6, x7

-----------------------------------------------------------------------------
(* slice8.rs, run_*: the register keeps its width and the position stays  *)
(* inside the message, whichever path the dispatch takes.                 *)
THEOREM TypeCorrect == SliceSpec => []SliceTypeOK
<1>1. SliceInit => SliceTypeOK
  BY SliceAssumption DEF SliceInit, SliceTypeOK
<1>2. SliceTypeOK /\ [SliceNext]_sliceVars => SliceTypeOK'
  <2> SUFFICES ASSUME SliceTypeOK, [SliceNext]_sliceVars
               PROVE  SliceTypeOK'
    OBVIOUS
  <2> USE DEF SliceTypeOK, sliceCall
  <2>k. IsKernel(kernel) /\ message \in Seq(Byte)
    BY SliceAssumption
  <2>1. CASE DispatchToTail
    BY <2>1 DEF DispatchToTail
  <2>2. CASE DispatchToBlocks
    BY <2>2 DEF DispatchToBlocks
  <2>3. CASE FoldBlock
    <3> DEFINE b == [j \in 1 .. STRIDE |-> message[folded + j]]
    <3>1. /\ sliceCrc' = EightAtOnce(kernel, sliceCrc, b)
          /\ byteCrc' = EightUpdates(kernel, byteCrc, b)
      BY <2>3 DEF FoldBlock
    <3>2. \A r, m : Update(kernel, r, m) \in Register(kernel.width)
      BY <2>k, UpdateType
    <3>3. EightUpdates(kernel, byteCrc, b) \in Register(kernel.width)
      BY <3>2 DEF EightUpdates
    <3>4. EightAtOnce(kernel, sliceCrc, b) \in Register(kernel.width)
      <4>1. EightAtOnce(kernel, sliceCrc, b) = EightUpdates(kernel, sliceCrc, b)
        BY <2>k, BlockIsEightUpdates
      <4>2. QED
        BY <3>2, <4>1 DEF EightUpdates
    <3>5. folded' \in 0 .. Len(message)
      <4>1. /\ folded' = folded + 8 /\ Len(message) - folded >= 8
            /\ folded \in Nat /\ Len(message) \in Nat
        BY <2>3, <2>k DEF FoldBlock, STRIDE
      <4> QED
        BY <4>1
    <3>6. QED
      BY <2>3, <3>1, <3>3, <3>4, <3>5 DEF FoldBlock
  <2>4. CASE BlocksDone
    BY <2>4 DEF BlocksDone
  <2>5. CASE FoldTailByte
    <3>1. /\ sliceCrc' \in Register(kernel.width)
          /\ byteCrc' \in Register(kernel.width)
      BY <2>5, <2>k, UpdateType DEF FoldTailByte
    <3>2. folded' \in 0 .. Len(message)
      BY <2>5, <2>k DEF FoldTailByte
    <3>3. QED
      BY <2>5, <3>1, <3>2 DEF FoldTailByte
  <2>6. CASE Return
    BY <2>6 DEF Return
  <2>7. CASE UNCHANGED sliceVars
    BY <2>7 DEF sliceVars
  <2>8. QED
    BY <2>1, <2>2, <2>3, <2>4, <2>5, <2>6, <2>7 DEF SliceNext
<1>3. QED
  BY <1>1, <1>2, PTL DEF SliceSpec

(* slice8.rs: whichever path a call takes, its register is libcrc's after *)
(* every step.                                                             *)
THEOREM SlicedIsByteLoopAlways == SliceSpec => []SlicedIsByteLoop
<1>1. SliceInit => SlicedIsByteLoop
  BY DEF SliceInit, SlicedIsByteLoop
<1>2. SliceTypeOK /\ SlicedIsByteLoop /\ [SliceNext]_sliceVars => SlicedIsByteLoop'
  <2> SUFFICES ASSUME SliceTypeOK, SlicedIsByteLoop, [SliceNext]_sliceVars
               PROVE  SlicedIsByteLoop'
    OBVIOUS
  <2> USE DEF SlicedIsByteLoop
  <2>1. CASE FoldBlock
    <3>1. IsKernel(kernel) /\ sliceCrc \in Register(kernel.width)
      BY SliceAssumption DEF SliceTypeOK
    <3>2. QED
      BY <2>1, <3>1, BlockIsEightUpdates DEF FoldBlock
  <2>2. CASE FoldTailByte
    BY <2>2 DEF FoldTailByte
  <2>3. CASE DispatchToTail \/ DispatchToBlocks \/ BlocksDone \/ Return
    BY <2>3 DEF DispatchToTail, DispatchToBlocks, BlocksDone, Return
  <2>4. CASE UNCHANGED sliceVars
    BY <2>4 DEF sliceVars
  <2>5. QED
    BY <2>1, <2>2, <2>3, <2>4 DEF SliceNext
<1>3. QED
  BY <1>1, <1>2, TypeCorrect, PTL DEF SliceSpec

-----------------------------------------------------------------------------
(* The byte loop has folded the first `folded` bytes, all of them once a  *)
(* call is done.                                                           *)
FoldedSoFar ==
  /\ byteCrc = Loop(kernel, seed, SubSeq(message, 1, folded))
  /\ loop = "done" => folded = Len(message)

(* One more byte of the message. *)
LEMMA NextByte ==
  ASSUME NEW k, NEW r, NEW m \in Seq(Byte), NEW n \in Nat, n < Len(m)
  PROVE  Loop(k, r, SubSeq(m, 1, n + 1)) = Update(k, Loop(k, r, SubSeq(m, 1, n)), m[n + 1])
BY Crc!FoldPrefix DEF Loop

(* Eight more. *)
LEMMA NextBlock ==
  ASSUME NEW k, NEW r, NEW m \in Seq(Byte), NEW n \in Nat, Len(m) - n >= STRIDE
  PROVE  Loop(k, r, SubSeq(m, 1, n + STRIDE))
           = EightUpdates(k, Loop(k, r, SubSeq(m, 1, n)), [j \in 1 .. STRIDE |-> m[n + j]])
<1> DEFINE F(i) == Loop(k, r, SubSeq(m, 1, i))
           b == [j \in 1 .. STRIDE |-> m[n + j]]
<1>1. ASSUME NEW i \in Nat, i < Len(m) PROVE F(i + 1) = Update(k, F(i), m[i + 1])
  BY <1>1, NextByte
<1>2. \A j \in 1 .. 8 : b[j] = m[n + j]
  BY DEF STRIDE
<1>3. Len(m) \in Nat /\ Len(m) >= n + 8
  BY DEF STRIDE
<1> HIDE DEF F, b
<1>4. ASSUME NEW i \in 0 .. 7 PROVE F(n + (i + 1)) = Update(k, F(n + i), b[i + 1])
  <2>1. n + i \in Nat /\ n + i < Len(m) /\ (n + i) + 1 = n + (i + 1)
    BY <1>3
  <2>2. F((n + i) + 1) = Update(k, F(n + i), m[(n + i) + 1])
    BY <1>1, <2>1
  <2>3. b[i + 1] = m[n + (i + 1)]
    <3>1. i + 1 \in 1 .. 8
      OBVIOUS
    <3> QED
      BY ONLY <1>2, <3>1
  <2> QED
    BY <2>1, <2>2, <2>3
<1>5. /\ F(n + 1) = Update(k, F(n + 0), b[1]) /\ n + 0 = n
      /\ F(n + 2) = Update(k, F(n + 1), b[2])
      /\ F(n + 3) = Update(k, F(n + 2), b[3])
      /\ F(n + 4) = Update(k, F(n + 3), b[4])
      /\ F(n + 5) = Update(k, F(n + 4), b[5])
      /\ F(n + 6) = Update(k, F(n + 5), b[6])
      /\ F(n + 7) = Update(k, F(n + 6), b[7])
      /\ F(n + 8) = Update(k, F(n + 7), b[8])
  BY <1>4
<1>6. F(n + 8) = EightUpdates(k, F(n), b)
  BY <1>5 DEF EightUpdates
<1> QED
  BY <1>6 DEF F, b, STRIDE

(* A block or a byte of the tail carries the accelerated register and the *)
(* byte loop's forward together.                                          *)
LEMMA ProgressPreserved == SliceTypeOK /\ FoldedSoFar /\ [SliceNext]_sliceVars => FoldedSoFar'
<1> SUFFICES ASSUME SliceTypeOK, FoldedSoFar, [SliceNext]_sliceVars
             PROVE  FoldedSoFar'
  OBVIOUS
<1>m. message \in Seq(Byte) /\ Len(message) \in Nat /\ folded \in Nat /\ folded <= Len(message)
  BY SliceAssumption DEF SliceTypeOK
<1>1. CASE FoldBlock
  <2>1. /\ UNCHANGED <<kernel, seed, message, loop>> /\ loop = "blocks"
        /\ folded' = folded + STRIDE /\ Len(message) - folded >= STRIDE
        /\ byteCrc' = EightUpdates(kernel, byteCrc, [j \in 1 .. STRIDE |-> message[folded + j]])
    BY <1>1 DEF FoldBlock, sliceCall
  <2>2. byteCrc' = Loop(kernel, seed, SubSeq(message, 1, folded + STRIDE))
    BY <1>m, <2>1, NextBlock DEF FoldedSoFar
  <2> QED
    BY <2>1, <2>2 DEF FoldedSoFar
<1>2. CASE FoldTailByte
  <2>1. /\ UNCHANGED <<kernel, seed, message, loop>> /\ loop = "tail"
        /\ folded' = folded + 1 /\ folded < Len(message)
        /\ byteCrc' = Update(kernel, byteCrc, message[folded + 1])
    BY <1>2 DEF FoldTailByte, sliceCall
  <2>2. byteCrc' = Loop(kernel, seed, SubSeq(message, 1, folded + 1))
    BY <1>m, <2>1, NextByte DEF FoldedSoFar
  <2> QED
    BY <2>1, <2>2 DEF FoldedSoFar
<1>3. CASE DispatchToTail \/ DispatchToBlocks \/ BlocksDone
  BY <1>3 DEF DispatchToTail, DispatchToBlocks, BlocksDone, sliceCall, FoldedSoFar
<1>4. CASE Return
  BY <1>4 DEF Return, sliceCall, FoldedSoFar
<1>5. CASE UNCHANGED sliceVars
  BY <1>5 DEF sliceVars, FoldedSoFar
<1> QED
  BY <1>1, <1>2, <1>3, <1>4, <1>5 DEF SliceNext

(* lib.rs: the one-shot functions return "exactly" what libcrc's loop     *)
(* over the whole buffer returns, for every message and every way it is   *)
(* divided into blocks and a tail.                                         *)
THEOREM ReturnsByteFoldAlways == SliceSpec => []ReturnsByteFold
<1>1. SliceTypeOK /\ SliceInit => FoldedSoFar
  <2> SUFFICES ASSUME SliceTypeOK, SliceInit PROVE FoldedSoFar
    OBVIOUS
  <2>1. SubSeq(message, 1, 0) = <<>>
    BY SliceAssumption DEF SliceTypeOK
  <2>2. Loop(kernel, seed, <<>>) = seed
    BY Crc!FoldEmpty DEF Loop
  <2> QED
    BY <2>1, <2>2 DEF SliceInit, FoldedSoFar
<1>2. SliceTypeOK /\ FoldedSoFar /\ SlicedIsByteLoop => ReturnsByteFold
  <2> SUFFICES ASSUME SliceTypeOK, FoldedSoFar, SlicedIsByteLoop, loop = "done"
               PROVE  sliceCrc = FoldLeft(LAMBDA r, b : Update(kernel, r, b), seed, message)
    BY DEF ReturnsByteFold
  <2>1. SubSeq(message, 1, Len(message)) = message
    BY SliceAssumption DEF SliceTypeOK
  <2>2. sliceCrc = Loop(kernel, seed, message)
    BY <2>1 DEF FoldedSoFar, SlicedIsByteLoop
  <2>3. Loop(kernel, seed, message) = FoldLeft(LAMBDA r, b : Update(kernel, r, b), seed, message)
    BY DEF Loop, Crc!Fold, Crc!FoldLeft, Crc!MapThenFoldSet, Crc!Max, FoldLeft, MapThenFoldSet,
           Max
  <2> QED
    BY <2>2, <2>3
<1> QED
  BY <1>1, <1>2, ProgressPreserved, TypeCorrect, SlicedIsByteLoopAlways, PTL DEF SliceSpec

-----------------------------------------------------------------------------
(* The table builders: libcrc's loop with two registers is the loop with  *)
(* one, for every polynomial and register width.                          *)

(* What the history has become after n turns. *)
AfterTurns(k, r, n) ==
  CASE n = 0 -> r
    [] n = 1 -> Shift(k, r)
    [] n = 2 -> Shift(k, Shift(k, r))
    [] n = 3 -> Shift(k, Shift(k, Shift(k, r)))
    [] n = 4 -> Shift(k, Shift(k, Shift(k, Shift(k, r))))
    [] n = 5 -> Shift(k, Shift(k, Shift(k, Shift(k, Shift(k, r)))))
    [] n = 6 -> Shift(k, Shift(k, Shift(k, Shift(k, Shift(k, Shift(k, r))))))
    [] n = 7 -> Shift(k, Shift(k, Shift(k, Shift(k, Shift(k, Shift(k, Shift(k, r)))))))
    [] n = 8 -> Shift8(k, r)

(* The bits of the index that c still holds after n turns: its window     *)
(* slides out of the register at the end where the table is looked up.    *)
Window(k, n) == IF k.reflected THEN 0 .. 7 - n ELSE k.width - 8 + n .. k.width - 1

Counters ==
  /\ builder \in Builders
  /\ index \in 0 .. ROWS
  /\ bit \in 0 .. 8

BuildInv ==
  /\ Counters
  /\ TwoRegistersAreOne
  /\ c \subseteq Window(builder, bit)
  /\ shifted = AfterTurns(builder, Start(builder, index), bit)

(* A row's index is a byte. *)
LEMMA ByteOfType == \A v : ByteOf(v) \in Byte
BY DEF ByteOf, Byte, Register

(* One more turn of the one-register loop. *)
LEMMA AfterTurnsNext ==
  ASSUME NEW k, NEW r, NEW n \in 0 .. 7
  PROVE  AfterTurns(k, r, n + 1) = Shift(k, AfterTurns(k, r, n))
<1>1. n \in {0, 1, 2, 3, 4, 5, 6, 7}
  OBVIOUS
<1>2. QED
  BY <1>1 DEF AfterTurns, Shift8

(* The two registers a builder starts a row with, crc and c, add up to the *)
(* one register.                                                           *)
LEMMA StartsTogether ==
  ASSUME NEW k, NEW i
  PROVE  StartCrc(k, i) ^^ StartC(k, i) = Start(k, i)
BY XorAlgebra DEF StartCrc, StartC

(* c starts with bits of the index byte only, *)
LEMMA StartInWindow ==
  ASSUME NEW k, IsKernel(k), NEW i
  PROVE  StartC(k, i) \subseteq Window(k, 0)
<1>1. ByteOf(i) \subseteq 0 .. 7
  BY ByteOfType DEF Byte, Register, Bits
<1>2. CASE k.reflected
  BY <1>1, <1>2 DEF StartC, Start, Inject, Window
<1>3. CASE ~k.reflected
  <2>1. Shl(k.width, ByteOf(i), k.width - 8) \subseteq k.width - 8 .. k.width - 1
    BY <1>1 DEF Shl, IsKernel, Bits
  <2>2. Window(k, 0) = k.width - 8 .. k.width - 1
    BY <1>3 DEF Window, IsKernel
  <2>3. Start(k, i) = Shl(k.width, ByteOf(i), k.width - 8)
    BY <1>3 DEF Start, Inject
  <2>4. QED
    BY <2>1, <2>2, <2>3 DEF StartC
<1>4. QED
  BY <1>2, <1>3

(* and every turn moves them on by one place, so that the bit the turn *)
(* tests is never lost.                                                *)
LEMMA PushedInWindow ==
  ASSUME IsKernel(builder), NEW n \in 0 .. 7, NEW r, r \subseteq Window(builder, n)
  PROVE  Pushed(r) \subseteq Window(builder, n + 1)
<1>1. CASE builder.reflected
  BY <1>1 DEF Pushed, Window, Shr, IsKernel, Bits
<1>2. CASE ~builder.reflected
  BY <1>2 DEF Pushed, Window, Shl, IsKernel, Bits
<1>3. QED
  BY <1>1, <1>2

(* One turn does to the two registers what Shift does to their xor. *)
LEMMA TurnIsShift ==
  ASSUME NEW r, NEW s, r ^^ s = shifted,
         NEW out, out = IF builder.reflected THEN 0 ELSE builder.width - 1
  PROVE  (IF out \in r ^^ s THEN Pushed(r) ^^ builder.poly ELSE Pushed(r)) ^^ Pushed(s)
           = Shift(builder, shifted)
<1>1. Pushed(shifted) = Pushed(r) ^^ Pushed(s)
  BY ShiftsLinear DEF Pushed
<1>2. Shift(builder, shifted)
        = IF out \in shifted THEN Pushed(shifted) ^^ builder.poly ELSE Pushed(shifted)
  <2>1. CASE builder.reflected
    BY <2>1 DEF Shift, ReflectedShift, Pushed
  <2>2. CASE ~builder.reflected
    BY <2>2 DEF Shift, ForwardShift, Pushed
  <2>3. QED
    BY <2>1, <2>2
<1> DEFINE a == Pushed(r)
           b == Pushed(s)
           p == builder.poly
<1> HIDE DEF a, b, p
<1>3. (a ^^ p) ^^ b = (a ^^ b) ^^ p
  BY DEF ^^, SymDiff
<1>4. QED
  BY <1>1, <1>2, <1>3 DEF a, b, p

(* No row has been stored and the first is started. *)
LEMMA BuildInitInv == BuildInit => BuildInv
<1> SUFFICES ASSUME BuildInit PROVE BuildInv
  OBVIOUS
<1>1. Counters /\ IsKernel(builder)
  BY BuilderAssumption DEF BuildInit, Counters, ROWS
<1>2. TwoRegistersAreOne
  BY StartsTogether DEF BuildInit, TwoRegistersAreOne
<1>3. c \subseteq Window(builder, bit)
  BY <1>1, StartInWindow DEF BuildInit
<1>4. shifted = AfterTurns(builder, Start(builder, index), bit)
  BY DEF BuildInit, AfterTurns
<1>5. QED
  BY <1>1, <1>2, <1>3, <1>4 DEF BuildInv

(* A turn carries the two registers on together; a row is stored after its *)
(* eighth turn.                                                            *)
LEMMA BuildStepInv == BuildInv /\ [BuildNext]_buildVars => BuildInv'
<1> SUFFICES ASSUME BuildInv, [BuildNext]_buildVars PROVE BuildInv'
  OBVIOUS
<1>0. IsKernel(builder)
  BY BuilderAssumption DEF BuildInv, Counters
<1>1. CASE Turn
  <2>1. Counters'
    BY <1>1 DEF BuildInv, Counters, Turn
  <2>2. TwoRegistersAreOne'
    <3> DEFINE out == IF builder.reflected THEN 0 ELSE builder.width - 1
    <3>1. crc' ^^ c' = (IF out \in crc ^^ c THEN Pushed(crc) ^^ builder.poly
                                             ELSE Pushed(crc)) ^^ Pushed(c)
      BY <1>1 DEF Turn, OutgoingBit
    <3>2. crc' ^^ c' = Shift(builder, shifted)
      BY <3>1, TurnIsShift DEF BuildInv, TwoRegistersAreOne
    <3>3. QED
      BY <1>1, <3>2 DEF Turn, TwoRegistersAreOne
  <2>3. (c \subseteq Window(builder, bit))'
    <3>1. bit \in 0 .. 7 /\ bit' = bit + 1 /\ c' = Pushed(c) /\ builder' = builder
      BY <1>1 DEF BuildInv, Counters, Turn
    <3>2. Pushed(c) \subseteq Window(builder, bit + 1)
      BY <1>0, <3>1, PushedInWindow DEF BuildInv
    <3>3. QED
      BY <3>1, <3>2 DEF Window
  <2>4. (shifted = AfterTurns(builder, Start(builder, index), bit))'
    <3>1. /\ bit \in 0 .. 7 /\ bit' = bit + 1
          /\ builder' = builder /\ index' = index
          /\ shifted' = Shift(builder, shifted)
      BY <1>1 DEF BuildInv, Counters, Turn
    <3>2. shifted' = AfterTurns(builder, Start(builder, index), bit + 1)
      BY <3>1, AfterTurnsNext DEF BuildInv
    <3>3. QED
      BY <3>1, <3>2
  <2>5. QED
    BY <2>1, <2>2, <2>3, <2>4 DEF BuildInv
<1>2. CASE StoreRow
  <2>1. Counters'
    BY <1>2 DEF BuildInv, Counters, StoreRow, ROWS
  <2>2. TwoRegistersAreOne'
    BY <1>2, StartsTogether DEF StoreRow, TwoRegistersAreOne
  <2>3. (c \subseteq Window(builder, bit))'
    <3>1. c' = StartC(builder, index + 1) /\ bit' = 0 /\ builder' = builder
      BY <1>2 DEF StoreRow
    <3>2. StartC(builder, index + 1) \subseteq Window(builder, 0)
      BY <1>0, StartInWindow
    <3>3. QED
      BY <3>1, <3>2
  <2>4. (shifted = AfterTurns(builder, Start(builder, index), bit))'
    BY <1>2 DEF StoreRow, AfterTurns
  <2>5. QED
    BY <2>1, <2>2, <2>3, <2>4 DEF BuildInv
<1>3. CASE UNCHANGED buildVars
  BY <1>3 DEF buildVars, BuildInv, Counters, TwoRegistersAreOne
<1>4. QED
  BY <1>1, <1>2, <1>3 DEF BuildNext

(* lib.rs:68-155, slice8.rs:184-202: whatever the polynomial and the      *)
(* width, the two registers of libcrc's builders are at every turn the    *)
(* one register of the newer builders, split in two.                      *)
THEOREM RegistersAlways == BuildSpec => []TwoRegistersAreOne
<1>1. BuildInv => TwoRegistersAreOne
  BY DEF BuildInv
<1> QED
  BY <1>1, BuildInitInv, BuildStepInv, PTL DEF BuildSpec

(* ... and after eight turns the second one is empty, so that every row   *)
(* is stored complete.                                                    *)
THEOREM RowsAlways == BuildSpec => []RowsAreRows
<1>1. BuildInv => RowsAreRows
  <2> SUFFICES ASSUME BuildInv, bit = 8
               PROVE  crc = Row(builder, ByteOf(index))
    BY DEF RowsAreRows
  <2>1. c = {}
    <3>1. Window(builder, 8) = {}
      BY BuilderAssumption DEF Window, BuildInv, Counters, IsKernel
    <3>2. QED
      BY <3>1 DEF BuildInv
  <2>2. crc = shifted
    BY <2>1, XorAlgebra DEF BuildInv, TwoRegistersAreOne
  <2>3. shifted = Shift8(builder, Start(builder, index))
    BY DEF BuildInv, AfterTurns
  <2>4. QED
    BY <2>2, <2>3 DEF Row, Start
<1> QED
  BY <1>1, BuildInitInv, BuildStepInv, PTL DEF BuildSpec

-----------------------------------------------------------------------------
(* The algorithms of the catalogue. *)

WellFormed(a) ==
  /\ IsKernel(a)
  /\ a.start \in Register(a.width)
  /\ a.xorout \in Register(a.width)
  /\ a.swap \in BOOLEAN
  /\ a.swap => a.width = 16

(* Every entry has the shape the code of its width expects, and only the  *)
(* 16-bit checksums are swapped.                                          *)
LEMMA CatalogueWellFormed == \A name \in FoldedCrcs : WellFormed(Parameters[name])
<1>1. ASSUME NEW reflected \in BOOLEAN, NEW w \in {8, 16, 32, 64}, NEW poly \in Register(w),
             NEW start \in Register(w), NEW xorout \in Register(w), NEW swap \in BOOLEAN,
             swap => w = 16
      PROVE  WellFormed(Algorithm(reflected, w, poly, start, xorout, swap))
  BY <1>1 DEF WellFormed, IsKernel, Algorithm
<1>2. /\ {} \in Register(8) /\ {} \in Register(16) /\ {} \in Register(32)
      /\ {} \in Register(64)
      /\ Bits(16) \in Register(16) /\ Bits(32) \in Register(32) /\ Bits(64) \in Register(64)
  BY DEF Register
<1>3. POLY_8 \in Register(8)
  BY DEF POLY_8, Register, Bits
<1>4. /\ POLY_16 \in Register(16) /\ POLY_KERMIT \in Register(16)
      /\ POLY_DNP \in Register(16) /\ POLY_CCITT \in Register(16)
      /\ START_CCITT_1D0F \in Register(16)
  BY DEF POLY_16, POLY_KERMIT, POLY_DNP, POLY_CCITT, START_CCITT_1D0F, Register, Bits
<1>5. POLY_32 \in Register(32)
  BY DEF POLY_32, Register, Bits
<1>6. POLY_64 \in Register(64)
  BY DEF POLY_64, Register, Bits
<1>7. /\ Parameters.crc_8          = Algorithm(FALSE, 8,  POLY_8,      {},       {},       FALSE)
      /\ Parameters.crc_16         = Algorithm(TRUE,  16, POLY_16,     {},       {},       FALSE)
      /\ Parameters.crc_modbus     = Algorithm(TRUE,  16, POLY_16,     Bits(16), {},       FALSE)
      /\ Parameters.crc_xmodem     = Algorithm(FALSE, 16, POLY_CCITT,  {},       {},       FALSE)
      /\ Parameters.crc_ccitt_ffff = Algorithm(FALSE, 16, POLY_CCITT,  Bits(16), {},       FALSE)
      /\ Parameters.crc_ccitt_1d0f
           = Algorithm(FALSE, 16, POLY_CCITT, START_CCITT_1D0F, {}, FALSE)
      /\ Parameters.crc_kermit     = Algorithm(TRUE,  16, POLY_KERMIT, {},       {},       TRUE)
      /\ Parameters.crc_dnp        = Algorithm(TRUE,  16, POLY_DNP,    {},       Bits(16), TRUE)
      /\ Parameters.crc_32         = Algorithm(TRUE,  32, POLY_32,     Bits(32), Bits(32), FALSE)
      /\ Parameters.crc_64_ecma    = Algorithm(FALSE, 64, POLY_64,     {},       {},       FALSE)
      /\ Parameters.crc_64_we      = Algorithm(FALSE, 64, POLY_64,     Bits(64), Bits(64), FALSE)
  BY DEF Parameters
<1>8. \A name \in FoldedCrcs : WellFormed(Parameters[name])
  <2>1. WellFormed(Algorithm(FALSE, 8, POLY_8, {}, {}, FALSE))
    BY <1>1, <1>2, <1>3
  <2>2. WellFormed(Algorithm(TRUE, 16, POLY_16, {}, {}, FALSE))
    BY <1>1, <1>2, <1>4
  <2>3. WellFormed(Algorithm(TRUE, 16, POLY_16, Bits(16), {}, FALSE))
    BY <1>1, <1>2, <1>4
  <2>4. WellFormed(Algorithm(FALSE, 16, POLY_CCITT, {}, {}, FALSE))
    BY <1>1, <1>2, <1>4
  <2>5. WellFormed(Algorithm(FALSE, 16, POLY_CCITT, Bits(16), {}, FALSE))
    BY <1>1, <1>2, <1>4
  <2>6. WellFormed(Algorithm(FALSE, 16, POLY_CCITT, START_CCITT_1D0F, {}, FALSE))
    BY <1>1, <1>2, <1>4
  <2>7. WellFormed(Algorithm(TRUE, 16, POLY_KERMIT, {}, {}, TRUE))
    BY <1>1, <1>2, <1>4
  <2>8. WellFormed(Algorithm(TRUE, 16, POLY_DNP, {}, Bits(16), TRUE))
    BY <1>1, <1>2, <1>4
  <2>9. WellFormed(Algorithm(TRUE, 32, POLY_32, Bits(32), Bits(32), FALSE))
    BY <1>1, <1>2, <1>5
  <2>10. WellFormed(Algorithm(FALSE, 64, POLY_64, {}, {}, FALSE))
    BY <1>1, <1>2, <1>6
  <2>11. WellFormed(Algorithm(FALSE, 64, POLY_64, Bits(64), Bits(64), FALSE))
    BY <1>1, <1>2, <1>6
  <2>12. FoldedCrcs = {"crc_8", "crc_16", "crc_modbus", "crc_xmodem", "crc_ccitt_ffff",
                       "crc_ccitt_1d0f", "crc_kermit", "crc_dnp", "crc_32", "crc_64_ecma",
                       "crc_64_we"}
    BY DEF FoldedCrcs, Parameters
  <2> QED
    BY <1>7, <2>1, <2>2, <2>3, <2>4, <2>5, <2>6, <2>7, <2>8, <2>9, <2>10, <2>11, <2>12
<1> QED
  BY <1>8

(* Swapping the bytes of a 16-bit word twice changes nothing. *)
LEMMA SwapTwice ==
  ASSUME NEW a, WellFormed(a), NEW r \in Register(a.width)
  PROVE  /\ ByteSwapIf(a, r) \in Register(a.width)
         /\ ByteSwapIf(a, ByteSwapIf(a, r)) = r
<1>1. ASSUME NEW s \in Register(16)
      PROVE  SwapBytes(s) \in Register(16) /\ SwapBytes(SwapBytes(s)) = s
  <2>1. SwapBytes(s) \in Register(16)
    BY DEF SwapBytes, Register
  <2>2. \A i \in Bits(16) : i \in SwapBytes(SwapBytes(s)) <=> i \in s
    BY DEF SwapBytes, Bits
  <2>3. SwapBytes(SwapBytes(s)) \subseteq Bits(16) /\ s \subseteq Bits(16)
    BY DEF SwapBytes, Register
  <2> QED
    BY <2>1, <2>2, <2>3
<1> QED
  BY <1>1 DEF ByteSwapIf, WellFormed

(* The last swap and exclusive or keep the register's width. *)
LEMMA FinaliseType ==
  ASSUME NEW a, WellFormed(a), NEW r \in Register(a.width)
  PROVE  Finalise(a, r) \in Register(a.width)
<1>1. r ^^ a.xorout \in Register(a.width)
  BY XorType DEF WellFormed
<1> QED
  BY <1>1, SwapTwice DEF Finalise

(* The library's byte loop is the loop that the lemmas on kernels are     *)
(* about.                                                                 *)
LEMMA ByteFoldIsLoop ==
  ASSUME NEW a, NEW r, NEW data
  PROVE  ByteFold(a, r, data) = Loop(a, r, data)
BY DEF ByteFold, Loop, Crc!Fold, Crc!FoldLeft, Crc!MapThenFoldSet, Crc!Max, FoldLeft,
       MapThenFoldSet, Max

-----------------------------------------------------------------------------
(* combine.rs: the correction init ^ xorout is what makes the two halves  *)
(* of the split meet, and the linearity of the byte fold keeps them       *)
(* together.                                                               *)
LEMMA SplitIdentityInit == CombineInit => SplitIdentity
<1> SUFFICES ASSUME CombineInit
             PROVE  SplitIdentity
  OBVIOUS
<1> DEFINE x == ByteSwapIf(alg, crcA)
           s == alg.start
           o == alg.xorout
<1>1. whole = x ^^ o /\ zeros = x ^^ (s ^^ o) /\ partB = s
  BY DEF CombineInit, Fix
<1> HIDE DEF x, s, o
<1>2. x ^^ o = (x ^^ (s ^^ o)) ^^ s
  BY DEF ^^, SymDiff
<1> QED
  BY <1>1, <1>2 DEF SplitIdentity

(* Each byte of B is one step of both sides: Update is linear over *)
(* exclusive or.                                                   *)
LEMMA SplitIdentityStep == SplitIdentity /\ [CombineNext]_combineVars => SplitIdentity'
<1> SUFFICES ASSUME SplitIdentity, [CombineNext]_combineVars
             PROVE  SplitIdentity'
  OBVIOUS
<1> USE DEF SplitIdentity
<1>1. CASE FoldByte
  <2> DEFINE b == dataB[pos + 1]
  <2>1. /\ partB' = Update(alg, partB, b)
        /\ whole' = Update(alg, whole, b)
        /\ zeros' = Update(alg, zeros, {})
    BY <1>1 DEF FoldByte
  <2>2. Update(alg, zeros ^^ partB, {} ^^ b) = zeros' ^^ partB'
    BY <2>1, UpdateLinear
  <2>3. {} ^^ b = b
    BY XorAlgebra
  <2> QED
    BY <2>1, <2>2, <2>3
<1>2. CASE CombineEmpty \/ CombineCall \/ AdvanceStep \/ AdvanceReturn
  BY <1>2 DEF CombineEmpty, CombineCall, AdvanceStep, AdvanceReturn, folds
<1>3. CASE UNCHANGED combineVars
  BY <1>3 DEF combineVars
<1> QED
  BY <1>1, <1>2, <1>3 DEF CombineNext

(* The register over A || B is that of A advanced over zero bytes, xored *)
(* with B's and with the correction for B's start value: what combine.rs *)
(* computes, after every prefix of B.                                    *)
THEOREM SplitIdentityAlways == CombineSpec => []SplitIdentity
  BY SplitIdentityInit, SplitIdentityStep, PTL DEF CombineSpec

-----------------------------------------------------------------------------
(* combine.rs, the operators.  A matrix holds a power of the byte         *)
(* operator when row i is bit i advanced by that many zero bytes.         *)
PowerOf(a, p) == [b \in Bits(a.width) |-> Advanced(a, {b}, p)]

(* What Times iterates, on the subsets of the vector. *)
Summed(matrix, vec, f) ==
  f = [s \in SUBSET vec |->
         IF s = {} THEN {}
         ELSE f[s \ {CHOOSE b \in s : TRUE}] ^^ matrix[CHOOSE b \in s : TRUE]]

(* times() with a power of the operator advances the vector: the rows of  *)
(* its bits add up, in whatever order they are taken.                     *)
LEMMA TimesIsAdvanced ==
  ASSUME NEW a, WellFormed(a), NEW p \in Nat, NEW v \in Register(a.width)
  PROVE  Times(PowerOf(a, p), v) = Advanced(a, v, p)
<1> DEFINE m == PowerOf(a, p)
           A(s) == Advanced(a, s, p)
           g == [s \in SUBSET v |-> A(s)]
           chosen == CHOOSE f : Summed(m, v, f)
<1>1. Times(m, v) = chosen[v]
  BY DEF Times, FoldSet, MapThenFoldSet, Summed
<1>2. ASSUME NEW s \in SUBSET v, NEW b \in s
      PROVE  A(s) = A(s \ {b}) ^^ m[b]
  <2>1. s = (s \ {b}) ^^ {b}
    BY DEF ^^, SymDiff
  <2>2. b \in Bits(a.width)
    BY DEF Register
  <2>3. m[b] = A({b})
    BY <2>2 DEF PowerOf
  <2>4. Advanced(a, (s \ {b}) ^^ {b}, p) = Advanced(a, s \ {b}, p) ^^ Advanced(a, {b}, p)
    BY AdvancedLinear
  <2> QED
    BY <2>1, <2>3, <2>4
<1>3. A({}) = {}
  BY AdvancedLinear
<1> HIDE DEF m, A
<1>4. Summed(m, v, g)
  <2> DEFINE h == [s \in SUBSET v |->
                     IF s = {} THEN {}
                     ELSE g[s \ {CHOOSE b \in s : TRUE}] ^^ m[CHOOSE b \in s : TRUE]]
  <2>1. ASSUME NEW s \in SUBSET v PROVE g[s] = h[s]
    <3>1. CASE s = {}
      BY <1>3, <3>1
    <3>2. CASE s # {}
      <4> DEFINE b == CHOOSE b \in s : TRUE
      <4>1. b \in s
        BY <3>2
      <4>2. A(s) = A(s \ {b}) ^^ m[b]
        BY <1>2, <4>1
      <4>3. s \ {b} \in SUBSET v
        OBVIOUS
      <4> QED
        BY <3>2, <4>2, <4>3
    <3> QED
      BY <3>1, <3>2
  <2>2. g = h
    BY <2>1
  <2> QED
    BY <2>2 DEF Summed
<1>5. Summed(m, v, chosen)
  BY <1>4
<1> HIDE DEF g, chosen
<1>6. chosen[v] = A(v)
  <2> DEFINE T == {s \in SUBSET v : chosen[s] # A(s)}
  <2> SUFFICES ASSUME T # {} PROVE FALSE
    OBVIOUS
  <2>1. IsWellFoundedOn(StrictSubsetOrdering(v), SUBSET v)
    <3>1. IsFiniteSet(Bits(a.width))
      <4>1. 0 \in Int /\ a.width - 1 \in Int
        BY DEF WellFormed, IsKernel
      <4> QED
        BY <4>1, FS_Interval DEF Bits
    <3>2. IsFiniteSet(v)
      BY <3>1, FS_Subset DEF Register
    <3> QED
      BY <3>2, FS_StrictSubsetOrderingWellFounded, FS_FiniteSubsetsOfFinite
  <2>2. PICK s \in T : \A r \in T : <<r, s>> \notin StrictSubsetOrdering(v)
    <3>1. T \subseteq SUBSET v
      OBVIOUS
    <3> HIDE DEF T
    <3> QED
      BY <2>1, <3>1, WFMin
  <2>3. chosen[s] = IF s = {} THEN {}
                    ELSE chosen[s \ {CHOOSE b \in s : TRUE}] ^^ m[CHOOSE b \in s : TRUE]
    BY <1>5 DEF Summed
  <2>4. s # {}
    BY <1>3, <2>3
  <2> DEFINE b == CHOOSE b \in s : TRUE
             r == s \ {b}
  <2>5. b \in s
    BY <2>4
  <2>6. r \in SUBSET v /\ <<r, s>> \in StrictSubsetOrdering(v)
    BY <2>5 DEF StrictSubsetOrdering
  <2>7. chosen[r] = A(r)
    BY <2>2, <2>6
  <2>8. A(s) = A(r) ^^ m[b]
    BY <1>2, <2>5
  <2> QED
    BY <2>3, <2>4, <2>7, <2>8
<1> QED
  BY <1>1, <1>6 DEF m, A

(* OP_* is the first power, ... *)
LEMMA ByteOperatorPower ==
  ASSUME NEW a
  PROVE  ByteOperator(a) = PowerOf(a, 1)
<1>1. ASSUME NEW r PROVE Advanced(a, r, 1) = Update(a, r, {})
  <2>1. Advanced(a, r, 0) = r /\ Advanced(a, r, 0 + 1) = Update(a, Advanced(a, r, 0), {})
    BY AdvancedStep
  <2> QED
    BY <2>1
<1> QED
  BY <1>1 DEF ByteOperator, PowerOf

(* ... and square() doubles a power. *)
LEMMA SquareDoubles ==
  ASSUME NEW a, WellFormed(a), NEW p \in Nat
  PROVE  Square(PowerOf(a, p)) = PowerOf(a, p + p)
<1> DEFINE m == PowerOf(a, p)
<1>1. DOMAIN m = Bits(a.width)
  BY DEF PowerOf
<1>2. ASSUME NEW b \in Bits(a.width)
      PROVE  Times(m, m[b]) = Advanced(a, {b}, p + p)
  <2>1. m[b] = Advanced(a, {b}, p)
    BY DEF PowerOf
  <2>2. {b} \in Register(a.width)
    BY DEF Register
  <2>3. m[b] \in Register(a.width)
    BY <2>1, <2>2, AdvancedType DEF WellFormed
  <2>4. Times(m, m[b]) = Advanced(a, m[b], p)
    BY <2>3, TimesIsAdvanced
  <2> QED
    BY <2>1, <2>4, AdvancedSum
<1> HIDE DEF m
<1>3. Square(m) = [b \in Bits(a.width) |-> Advanced(a, {b}, p + p)]
  BY <1>1, <1>2 DEF Square
<1> QED
  BY <1>3 DEF m, PowerOf

-----------------------------------------------------------------------------
(* The inductive invariant of the combination.  FoldsOfB: what the three  *)
(* registers of the first phase are folds of.  AdvanceLoop: in advance()  *)
(* the matrix is some power p of the byte operator, and the register is   *)
(* p times the remaining length short of its goal.                        *)
AlgOfCatalogue ==
  /\ WellFormed(alg)
  /\ dataA \in Seq(Byte)
  /\ dataB \in Seq(Byte)
  /\ crcA = CrcOneShot(alg, dataA)

FoldsOfB ==
  /\ pos \in 0 .. Len(dataB)
  /\ partB = Loop(alg, alg.start, SubSeq(dataB, 1, pos))
  /\ whole = Loop(alg, Loop(alg, alg.start, dataA), SubSeq(dataB, 1, pos))
  /\ zeros = Advanced(alg, ByteSwapIf(alg, crcA) ^^ Fix(alg), pos)

AdvanceLoop ==
  pc = "advance" =>
    /\ pos = Len(dataB)
    /\ len \in Nat \ {0}
    /\ reg \in Register(alg.width)
    /\ \E p \in Nat : power = PowerOf(alg, p) /\ Advanced(alg, reg, p * len) = zeros

CombineInv ==
  AlgOfCatalogue /\ FoldsOfB /\ AdvanceLoop /\ SplitIdentity /\ CombinedIsConcatenation

(* The caller's first register over A: unswapped and with the final xor   *)
(* taken off again, the checksum is the register it was made from.        *)
LEMMA ChecksumUndone ==
  ASSUME NEW a, WellFormed(a), NEW data \in Seq(Byte)
  PROVE  /\ Loop(a, a.start, data) \in Register(a.width)
         /\ CrcOneShot(a, data) = Finalise(a, Loop(a, a.start, data))
         /\ CrcOneShot(a, data) \in Register(a.width)
         /\ ByteSwapIf(a, CrcOneShot(a, data)) = Loop(a, a.start, data) ^^ a.xorout
         /\ ByteSwapIf(a, CrcOneShot(a, data)) ^^ a.xorout = Loop(a, a.start, data)
<1> DEFINE r == Loop(a, a.start, data)
           o == a.xorout
<1>1. r \in Register(a.width)
  BY LoopType DEF WellFormed
<1>2. CrcOneShot(a, data) = Finalise(a, r)
  BY ByteFoldIsLoop DEF CrcOneShot
<1>3. r ^^ o \in Register(a.width)
  BY <1>1, XorType DEF WellFormed
<1>4. ByteSwapIf(a, Finalise(a, r)) = r ^^ o
  BY <1>3, SwapTwice DEF Finalise
<1>5. Finalise(a, r) \in Register(a.width)
  BY <1>1, FinaliseType
<1>6. (r ^^ o) ^^ o = r
  BY DEF ^^, SymDiff
<1> QED
  BY <1>1, <1>2, <1>4, <1>5, <1>6

(* Over no byte at all a register stays what it is. *)
LEMMA LoopOfNothing ==
  ASSUME NEW a, NEW r, NEW data \in Seq(Byte)
  PROVE  /\ SubSeq(data, 1, 0) = <<>>
         /\ Loop(a, r, SubSeq(data, 1, 0)) = r
<1>1. SubSeq(data, 1, 0) = <<>>
  OBVIOUS
<1> QED
  BY <1>1, Crc!FoldEmpty DEF Loop

(* The loop over A || B. *)
LEMMA LoopOfBoth ==
  ASSUME NEW a, NEW r, NEW s \in Seq(Byte), NEW t \in Seq(Byte)
  PROVE  Loop(a, r, s \o t) = Loop(a, Loop(a, r, s), t)
BY Crc!FoldConcat DEF Loop

(* Before B's first byte the registers are those of A and of nothing. *)
LEMMA CombineInitInv == CombineInit => CombineInv
<1> SUFFICES ASSUME CombineInit
             PROVE  CombineInv
  OBVIOUS
<1>1. AlgOfCatalogue
  BY CatalogueWellFormed, CombineAssumption DEF CombineInit, AlgOfCatalogue
<1>2. FoldsOfB
  <2>1. pos = 0 /\ 0 \in 0 .. Len(dataB)
    BY <1>1 DEF CombineInit, AlgOfCatalogue
  <2>2. partB = Loop(alg, alg.start, SubSeq(dataB, 1, 0))
    BY <1>1, LoopOfNothing DEF CombineInit, AlgOfCatalogue
  <2>3. whole = Loop(alg, alg.start, dataA)
    BY <1>1, ChecksumUndone DEF CombineInit, AlgOfCatalogue
  <2>4. whole = Loop(alg, Loop(alg, alg.start, dataA), SubSeq(dataB, 1, 0))
    BY <1>1, <2>3, LoopOfNothing DEF AlgOfCatalogue
  <2>5. zeros = Advanced(alg, ByteSwapIf(alg, crcA) ^^ Fix(alg), 0)
    BY AdvancedStep, 0 \in Nat DEF CombineInit
  <2> QED
    BY <2>1, <2>2, <2>4, <2>5 DEF FoldsOfB
<1>3. AdvanceLoop /\ CombinedIsConcatenation
  BY DEF CombineInit, AdvanceLoop, CombinedIsConcatenation
<1>4. SplitIdentity
  BY SplitIdentityInit
<1> QED
  BY <1>1, <1>2, <1>3, <1>4 DEF CombineInv

(* One turn of advance()'s loop, the last one too: the odd bit of the     *)
(* length takes the register on by the power, and halving the length      *)
(* makes up for doubling the power.                                        *)
LEMMA AdvanceTurn ==
  ASSUME CombineInv, pc = "advance",
         NEW p \in Nat, power = PowerOf(alg, p), Advanced(alg, reg, p * len) = zeros,
         NEW turned, turned = IF len % 2 = 1 THEN Times(power, reg) ELSE reg
  PROVE  /\ turned \in Register(alg.width)
         /\ len \div 2 \in Nat
         /\ Advanced(alg, turned, (p + p) * (len \div 2)) = zeros
<1> DEFINE q == len \div 2
<1>0. WellFormed(alg) /\ len \in Nat \ {0} /\ reg \in Register(alg.width)
  BY DEF CombineInv, AlgOfCatalogue, AdvanceLoop
<1>1. q \in Nat /\ (len % 2 = 1 => len = q + q + 1) /\ (len % 2 # 1 => len = q + q)
  BY <1>0
<1> HIDE DEF q
<1>2. (p + p) * q \in Nat /\ p + (p + p) * q = p * (q + q + 1) /\ (p + p) * q = p * (q + q)
  BY <1>1
<1>3. CASE len % 2 = 1
  <2>1. turned = Advanced(alg, reg, p)
    BY <1>0, <1>3, TimesIsAdvanced
  <2>2. Advanced(alg, reg, p) \in Register(alg.width)
    BY <1>0, AdvancedType DEF WellFormed
  <2>3. Advanced(alg, Advanced(alg, reg, p), (p + p) * q) = Advanced(alg, reg, p + (p + p) * q)
    BY <1>2, AdvancedSum
  <2>4. p + (p + p) * q = p * len
    BY <1>1, <1>2, <1>3
  <2> QED
    BY <1>1, <2>1, <2>2, <2>3, <2>4 DEF q
<1>4. CASE len % 2 # 1
  <2>1. turned = reg
    BY <1>4
  <2>2. (p + p) * q = p * len
    BY <1>1, <1>2, <1>4
  <2> QED
    BY <1>0, <1>1, <2>1, <2>2 DEF q
<1> QED
  BY <1>3, <1>4

(* Another byte of B, another zero byte under A: the register of the *)
(* concatenation is split once more.                                 *)
LEMMA CombineStepInv == CombineInv /\ [CombineNext]_combineVars => CombineInv'
<1> SUFFICES ASSUME CombineInv, [CombineNext]_combineVars
             PROVE  CombineInv'
  OBVIOUS
<1>0. /\ AlgOfCatalogue /\ FoldsOfB /\ AdvanceLoop /\ SplitIdentity
      /\ CombinedIsConcatenation
  BY DEF CombineInv
<1>s. SplitIdentity'
  BY <1>0, SplitIdentityStep
<1>1. CASE FoldByte
  <2> DEFINE b == dataB[pos + 1]
             p == pos + 1
             r == Loop(alg, alg.start, dataA)
  <2>1. /\ pos \in Nat /\ pos < Len(dataB) /\ dataB \in Seq(Byte)
        /\ UNCHANGED args /\ pc' = "fold" /\ pos' = pos + 1
        /\ partB' = Update(alg, partB, b)
        /\ whole' = Update(alg, whole, b)
        /\ zeros' = Update(alg, zeros, {})
    BY <1>0, <1>1 DEF FoldByte, FoldsOfB, AlgOfCatalogue
  <2>2. AlgOfCatalogue'
    BY <1>0, <2>1 DEF AlgOfCatalogue, args
  <2>3. \A s : Loop(alg, s, SubSeq(dataB, 1, p)) = Update(alg, Loop(alg, s, SubSeq(dataB, 1, pos)), b)
    BY <2>1, Crc!FoldPrefix DEF Loop
  <2>4. partB' = Loop(alg, alg.start, SubSeq(dataB, 1, p))
    BY <1>0, <2>1, <2>3 DEF FoldsOfB
  <2>5. whole' = Loop(alg, r, SubSeq(dataB, 1, p))
    BY <1>0, <2>1, <2>3 DEF FoldsOfB
  <2>6. zeros' = Advanced(alg, ByteSwapIf(alg, crcA) ^^ Fix(alg), p)
    BY <1>0, <2>1, AdvancedStep DEF FoldsOfB
  <2>7. FoldsOfB'
    <3>1. p \in 0 .. Len(dataB)
      BY <2>1
    <3> QED
      BY <2>1, <2>4, <2>5, <2>6, <3>1 DEF FoldsOfB, args
  <2>8. AdvanceLoop' /\ CombinedIsConcatenation'
    BY <2>1 DEF AdvanceLoop, CombinedIsConcatenation
  <2> QED
    BY <1>s, <2>2, <2>7, <2>8 DEF CombineInv
<1>2. CASE CombineEmpty
  <2>1. AlgOfCatalogue' /\ FoldsOfB'
    BY <1>0, <1>2 DEF CombineEmpty, AlgOfCatalogue, FoldsOfB, args, folds
  <2>2. AdvanceLoop'
    BY <1>2 DEF CombineEmpty, AdvanceLoop
  <2>3. crcA \in Register(alg.width)
    BY <1>0, ChecksumUndone DEF AlgOfCatalogue
  <2>4. result' = crcA
    BY <1>0, <1>2, <2>3, SwapTwice DEF CombineEmpty, AlgOfCatalogue
  <2>5. dataA \o dataB = dataA
    BY <1>0, <1>2 DEF CombineEmpty, AlgOfCatalogue
  <2>6. CombinedIsConcatenation'
    BY <1>0, <1>2, <2>4, <2>5 DEF CombineEmpty, AlgOfCatalogue, CombinedIsConcatenation, args
  <2> QED
    BY <1>s, <2>1, <2>2, <2>6 DEF CombineInv
<1>3. CASE CombineCall
  <2> DEFINE x == ByteSwapIf(alg, crcA) ^^ Fix(alg)
             n == Len(dataB)
  <2>1. AlgOfCatalogue' /\ FoldsOfB'
    BY <1>0, <1>3 DEF CombineCall, AlgOfCatalogue, FoldsOfB, args, folds
  <2>2. CombinedIsConcatenation'
    BY <1>3 DEF CombineCall, CombinedIsConcatenation
  <2>3. WellFormed(alg) /\ n \in Nat \ {0} /\ pos = n /\ zeros = Advanced(alg, x, pos)
    BY <1>0, <1>3 DEF CombineCall, AlgOfCatalogue, FoldsOfB
  <2>4. reg' = x /\ power' = PowerOf(alg, 1) /\ len' = n /\ pos' = n /\ zeros' = zeros /\ alg' = alg
    BY <1>3, ByteOperatorPower DEF CombineCall, args, folds
  <2>5. x \in Register(alg.width)
    <3>1. ByteSwapIf(alg, crcA) \in Register(alg.width)
      BY <1>0, <2>3, ChecksumUndone, SwapTwice DEF AlgOfCatalogue
    <3>2. Fix(alg) \in Register(alg.width)
      BY <2>3, XorType DEF Fix, WellFormed
    <3> QED
      BY <3>1, <3>2, XorType
  <2> HIDE DEF x, n
  <2>6. 1 \in Nat /\ 1 * n = n
    BY <2>3
  <2>7. AdvanceLoop'
    <3>1. power' = PowerOf(alg, 1) /\ Advanced(alg, x, 1 * n) = zeros
      BY <2>3, <2>4, <2>6
    <3>2. \E p \in Nat : power' = PowerOf(alg', p) /\ Advanced(alg', reg', p * len') = zeros'
      BY <2>4, <2>6, <3>1
    <3>3. dataB' = dataB
      BY <1>3 DEF CombineCall, args
    <3> QED
      BY <2>3, <2>4, <2>5, <3>2, <3>3 DEF AdvanceLoop, n
  <2> QED
    BY <1>s, <2>1, <2>2, <2>7 DEF CombineInv
<1>4. CASE AdvanceStep
  <2>1. AlgOfCatalogue' /\ FoldsOfB'
    BY <1>0, <1>4 DEF AdvanceStep, AlgOfCatalogue, FoldsOfB, args, folds
  <2>2. CombinedIsConcatenation'
    BY <1>4 DEF AdvanceStep, CombinedIsConcatenation
  <2>3. /\ pc = "advance" /\ pc' = pc /\ len \div 2 # 0 /\ len' = len \div 2
        /\ reg' = IF len % 2 = 1 THEN Times(power, reg) ELSE reg
        /\ power' = Square(power) /\ UNCHANGED <<alg, dataB, pos, zeros>>
    BY <1>4 DEF AdvanceStep, args, folds
  <2>4. PICK p \in Nat : power = PowerOf(alg, p) /\ Advanced(alg, reg, p * len) = zeros
    BY <1>0, <2>3 DEF AdvanceLoop
  <2>5. /\ reg' \in Register(alg.width)
        /\ len' \in Nat
        /\ Advanced(alg, reg', (p + p) * len') = zeros
    <3> DEFINE t == IF len % 2 = 1 THEN Times(power, reg) ELSE reg
    <3>1. reg' = t
      BY <2>3
    <3> HIDE DEF t
    <3>2. t = IF len % 2 = 1 THEN Times(power, reg) ELSE reg
      BY DEF t
    <3>3. /\ t \in Register(alg.width) /\ len \div 2 \in Nat
          /\ Advanced(alg, t, (p + p) * (len \div 2)) = zeros
      BY <2>3, <2>4, <3>2, AdvanceTurn
    <3> QED
      BY <2>3, <3>1, <3>3
  <2>6. power' = PowerOf(alg, p + p)
    BY <1>0, <2>3, <2>4, SquareDoubles DEF AlgOfCatalogue
  <2>7. AdvanceLoop'
    <3>1. p + p \in Nat
      OBVIOUS
    <3>2. \E d \in Nat : power' = PowerOf(alg', d) /\ Advanced(alg', reg', d * len') = zeros'
      BY <2>3, <2>5, <2>6, <3>1
    <3>3. pos = Len(dataB)
      BY <1>0, <2>3 DEF AdvanceLoop
    <3> QED
      BY <2>3, <2>5, <3>2, <3>3 DEF AdvanceLoop
  <2> QED
    BY <1>s, <2>1, <2>2, <2>7 DEF CombineInv
<1>5. CASE AdvanceReturn
  <2> DEFINE o == alg.xorout
             t == IF len % 2 = 1 THEN Times(power, reg) ELSE reg
  <2>1. AlgOfCatalogue' /\ FoldsOfB'
    BY <1>0, <1>5 DEF AdvanceReturn, AlgOfCatalogue, FoldsOfB, args, folds
  <2>2. AdvanceLoop'
    BY <1>5 DEF AdvanceReturn, AdvanceLoop
  <2>3. /\ pc = "advance" /\ len \div 2 = 0
        /\ result' = ByteSwapIf(alg, t ^^ ByteSwapIf(alg, Finalise(alg, partB)))
        /\ UNCHANGED <<alg, dataA, dataB>>
    BY <1>5 DEF AdvanceReturn, args
  <2>4. PICK p \in Nat : power = PowerOf(alg, p) /\ Advanced(alg, reg, p * len) = zeros
    BY <1>0, <2>3 DEF AdvanceLoop
  <2> HIDE DEF t
  <2>5. t = zeros
    <3>1. t = IF len % 2 = 1 THEN Times(power, reg) ELSE reg
      BY DEF t
    <3>2. Advanced(alg, t, (p + p) * (len \div 2)) = zeros
      BY <2>3, <2>4, <3>1, AdvanceTurn
    <3>3. (p + p) * (len \div 2) = 0
      BY <2>3
    <3> QED
      BY <3>2, <3>3, AdvancedStep, 0 \in Nat
  <2>6. pos = Len(dataB) /\ SubSeq(dataB, 1, pos) = dataB /\ dataB \in Seq(Byte)
        /\ WellFormed(alg) /\ dataA \in Seq(Byte)
    BY <1>0, <2>3 DEF AdvanceLoop, AlgOfCatalogue
  <2>7. ByteSwapIf(alg, Finalise(alg, partB)) = partB ^^ o
    <3>1. partB = Loop(alg, alg.start, dataB)
      BY <1>0, <2>6 DEF FoldsOfB
    <3>2. partB \in Register(alg.width)
      BY <2>6, <3>1, ChecksumUndone
    <3>3. partB ^^ o \in Register(alg.width)
      BY <2>6, <3>2, XorType DEF WellFormed
    <3> QED
      BY <2>6, <3>3, SwapTwice DEF Finalise
  <2>8. t ^^ (partB ^^ o) = whole ^^ o
    <3>1. whole = t ^^ partB
      BY <1>0, <2>5 DEF SplitIdentity
    <3> HIDE DEF o
    <3>2. (t ^^ partB) ^^ o = t ^^ (partB ^^ o)
      BY XorAlgebra
    <3> QED
      BY <3>1, <3>2
  <2>9. whole = Loop(alg, alg.start, dataA \o dataB)
    <3>1. whole = Loop(alg, Loop(alg, alg.start, dataA), dataB)
      BY <1>0, <2>6 DEF FoldsOfB
    <3> QED
      BY <2>6, <3>1, LoopOfBoth
  <2>10. dataA \o dataB \in Seq(Byte)
    BY <2>6
  <2>11. result' = CrcOneShot(alg, dataA \o dataB)
    <3>1. result' = Finalise(alg, whole)
      BY <2>3, <2>7, <2>8 DEF Finalise
    <3> QED
      BY <2>6, <2>9, <2>10, <3>1, ChecksumUndone
  <2>12. CombinedIsConcatenation'
    BY <2>3, <2>11 DEF CombinedIsConcatenation
  <2> QED
    BY <1>s, <2>1, <2>2, <2>12 DEF CombineInv
<1>6. CASE UNCHANGED combineVars
  BY <1>0, <1>6, <1>s DEF combineVars, CombineInv, AlgOfCatalogue, FoldsOfB, AdvanceLoop,
                          CombinedIsConcatenation
<1> QED
  BY <1>1, <1>2, <1>3, <1>4, <1>5, <1>6 DEF CombineNext

(* combine.rs: what *_combine returns for the two checksums and the       *)
(* length is the one-shot checksum of the concatenation, for all byte     *)
(* strings and all eleven algorithms.                                     *)
THEOREM CombinedIsConcatenationAlways == CombineSpec => []CombinedIsConcatenation
<1>1. CombineInv => CombinedIsConcatenation
  BY DEF CombineInv
<1> QED
  BY <1>1, CombineInitInv, CombineStepInv, PTL DEF CombineSpec

-----------------------------------------------------------------------------
(* The folds of crc_sick, whose one-shot function carries a pair and      *)
(* whose digest a record, and of NMEA, whose one-shot function cuts the   *)
(* sentence out first and whose digest looks at every byte.               *)
SickPair(k, pair, b)   == <<UpdateSick(pair[1], b, pair[2]), b>>
SickRecord(k, d, b)    == [crc |-> UpdateSick(d.crc, b, d.prev), prev |-> b]
NmeaXor(k, checksum, b) == checksum ^^ b
NmeaFlags(k, d, b)     == NmeaByte(d, b)

Pairs   == INSTANCE FoldLemmas WITH Op <- SickPair
Records == INSTANCE FoldLemmas WITH Op <- SickRecord
Xors    == INSTANCE FoldLemmas WITH Op <- NmeaXor
Flags   == INSTANCE FoldLemmas WITH Op <- NmeaFlags

(* crc_sick as a fold over its register and the byte before. *)
LEMMA SickPairFold ==
  ASSUME NEW data
  PROVE  SickOneShot(data) = SwapBytes(Pairs!Fold({}, <<{}, {}>>, data)[1])
BY DEF SickOneShot, SickPair, Pairs!Fold, Pairs!FoldLeft, Pairs!MapThenFoldSet, Pairs!Max,
       FoldLeft, MapThenFoldSet, Max

(* SickDigest's update as a fold over its record. *)
LEMMA SickRecordFold ==
  ASSUME NEW d, NEW data
  PROVE  SickUpdate(d, data) = Records!Fold({}, d, data)
BY DEF SickUpdate, SickRecord, Records!Fold, Records!FoldLeft, Records!MapThenFoldSet,
       Records!Max, FoldLeft, MapThenFoldSet, Max

(* checksum_NMEA as a fold over its sentence. *)
LEMMA NmeaXorFold ==
  ASSUME NEW data
  PROVE  NmeaOneShot(data) = Xors!Fold({}, {}, Sentence(StripDollar(data)))
BY DEF NmeaOneShot, NmeaXor, Xors!Fold, Xors!FoldLeft, Xors!MapThenFoldSet, Xors!Max,
       FoldLeft, MapThenFoldSet, Max

(* NmeaDigest's update as a fold over its record. *)
LEMMA NmeaFlagsFold ==
  ASSUME NEW d, NEW data
  PROVE  FoldLeft(NmeaByte, d, data) = Flags!Fold({}, d, data)
BY DEF NmeaFlags, Flags!Fold, Flags!FoldLeft, Flags!MapThenFoldSet, Flags!Max,
       FoldLeft, MapThenFoldSet, Max

(* The record holds what the pair holds. *)
LEMMA SickDigest ==
  ASSUME NEW data \in Seq(Byte)
  PROVE  /\ UpdateDigest("crc_sick", Fresh("crc_sick"), <<>>) = Fresh("crc_sick")
         /\ Finish("crc_sick", UpdateDigest("crc_sick", Fresh("crc_sick"), data)) = SickOneShot(data)
<1> DEFINE fresh == [crc |-> {}, prev |-> {}]
           R(s) == Records!Fold({}, fresh, s)
           T(s) == Pairs!Fold({}, <<{}, {}>>, s)
           P == {s \in Seq(Byte) : R(s) = [crc |-> T(s)[1], prev |-> T(s)[2]]}
<1>1. <<>> \in P
  <2>1. Pairs!Fold({}, <<{}, {}>>, <<>>) = <<{}, {}>>
    BY Pairs!FoldEmpty
  <2>2. Records!Fold({}, fresh, <<>>) = fresh
    BY Records!FoldEmpty
  <2>3. fresh = [crc |-> <<{}, {}>>[1], prev |-> <<{}, {}>>[2]] /\ <<>> \in Seq(Byte)
    OBVIOUS
  <2>4. R(<<>>) = [crc |-> T(<<>>)[1], prev |-> T(<<>>)[2]]
    BY <2>1, <2>2, <2>3
  <2> HIDE DEF R, T
  <2> QED
    BY <2>3, <2>4
<1>2. ASSUME NEW s \in Seq(Byte), NEW b \in Byte, s \in P
      PROVE  Append(s, b) \in P
  <2> DEFINE pair == Pairs!Fold({}, <<{}, {}>>, s)
             rec == Records!Fold({}, fresh, s)
  <2>1. rec = [crc |-> pair[1], prev |-> pair[2]]
    BY <1>2
  <2>2. Pairs!Fold({}, <<{}, {}>>, Append(s, b)) = SickPair({}, pair, b)
    BY Pairs!FoldAppend
  <2>3. Records!Fold({}, fresh, Append(s, b)) = SickRecord({}, rec, b)
    BY Records!FoldAppend
  <2> HIDE DEF pair, rec, fresh
  <2>4. SickPair({}, pair, b) = <<UpdateSick(pair[1], b, pair[2]), b>>
    BY DEF SickPair
  <2>5. SickRecord({}, rec, b) = [crc |-> UpdateSick(pair[1], b, pair[2]), prev |-> b]
    BY <2>1 DEF SickRecord
  <2> QED
    BY <2>2, <2>3, <2>4, <2>5
<1>3. Seq(Byte) \subseteq P
  <2> HIDE DEF P
  <2> QED
    BY <1>1, <1>2, Crc!SeqSetInduction
<1>4. R(data).crc = T(data)[1]
  <2>1. data \in P
    BY <1>3
  <2> HIDE DEF R, T
  <2> QED
    BY <2>1
<1>5. Records!Fold({}, fresh, <<>>) = fresh
  BY Records!FoldEmpty
<1>6. Fresh("crc_sick") = fresh
  BY DEF Fresh
<1> HIDE DEF fresh, P
<1> QED
  BY <1>4, <1>5, <1>6, SickRecordFold, SickPairFold DEF UpdateDigest, Finish

(* A sentence is n bytes long when no terminator is among them and the    *)
(* data end there or go on with one.                                      *)
EndsAt(data, n) ==
  /\ n \in 0 .. Len(data)
  /\ \A m \in 1 .. n : data[m] \notin Terminators
  /\ n = Len(data) \/ data[n + 1] \in Terminators

(* The sentence ends before the first terminator. *)
LEMMA SentenceOfLength ==
  ASSUME NEW data \in Seq(Byte), NEW n, EndsAt(data, n)
  PROVE  Sentence(data) = SubSeq(data, 1, n)
<1> DEFINE closed == data \o <<{}>>
           ends == {m \in 1 .. Len(closed) : closed[m] \in Terminators}
<1>1. n \in 0 .. Len(data) /\ Len(data) \in Nat
  BY DEF EndsAt
<1>2. Len(closed) = Len(data) + 1 /\ closed[Len(data) + 1] = {}
  OBVIOUS
<1>3. \A m \in 1 .. Len(data) : closed[m] = data[m]
  OBVIOUS
<1>4. {} \in Terminators
  BY DEF Terminators
<1> HIDE DEF closed
<1>5. closed[n + 1] \in Terminators
  <2>1. CASE n = Len(data)
    BY <1>2, <1>4, <2>1
  <2>2. CASE n # Len(data)
    <3>1. n + 1 \in 1 .. Len(data)
      BY <1>1, <2>2
    <3>2. data[n + 1] \in Terminators
      BY <2>2 DEF EndsAt
    <3> QED
      BY <1>3, <3>1, <3>2
  <2> QED
    BY <2>1, <2>2
<1>6. n + 1 \in ends
  BY <1>1, <1>2, <1>5
<1>7. \A m \in ends : n + 1 <= m
  BY <1>1, <1>2, <1>3 DEF EndsAt
<1>8. Min(ends) = n + 1
  <2>1. Min(ends) \in ends /\ \A m \in ends : Min(ends) <= m
    <3>1. \E x \in ends : \A y \in ends : x <= y
      BY <1>6, <1>7
    <3> QED
      BY <3>1 DEF Min
  <2>2. ends \subseteq Nat
    OBVIOUS
  <2> DEFINE least == Min(ends)
  <2>3. least \in Nat /\ least <= n + 1 /\ n + 1 <= least
    <3> HIDE DEF ends
    <3> QED
      BY <1>6, <1>7, <2>1, <2>2
  <2> HIDE DEF least
  <2>4. least = n + 1
    BY <1>1, <2>3
  <2> QED
    BY <2>4 DEF least
<1>9. SelectInSeq(closed, LAMBDA b : b \in Terminators) = n + 1
  BY <1>6, <1>8 DEF SelectInSeq
<1>10. (n + 1) - 1 = n
  BY <1>1
<1> QED
  BY <1>9, <1>10 DEF Sentence, closed

(* Setting the flag of a digest. *)
WithFlag(d, flag) == [d EXCEPT !.started = flag]

DigestRecord(x, s, e) == [checksum |-> x, started |-> s, done |-> e]

(* Setting the flag for a sentence that has begun leaves the other fields *)
(* alone.                                                                 *)
LEMMA FlagSet ==
  ASSUME NEW x, NEW s, NEW t, NEW e
  PROVE  WithFlag(DigestRecord(x, s, e), t) = DigestRecord(x, t, e)
<1> DEFINE d == DigestRecord(x, s, e)
<1>1. d = [checksum |-> x, started |-> s, done |-> e]
  BY DEF DigestRecord
<1> HIDE DEF d
<1>2. [d EXCEPT !.started = t] = [checksum |-> x, started |-> t, done |-> e]
  BY <1>1
<1> QED
  BY <1>2 DEF d, WithFlag, DigestRecord

(* The digest after the bytes behind the '$': the checksum of the         *)
(* sentence, and done once a terminator has been seen.                    *)
Started == [checksum |-> {}, started |-> TRUE, done |-> FALSE]

(* NmeaDigest sees the same sentence byte by byte: it xors until the first *)
(* terminator and ignores the rest.                                        *)
LEMMA NmeaDigest ==
  ASSUME NEW data \in Seq(Byte)
  PROVE  /\ Flags!Fold({}, Started, data).checksum = Xors!Fold({}, {}, Sentence(data))
         /\ Flags!Fold({}, Started, data).started
         /\ [Flags!Fold({}, Started, data) EXCEPT !.started = TRUE]
              = Flags!Fold({}, Started, data)
<1> DEFINE Xored(s, n) == Xors!Fold({}, {}, SubSeq(s, 1, n))
           P == {s \in Seq(Byte) :
                   \E n \in 0 .. Len(s) :
                     /\ EndsAt(s, n)
                     /\ Flags!Fold({}, Started, s)
                          = [checksum |-> Xored(s, n), started |-> TRUE, done |-> n # Len(s)]}
<1>1. <<>> \in P
  <2>1. Flags!Fold({}, Started, <<>>) = Started
    BY Flags!FoldEmpty
  <2>2. SubSeq(<<>>, 1, 0) = <<>> /\ Len(<<>>) = 0 /\ <<>> \in Seq(Byte)
    OBVIOUS
  <2>3. Xored(<<>>, 0) = {}
    BY <2>2, Xors!FoldEmpty
  <2>4. EndsAt(<<>>, 0)
    BY <2>2 DEF EndsAt
  <2>5. 0 \in 0 .. Len(<<>>) /\ (0 # Len(<<>>)) = FALSE
    BY <2>2
  <2>6. Flags!Fold({}, Started, <<>>)
          = [checksum |-> Xored(<<>>, 0), started |-> TRUE, done |-> 0 # Len(<<>>)]
    BY <2>1, <2>3, <2>5 DEF Started
  <2> HIDE DEF Xored
  <2> QED
    BY <2>2, <2>4, <2>5, <2>6
<1>2. ASSUME NEW s \in Seq(Byte), NEW b \in Byte, s \in P
      PROVE  Append(s, b) \in P
  <2>1. PICK n \in 0 .. Len(s) :
             /\ EndsAt(s, n)
             /\ Flags!Fold({}, Started, s)
                  = [checksum |-> Xored(s, n), started |-> TRUE, done |-> n # Len(s)]
    BY <1>2
  <2> DEFINE longer == Append(s, b)
             d == Flags!Fold({}, Started, s)
  <2>2. Flags!Fold({}, Started, longer) = NmeaByte(d, b)
    BY Flags!FoldAppend DEF NmeaFlags
  <2>3. /\ longer \in Seq(Byte) /\ Len(longer) = Len(s) + 1 /\ longer[Len(s) + 1] = b
        /\ \A m \in 1 .. Len(s) : longer[m] = s[m]
    OBVIOUS
  <2>4. SubSeq(longer, 1, n) = SubSeq(s, 1, n) /\ SubSeq(s, 1, Len(s)) = s
        /\ SubSeq(longer, 1, Len(s) + 1) = longer
    OBVIOUS
  <2>5. Xors!Fold({}, {}, longer) = Xors!Fold({}, {}, s) ^^ b
    BY Xors!FoldAppend DEF NmeaXor
  <2>6. n \in 0 .. Len(s) /\ Len(s) \in Nat
    OBVIOUS
  <2> HIDE DEF longer, d, Xored
  <2>7. CASE n # Len(s)
    <3>1. EndsAt(longer, n)
      BY <2>1, <2>3, <2>6, <2>7 DEF EndsAt
    <3>d. (n # Len(s)) = TRUE
      BY <2>7
    <3>e. d = [checksum |-> Xored(s, n), started |-> TRUE, done |-> TRUE]
      BY <2>1, <3>d DEF d
    <3>2. NmeaByte(d, b) = d
      BY <3>e DEF NmeaByte
    <3>3. Xored(longer, n) = Xored(s, n)
      BY <2>4 DEF Xored
    <3>4. NmeaByte(d, b) = [checksum |-> Xored(longer, n), started |-> TRUE, done |-> n # Len(longer)]
      BY <2>1, <2>3, <2>6, <2>7, <3>2, <3>3 DEF d
    <3>5. n \in 0 .. Len(longer)
      BY <2>3, <2>6
    <3> QED
      BY <2>2, <2>3, <3>1, <3>4, <3>5 DEF longer
  <2>8. CASE n = Len(s) /\ b \in Terminators
    <3>1. EndsAt(longer, n)
      BY <2>1, <2>3, <2>6, <2>8 DEF EndsAt
    <3>d. (n # Len(s)) = FALSE
      BY <2>8
    <3>e. d = [checksum |-> Xored(s, n), started |-> TRUE, done |-> FALSE]
      BY <2>1, <3>d DEF d
    <3>2. NmeaByte(d, b) = [checksum |-> Xored(s, n), started |-> TRUE, done |-> TRUE]
      BY <2>8, <3>e DEF NmeaByte
    <3>3. Xored(longer, n) = Xored(s, n)
      BY <2>4 DEF Xored
    <3>4. n \in 0 .. Len(longer) /\ n # Len(longer)
      BY <2>3, <2>6, <2>8
    <3>5. NmeaByte(d, b) = [checksum |-> Xored(longer, n), started |-> TRUE, done |-> n # Len(longer)]
      BY <3>2, <3>3, <3>4
    <3> QED
      BY <2>2, <2>3, <3>1, <3>4, <3>5 DEF longer
  <2>9. CASE n = Len(s) /\ b \notin Terminators
    <3>1. EndsAt(longer, n + 1)
      BY <2>1, <2>3, <2>6, <2>9 DEF EndsAt
    <3>d. (n # Len(s)) = FALSE
      BY <2>9
    <3>e. d = [checksum |-> Xored(s, n), started |-> TRUE, done |-> FALSE]
      BY <2>1, <3>d DEF d
    <3>2. NmeaByte(d, b) = [checksum |-> Xored(s, n) ^^ b, started |-> TRUE, done |-> FALSE]
      BY <2>9, <3>e DEF NmeaByte
    <3>3. Xored(longer, n + 1) = Xored(s, n) ^^ b
      BY <2>4, <2>5, <2>9 DEF Xored
    <3>4. n + 1 \in 0 .. Len(longer) /\ n + 1 = Len(longer)
      BY <2>3, <2>6, <2>9
    <3>5. NmeaByte(d, b)
            = [checksum |-> Xored(longer, n + 1), started |-> TRUE, done |-> n + 1 # Len(longer)]
      BY <3>2, <3>3, <3>4
    <3> QED
      BY <2>2, <2>3, <3>1, <3>4, <3>5 DEF longer
  <2> QED
    BY <2>7, <2>8, <2>9
<1>3. Seq(Byte) \subseteq P
  <2> HIDE DEF P
  <2> QED
    BY <1>1, <1>2, Crc!SeqSetInduction
<1>4. PICK n \in 0 .. Len(data) :
           /\ EndsAt(data, n)
           /\ Flags!Fold({}, Started, data)
                = [checksum |-> Xored(data, n), started |-> TRUE, done |-> n # Len(data)]
  BY <1>3
<1>5. Xored(data, n) = Xors!Fold({}, {}, Sentence(data))
  BY <1>4, SentenceOfLength
<1> DEFINE d == Flags!Fold({}, Started, data)
           x == Xored(data, n)
           ended == n # Len(data)
<1>6. d = [checksum |-> x, started |-> TRUE, done |-> ended]
  BY <1>4
<1> HIDE DEF Xored, P, d, x, ended
<1>7. d.checksum = x /\ d.started = TRUE
  BY <1>6
<1>9. [d EXCEPT !.started = TRUE] = d
  <2> DEFINE yes == TRUE
  <2>1. d = DigestRecord(x, yes, ended)
    BY <1>6 DEF DigestRecord
  <2> HIDE DEF yes
  <2>2. WithFlag(d, yes) = d
    BY <2>1, FlagSet
  <2> QED
    BY <2>2 DEF yes, WithFlag
<1>8. x = Xors!Fold({}, {}, Sentence(data))
  BY <1>5 DEF x
<1> QED
  BY <1>7, <1>8, <1>9 DEF d

(* The '$' is the first byte of the whole input or nowhere. *)
LEMMA StripOfConcat ==
  ASSUME NEW s \in Seq(Byte), NEW t \in Seq(Byte)
  PROVE  /\ StripDollar(s) \in Seq(Byte)
         /\ s # <<>> => StripDollar(s \o t) = StripDollar(s) \o t
<1>1. StripDollar(s) \in Seq(Byte)
  BY DEF StripDollar
<1>2. ASSUME s # <<>>
      PROVE  StripDollar(s \o t) = StripDollar(s) \o t
  <2>1. s \o t # <<>> /\ Head(s \o t) = Head(s) /\ Tail(s \o t) = Tail(s) \o t
    BY <1>2
  <2> QED
    BY <1>2, <2>1 DEF StripDollar
<1> QED
  BY <1>1, <1>2

(* What NMEA's digest is after the bytes data, however they came. *)
LEMMA NmeaFresh ==
  ASSUME NEW data \in Seq(Byte)
  PROVE  /\ data = <<>> => UpdateDigest("nmea", Fresh("nmea"), data) = Fresh("nmea")
         /\ data # <<>> => UpdateDigest("nmea", Fresh("nmea"), data)
                             = Flags!Fold({}, Started, StripDollar(data))
<1> DEFINE fresh == [checksum |-> {}, started |-> FALSE, done |-> FALSE]
<1>1. Fresh("nmea") = fresh
  BY DEF Fresh
<1>2. UpdateDigest("nmea", fresh, data) = NmeaUpdate(fresh, data)
  BY DEF UpdateDigest
<1>3. fresh.done = FALSE /\ fresh.started = FALSE
  OBVIOUS
<1>6. [fresh EXCEPT !.started = TRUE] = Started
  <2> DEFINE yes == TRUE
             no  == FALSE
  <2>1. fresh = DigestRecord({}, no, no) /\ Started = DigestRecord({}, yes, no)
    BY DEF DigestRecord, Started
  <2> HIDE DEF fresh, yes, no
  <2>2. WithFlag(fresh, yes) = Started
    BY <2>1, FlagSet
  <2> QED
    BY <2>2 DEF yes, WithFlag
<1> HIDE DEF fresh
<1>4. CASE data = <<>>
  BY <1>1, <1>2, <1>4 DEF NmeaUpdate
<1>5. CASE data # <<>>
  BY <1>1, <1>2, <1>3, <1>5, <1>6, NmeaFlagsFold DEF NmeaUpdate
<1> QED
  BY <1>4, <1>5

(* A sentence in two chunks: the dollar sign is looked for at the start of *)
(* the first chunk that is not empty, never again.                         *)
LEMMA NmeaChunk ==
  ASSUME NEW s \in Seq(Byte), NEW t \in Seq(Byte), t # <<>>
  PROVE  UpdateDigest("nmea", UpdateDigest("nmea", Fresh("nmea"), s), t)
           = UpdateDigest("nmea", Fresh("nmea"), s \o t)
<1>1. CASE s = <<>>
  <2>1. s \o t = t
    BY <1>1
  <2> QED
    BY <1>1, <2>1, NmeaFresh
<1>2. CASE s # <<>>
  <2> DEFINE rest == StripDollar(s)
             d == Flags!Fold({}, Started, rest)
  <2>1. rest \in Seq(Byte) /\ StripDollar(s \o t) = rest \o t
    BY <1>2, StripOfConcat
  <2>2. s \o t \in Seq(Byte) /\ s \o t # <<>>
    BY <1>2
  <2>3. UpdateDigest("nmea", Fresh("nmea"), s) = d
    BY <1>2, NmeaFresh
  <2>4. UpdateDigest("nmea", Fresh("nmea"), s \o t) = Flags!Fold({}, Started, rest \o t)
    BY <2>1, <2>2, NmeaFresh
  <2>5. Flags!Fold({}, Started, rest \o t) = Flags!Fold({}, d, t)
    <3> HIDE DEF rest
    <3> QED
      BY <2>1, Flags!FoldConcat
  <2>6. d.started /\ [d EXCEPT !.started = TRUE] = d
    BY <2>1, NmeaDigest
  <2> HIDE DEF d
  <2>7. UpdateDigest("nmea", d, t) = NmeaUpdate(d, t)
    BY DEF UpdateDigest
  <2>8. CASE d.done
    <3>1. NmeaUpdate(d, t) = d
      BY <2>8 DEF NmeaUpdate
    <3>2. \A b \in Byte : NmeaFlags({}, d, b) \in {d}
      BY <2>8 DEF NmeaFlags, NmeaByte
    <3>3. \A acc \in {d}, b \in Byte : NmeaFlags({}, acc, b) \in {d}
      BY <3>2
    <3>4. Flags!Fold({}, d, t) \in {d}
      BY <3>3, d \in {d}, Flags!FoldType
    <3> QED
      BY <2>3, <2>4, <2>5, <2>7, <3>1, <3>4
  <2>9. CASE ~d.done
    <3>1. NmeaUpdate(d, t) = Flags!Fold({}, d, t)
      BY <2>6, <2>9, NmeaFlagsFold DEF NmeaUpdate
    <3> QED
      BY <2>3, <2>4, <2>5, <2>7, <3>1
  <2> QED
    BY <2>8, <2>9
<1> QED
  BY <1>1, <1>2

(* In one chunk NmeaDigest gives checksum_NMEA's answer. *)
LEMMA NmeaFinish ==
  ASSUME NEW data \in Seq(Byte)
  PROVE  Finish("nmea", UpdateDigest("nmea", Fresh("nmea"), data)) = NmeaOneShot(data)
<1>1. CASE data = <<>>
  <2>1. Finish("nmea", Fresh("nmea")) = {}
    BY DEF Finish, Fresh
  <2>2. StripDollar(data) = <<>>
    BY <1>1 DEF StripDollar
  <2>3. EndsAt(<<>>, 0) /\ <<>> \in Seq(Byte) /\ SubSeq(<<>>, 1, 0) = <<>>
    BY DEF EndsAt
  <2>4. Sentence(<<>>) = <<>>
    BY <2>3, SentenceOfLength
  <2>5. NmeaOneShot(data) = {}
    BY <2>2, <2>4, NmeaXorFold, Xors!FoldEmpty
  <2> QED
    BY <1>1, <2>1, <2>5, NmeaFresh
<1>2. CASE data # <<>>
  <2> DEFINE rest == StripDollar(data)
             d == Flags!Fold({}, Started, rest)
  <2>1. UpdateDigest("nmea", Fresh("nmea"), data) = d
    BY <1>2, NmeaFresh
  <2>2. rest \in Seq(Byte)
    BY StripOfConcat
  <2>3. d.checksum = Xors!Fold({}, {}, Sentence(rest))
    BY <2>2, NmeaDigest
  <2>4. Finish("nmea", d) = d.checksum
    BY DEF Finish
  <2> QED
    BY <2>1, <2>3, <2>4, NmeaXorFold
<1> QED
  BY <1>1, <1>2

-----------------------------------------------------------------------------
(* The three facts about a streaming state, for every algorithm: no byte  *)
(* leaves it as it was made, ...                                           *)
LEMMA DigestOfNothing ==
  ASSUME NEW a
  PROVE  UpdateDigest(a, Fresh(a), <<>>) = Fresh(a)
<1>1. CASE a = "crc_sick"
  <2>1. <<>> \in Seq(Byte)
    OBVIOUS
  <2> QED
    BY <1>1, <2>1, SickDigest
<1>2. CASE a = "nmea"
  <2>1. <<>> \in Seq(Byte)
    OBVIOUS
  <2> QED
    BY <1>2, <2>1, NmeaFresh
<1>3. CASE a # "crc_sick" /\ a # "nmea"
  <2>1. Fresh(a) = [crc |-> Parameters[a].start]
    BY <1>3 DEF Fresh
  <2>2. ByteFold(Parameters[a], Parameters[a].start, <<>>) = Parameters[a].start
    BY ByteFoldIsLoop, Crc!FoldEmpty DEF Loop
  <2> QED
    BY <1>3, <2>1, <2>2 DEF UpdateDigest
<1> QED
  BY <1>1, <1>2, <1>3

(* ... a chunk takes it to where the concatenation would have, ... *)
LEMMA DigestOfChunk ==
  ASSUME NEW a, NEW s \in Seq(Byte), NEW t \in Seq(Byte), t # <<>>
  PROVE  UpdateDigest(a, UpdateDigest(a, Fresh(a), s), t) = UpdateDigest(a, Fresh(a), s \o t)
<1>1. CASE a = "crc_sick"
  BY <1>1, SickRecordFold, Records!FoldConcat DEF UpdateDigest
<1>2. CASE a = "nmea"
  BY <1>2, NmeaChunk
<1>3. CASE a # "crc_sick" /\ a # "nmea"
  <2> DEFINE k == Parameters[a]
             r == Loop(k, k.start, s)
  <2>1. Fresh(a) = [crc |-> k.start]
    BY <1>3 DEF Fresh
  <2>2. \A v, data : UpdateDigest(a, [crc |-> v], data) = [crc |-> Loop(k, v, data)]
    BY <1>3, ByteFoldIsLoop DEF UpdateDigest
  <2>3. Loop(k, k.start, s \o t) = Loop(k, r, t)
    BY LoopOfBoth
  <2> HIDE DEF k, r
  <2>4. UpdateDigest(a, Fresh(a), s) = [crc |-> r]
    BY <2>1, <2>2 DEF r
  <2>5. UpdateDigest(a, Fresh(a), s \o t) = [crc |-> Loop(k, r, t)]
    BY <2>1, <2>2, <2>3
  <2> QED
    BY <2>2, <2>4, <2>5
<1> QED
  BY <1>1, <1>2, <1>3

(* ... and finishing gives what the one-shot function gives. *)
LEMMA FinishIsOneShot ==
  ASSUME NEW a, NEW data \in Seq(Byte)
  PROVE  Finish(a, UpdateDigest(a, Fresh(a), data)) = OneShot(a, data)
<1>1. CASE a = "crc_sick"
  BY <1>1, SickDigest DEF OneShot
<1>2. CASE a = "nmea"
  BY <1>2, NmeaFinish DEF OneShot
<1>3. CASE a # "crc_sick" /\ a # "nmea"
  <2> DEFINE k == Parameters[a]
  <2>1. Fresh(a) = [crc |-> k.start]
    BY <1>3 DEF Fresh
  <2>2. \A v : UpdateDigest(a, [crc |-> v], data) = [crc |-> ByteFold(k, v, data)]
    BY <1>3 DEF UpdateDigest
  <2>3. \A v : Finish(a, [crc |-> v]) = Finalise(k, v)
    BY <1>3 DEF Finish
  <2>4. OneShot(a, data) = Finalise(k, ByteFold(k, k.start, data))
    BY <1>3 DEF OneShot, CrcOneShot
  <2> HIDE DEF k
  <2> QED
    BY <2>1, <2>2, <2>3, <2>4
<1> QED
  BY <1>1, <1>2, <1>3

-----------------------------------------------------------------------------
(* The inductive invariant of the stream: every digest is what a single   *)
(* update with all the bytes delivered so far would have made of a fresh  *)
(* one, and nothing is returned before the end.                           *)
Delivered == SubSeq(input, 1, offset)

StreamInv ==
  /\ input \in Seq(Byte)
  /\ offset \in 0 .. Len(input)
  /\ digests = [n \in DOMAIN Algos |-> UpdateDigest(Algos[n], Fresh(Algos[n]), Delivered)]
  /\ outcome = "reading" => sums = <<>>

(* A stream starts with every state fresh, over nothing read. *)
LEMMA StreamInitInv == Init => StreamInv
<1> SUFFICES ASSUME Init
             PROVE  StreamInv
  OBVIOUS
<1>1. input \in Seq(Byte) /\ offset = 0 /\ sums = <<>>
  BY StreamAssumption DEF Init
<1>2. offset \in 0 .. Len(input) /\ Delivered = <<>>
  BY <1>1 DEF Delivered
<1>3. digests = [n \in DOMAIN Algos |-> Fresh(Algos[n])]
  BY DEF Init
<1>4. digests = [n \in DOMAIN Algos |-> UpdateDigest(Algos[n], Fresh(Algos[n]), Delivered)]
  BY <1>2, <1>3, DigestOfNothing
<1> QED
  BY <1>1, <1>2, <1>4 DEF StreamInv

(* A chunk of any length takes every state from what was read before to *)
(* what has been read now.                                              *)
LEMMA StreamStepInv == StreamInv /\ [Next]_vars => StreamInv'
<1> SUFFICES ASSUME StreamInv, [Next]_vars
             PROVE  StreamInv'
  OBVIOUS
<1>0. /\ input \in Seq(Byte) /\ Len(input) \in Nat /\ offset \in 0 .. Len(input)
      /\ digests = [n \in DOMAIN Algos |-> UpdateDigest(Algos[n], Fresh(Algos[n]), Delivered)]
  BY DEF StreamInv
<1>1. CASE ReadChunk
  <2>1. PICK read \in 1 .. Min({CHUNK, Len(input) - offset}) :
             LET chunk == SubSeq(input, offset + 1, offset + read)
             IN  /\ digests' = [n \in DOMAIN Algos |-> UpdateDigest(Algos[n], digests[n], chunk)]
                 /\ offset' = offset + read
    BY <1>1 DEF ReadChunk
  <2> DEFINE chunk == SubSeq(input, offset + 1, offset + read)
             room == Len(input) - offset
  <2>2. read \in Nat /\ 1 <= read /\ read <= room
    <3>1. Min({CHUNK, room}) \in {CHUNK, room} /\ Min({CHUNK, room}) <= room
      <4>1. CHUNK \in Nat /\ room \in Int
        BY <1>0, StreamAssumption
      <4>2. \E x \in {CHUNK, room} : \A y \in {CHUNK, room} : x <= y
        <5> HIDE DEF room
        <5>1. CASE CHUNK <= room
          BY <4>1, <5>1
        <5>2. CASE ~(CHUNK <= room)
          BY <4>1, <5>2
        <5> QED
          BY <5>1, <5>2
      <4> HIDE DEF room
      <4> QED
        BY <4>2 DEF Min
    <3>2. CHUNK \in Int /\ room \in Int
      BY <1>0, StreamAssumption
    <3> DEFINE m == Min({CHUNK, room})
    <3>3. read \in 1 .. m
      OBVIOUS
    <3> HIDE DEF m, room
    <3>4. m \in Int /\ m <= room
      BY <3>1, <3>2 DEF m
    <3> QED
      BY <3>2, <3>3, <3>4
  <2>3. offset' = offset + read /\ offset + read \in 0 .. Len(input)
    BY <1>0, <2>1, <2>2
  <2>4. chunk \in Seq(Byte) /\ chunk # <<>> /\ Delivered \in Seq(Byte)
    BY <1>0, <2>2 DEF Delivered
  <2>5. Delivered \o chunk = SubSeq(input, 1, offset + read)
    BY <1>0, <2>2 DEF Delivered
  <2>6. UNCHANGED <<input, outcome, sums>>
    BY <1>1 DEF ReadChunk
  <2>7. Delivered' = Delivered \o chunk
    BY <2>3, <2>5, <2>6 DEF Delivered
  <2> HIDE DEF chunk
  <2>8. digests' = [n \in DOMAIN Algos |-> UpdateDigest(Algos[n], digests[n], chunk)]
    BY <2>1 DEF chunk
  <2>9. ASSUME NEW n \in DOMAIN Algos
        PROVE  UpdateDigest(Algos[n], digests[n], chunk)
                 = UpdateDigest(Algos[n], Fresh(Algos[n]), Delivered')
    <3>1. digests[n] = UpdateDigest(Algos[n], Fresh(Algos[n]), Delivered)
      BY <1>0
    <3> QED
      BY <2>4, <2>7, <3>1, DigestOfChunk
  <2>10. digests' = [n \in DOMAIN Algos |-> UpdateDigest(Algos[n], Fresh(Algos[n]), Delivered')]
    BY <2>8, <2>9
  <2> QED
    BY <1>0, <2>3, <2>6, <2>10 DEF StreamInv
<1>2. CASE EndOfInput \/ ReadError
  BY <1>2 DEF EndOfInput, ReadError, StreamInv, Delivered
<1>3. CASE UNCHANGED vars
  BY <1>3 DEF vars, StreamInv, Delivered
<1>4. CASE Interrupted
  BY <1>3, <1>4 DEF Interrupted
<1> QED
  BY <1>1, <1>2, <1>3, <1>4 DEF Next

(* algo.rs: "Feed it any number of chunks of any size; the result is      *)
(* identical to hashing the concatenation in one call", for every input,  *)
(* buffer size and way of cutting the input up.                           *)
THEOREM AnyChunkingAlways == Spec => []AnyChunking
<1>1. StreamInv => AnyChunking
  <2> SUFFICES ASSUME StreamInv, NEW n \in DOMAIN Algos
               PROVE  Finish(Algos[n], digests[n]) = OneShot(Algos[n], SubSeq(input, 1, offset))
    BY DEF AnyChunking
  <2>1. digests[n] = UpdateDigest(Algos[n], Fresh(Algos[n]), Delivered)
    BY DEF StreamInv
  <2>2. Delivered \in Seq(Byte)
    BY DEF StreamInv, Delivered
  <2> QED
    BY <2>1, <2>2, FinishIsOneShot DEF Delivered
<1> QED
  BY <1>1, StreamInitInv, StreamStepInv, PTL DEF Spec

(* hash.rs: a call is a one-shot hash of the whole input, all sums at     *)
(* once, or it fails without any; chunks and retries are stutters of it.  *)
THEOREM StreamImplementsOneShot == Spec => CallIsOneShot
<1>1. Init => Call!Init
  BY DEF Init, Call!Init
<1>2. StreamInv /\ [Next]_vars => [Call!Next]_Call!vars
  <2> SUFFICES ASSUME StreamInv, [Next]_vars
               PROVE  [Call!Next]_Call!vars
    OBVIOUS
  <2> USE DEF Call!vars
  <2>1. CASE ReadChunk
    BY <2>1 DEF ReadChunk
  <2>2. CASE EndOfInput
    <3>1. SubSeq(input, 1, offset) = input /\ input \in Seq(Byte)
      BY <2>2 DEF EndOfInput, StreamInv
    <3>2. \A n \in DOMAIN Algos : Finish(Algos[n], digests[n]) = OneShot(Algos[n], input)
      BY <3>1, FinishIsOneShot DEF StreamInv, Delivered
    <3>3. Call!Succeed
      BY <2>2, <3>2 DEF EndOfInput, Call!Succeed
    <3> QED
      BY <3>3 DEF Call!Next
  <2>3. CASE ReadError
    BY <2>3 DEF ReadError, Call!Fail, Call!Next
  <2>4. CASE UNCHANGED vars
    BY <2>4 DEF vars
  <2>5. CASE Interrupted
    BY <2>4, <2>5 DEF Interrupted
  <2> QED
    BY <2>1, <2>2, <2>3, <2>4, <2>5 DEF Next
<1> QED
  BY <1>1, <1>2, StreamInitInv, StreamStepInv, PTL DEF Spec, CallIsOneShot, Call!Spec

-----------------------------------------------------------------------------
(* The digests of digest.rs.  The update functions are shared by the      *)
(* algorithms that differ in their start and final xor only.              *)
SameKernel(k, l) ==
  k.reflected = l.reflected /\ k.width = l.width /\ k.poly = l.poly

(* The byte loop depends on reflection, width and polynomial only, not on *)
(* what a kernel starts or ends with.                                     *)
LEMMA LoopOfKernel ==
  ASSUME NEW k, NEW l, SameKernel(k, l), NEW r, NEW data \in Seq(Byte)
  PROVE  Loop(k, r, data) = Loop(l, r, data)
<1> DEFINE P == {s \in Seq(Byte) : Loop(k, r, s) = Loop(l, r, s)}
<1>1. \A v, b : Update(k, v, b) = Update(l, v, b)
  <2>1. \A v : Shift(k, v) = Shift(l, v)
    BY DEF SameKernel, Shift
  <2>2. \A v : Shift8(k, v) = Shift8(l, v)
    BY <2>1 DEF Shift8
  <2>3. \A b : Row(k, b) = Row(l, b)
    BY <2>2 DEF SameKernel, Row, Inject
  <2>4. \A v : Head8(k, v) = Head8(l, v) /\ Rest8(k, v) = Rest8(l, v)
    BY DEF SameKernel, Head8, Rest8
  <2> QED
    BY <2>3, <2>4 DEF Update
<1>2. <<>> \in P
  <2>1. <<>> \in Seq(Byte)
    OBVIOUS
  <2> QED
    BY <2>1, Crc!FoldEmpty DEF Loop
<1>3. \A s \in Seq(Byte), b \in Byte : s \in P => Append(s, b) \in P
  BY <1>1, Crc!FoldAppend DEF Loop
<1>4. Seq(Byte) \subseteq P
  <2> HIDE DEF P
  <2> QED
    BY <1>2, <1>3, Crc!SeqSetInduction
<1> QED
  BY <1>4

(* A kind's digest is stepped by a kernel of its algorithm, and what it   *)
(* is asked for at the end is that algorithm's final xor.                 *)
DigestKinds == {"crc_16", "crc_modbus", "crc_32", "crc_64_ecma", "crc_64_we", "hasher"}

(* The library's digests share the kernels of the algorithms they stand *)
(* for.                                                                 *)
LEMMA KindOfDigest ==
  ASSUME NEW kind \in DigestKinds
  PROVE  /\ SameKernel(Kernel(TypeOf(kind)), AlgoOf(kind))
         /\ AlgoOf(kind).swap = FALSE
         /\ TypeOf(kind) = "Crc16Digest" => AlgoOf(kind).xorout = {}
         /\ TypeOf(kind) \notin {"Crc16Digest", "Crc64Digest"} => AlgoOf(kind).xorout = Bits(32)
         /\ TypeOf(kind) # "none"
         /\ kind = "hasher" <=> TypeOf(kind) = "Crc32Hasher"
<1>1. /\ Parameters.crc_16      = Algorithm(TRUE,  16, POLY_16, {},       {},       FALSE)
      /\ Parameters.crc_modbus  = Algorithm(TRUE,  16, POLY_16, Bits(16), {},       FALSE)
      /\ Parameters.crc_32      = Algorithm(TRUE,  32, POLY_32, Bits(32), Bits(32), FALSE)
      /\ Parameters.crc_64_ecma = Algorithm(FALSE, 64, POLY_64, {},       {},       FALSE)
      /\ Parameters.crc_64_we   = Algorithm(FALSE, 64, POLY_64, Bits(64), Bits(64), FALSE)
  BY DEF Parameters
<1> USE DEF SameKernel, Kernel, TypeOf, AlgoOf, Algorithm
<1>2. CASE kind = "crc_16"
  BY <1>1, <1>2
<1>3. CASE kind = "crc_modbus"
  <2>1. /\ TypeOf(kind) = "Crc16Digest" /\ AlgoOf(kind) = Parameters.crc_modbus
        /\ Kernel("Crc16Digest") = Parameters.crc_16
    BY <1>3
  <2>2. SameKernel(Parameters.crc_16, Parameters.crc_modbus)
        /\ Parameters.crc_modbus.swap = FALSE /\ Parameters.crc_modbus.xorout = {}
    BY <1>1
  <2> QED
    BY ONLY <1>3, <2>1, <2>2
<1>4. CASE kind = "crc_32"
  BY <1>1, <1>4
<1>5. CASE kind = "crc_64_ecma"
  BY <1>1, <1>5
<1>6. CASE kind = "crc_64_we"
  <2>1. /\ TypeOf(kind) = "Crc64Digest" /\ AlgoOf(kind) = Parameters.crc_64_we
        /\ Kernel("Crc64Digest") = Parameters.crc_64_ecma
    BY <1>6
  <2>2. SameKernel(Parameters.crc_64_ecma, Parameters.crc_64_we)
        /\ Parameters.crc_64_we.swap = FALSE
    BY <1>1
  <2> QED
    BY ONLY <1>6, <2>1, <2>2
<1>7. CASE kind = "hasher"
  BY <1>1, <1>7
<1> QED
  BY <1>2, <1>3, <1>4, <1>5, <1>6, <1>7 DEF DigestKinds

(* The fields of a digest of that kind with the register r. *)
IsDigest(d, kind, r) ==
  /\ {"type", "crc"} \subseteq DOMAIN d
  /\ d.type = TypeOf(kind)
  /\ d.crc = r
  /\ d.type = "Crc64Digest" => "final_xor" \in DOMAIN d /\ d.final_xor = AlgoOf(kind).xorout

(* A new digest stands at the algorithm's start value. *)
LEMMA NewIsDigest ==
  ASSUME NEW kind \in DigestKinds
  PROVE  IsDigest(New(kind), kind, AlgoOf(kind).start)
<1>1. TypeOf(kind) = "Crc64Digest" \/ TypeOf(kind) # "Crc64Digest"
  OBVIOUS
<1> QED
  BY <1>1 DEF New, IsDigest

(* update() takes it over the data and changes nothing else. *)
LEMMA UpdatedIsDigest ==
  ASSUME NEW kind \in DigestKinds, NEW d, NEW r, IsDigest(d, kind, r), NEW data \in Seq(Byte)
  PROVE  IsDigest(Updated(d, data), kind, Loop(AlgoOf(kind), r, data))
<1>1. ByteFold(Kernel(d.type), r, data) = Loop(AlgoOf(kind), r, data)
  <2> DEFINE k == Kernel(TypeOf(kind))
             l == AlgoOf(kind)
  <2>1. d.type = TypeOf(kind) /\ SameKernel(k, l)
    BY KindOfDigest DEF IsDigest
  <2> HIDE DEF k, l
  <2>2. Loop(k, r, data) = Loop(l, r, data)
    BY <2>1, LoopOfKernel
  <2> QED
    BY <2>1, <2>2, ByteFoldIsLoop DEF k, l
<1>2. Updated(d, data) = [d EXCEPT !.crc = Loop(AlgoOf(kind), r, data)]
  BY <1>1 DEF Updated, IsDigest
<1> QED
  BY <1>2 DEF IsDigest

(* finalize() and finish() apply the algorithm's last exclusive or, each *)
(* type its own.                                                         *)
LEMMA SumOfDigest ==
  ASSUME NEW kind \in DigestKinds, NEW d, NEW r, IsDigest(d, kind, r)
  PROVE  Sum(d) = Finalise(AlgoOf(kind), r)
<1>1. Finalise(AlgoOf(kind), r) = r ^^ AlgoOf(kind).xorout
  BY KindOfDigest DEF Finalise, ByteSwapIf
<1>2. CASE d.type = "Crc16Digest"
  <2>1. Sum(d) = r /\ AlgoOf(kind).xorout = {}
    BY <1>2, KindOfDigest DEF Sum, IsDigest
  <2> QED
    BY <1>1, <2>1, XorAlgebra
<1>3. CASE d.type = "Crc64Digest"
  BY <1>1, <1>3 DEF Sum, IsDigest
<1>4. CASE d.type \notin {"Crc16Digest", "Crc64Digest"}
  BY <1>1, <1>4, KindOfDigest DEF Sum, IsDigest
<1> QED
  BY <1>2, <1>3, <1>4

(* The inductive invariant: every digest held is where one fold over all  *)
(* it has absorbed would have left a new one of its kind.                 *)
Tracks(d, of) ==
  /\ of.kind \in DigestKinds
  /\ of.data \in Seq(Byte)
  /\ {"kind", "data"} \subseteq DOMAIN of
  /\ IsDigest(d, of.kind, Loop(AlgoOf(of.kind), AlgoOf(of.kind).start, of.data))

DigestInv ==
  /\ DOMAIN digest = Handles /\ DOMAIN absorbed = Handles
  /\ \A h \in Handles : Held(h) => Tracks(digest[h], absorbed[h])
  /\ GivesOneShot

(* So what a digest answers is the one-shot function of what it has *)
(* absorbed.                                                        *)
LEMMA TrackedSum ==
  ASSUME NEW h, Tracks(digest[h], absorbed[h])
  PROVE  LET answered == Answered(h)
             name == IF answered.kind = "hasher" THEN "crc_32" ELSE answered.kind
         IN  answered.sum = OneShot(name, answered.data)
<1> DEFINE kind == absorbed[h].kind
           data == absorbed[h].data
           name == IF kind = "hasher" THEN "crc_32" ELSE kind
           par  == AlgoOf(kind)
<1>1. kind \in DigestKinds /\ IsDigest(digest[h], kind, Loop(par, par.start, data))
  BY DEF Tracks
<1>2. Sum(digest[h]) = Finalise(par, Loop(par, par.start, data))
  <2> HIDE DEF kind, data, par
  <2> DEFINE d == digest[h]
             r == Loop(par, par.start, data)
  <2>1. IsDigest(d, kind, r)
    BY <1>1
  <2> HIDE DEF d, r
  <2>2. Sum(d) = Finalise(AlgoOf(kind), r)
    BY <1>1, <2>1, SumOfDigest
  <2> QED
    BY <2>2 DEF d, r, par
<1>3. name \notin {"crc_sick", "nmea"} /\ Parameters[name] = par
  BY <1>1 DEF DigestKinds, AlgoOf
<1>4. OneShot(name, data) = Finalise(par, Loop(par, par.start, data))
  <2> HIDE DEF kind, data, par, name
  <2> QED
    BY <1>3, ByteFoldIsLoop DEF OneShot, CrcOneShot
<1> QED
  BY <1>2, <1>4 DEF Answered

(* Each call keeps the handles' digests at their folds, and an answer is  *)
(* given from one of them.                                                *)
LEMMA DigestStepInv == DigestInv /\ [DigestNext]_digestVars => DigestInv'
<1> SUFFICES ASSUME DigestInv, [DigestNext]_digestVars
             PROVE  DigestInv'
  OBVIOUS
<1>0. \A h \in Handles : Held(h) => Tracks(digest[h], absorbed[h])
  BY DEF DigestInv
<1> DEFINE Kept(h) == Held(h)' => Tracks(digest'[h], absorbed'[h])
<1>a. ASSUME NEW h \in Handles, digest'[h] = digest[h], absorbed'[h] = absorbed[h]
      PROVE  Kept(h)
  BY <1>a, <1>0 DEF Held
<1>b. ASSUME NEW h \in Handles, digest'[h] = NoDigest
      PROVE  Kept(h)
  BY <1>b DEF Held
<1> DEFINE Shaped == DOMAIN digest' = Handles /\ DOMAIN absorbed' = Handles
<1>q. ASSUME Shaped, \A h \in Handles : Kept(h), GivesOneShot' PROVE DigestInv'
  BY <1>q DEF DigestInv, Held
<1> HIDE DEF Kept
<1>n. ASSUME answer' = NoAnswer PROVE GivesOneShot'
  BY <1>n DEF GivesOneShot
<1>s. ASSUME NEW h \in Handles, Held(h), answer' = Answered(h) PROVE GivesOneShot'
  BY <1>s, <1>0, TrackedSum DEF GivesOneShot
<1>1. ASSUME NEW h \in Handles, NEW kind \in Kinds, Create(h, kind) PROVE DigestInv'
  <2>1. kind \in DigestKinds /\ <<>> \in Seq(Byte)
    BY DigestAssumption DEF DigestKinds
  <2>2. /\ Shaped /\ answer' = NoAnswer
        /\ digest'[h] = New(kind) /\ absorbed'[h] = [kind |-> kind, data |-> <<>>]
        /\ \A g \in Handles \ {h} : digest'[g] = digest[g] /\ absorbed'[g] = absorbed[g]
    BY <1>1 DEF Create, DigestInv
  <2>3. Kept(h)
    <3>1. Loop(AlgoOf(kind), AlgoOf(kind).start, <<>>) = AlgoOf(kind).start
      BY Crc!FoldEmpty DEF Loop
    <3>2. absorbed'[h].kind = kind /\ absorbed'[h].data = <<>>
          /\ DOMAIN absorbed'[h] = {"kind", "data"}
      BY <2>2
    <3>3. IsDigest(New(kind), kind, AlgoOf(kind).start)
      BY <2>1, NewIsDigest
    <3> QED
      BY <2>1, <2>2, <3>1, <3>2, <3>3 DEF Kept, Tracks
  <2> QED
    BY <2>2, <2>3, <1>a, <1>n, <1>q
<1>2. ASSUME NEW h \in Handles, NEW data \in Chunks, Absorb(h, data) PROVE DigestInv'
  <2> DEFINE of == absorbed[h]
             d == digest[h]
             par == AlgoOf(of.kind)
             r == Loop(par, par.start, of.data)
  <2>1. data \in Seq(Byte) /\ Tracks(d, of)
    BY <1>2, <1>0, DigestAssumption DEF Absorb
  <2>2. /\ Shaped /\ answer' = NoAnswer
        /\ digest'[h] = Updated(d, data)
        /\ absorbed'[h] = [of EXCEPT !.data = @ \o data]
        /\ \A g \in Handles \ {h} : digest'[g] = digest[g] /\ absorbed'[g] = absorbed[g]
    BY <1>2 DEF Absorb, DigestInv
  <2>3. Kept(h)
    <3>1. /\ absorbed'[h].kind = of.kind /\ absorbed'[h].data = of.data \o data
          /\ DOMAIN absorbed'[h] = DOMAIN of
      BY <2>1, <2>2 DEF Tracks
    <3>2. of.kind \in DigestKinds /\ of.data \in Seq(Byte) /\ IsDigest(d, of.kind, r)
      BY <2>1 DEF Tracks
    <3>3. Loop(par, par.start, of.data \o data) = Loop(par, r, data)
      <4> HIDE DEF par, of
      <4> QED
        BY <2>1, <3>2, LoopOfBoth DEF r
    <3>4. IsDigest(Updated(d, data), of.kind, Loop(par, r, data))
      <4> HIDE DEF d, r, of
      <4> QED
        BY <2>1, <3>2, UpdatedIsDigest
    <3>5. of.data \o data \in Seq(Byte)
      BY <2>1, <3>2
    <3> QED
      BY <2>1, <2>2, <3>1, <3>2, <3>3, <3>4, <3>5 DEF Kept, Tracks
  <2> QED
    BY <2>2, <2>3, <1>a, <1>n, <1>q
<1>3. ASSUME NEW h \in Handles, NEW other \in Handles, Clone(h, other) PROVE DigestInv'
  <2>1. /\ Shaped /\ answer' = NoAnswer
        /\ digest'[other] = digest[h] /\ absorbed'[other] = absorbed[h]
        /\ \A g \in Handles \ {other} : digest'[g] = digest[g] /\ absorbed'[g] = absorbed[g]
    BY <1>3 DEF Clone, DigestInv
  <2>2. Tracks(digest[h], absorbed[h])
    BY <1>3, <1>0 DEF Clone
  <2>3. Kept(other)
    BY <2>1, <2>2 DEF Kept
  <2> QED
    BY <2>1, <2>3, <1>a, <1>n, <1>q
<1>4. ASSUME NEW h \in Handles, Finalize(h) PROVE DigestInv'
  <2>1. /\ Shaped /\ answer' = Answered(h) /\ Held(h)
        /\ digest'[h] = NoDigest
        /\ \A g \in Handles \ {h} : digest'[g] = digest[g] /\ absorbed'[g] = absorbed[g]
    BY <1>4 DEF Finalize, DigestInv
  <2> QED
    BY <2>1, <1>a, <1>b, <1>s, <1>q
<1>5. ASSUME NEW h \in Handles, HasherFinish(h) PROVE DigestInv'
  <2>1. Shaped /\ answer' = Answered(h) /\ Held(h) /\ UNCHANGED <<digest, absorbed>>
    BY <1>5 DEF HasherFinish, DigestInv
  <2> QED
    BY <2>1, <1>a, <1>s, <1>q
<1>6. ASSUME NEW h \in Handles, Drop(h) PROVE DigestInv'
  <2>1. /\ Shaped /\ answer' = NoAnswer
        /\ digest'[h] = NoDigest
        /\ \A g \in Handles \ {h} : digest'[g] = digest[g] /\ absorbed'[g] = absorbed[g]
    BY <1>6 DEF Drop, DigestInv
  <2> QED
    BY <2>1, <1>a, <1>b, <1>n, <1>q
<1>7. CASE UNCHANGED digestVars
  BY <1>7 DEF digestVars, DigestInv, Held, GivesOneShot
<1> QED
  BY <1>1, <1>2, <1>3, <1>4, <1>5, <1>6, <1>7 DEF DigestNext

(* digest.rs:9-10, for any number of handles, any chunks and any order of *)
(* calls: the checksum a digest or a Hasher gives is the one-shot         *)
(* function's of all that it has absorbed.                                *)
THEOREM GivesOneShotAlways == DigestSpec => []GivesOneShot
<1>1. DigestInit => DigestInv
  BY DEF DigestInit, DigestInv, Held, GivesOneShot
<1>2. DigestInv => GivesOneShot
  BY DEF DigestInv
<1> QED
  BY <1>1, <1>2, DigestStepInv, PTL DEF DigestSpec

(* A digest's register keeps the width of its kind, and is at the byte    *)
(* loop's value of everything it absorbed, however it was cut up.         *)
THEOREM DigestsTyped == DigestSpec => []TypeOK
<1>1. DigestInit => DigestInv
  BY DEF DigestInit, DigestInv, Held, GivesOneShot
<1>2. DigestInv => TypeOK
  <2> SUFFICES ASSUME DigestInv, NEW h \in Handles, Held(h)
               PROVE  LET params == AlgoOf(absorbed[h].kind)
                      IN  /\ digest[h].type = TypeOf(absorbed[h].kind)
                          /\ digest[h].crc \subseteq Bits(params.width)
                          /\ digest[h].crc = ByteFold(params, params.start, absorbed[h].data)
    BY DEF TypeOK
  <2> DEFINE kind == absorbed[h].kind
             data == absorbed[h].data
             params == AlgoOf(kind)
             r    == Loop(params, params.start, data)
  <2>1. kind \in DigestKinds /\ data \in Seq(Byte) /\ IsDigest(digest[h], kind, r)
    BY DEF DigestInv, Tracks
  <2>2. WellFormed(params)
    <3>1. {"crc_16", "crc_modbus", "crc_32", "crc_64_ecma", "crc_64_we"} \subseteq FoldedCrcs
      BY DEF FoldedCrcs, Parameters
    <3>2. (IF kind = "hasher" THEN "crc_32" ELSE kind) \in FoldedCrcs
      BY <2>1, <3>1 DEF DigestKinds
    <3> QED
      BY <3>2, CatalogueWellFormed DEF AlgoOf
  <2>3. r \in Register(params.width) /\ r = ByteFold(params, params.start, data)
    <3> HIDE DEF params, data
    <3> QED
      BY <2>1, <2>2, LoopType, ByteFoldIsLoop DEF WellFormed
  <2>4. digest[h].type = TypeOf(kind) /\ digest[h].crc = r
    BY <2>1 DEF IsDigest
  <2> HIDE DEF r
  <2> QED
    BY <2>3, <2>4 DEF Register
<1> QED
  BY <1>1, <1>2, DigestStepInv, PTL DEF DigestSpec

-----------------------------------------------------------------------------
(* The fuzzer's blocks.  Where each value stands, and how wide it is.     *)
LEMMA BlockLayout ==
  /\ Crcs = {"crc_8", "crc_16", "crc_modbus", "crc_xmodem", "crc_ccitt_ffff",
             "crc_ccitt_1d0f", "crc_kermit", "crc_dnp", "crc_32", "crc_64_ecma",
             "crc_64_we", "crc_sick"}
  /\ Offset["crc_8"] = 0 /\ Width("crc_8") = 8
  /\ Offset["crc_16"] = 4 /\ Width("crc_16") = 16
  /\ Offset["crc_ccitt_1d0f"] = 6 /\ Width("crc_ccitt_1d0f") = 16
  /\ Offset["crc_ccitt_ffff"] = 8 /\ Width("crc_ccitt_ffff") = 16
  /\ Offset["crc_dnp"] = 10 /\ Width("crc_dnp") = 16
  /\ Offset["crc_kermit"] = 12 /\ Width("crc_kermit") = 16
  /\ Offset["crc_modbus"] = 14 /\ Width("crc_modbus") = 16
  /\ Offset["crc_sick"] = 16 /\ Width("crc_sick") = 16
  /\ Offset["crc_xmodem"] = 18 /\ Width("crc_xmodem") = 16
  /\ Offset["crc_32"] = 20 /\ Width("crc_32") = 32
  /\ Offset["crc_64_ecma"] = 24 /\ Width("crc_64_ecma") = 64
  /\ Offset["crc_64_we"] = 32 /\ Width("crc_64_we") = 64
<1>1. Crcs = {"crc_8", "crc_16", "crc_modbus", "crc_xmodem", "crc_ccitt_ffff",
              "crc_ccitt_1d0f", "crc_kermit", "crc_dnp", "crc_32", "crc_64_ecma",
              "crc_64_we", "crc_sick"}
  BY DEF Crcs, Algorithms, FoldedCrcs, Parameters
<1>2. /\ Parameters.crc_8.width = 8 /\ Parameters.crc_16.width = 16
      /\ Parameters.crc_modbus.width = 16 /\ Parameters.crc_xmodem.width = 16
      /\ Parameters.crc_ccitt_ffff.width = 16 /\ Parameters.crc_ccitt_1d0f.width = 16
      /\ Parameters.crc_kermit.width = 16 /\ Parameters.crc_dnp.width = 16
      /\ Parameters.crc_32.width = 32 /\ Parameters.crc_64_ecma.width = 64
      /\ Parameters.crc_64_we.width = 64
  BY DEF Parameters, Algorithm
<1> QED
  BY <1>1, <1>2 DEF Offset, Width

(* The bytes of a block that hold the value of that name. *)
Slot(n) == Offset[n] .. Offset[n] + (Width(n) \div 8) - 1

(* The values stand apart from each other and from bytes 1 to 3. *)
LEMMA SlotsApart ==
  ASSUME NEW n \in Crcs
  PROVE  /\ Width(n) \in {8, 16, 32, 64} /\ Offset[n] \in Nat
         /\ \A at \in Slot(n) :
              /\ at \in 0 .. 39 /\ at \notin {1, 2, 3}
              /\ \A m \in Crcs : at - Offset[m] \in 0 .. (Width(m) \div 8) - 1 => m = n
<1>1. /\ Slot("crc_8") = 0 .. 0 /\ Slot("crc_16") = 4 .. 5
      /\ Slot("crc_ccitt_1d0f") = 6 .. 7 /\ Slot("crc_ccitt_ffff") = 8 .. 9
      /\ Slot("crc_dnp") = 10 .. 11 /\ Slot("crc_kermit") = 12 .. 13
      /\ Slot("crc_modbus") = 14 .. 15 /\ Slot("crc_sick") = 16 .. 17
      /\ Slot("crc_xmodem") = 18 .. 19 /\ Slot("crc_32") = 20 .. 23
      /\ Slot("crc_64_ecma") = 24 .. 31 /\ Slot("crc_64_we") = 32 .. 39
  BY BlockLayout DEF Slot
<1>2. Width(n) \in {8, 16, 32, 64} /\ Offset[n] \in Nat
  BY BlockLayout
<1>3. ASSUME NEW m \in Crcs, NEW at \in Int, at - Offset[m] \in 0 .. (Width(m) \div 8) - 1
      PROVE  at \in Slot(m)
  <2>1. Width(m) \in {8, 16, 32, 64} /\ Offset[m] \in Nat
    BY BlockLayout
  <2> QED
    BY <1>3, <2>1 DEF Slot
<1>4. ASSUME NEW at \in Slot(n) PROVE at \in 0 .. 39 /\ at \notin {1, 2, 3}
  BY <1>1, <1>4, BlockLayout
<1>5. ASSUME NEW at \in Slot(n), NEW m \in Crcs, at \in Slot(m) PROVE m = n
  BY <1>1, <1>5, BlockLayout
<1> QED
  BY <1>2, <1>3, <1>4, <1>5

(* The bytes of a register, put back where they came from. *)
LEMMA Reassembled ==
  ASSUME NEW w \in {8, 16, 32, 64}, NEW r \in Register(w)
  PROVE  UNION {Shl(w, ByteAt(r, 8 * k), 8 * k) : k \in 0 .. (w \div 8) - 1} = r
<1> DEFINE part(k) == Shl(w, ByteAt(r, 8 * k), 8 * k)
<1>1. ASSUME NEW k \in 0 .. (w \div 8) - 1, NEW i \in part(k) PROVE i \in r
  <2>1. i \in Bits(w) /\ i - 8 * k \in Bits(8) /\ (i - 8 * k) + 8 * k \in r
    BY <1>1 DEF Shl, ByteAt
  <2>2. (i - 8 * k) + 8 * k = i
    BY <1>1, <2>1 DEF Bits
  <2> QED
    BY <2>1, <2>2
<1>2. ASSUME NEW i \in r PROVE \E k \in 0 .. (w \div 8) - 1 : i \in part(k)
  <2> DEFINE k == i \div 8
  <2>1. i \in Bits(w) /\ i \in 0 .. w - 1
    BY <1>2 DEF Register, Bits
  <2>2. k \in 0 .. (w \div 8) - 1 /\ i - 8 * k \in 0 .. 7 /\ (i - 8 * k) + 8 * k = i
    BY <2>1
  <2>3. i \in part(k)
    <3> HIDE DEF k
    <3> QED
      BY <1>2, <2>1, <2>2 DEF Shl, ByteAt, Bits
  <2> QED
    BY <2>2, <2>3
<1> HIDE DEF part
<1>3. UNION {part(k) : k \in 0 .. (w \div 8) - 1} = r
  BY <1>1, <1>2
<1> QED
  BY <1>3 DEF part

-----------------------------------------------------------------------------

FitsBlock(block) ==
  /\ block = Block(block.crc, block.nmea_ok, <<block.nmea_hex[1], block.nmea_hex[2]>>)
  /\ block.crc = [n \in Crcs |-> block.crc[n]]
  /\ \A n \in Crcs : block.crc[n] \in Register(Width(n))
  /\ block.nmea_ok \in BOOLEAN

(* A byte of a slot is a byte of the value that stands there. *)
LEMMA EncodedAt ==
  ASSUME NEW block, NEW n \in Crcs, NEW k \in 0 .. (Width(n) \div 8) - 1
  PROVE  Encode(block)[Offset[n] + k] = ByteAt(block.crc[n], 8 * k)
<1> DEFINE at == Offset[n] + k
           name == CHOOSE m \in Crcs : at - Offset[m] \in 0 .. (Width(m) \div 8) - 1
<1>1. Width(n) \in {8, 16, 32, 64} /\ Offset[n] \in Nat
  BY SlotsApart
<1>2. at \in Slot(n) /\ at - Offset[n] = k
  BY <1>1 DEF Slot
<1>3. /\ at \in 0 .. 39 /\ at # 1 /\ at # 2 /\ at # 3
      /\ \A m \in Crcs : at - Offset[m] \in 0 .. (Width(m) \div 8) - 1 => m = n
  BY <1>2, SlotsApart
<1>4. name = n
  BY <1>2, <1>3
<1>5. Encode(block)[at] = ByteAt(block.crc[name], 8 * (at - Offset[name]))
  <2> HIDE DEF at
  <2> QED
    BY <1>3 DEF Encode
<1> QED
  BY <1>2, <1>4, <1>5

(* Decoding gives back the block: the harness's stores and the loads of   *)
(* model.rs agree on every offset, width and byte order.                  *)
LEMMA DecodedIsEncoded ==
  ASSUME NEW block, FitsBlock(block)
  PROVE  Decode(Encode(block)) = block
<1> DEFINE bytes == Encode(block)
           back(n) == UNION {Shl(Width(n), bytes[Offset[n] + k], 8 * k) :
                               k \in 0 .. (Width(n) \div 8) - 1}
<1>1. ASSUME NEW n \in Crcs PROVE back(n) = block.crc[n]
  <2>1. Width(n) \in {8, 16, 32, 64} /\ block.crc[n] \in Register(Width(n))
    BY SlotsApart DEF FitsBlock
  <2>2. \A k \in 0 .. (Width(n) \div 8) - 1 : bytes[Offset[n] + k] = ByteAt(block.crc[n], 8 * k)
    BY EncodedAt
  <2> HIDE DEF bytes
  <2>3. back(n) = UNION {Shl(Width(n), ByteAt(block.crc[n], 8 * k), 8 * k) :
                           k \in 0 .. (Width(n) \div 8) - 1}
    BY <2>2
  <2> HIDE DEF back
  <2> QED
    BY <2>1, <2>3, Reassembled
<1>2. /\ bytes[1] = IF block.nmea_ok THEN {0} ELSE {}
      /\ bytes[2] = block.nmea_hex[1] /\ bytes[3] = block.nmea_hex[2]
  BY DEF Encode
<1>3. (0 \in bytes[1]) = block.nmea_ok
  BY <1>2 DEF FitsBlock
<1>4. Decode(bytes) = Block([n \in Crcs |-> back(n)], 0 \in bytes[1], <<bytes[2], bytes[3]>>)
  <2> HIDE DEF bytes
  <2> QED
    BY DEF Decode
<1>5. [n \in Crcs |-> back(n)] = block.crc
  <2> HIDE DEF back
  <2> QED
    BY <1>1 DEF FitsBlock
<1> HIDE DEF bytes, back
<1>6. Decode(bytes)
        = Block(block.crc, block.nmea_ok, <<block.nmea_hex[1], block.nmea_hex[2]>>)
  BY <1>2, <1>3, <1>4, <1>5, Zenon
<1> QED
  BY <1>6, Zenon DEF FitsBlock, bytes

-----------------------------------------------------------------------------
(* The fuzzer's incremental loops.  The twelve running values, and the    *)
(* byte before, after some bytes.                                         *)
Running(values, before, data) ==
  /\ \A n \in FoldedCrcs : values[n] = ByteFold(Parameters[n], Parameters[n].start, data)
  /\ <<values["crc_sick"], before>> = Pairs!Fold({}, <<{}, {}>>, data)

LEMMA CrcNames == /\ Crcs = FoldedCrcs \cup {"crc_sick"}
                  /\ "crc_sick" \notin FoldedCrcs /\ "nmea" \notin Crcs
BY BlockLayout DEF FoldedCrcs, Parameters

LEMMA OneShotOf ==
  /\ \A data : \A n \in FoldedCrcs : OneShot(n, data) = CrcOneShot(Parameters[n], data)
  /\ \A data : OneShot("crc_sick", data) = SickOneShot(data)
  /\ \A data : OneShot("nmea", data) = NmeaOneShot(data)
BY CrcNames DEF OneShot

(* A one-shot function returns a word of its width. *)
LEMMA OneShotFits ==
  ASSUME NEW n \in Crcs, NEW data \in Seq(Byte)
  PROVE  OneShot(n, data) \in Register(Width(n))
<1>1. CASE n \in FoldedCrcs
  <2> DEFINE a == Parameters[n]
  <2>1. WellFormed(a)
    BY <1>1, CatalogueWellFormed
  <2>2. Width(n) = a.width
    BY <1>1, CrcNames DEF Width
  <2>3. OneShot(n, data) = Finalise(a, Loop(a, a.start, data))
    BY <1>1, OneShotOf, ByteFoldIsLoop DEF CrcOneShot
  <2> HIDE DEF a
  <2>4. Loop(a, a.start, data) \in Register(a.width)
    BY <2>1, LoopType DEF WellFormed
  <2> QED
    BY <2>1, <2>2, <2>3, <2>4, FinaliseType
<1>2. CASE n = "crc_sick"
  <2>1. OneShot(n, data) \in Register(16)
    BY <1>2, OneShotOf DEF SickOneShot, SwapBytes, Register
  <2> QED
    BY <1>2, <2>1 DEF Width
<1> QED
  BY <1>1, <1>2, CrcNames

(* The loops start with nothing folded. *)
LEMMA RunningStarts == Running(Starts, {}, <<>>)
<1>1. \A n \in FoldedCrcs : Starts[n] = Parameters[n].start
  BY CrcNames DEF Starts
<1>2. Starts["crc_sick"] = {}
  BY CrcNames DEF Starts
<1>3. Pairs!Fold({}, <<{}, {}>>, <<>>) = <<{}, {}>>
  BY Pairs!FoldEmpty
<1>4. \A n \in FoldedCrcs :
        ByteFold(Parameters[n], Parameters[n].start, <<>>) = Parameters[n].start
  BY ByteFoldIsLoop, Crc!FoldEmpty DEF Loop
<1> QED
  BY <1>1, <1>2, <1>3, <1>4 DEF Running

(* One more byte. *)
LEMMA RunningGoesOn ==
  ASSUME NEW data \in Seq(Byte), NEW i \in Nat, i < Len(data), NEW values, NEW before,
         Running(values, before, SubSeq(data, 1, i))
  PROVE  Running(Step(values, data[i + 1], before), data[i + 1], SubSeq(data, 1, i + 1))
<1> DEFINE b == data[i + 1]
           after == Step(values, b, before)
           p == SubSeq(data, 1, i)
           q == SubSeq(data, 1, i + 1)
<1>1. ASSUME NEW n \in FoldedCrcs
      PROVE  after[n] = ByteFold(Parameters[n], Parameters[n].start, q)
  <2> DEFINE a == Parameters[n]
  <2>1. after[n] = Update(a, values[n], b)
    BY CrcNames DEF Step
  <2>2. values[n] = Loop(a, a.start, p)
    BY ByteFoldIsLoop DEF Running
  <2> HIDE DEF a
  <2>3. Loop(a, a.start, q) = Update(a, Loop(a, a.start, p), b)
    BY Crc!FoldPrefix DEF Loop
  <2> QED
    BY <2>1, <2>2, <2>3, ByteFoldIsLoop DEF a
<1>2. <<after["crc_sick"], b>> = Pairs!Fold({}, <<{}, {}>>, q)
  <2> DEFINE pair == Pairs!Fold({}, <<{}, {}>>, p)
  <2>1. after["crc_sick"] = UpdateSick(values["crc_sick"], b, before)
    BY CrcNames DEF Step
  <2>2. <<values["crc_sick"], before>> = pair
    BY DEF Running
  <2>3. Pairs!Fold({}, <<{}, {}>>, q) = SickPair({}, pair, b)
    BY Pairs!FoldPrefix
  <2> HIDE DEF pair, after, b, q
  <2>4. SickPair({}, pair, b) = <<UpdateSick(pair[1], b, pair[2]), b>>
    BY DEF SickPair
  <2>5. pair[1] = values["crc_sick"] /\ pair[2] = before
    BY <2>2
  <2> QED
    BY <2>1, <2>3, <2>4, <2>5
<1> HIDE DEF b, after, q
<1>3. Running(after, b, q)
  BY <1>1, <1>2 DEF Running
<1> QED
  BY <1>3 DEF after, b, q

(* What the caller of update_crc_* does at the end is what the one-shot   *)
(* functions do there.                                                    *)
LEMMA FinishedIsOneShot ==
  ASSUME NEW data \in Seq(Byte), NEW values, NEW before, Running(values, before, data)
  PROVE  \A n \in Crcs : Finished(values)[n] = OneShot(n, data)
<1>1. ASSUME NEW n \in FoldedCrcs PROVE Finished(values)[n] = OneShot(n, data)
  <2> DEFINE a == Parameters[n]
             r == values[n]
  <2>1. WellFormed(a)
    BY CatalogueWellFormed
  <2>2. r = Loop(a, a.start, data)
    BY ByteFoldIsLoop DEF Running
  <2>3. r \in Register(a.width)
    <3> HIDE DEF a, r
    <3> QED
      BY <2>1, <2>2, LoopType DEF WellFormed
  <2>4. OneShot(n, data) = Finalise(a, r)
    BY <2>2, OneShotOf, ByteFoldIsLoop DEF CrcOneShot
  <2>5. r ^^ {} = r /\ r ^^ Bits(16) = Bits(16) ^^ r
    BY XorAlgebra
  <2>6. /\ n = "crc_kermit" => a.xorout = {} /\ a.swap
        /\ n = "crc_dnp"    => a.xorout = Bits(16) /\ a.swap /\ a.width = 16
        /\ n = "crc_32"     => a.xorout = Bits(32) /\ ~a.swap
        /\ n = "crc_64_we"  => a.xorout = Bits(64) /\ ~a.swap
        /\ n \notin {"crc_kermit", "crc_dnp", "crc_32", "crc_64_we"} =>
             a.xorout = {} /\ ~a.swap
    BY BlockLayout, CrcNames DEF Parameters, Algorithm
  <2>7. n = "crc_dnp" => r ^^ Bits(16) = Bits(16) \ r
    BY <2>3, <2>6 DEF Register, ^^, SymDiff
  <2>8. /\ n = "crc_kermit" => Finished(values)[n] = SwapBytes(r)
        /\ n = "crc_dnp"    => Finished(values)[n] = SwapBytes(Bits(16) \ r)
        /\ n = "crc_32"     => Finished(values)[n] = r ^^ Bits(32)
        /\ n = "crc_64_we"  => Finished(values)[n] = r ^^ Bits(64)
        /\ n \notin {"crc_kermit", "crc_dnp", "crc_32", "crc_64_we"} =>
             Finished(values)[n] = r
    BY CrcNames DEF Finished
  <2> HIDE DEF a, r
  <2> QED
    BY <2>4, <2>5, <2>6, <2>7, <2>8 DEF Finalise, ByteSwapIf
<1>2. Finished(values)["crc_sick"] = OneShot("crc_sick", data)
  <2> DEFINE pair == Pairs!Fold({}, <<{}, {}>>, data)
  <2>1. pair = <<values["crc_sick"], before>>
    BY DEF Running
  <2>2. OneShot("crc_sick", data) = SwapBytes(pair[1])
    BY OneShotOf, SickPairFold
  <2>3. Finished(values)["crc_sick"] = SwapBytes(values["crc_sick"])
    BY CrcNames DEF Finished
  <2> HIDE DEF pair
  <2> QED
    BY <2>1, <2>2, <2>3
<1> QED
  BY <1>1, <1>2, CrcNames

-----------------------------------------------------------------------------
(* The C string.  A sentence ends somewhere.                              *)
LEMMA SentenceEnds ==
  ASSUME NEW data \in Seq(Byte)
  PROVE  \E n \in 0 .. Len(data) : EndsAt(data, n)
<1> DEFINE stops(m) == m = Len(data) \/ data[m + 1] \in Terminators
           I == {m \in 0 .. Len(data) : stops(m)}
<1>1. Len(data) \in I /\ I \subseteq Nat
  OBVIOUS
<1>2. PICK n \in I : \A j \in I : n <= j
  <2> HIDE DEF I
  <2> QED
    BY <1>1, Crc!LeastOf
<1>3. n \in 0 .. Len(data) /\ stops(n)
  OBVIOUS
<1>4. ASSUME NEW m \in 1 .. n PROVE data[m] \notin Terminators
  <2>1. m - 1 \in 0 .. Len(data) /\ m - 1 < n /\ (m - 1) + 1 = m
    BY <1>3
  <2>2. m - 1 \notin I
    <3> SUFFICES ASSUME m - 1 \in I PROVE FALSE
      OBVIOUS
    <3>1. n <= m - 1
      <4> HIDE DEF I
      <4> QED
        BY <1>2
    <3> QED
      BY <1>3, <2>1, <3>1
  <2> QED
    BY <2>1, <2>2
<1> QED
  BY <1>3, <1>4 DEF EndsAt

(* Cutting the data off at a terminator leaves the sentence as it was.    *)
LEMMA SentenceOfPrefix ==
  ASSUME NEW data \in Seq(Byte), NEW m \in 0 .. Len(data),
         m = Len(data) \/ data[m + 1] \in Terminators
  PROVE  Sentence(SubSeq(data, 1, m)) = Sentence(data)
<1> DEFINE cut == SubSeq(data, 1, m)
<1>1. PICK n \in 0 .. Len(data) : EndsAt(data, n)
  BY SentenceEnds
<1>2. n <= m
  BY <1>1 DEF EndsAt
<1>3. cut \in Seq(Byte) /\ Len(cut) = m /\ \A i \in 1 .. m : cut[i] = data[i]
  OBVIOUS
<1>4. SubSeq(cut, 1, n) = SubSeq(data, 1, n)
  BY <1>1, <1>2
<1> HIDE DEF cut
<1>5. EndsAt(cut, n)
  BY <1>1, <1>2, <1>3 DEF EndsAt
<1> QED
  BY <1>1, <1>3, <1>4, <1>5, SentenceOfLength DEF cut

(* The C string is what stands before the first NUL.                      *)
LEMMA CStringIs ==
  ASSUME NEW data \in Seq(Byte)
  PROVE  \E m \in 0 .. Len(data) :
           /\ CString(data) = SubSeq(data, 1, m)
           /\ m = Len(data) \/ data[m + 1] = {}
<1> DEFINE closed == data \o <<{}>>
           nuls == {i \in 1 .. Len(closed) : closed[i] = {}}
           least == Min(nuls)
<1>1. Len(closed) = Len(data) + 1 /\ closed[Len(data) + 1] = {}
  OBVIOUS
<1>2. \A i \in 1 .. Len(data) : closed[i] = data[i]
  OBVIOUS
<1>3. Len(data) \in Nat
  OBVIOUS
<1> HIDE DEF closed
<1>4. Len(data) + 1 \in nuls /\ nuls \subseteq Nat
  BY <1>1, <1>3
<1>5. least \in nuls
  <2> HIDE DEF nuls
  <2>1. \E i \in nuls : \A j \in nuls : i <= j
    BY <1>4, Crc!LeastOf
  <2> QED
    BY <2>1 DEF Min
<1>6. SelectInSeq(closed, LAMBDA b : b = {}) = least
  BY <1>4 DEF SelectInSeq
<1> HIDE DEF least
<1>7. least \in 1 .. Len(data) + 1 /\ closed[least] = {}
  BY <1>1, <1>5
<1>8. least - 1 \in 0 .. Len(data) /\ (least - 1) + 1 = least
  BY <1>3, <1>7
<1>9. CString(data) = SubSeq(data, 1, least - 1)
  BY <1>6 DEF CString, closed
<1>10. least - 1 = Len(data) \/ data[least] = {}
  BY <1>2, <1>3, <1>7
<1> QED
  BY <1>8, <1>9, <1>10

(* checksum_NMEA of the C string is that of the payload.                  *)
LEMMA NmeaOfCString ==
  ASSUME NEW data \in Seq(Byte)
  PROVE  OneShot("nmea", CString(data)) = OneShot("nmea", data)
<1>1. PICK m \in 0 .. Len(data) :
        CString(data) = SubSeq(data, 1, m) /\ (m = Len(data) \/ data[m + 1] = {})
  BY CStringIs
<1> DEFINE cut == SubSeq(data, 1, m)
<1>2. {} \in Terminators /\ {} # DOLLAR
  BY DEF Terminators, DOLLAR
<1>3. cut \in Seq(Byte) /\ Len(cut) = m /\ Len(data) \in Nat /\ m \in Nat
  OBVIOUS
<1>4. Sentence(StripDollar(cut)) = Sentence(StripDollar(data))
  <2>1. CASE data # <<>> /\ Head(data) = DOLLAR
    <3> DEFINE rest == Tail(data)
    <3>1. data[1] = DOLLAR /\ Len(data) >= 1
      BY <2>1
    <3>2. m >= 1
      BY <1>1, <1>2, <3>1
    <3>3. cut # <<>> /\ Head(cut) = DOLLAR
      BY <3>1, <3>2
    <3>4. rest \in Seq(Byte) /\ Len(rest) = Len(data) - 1
          /\ \A i \in 1 .. Len(data) - 1 : rest[i] = data[i + 1]
      BY <3>1
    <3>5. Tail(cut) = SubSeq(rest, 1, m - 1)
      BY <3>1, <3>2
    <3>6. m - 1 \in 0 .. Len(rest) /\ (m - 1 = Len(rest) \/ rest[(m - 1) + 1] \in Terminators)
      <4> HIDE DEF rest
      <4>1. CASE m = Len(data)
        BY <1>3, <3>2, <3>4, <4>1
      <4>2. CASE m # Len(data)
        <5>1. m \in 1 .. Len(data) - 1 /\ (m - 1) + 1 = m
          BY <1>3, <3>2, <4>2
        <5>2. rest[m] = {}
          BY <1>1, <3>4, <4>2, <5>1
        <5>3. m - 1 \in 0 .. Len(rest)
          BY <1>3, <3>2, <3>4, <5>1
        <5> QED
          BY <1>2, <5>1, <5>2, <5>3
      <4> QED
        BY <4>1, <4>2
    <3> HIDE DEF rest, cut
    <3>7. Sentence(SubSeq(rest, 1, m - 1)) = Sentence(rest)
      BY <3>4, <3>6, SentenceOfPrefix
    <3> QED
      BY <2>1, <3>3, <3>5, <3>7 DEF StripDollar, rest
  <2>2. CASE ~(data # <<>> /\ Head(data) = DOLLAR)
    <3>1. ~(cut # <<>> /\ Head(cut) = DOLLAR)
      BY <2>2
    <3>2. Sentence(cut) = Sentence(data)
      BY <1>1, <1>2, SentenceOfPrefix
    <3> QED
      BY <2>2, <3>1, <3>2 DEF StripDollar
  <2> QED
    BY <2>1, <2>2
<1> HIDE DEF cut
<1>5. NmeaOneShot(cut) = NmeaOneShot(data)
  BY <1>4, NmeaXorFold
<1> QED
  BY <1>1, <1>5, OneShotOf DEF cut

-----------------------------------------------------------------------------
(* One case, from the first byte of the harness's loop to the verdict.    *)
Sums(given) == [n \in Crcs |-> OneShot(n, PortView(given))]

(* The second block of either side. *)
Rebuilt(given) == Block(Sums(given), FALSE, Nothing)

Verdict(given, bad) == IF bad /\ Triggered(given) THEN {<<1, "crc_kermit">>} ELSE {}

(* In the loops, the running values are those of the bytes so far; what   *)
(* is on the wire is the harness's one-shot block and then the rebuilt    *)
(* one, and the port's two blocks follow.                                 *)
BlocksInv ==
  /\ case \in Cases /\ sabotaged \in BOOLEAN
  /\ \/ side = "oracle" /\ phase \in {"oneshot", "bytes"}
     \/ side = "port" /\ phase \in {"oneshot", "bytes", "compare", "done"}
  /\ phase = "bytes" =>
       /\ taken \in 0 .. Len(PortView(case))
       /\ Running(crcs, prev, SubSeq(PortView(case), 1, taken))
  /\ side = "oracle" /\ phase = "bytes" => wire = <<Encode(OracleOneShot(case))>>
  /\ side = "port" => wire = <<Encode(OracleOneShot(case)), Encode(Rebuilt(case))>>
  /\ side = "port" /\ phase = "bytes" => mine = <<PortOneShot(case)>>
  /\ phase \in {"compare", "done"} => mine = <<PortOneShot(case), Rebuilt(case)>>
  /\ DiffsAreReal

(* What the loop of either side folds: nothing of a NULL case.            *)
LEMMA ViewOfCase ==
  ASSUME case \in Cases, side \in {"oracle", "port"}
  PROVE  /\ ToFold = PortView(case) /\ PortView(case) \in Seq(Byte)
         /\ case.is_null \in BOOLEAN /\ case.data \in Seq(Byte)
BY BlocksAssumption DEF ToFold, PortView

(* The blocks are made of words of their widths. *)
LEMMA BlocksFit ==
  ASSUME case \in Cases
  PROVE  /\ FitsBlock(OracleOneShot(case))
         /\ FitsBlock(Rebuilt(case))
<1> DEFINE view == PortView(case)
           right == Sums(case)
<1>1. view \in Seq(Byte) /\ case.is_null \in BOOLEAN
  BY BlocksAssumption DEF PortView
<1>2. \A n \in Crcs : right[n] \in Register(Width(n))
  <2> HIDE DEF view
  <2> QED
    BY <1>1, OneShotFits DEF Sums, view
<1>3. FitsBlock(Rebuilt(case))
  <2>1. right = [n \in Crcs |-> right[n]]
    BY DEF Sums
  <2> HIDE DEF right
  <2>2. FitsBlock(Block(right, FALSE, Nothing))
    BY <1>2, <2>1 DEF FitsBlock, Block, Nothing
  <2> QED
    BY <2>2 DEF Rebuilt, right
<1>4. FitsBlock(OracleOneShot(case))
  <2> DEFINE kermit == IF sabotaged /\ Triggered(case)
                       THEN right["crc_kermit"] ^^ {0} ELSE right["crc_kermit"]
             theirs == [right EXCEPT !["crc_kermit"] = kermit]
             hex == IF case.is_null THEN Nothing
                    ELSE HexDigits(OneShot("nmea", CString(case.data)))
  <2>1. OracleOneShot(case) = Block(theirs, ~case.is_null, hex)
    BY DEF OracleOneShot, OriginalSums, Sums, PortView
  <2>2. "crc_kermit" \in Crcs /\ Width("crc_kermit") = 16
    BY BlockLayout
  <2>3. kermit \in Register(16)
    <3>1. {0} \in Register(16)
      BY DEF Register, Bits
    <3>2. right["crc_kermit"] \in Register(16)
      BY <1>2, <2>2
    <3> HIDE DEF right
    <3> QED
      BY <3>1, <3>2, XorType
  <2>4. theirs = [n \in Crcs |-> theirs[n]]
    BY DEF Sums
  <2>5. \A n \in Crcs : theirs[n] \in Register(Width(n))
    <3>1. \A n \in Crcs : theirs[n] = IF n = "crc_kermit" THEN kermit ELSE right[n]
      <4> HIDE DEF kermit
      <4> QED
        BY DEF Sums
    <3> HIDE DEF theirs, kermit, right
    <3> QED
      BY <1>2, <2>2, <2>3, <3>1
  <2>6. hex = <<hex[1], hex[2]>>
    BY DEF Nothing, HexDigits
  <2> HIDE DEF theirs, hex
  <2>7. FitsBlock(Block(theirs, ~case.is_null, hex))
    BY <1>1, <2>4, <2>5, <2>6 DEF FitsBlock, Block
  <2> QED
    BY <2>1, <2>7
<1> QED
  BY <1>3, <1>4

(* The harness's first block is the port's, but for the bit that a        *)
(* sabotaged build turns over.                                            *)
LEMMA OracleIsPort ==
  ASSUME case \in Cases
  PROVE  /\ ~(sabotaged /\ Triggered(case)) => OracleOneShot(case) = PortOneShot(case)
         /\ sabotaged /\ Triggered(case) =>
              Diff(OracleOneShot(case), PortOneShot(case)) = {"crc_kermit"}
<1> DEFINE right == Sums(case)
           hex == IF case.is_null THEN Nothing
                  ELSE HexDigits(OneShot("nmea", case.data))
           flipped == [right EXCEPT !["crc_kermit"] = right["crc_kermit"] ^^ {0}]
           ok == ~case.is_null
<1>1. case.is_null \in BOOLEAN /\ case.data \in Seq(Byte)
  BY BlocksAssumption
<1>2. PortOneShot(case) = Block(right, ok, hex)
  BY <1>1 DEF PortOneShot, Sums, PortView
<1>3. hex = IF case.is_null THEN Nothing
            ELSE HexDigits(OneShot("nmea", CString(case.data)))
  BY <1>1, NmeaOfCString
<1>4. right = OriginalSums(case) /\ right = [n \in Crcs |-> right[n]]
  BY DEF OriginalSums, Sums, PortView
<1> HIDE DEF right, hex
<1>5. ASSUME ~(sabotaged /\ Triggered(case))
      PROVE  OracleOneShot(case) = Block(right, ok, hex)
  <2>1. [right EXCEPT !["crc_kermit"] = right["crc_kermit"]] = right
    BY <1>4
  <2> QED
    BY <1>3, <1>4, <1>5, <2>1 DEF OracleOneShot
<1>6. ASSUME sabotaged /\ Triggered(case)
      PROVE  OracleOneShot(case) = Block(flipped, ok, hex)
  BY <1>3, <1>4, <1>6 DEF OracleOneShot
<1>7. Diff(Block(flipped, ok, hex), Block(right, ok, hex)) = {"crc_kermit"}
  <2>1. right["crc_kermit"] ^^ {0} # right["crc_kermit"]
    BY XorMember
  <2>2. "crc_kermit" \in Crcs
    BY BlockLayout
  <2>3. \A n \in Crcs : flipped[n] # right[n] <=> n = "crc_kermit"
    BY <1>4, <2>1, <2>2
  <2> HIDE DEF flipped, ok
  <2> QED
    BY <2>2, <2>3 DEF Diff, Block
<1> HIDE DEF flipped, ok
<1> QED
  BY <1>2, <1>5, <1>6, <1>7

(* The second block goes behind the first. *)
LEMMA PairOf ==
  ASSUME NEW u, NEW v
  PROVE  Append(<<u>>, v) = <<u, v>>
<1>1. ASSUME NEW E, NEW s \in Seq(E), NEW e \in E, Len(s) = 1
      PROVE  /\ Append(s, e) \in Seq(E) /\ Len(Append(s, e)) = 2
             /\ Append(s, e)[1] = s[1] /\ Append(s, e)[2] = e
  <2>1. Append(s, e) \in Seq(E) /\ Len(Append(s, e)) = Len(s) + 1
    OBVIOUS
  <2>2. Append(s, e)[Len(s) + 1] = e
    OBVIOUS
  <2>3. \A i \in 1 .. Len(s) : Append(s, e)[i] = s[i]
    OBVIOUS
  <2> QED
    BY <1>1, <2>1, <2>2, <2>3
<1> DEFINE s == <<u>>
           t == <<u, v>>
           E == {u, v}
<1>2. s \in Seq(E) /\ t \in Seq(E) /\ v \in E /\ Len(s) = 1 /\ s[1] = u
  OBVIOUS
<1>3. Len(t) = 2 /\ t[1] = u /\ t[2] = v
  OBVIOUS
<1> HIDE DEF s, t, E
<1>4. /\ Append(s, v) \in Seq(E) /\ Len(Append(s, v)) = 2
      /\ Append(s, v)[1] = s[1] /\ Append(s, v)[2] = v
  BY <1>1, <1>2
<1>5. Append(s, v) = t
  BY <1>2, <1>3, <1>4
<1> QED
  BY <1>5 DEF s, t

(* Every step of a case keeps its invariant. *)
LEMMA BlocksInitInv == BlocksInit => BlocksInv
  BY DEF BlocksInit, BlocksInv, DiffsAreReal

LEMMA BlocksStepInv == BlocksInv /\ [BlocksNext]_blocksVars => BlocksInv'
<1> SUFFICES ASSUME BlocksInv, [BlocksNext]_blocksVars
             PROVE  BlocksInv'
  OBVIOUS
<1> DEFINE view == PortView(case)
<1>1. case \in Cases /\ sabotaged \in BOOLEAN /\ side \in {"oracle", "port"}
  BY DEF BlocksInv
<1>2. ToFold = view /\ view \in Seq(Byte)
  BY <1>1, ViewOfCase
<1>3. CASE ComputeOneShot
  <2>1. /\ phase = "oneshot" /\ phase' = "bytes" /\ taken' = 0 /\ crcs' = Starts /\ prev' = {}
        /\ UNCHANGED <<case, sabotaged, side, diffs>>
    BY <1>3 DEF ComputeOneShot
  <2>2. Running(crcs', prev', SubSeq(PortView(case'), 1, taken'))
    <3>1. SubSeq(view, 1, 0) = <<>>
      OBVIOUS
    <3> QED
      BY <2>1, <3>1, RunningStarts
  <2>3. taken' \in 0 .. Len(PortView(case'))
    <3>1. Len(view) \in Nat
      BY <1>2
    <3> QED
      BY <2>1, <3>1
  <2>4. CASE side = "oracle"
    <3>1. wire' = <<Encode(OracleOneShot(case))>>
      BY <1>3, <2>4 DEF ComputeOneShot
    <3>2. wire' = <<Encode(OracleOneShot(case)')>>
      BY <2>1, <3>1 DEF OracleOneShot, OriginalSums
    <3> QED
      BY <1>1, <2>1, <2>2, <2>3, <2>4, <3>2 DEF BlocksInv, DiffsAreReal
  <2>5. CASE side = "port"
    <3>1. mine' = <<PortOneShot(case)>> /\ wire' = wire
      BY <1>3, <2>5 DEF ComputeOneShot
    <3>2. OracleOneShot(case)' = OracleOneShot(case)
      BY <2>1 DEF OracleOneShot, OriginalSums
    <3> QED
      BY <1>1, <2>1, <2>2, <2>3, <2>5, <3>1, <3>2 DEF BlocksInv, DiffsAreReal
  <2> QED
    BY <1>1, <2>4, <2>5
<1>4. CASE FoldRunning
  <2>1. /\ phase = "bytes" /\ taken < Len(view)
        /\ crcs' = Step(crcs, view[taken + 1], prev)
        /\ prev' = view[taken + 1] /\ taken' = taken + 1
        /\ UNCHANGED <<case, sabotaged, side, phase, wire, mine, diffs>>
    BY <1>2, <1>4 DEF FoldRunning
  <2>2. taken \in Nat /\ Len(view) \in Nat /\ Running(crcs, prev, SubSeq(view, 1, taken))
    <3>1. taken \in 0 .. Len(view)
      BY <2>1 DEF BlocksInv
    <3> QED
      BY <1>2, <2>1, <3>1 DEF BlocksInv
  <2>3. Running(crcs', prev', SubSeq(view, 1, taken'))
    <3> HIDE DEF view
    <3> QED
      BY <1>2, <2>1, <2>2, RunningGoesOn
  <2>4. taken' \in 0 .. Len(view)
    <3> HIDE DEF view
    <3> QED
      BY <2>1, <2>2
  <2>5. PortView(case') = view /\ OracleOneShot(case)' = OracleOneShot(case)
    BY <2>1 DEF OracleOneShot, OriginalSums
  <2> QED
    BY <1>1, <2>1, <2>3, <2>4, <2>5 DEF BlocksInv, DiffsAreReal
<1>5. CASE FinishBlock
  <2> DEFINE last == Block(Finished(crcs), FALSE, Nothing)
  <2>1. /\ phase = "bytes" /\ taken = Len(view)
        /\ UNCHANGED <<case, sabotaged, taken, crcs, prev, diffs>>
    BY <1>2, <1>5 DEF FinishBlock
  <2>2. last = Rebuilt(case)
    <3>1. SubSeq(view, 1, taken) = view
      <4> HIDE DEF view
      <4> QED
        BY <1>2, <2>1
    <3>2. Running(crcs, prev, view)
      BY <2>1, <3>1 DEF BlocksInv
    <3>3. \A n \in Crcs : Finished(crcs)[n] = OneShot(n, view)
      <4> HIDE DEF view
      <4> QED
        BY <1>2, <3>2, FinishedIsOneShot
    <3>4. Finished(crcs) = [n \in Crcs |-> Finished(crcs)[n]]
      BY DEF Finished
    <3>5. Finished(crcs) = Sums(case)
      BY <3>3, <3>4 DEF Sums
    <3> QED
      BY <3>5 DEF Rebuilt
  <2>3. OracleOneShot(case)' = OracleOneShot(case)
    BY <2>1 DEF OracleOneShot, OriginalSums
  <2> HIDE DEF last
  <2>a. \A u, v : Append(<<u>>, v) = <<u, v>>
    BY PairOf
  <2>4. CASE side = "oracle"
    <3>1. wire' = Append(wire, Encode(last)) /\ side' = "port" /\ phase' = "oneshot"
      BY <1>5, <2>4 DEF FinishBlock, last
    <3>2. wire' = <<Encode(OracleOneShot(case)), Encode(Rebuilt(case))>>
      <4>1. wire = <<Encode(OracleOneShot(case))>>
        BY <2>1, <2>4 DEF BlocksInv
      <4> QED
        BY <2>2, <2>a, <3>1, <4>1, Zenon
    <3> QED
      BY <1>1, <2>1, <2>3, <3>1, <3>2 DEF BlocksInv, DiffsAreReal
  <2>5. CASE side = "port"
    <3>1. mine' = Append(mine, last) /\ side' = side /\ phase' = "compare" /\ wire' = wire
      BY <1>5, <2>5 DEF FinishBlock, last
    <3>2. mine' = <<PortOneShot(case), Rebuilt(case)>>
      <4>1. mine = <<PortOneShot(case)>>
        BY <2>1, <2>5 DEF BlocksInv
      <4> QED
        BY <2>2, <2>a, <3>1, <4>1, Zenon
    <3> QED
      BY <1>1, <2>1, <2>3, <2>5, <3>1, <3>2 DEF BlocksInv, DiffsAreReal
  <2> QED
    BY <1>1, <2>4, <2>5
<1>6. CASE Compare
  <2> DEFINE a == Decode(wire[1])
             b == Decode(wire[2])
  <2>1. /\ phase = "compare" /\ phase' = "done"
        /\ diffs' = UNION {{<<n, check>> : check \in Diff(Decode(wire[n]), mine[n])} :
                             n \in {k \in 1 .. 2 : Decode(wire[k]) # mine[k]}}
        /\ UNCHANGED <<case, sabotaged, side, taken, crcs, prev, wire, mine>>
    BY <1>6 DEF Compare
  <2>2. /\ side = "port"
        /\ wire = <<Encode(OracleOneShot(case)), Encode(Rebuilt(case))>>
        /\ mine = <<PortOneShot(case), Rebuilt(case)>>
    BY <2>1 DEF BlocksInv
  <2>3. a = OracleOneShot(case) /\ b = Rebuilt(case)
    BY <1>1, <2>2, BlocksFit, DecodedIsEncoded
  <2>4. {k \in 1 .. 2 : Decode(wire[k]) # mine[k]} = IF a # mine[1] THEN {1} ELSE {}
    <3>1. \A k \in 1 .. 2 : k = 1 \/ k = 2
      OBVIOUS
    <3>2. b = mine[2]
      BY <2>2, <2>3
    <3> QED
      BY <3>1, <3>2
  <2>5. diffs' = IF a # mine[1] THEN {<<1, check>> : check \in Diff(a, mine[1])} ELSE {}
    <3>1. CASE a = mine[1]
      BY <2>1, <2>4, <3>1
    <3>2. CASE a # mine[1]
      <4>1. diffs' = UNION {{<<n, check>> : check \in Diff(Decode(wire[n]), mine[n])} : n \in {1}}
        BY <2>1, <2>4, <3>2
      <4> QED
        BY <3>2, <4>1
    <3> QED
      BY <3>1, <3>2
  <2>6. diffs' = Verdict(case, sabotaged)
    <3>1. CASE sabotaged /\ Triggered(case)
      <4>1. Diff(a, mine[1]) = {"crc_kermit"}
        BY <1>1, <2>2, <2>3, <3>1, OracleIsPort
      <4>2. a # mine[1]
        <5>1. Diff(mine[1], mine[1]) = {}
          BY DEF Diff
        <5> QED
          BY <4>1, <5>1
      <4> QED
        BY <2>5, <3>1, <4>1, <4>2 DEF Verdict
    <3>2. CASE ~(sabotaged /\ Triggered(case))
      <4>1. a = mine[1]
        BY <1>1, <2>2, <2>3, <3>2, OracleIsPort
      <4> QED
        BY <2>5, <3>2, <4>1 DEF Verdict
    <3> QED
      BY <3>1, <3>2
  <2>7. DiffsAreReal'
    BY <2>1, <2>6 DEF DiffsAreReal, Verdict
  <2>8. OracleOneShot(case)' = OracleOneShot(case)
    BY <2>1 DEF OracleOneShot, OriginalSums
  <2> QED
    BY <1>1, <2>1, <2>2, <2>7, <2>8 DEF BlocksInv
<1>7. CASE UNCHANGED blocksVars
  <2>1. UNCHANGED <<case, sabotaged, side, phase, taken, crcs, prev, wire, mine, diffs>>
    BY <1>7 DEF blocksVars
  <2>2. OracleOneShot(case)' = OracleOneShot(case)
    BY <2>1 DEF OracleOneShot, OriginalSums
  <2> QED
    BY <2>1, <2>2 DEF BlocksInv, DiffsAreReal
<1> QED
  BY <1>3, <1>4, <1>5, <1>6, <1>7 DEF BlocksNext

(* model.rs:129-133, for every payload and every byte of both loops: what *)
(* update_crc_* has come to, with its caller's finalisation, is the       *)
(* one-shot function's of the bytes so far.                               *)
THEOREM RunningIsOneShotAlways == BlocksSpec => []RunningIsOneShot
<1>1. BlocksInv => RunningIsOneShot
  <2> SUFFICES ASSUME BlocksInv, phase = "bytes"
               PROVE  \A n \in Crcs :
                        Finished(crcs)[n] = OneShot(n, SubSeq(case.data, 1, taken))
    BY DEF RunningIsOneShot
  <2> DEFINE view == PortView(case)
             part == SubSeq(view, 1, taken)
  <2>1. view \in Seq(Byte) /\ case.data \in Seq(Byte)
    BY ViewOfCase DEF BlocksInv
  <2>2. taken \in 0 .. Len(view) /\ Running(crcs, prev, part)
    BY DEF BlocksInv
  <2>3. part = SubSeq(case.data, 1, taken)
    <3>1. CASE case.is_null
      <4>1. view = <<>>
        BY <3>1 DEF PortView
      <4>2. taken = 0
        BY <2>2, <4>1
      <4> QED
        BY <2>1, <4>1, <4>2
    <3>2. CASE ~case.is_null
      BY <3>2 DEF PortView
    <3> QED
      BY <3>1, <3>2
  <2>4. part \in Seq(Byte)
    <3> HIDE DEF view
    <3> QED
      BY <2>1, <2>2
  <2> HIDE DEF part
  <2>5. \A n \in Crcs : Finished(crcs)[n] = OneShot(n, part)
    BY <2>2, <2>4, FinishedIsOneShot
  <2> QED
    BY <2>3, <2>5
<1> QED
  BY <1>1, BlocksInitInv, BlocksStepInv, PTL DEF BlocksSpec

(* negative-control.sh:5-11, for every payload and every trigger byte: a  *)
(* right port is never accused, and a sabotaged harness is found out by   *)
(* crc_kermit of the first block and by nothing else.                     *)
THEOREM DiffsAreRealAlways == BlocksSpec => []DiffsAreReal
<1>1. BlocksInv => DiffsAreReal
  BY DEF BlocksInv
<1> QED
  BY <1>1, BlocksInitInv, BlocksStepInv, PTL DEF BlocksSpec

(* crc_sick's register, with the byte before it. *)
LEMMA SickPairTyped ==
  ASSUME NEW data \in Seq(Byte)
  PROVE  Pairs!Fold({}, <<{}, {}>>, data) \in Register(16) \X Byte
<1>1. \A pair \in Register(16) \X Byte, b \in Byte : SickPair({}, pair, b) \in Register(16) \X Byte
  <2> SUFFICES ASSUME NEW pair \in Register(16) \X Byte, NEW b \in Byte
               PROVE  SickPair({}, pair, b) \in Register(16) \X Byte
    OBVIOUS
  <2>1. ForwardShift(16, POLY_SICK, pair[1]) \in Register(16)
    <3>1. POLY_SICK \in Register(16)
      BY DEF POLY_SICK, Register, Bits
    <3> QED
      BY <3>1, ShiftsType, XorType DEF ForwardShift
  <2>2. b \cup Shl(16, pair[2], 8) \in Register(16)
    <3>1. Shl(16, pair[2], 8) \in Register(16)
      BY ShiftsType
    <3>2. b \subseteq Bits(16)
      BY DEF Byte, Register, Bits
    <3> QED
      BY <3>1, <3>2 DEF Register
  <2>3. UpdateSick(pair[1], b, pair[2]) \in Register(16)
    BY <2>1, <2>2, XorType DEF UpdateSick
  <2> QED
    BY <2>3 DEF SickPair
<1>2. <<{}, {}>> \in Register(16) \X Byte
  BY DEF Register, Byte
<1> QED
  BY <1>1, <1>2, Pairs!FoldType

(* The running values keep their widths. *)
LEMMA RunningTyped ==
  ASSUME NEW data \in Seq(Byte), NEW values, NEW before, Running(values, before, data)
  PROVE  \A n \in Crcs : values[n] \in SUBSET Bits(Width(n))
<1>1. ASSUME NEW n \in FoldedCrcs PROVE values[n] \in SUBSET Bits(Width(n))
  <2> DEFINE a == Parameters[n]
  <2>1. WellFormed(a) /\ Width(n) = a.width
    BY CatalogueWellFormed, CrcNames DEF Width
  <2>2. values[n] = Loop(a, a.start, data)
    BY ByteFoldIsLoop DEF Running
  <2> HIDE DEF a
  <2>3. Loop(a, a.start, data) \in Register(a.width)
    BY <2>1, LoopType DEF WellFormed
  <2> QED
    BY <2>1, <2>2, <2>3 DEF Register
<1>2. values["crc_sick"] \in SUBSET Bits(Width("crc_sick"))
  <2>1. <<values["crc_sick"], before>> \in Register(16) \X Byte
    BY SickPairTyped DEF Running
  <2>2. values["crc_sick"] \in Register(16)
    BY <2>1
  <2> QED
    BY <2>2 DEF Width, Register
<1> QED
  BY <1>1, <1>2, CrcNames

(* In the loops: the values are in their widths, no more is folded than   *)
(* there is, and the harness's first block can be read back.              *)
FoldingTyped ==
  phase = "bytes" =>
    /\ taken \in 0 .. Len(case.data)
    /\ \A n \in Crcs : crcs[n] \in SUBSET Bits(Width(n))
    /\ side = "oracle" => Decode(wire[1]) = OracleOneShot(case)

LEMMA FoldsTyped == BlocksInv => FoldingTyped
<1> SUFFICES ASSUME BlocksInv, phase = "bytes"
             PROVE  /\ taken \in 0 .. Len(case.data)
                    /\ \A n \in Crcs : crcs[n] \in SUBSET Bits(Width(n))
                    /\ side = "oracle" => Decode(wire[1]) = OracleOneShot(case)
  BY DEF FoldingTyped
<1> DEFINE view == PortView(case)
           part == SubSeq(view, 1, taken)
<1>1. case \in Cases /\ side \in {"oracle", "port"} /\ taken \in 0 .. Len(view) /\ Running(crcs, prev, part)
  BY DEF BlocksInv
<1>2. view \in Seq(Byte) /\ case.data \in Seq(Byte)
  BY <1>1, ViewOfCase
<1>3. part \in Seq(Byte)
  <2> HIDE DEF view
  <2> QED
    BY <1>1, <1>2
<1>4. \A n \in Crcs : crcs[n] \in SUBSET Bits(Width(n))
  <2> HIDE DEF part
  <2> QED
    BY <1>1, <1>3, RunningTyped
<1>5. taken \in 0 .. Len(case.data)
  <2>1. Len(case.data) \in Nat /\ Len(<<>>) = 0
    BY <1>2
  <2> QED
    BY <1>1, <2>1 DEF PortView
<1>6. ASSUME side = "oracle" PROVE Decode(wire[1]) = OracleOneShot(case)
  <2>1. wire = <<Encode(OracleOneShot(case))>>
    BY <1>6 DEF BlocksInv
  <2>2. wire[1] = Encode(OracleOneShot(case))
    BY <2>1
  <2>3. Decode(Encode(OracleOneShot(case))) = OracleOneShot(case)
    BY <1>1, BlocksFit, DecodedIsEncoded
  <2> QED
    BY <2>2, <2>3
<1> QED
  BY <1>4, <1>5, <1>6

(* Every running value keeps the width of its C type, whatever the        *)
(* payload, and what the harness put on the wire reads back as the values *)
(* it was made of.                                                        *)
THEOREM BlocksTyped == BlocksSpec => []BlocksTypeOK
<1>1. BlocksInit => BlocksTypeOK
  <2> SUFFICES ASSUME BlocksInit PROVE BlocksTypeOK
    OBVIOUS
  <2>1. case.data \in Seq(Byte) /\ <<>> \in Seq(Byte)
    BY BlocksAssumption DEF BlocksInit
  <2>2. \A n \in Crcs : crcs[n] \in SUBSET Bits(Width(n))
    BY <2>1, RunningStarts, RunningTyped DEF BlocksInit
  <2>3. taken \in 0 .. Len(case.data)
    BY <2>1 DEF BlocksInit
  <2> QED
    BY <2>2, <2>3 DEF BlocksInit, BlocksTypeOK
<1>2. BlocksInv => FoldingTyped
  BY FoldsTyped
<1>3. /\ BlocksInv' /\ FoldingTyped' /\ BlocksTypeOK
      /\ [BlocksNext]_blocksVars
      => BlocksTypeOK'
  <2> SUFFICES ASSUME BlocksInv', FoldingTyped', BlocksTypeOK, [BlocksNext]_blocksVars
               PROVE  BlocksTypeOK'
    OBVIOUS
  <2>1. case' \in Cases /\ phase' \in {"oneshot", "bytes", "compare", "done"}
    BY DEF BlocksInv
  <2>2. CASE phase' = "bytes"
    BY <2>1, <2>2 DEF FoldingTyped, BlocksTypeOK
  <2>3. CASE phase' # "bytes"
    <3>1. UNCHANGED <<case, taken, crcs>>
      BY <2>3 DEF BlocksNext, ComputeOneShot, FoldRunning, FinishBlock, Compare, blocksVars
    <3> QED
      BY <2>1, <2>3, <3>1 DEF BlocksTypeOK
  <2> QED
    BY <2>2, <2>3
<1> QED
  BY <1>1, <1>2, <1>3, BlocksInitInv, BlocksStepInv, PTL DEF BlocksSpec

-----------------------------------------------------------------------------
(* The C ABI.  What the original's checksum_NMEA does with a sentence of  *)
(* bytes that has a terminator.                                           *)

(* It stops at the first one. *)
LEMMA StopIsFirst ==
  ASSUME NEW bytes \in Seq(Byte), HasTerminator(bytes)
  PROVE  /\ OriginalStop(bytes) \in 1 .. Len(bytes)
         /\ bytes[OriginalStop(bytes)] \in Terminators
         /\ \A j \in 1 .. OriginalStop(bytes) - 1 : bytes[j] \notin Terminators
<1> DEFINE I == {k \in 1 .. Len(bytes) : bytes[k] \in Terminators}
<1>1. I \subseteq Nat /\ I # {} /\ DOMAIN bytes = 1 .. Len(bytes) /\ Len(bytes) \in Nat
  BY DEF HasTerminator
<1>2. PICK k \in I : \A j \in I : k <= j
  <2> HIDE DEF I
  <2> QED
    BY <1>1, Crc!LeastOf
<1>3. k \in 1 .. Len(bytes) /\ bytes[k] \in Terminators
  OBVIOUS
<1>4. \A j \in 1 .. k - 1 : bytes[j] \notin Terminators
  <2> SUFFICES ASSUME NEW j \in 1 .. k - 1, bytes[j] \in Terminators PROVE FALSE
    OBVIOUS
  <2>1. j \in 1 .. Len(bytes) /\ j < k
    BY <1>1, <1>3
  <2>2. j \in I
    BY <2>1
  <2> HIDE DEF I
  <2> QED
    BY <1>2, <1>3, <2>1, <2>2
<1>5. \E n \in DOMAIN bytes :
        bytes[n] \in Terminators /\ \A j \in 1 .. n - 1 : bytes[j] \notin Terminators
  BY <1>1, <1>3, <1>4
<1>6. /\ OriginalStop(bytes) \in DOMAIN bytes
      /\ bytes[OriginalStop(bytes)] \in Terminators
      /\ \A j \in 1 .. OriginalStop(bytes) - 1 : bytes[j] \notin Terminators
  BY <1>5 DEF OriginalStop
<1> QED
  BY <1>1, <1>6

(* The bits of an exclusive or are the parities of the bits. *)
Odds(bytes, from, n) ==
  {i \in Bits(8) : Cardinality({k \in from .. n : i \in bytes[k]}) % 2 = 1}

LEMMA OddsNext ==
  ASSUME NEW bytes, NEW from \in {1, 2}, NEW n \in Nat, n + 1 >= from,
         bytes[n + 1] \in Byte
  PROVE  Odds(bytes, from, n + 1) = Odds(bytes, from, n) ^^ bytes[n + 1]
<1> DEFINE At(i, m) == {k \in from .. m : i \in bytes[k]}
<1>1. ASSUME NEW i \in Bits(8)
      PROVE  (Cardinality(At(i, n + 1)) % 2 = 1)
               <=> ~((Cardinality(At(i, n)) % 2 = 1) <=> (i \in bytes[n + 1]))
  <2>1. IsFiniteSet(At(i, n)) /\ Cardinality(At(i, n)) \in Nat
    <3>1. IsFiniteSet(from .. n)
      BY FS_Interval
    <3>2. At(i, n) \subseteq from .. n
      OBVIOUS
    <3> HIDE DEF At
    <3>3. IsFiniteSet(At(i, n))
      BY <3>1, <3>2, FS_Subset
    <3> QED
      BY <3>3, FS_CardinalityType
  <2>2. n + 1 \notin At(i, n)
    OBVIOUS
  <2>3. i \in bytes[n + 1] => At(i, n + 1) = At(i, n) \cup {n + 1}
    OBVIOUS
  <2>4. i \notin bytes[n + 1] => At(i, n + 1) = At(i, n)
    OBVIOUS
  <2> HIDE DEF At
  <2>5. i \in bytes[n + 1] => Cardinality(At(i, n + 1)) = Cardinality(At(i, n)) + 1
    BY <2>1, <2>2, <2>3, FS_AddElement
  <2>6. \A m \in Nat : ((m + 1) % 2 = 1) <=> ~(m % 2 = 1)
    OBVIOUS
  <2> QED
    BY <2>1, <2>4, <2>5, <2>6
<1>2. \A i :
        /\ i \in Odds(bytes, from, n + 1)
             <=> i \in Bits(8) /\ Cardinality(At(i, n + 1)) % 2 = 1
        /\ i \in Odds(bytes, from, n)
             <=> i \in Bits(8) /\ Cardinality(At(i, n)) % 2 = 1
  BY DEF Odds
<1>3. bytes[n + 1] \subseteq Bits(8)
  BY DEF Byte, Register
<1> HIDE DEF At
<1>4. \A i : i \in Odds(bytes, from, n + 1)
                 <=> ~(i \in Odds(bytes, from, n) <=> i \in bytes[n + 1])
  BY <1>1, <1>2, <1>3
<1>5. \A i : i \in Odds(bytes, from, n) ^^ bytes[n + 1]
                 <=> ~(i \in Odds(bytes, from, n) <=> i \in bytes[n + 1])
  BY XorMember
<1>6. \A i : i \in Odds(bytes, from, n + 1) <=> i \in Odds(bytes, from, n) ^^ bytes[n + 1]
  BY <1>4, <1>5
<1> QED
  BY <1>6

LEMMA XorIsOdds ==
  ASSUME NEW bytes \in Seq(Byte), NEW from \in {1, 2}, NEW n \in Nat,
         from - 1 <= n, n <= Len(bytes)
  PROVE  Xors!Fold({}, {}, SubSeq(bytes, from, n)) = Odds(bytes, from, n)
<1> DEFINE F(m) == Xors!Fold({}, {}, SubSeq(bytes, from, m))
           N == {m \in Nat : from - 1 <= m /\ m <= Len(bytes) => F(m) = Odds(bytes, from, m)}
<1>1. ASSUME NEW m \in Nat, m = from - 1 PROVE F(m) = Odds(bytes, from, m)
  <2>1. SubSeq(bytes, from, m) = <<>>
    BY <1>1
  <2>2. F(m) = {}
    BY <2>1, Xors!FoldEmpty
  <2>3. \A i : {k \in from .. m : i \in bytes[k]} = {}
    BY <1>1
  <2>4. Cardinality({}) = 0
    BY FS_EmptySet
  <2>5. 0 % 2 # 1
    OBVIOUS
  <2>6. Odds(bytes, from, m) = {}
    BY <2>3, <2>4, <2>5, Zenon DEF Odds
  <2> QED
    BY <2>2, <2>6
<1>2. 0 \in N
  <2> SUFFICES ASSUME from - 1 <= 0 PROVE F(0) = Odds(bytes, from, 0)
    OBVIOUS
  <2>1. 0 = from - 1
    OBVIOUS
  <2> QED
    BY <1>1, <2>1
<1>3. ASSUME NEW m \in Nat, m \in N PROVE m + 1 \in N
  <2> SUFFICES ASSUME from - 1 <= m + 1, m + 1 <= Len(bytes)
               PROVE  F(m + 1) = Odds(bytes, from, m + 1)
    OBVIOUS
  <2>1. CASE m + 1 = from - 1
    BY <1>1, <2>1
  <2>2. CASE m + 1 # from - 1
    <3> DEFINE p == SubSeq(bytes, from, m)
               b == bytes[m + 1]
    <3>1. from - 1 <= m /\ m <= Len(bytes) /\ m + 1 >= from
      BY <2>2
    <3>2. p \in Seq(Byte) /\ b \in Byte
      BY <3>1
    <3>3. SubSeq(bytes, from, m + 1) = Append(p, b)
      BY <3>1
    <3>4. F(m) = Odds(bytes, from, m)
      BY <1>3, <3>1
    <3>5. Odds(bytes, from, m + 1) = Odds(bytes, from, m) ^^ b
      BY <3>1, <3>2, OddsNext
    <3> HIDE DEF p, b
    <3>6. Xors!Fold({}, {}, Append(p, b)) = NmeaXor({}, Xors!Fold({}, {}, p), b)
      BY <3>2, Xors!FoldAppend
    <3> QED
      BY <3>3, <3>4, <3>5, <3>6 DEF NmeaXor, p
  <2> QED
    BY <2>1, <2>2
<1>4. Nat \subseteq N
  <2> HIDE DEF N
  <2> QED
    BY <1>2, <1>3, Crc!NatSetInduction
<1> QED
  BY <1>4

(* A slice without its first element. *)
LEMMA SliceTail ==
  ASSUME NEW S, NEW s \in Seq(S), NEW m \in 1 .. Len(s)
  PROVE  /\ SubSeq(s, 1, m) # <<>>
         /\ Head(SubSeq(s, 1, m)) = s[1]
         /\ Tail(SubSeq(s, 1, m)) = SubSeq(s, 2, m)
         /\ SubSeq(s, 2, m) \in Seq(S)
         /\ Len(SubSeq(s, 2, m)) = m - 1
         /\ \A j \in 1 .. m - 1 : SubSeq(s, 2, m)[j] = s[j + 1]
<1> DEFINE t == SubSeq(s, 1, m)
           u == SubSeq(s, 2, m)
<1>1. /\ t \in Seq(S) /\ Len(t) = m
      /\ \A j \in 1 .. m : t[j] = s[j]
  OBVIOUS
<1>2. /\ u \in Seq(S) /\ Len(u) = m - 1
      /\ \A j \in 1 .. m - 1 : u[j] = s[j + 1]
  OBVIOUS
<1> HIDE DEF t, u
<1>3. t # <<>> /\ Head(t) = s[1]
  BY <1>1
<1>4. /\ Tail(t) \in Seq(S) /\ Len(Tail(t)) = m - 1
      /\ \A j \in 1 .. m - 1 : Tail(t)[j] = s[j + 1]
  BY <1>1, <1>3
<1>5. Tail(t) = u
  BY <1>2, <1>4
<1> QED
  BY <1>2, <1>3, <1>5 DEF t, u

(* The port's checksum of the slice that the scan found is the original's *)
(* of the sentence it began in.                                           *)
LEMMA SumOfSlice ==
  ASSUME NEW bytes \in Seq(Byte), HasTerminator(bytes)
  PROVE  OneShot("nmea", SubSeq(bytes, 1, OriginalStop(bytes) - 1)) = OriginalSum(bytes)
<1> DEFINE stop == OriginalStop(bytes)
           slice == SubSeq(bytes, 1, stop - 1)
           from == IF bytes[1] = DOLLAR THEN 2 ELSE 1
<1>1. /\ stop \in 1 .. Len(bytes) /\ bytes[stop] \in Terminators
      /\ \A j \in 1 .. stop - 1 : bytes[j] \notin Terminators
  BY StopIsFirst
<1>2. OriginalSum(bytes) = Odds(bytes, from, stop - 1)
  BY DEF OriginalSum, Odds
<1> HIDE DEF stop
<1>3. Len(bytes) \in Nat /\ stop - 1 \in Nat /\ stop - 1 <= Len(bytes)
  BY <1>1
<1>4. from = 2 => stop >= 2
  <2>1. DOLLAR \notin Terminators
    <3>1. 2 \in DOLLAR /\ 5 \in DOLLAR
      BY DEF DOLLAR
    <3>2. \A t \in Terminators : ~(2 \in t /\ 5 \in t)
      BY DEF Terminators
    <3> QED
      BY <3>1, <3>2
  <2> QED
    BY <1>1, <2>1
<1>5. slice \in Seq(Byte) /\ Len(slice) = stop - 1 /\ \A j \in 1 .. stop - 1 : slice[j] = bytes[j]
  BY <1>3
<1>6. ASSUME NEW s \in Seq(Byte), \A j \in 1 .. Len(s) : s[j] \notin Terminators
      PROVE  Sentence(s) = s
  <2>1. EndsAt(s, Len(s))
    BY <1>6 DEF EndsAt
  <2>2. SubSeq(s, 1, Len(s)) = s
    OBVIOUS
  <2> QED
    BY <2>1, <2>2, SentenceOfLength
<1>7. Sentence(StripDollar(slice)) = SubSeq(bytes, from, stop - 1)
  <2>1. CASE bytes[1] = DOLLAR
    <3> DEFINE rest == SubSeq(bytes, 2, stop - 1)
    <3>1. stop >= 2
      BY <1>4, <2>1
    <3>2. slice # <<>> /\ Head(slice) = DOLLAR /\ Tail(slice) = rest
      BY <1>1, <1>3, <2>1, <3>1, SliceTail
    <3>3. rest \in Seq(Byte) /\ \A j \in 1 .. Len(rest) : rest[j] \notin Terminators
      <4>1. rest \in Seq(Byte) /\ Len(rest) = stop - 2
        BY <1>1, <1>3, <3>1, SliceTail
      <4>2. \A j \in 1 .. stop - 2 : rest[j] = bytes[j + 1] /\ j + 1 \in 1 .. stop - 1
        BY <1>1, <1>3, <3>1, SliceTail
      <4> HIDE DEF rest
      <4> QED
        BY <1>1, <4>1, <4>2
    <3> HIDE DEF rest, slice
    <3>4. Sentence(rest) = rest
      BY <1>6, <3>3
    <3> QED
      BY <2>1, <3>2, <3>4 DEF StripDollar, rest
  <2>2. CASE bytes[1] # DOLLAR
    <3>1. ~(slice # <<>> /\ Head(slice) = DOLLAR)
      BY <1>3, <1>5, <2>2
    <3> HIDE DEF slice
    <3>2. Sentence(slice) = slice
      BY <1>1, <1>5, <1>6
    <3> QED
      BY <2>2, <3>1, <3>2 DEF StripDollar, slice
  <2> QED
    BY <2>1, <2>2
<1>8. Xors!Fold({}, {}, SubSeq(bytes, from, stop - 1)) = Odds(bytes, from, stop - 1)
  <2>1. from \in {1, 2} /\ from - 1 <= stop - 1
    <3>1. CASE bytes[1] = DOLLAR
      <4>1. from = 2
        BY <3>1
      <4> QED
        BY <1>1, <1>3, <1>4, <4>1
    <3>2. CASE bytes[1] # DOLLAR
      <4>1. from = 1
        BY <3>2
      <4> HIDE DEF from
      <4> QED
        BY <1>3, <4>1
    <3> QED
      BY <3>1, <3>2
  <2> HIDE DEF from
  <2> QED
    BY <1>3, <2>1, XorIsOdds
<1> HIDE DEF from, slice
<1>9. NmeaOneShot(slice) = Odds(bytes, from, stop - 1)
  BY <1>7, <1>8, NmeaXorFold
<1> QED
  BY <1>2, <1>9, OneShotOf DEF slice, stop

(* The call that is being made, what it has looked at and what it has     *)
(* answered.                                                              *)
Asked ==
  /\ export \in Exports
  /\ input_str = NULL \/ \E b \in Buffers : input_str = Pointer(b)
  /\ has_result \in BOOLEAN
  /\ export = "nmea" /\ ~input_str.null => HasTerminator(input_str.to)
  /\ export # "nmea" => num_bytes \in Nat
  /\ export # "nmea" /\ ~input_str.null => num_bytes <= Len(input_str.to)

Scanning ==
  /\ export = "nmea" /\ ~input_str.null /\ has_result
  /\ value = NULL

AbiInv ==
  /\ Asked
  /\ doing \in {"call", "scan", "sentence", "returned"}
  /\ doing = "call" => scanned = 0 /\ touched = {} /\ value = NULL
  /\ doing = "scan" =>
       /\ Scanning
       /\ scanned \in 0 .. OriginalStop(input_str.to) - 1
       /\ touched = 1 .. scanned
  /\ doing = "sentence" =>
       /\ Scanning
       /\ scanned = OriginalStop(input_str.to) - 1
       /\ touched = OriginalReads(input_str.to)
  /\ doing = "returned" => AsTheOriginal

(* What a pointer is, and what memory of the caller it leads to. *)
LEMMA PointerIs ==
  /\ NULL.null = TRUE
  /\ \A b : Pointer(b).null = FALSE /\ Pointer(b).to = b
  /\ \A v : Value(v) # NULL
BY DEF NULL, Pointer, Value

LEMMA SentenceAsked ==
  ASSUME Asked, ~input_str.null
  PROVE  /\ input_str.to \in Seq(Byte)
         /\ export = "nmea" => HasTerminator(input_str.to)
<1>1. PICK b \in Buffers : input_str = Pointer(b)
  BY PointerIs DEF Asked
<1>2. input_str.to = b
  BY <1>1, PointerIs
<1> QED
  BY <1>1, <1>2, CAbiAssumption DEF Asked

LEMMA AbiInitInv == CallInit => AbiInv
<1> SUFFICES ASSUME CallInit PROVE AbiInv
  OBVIOUS
<1>1. input_str = NULL \/
        \E b \in Buffers : input_str = Pointer(b) /\ (export = "nmea" => HasTerminator(b))
  BY DEF CallInit
<1>2. /\ export \in Exports /\ has_result \in BOOLEAN
      /\ doing = "call" /\ scanned = 0 /\ touched = {} /\ value = NULL
  BY DEF CallInit
<1>3. CASE input_str = NULL
  <2>1. input_str.null
    BY <1>3, PointerIs
  <2>2. num_bytes \in {0, 2}
    BY <2>1 DEF CallInit
  <2> QED
    BY <1>3, <1>2, <2>1, <2>2 DEF AbiInv, Asked
<1>4. CASE \E b \in Buffers : input_str = Pointer(b) /\ (export = "nmea" => HasTerminator(b))
  <2>1. PICK b \in Buffers : input_str = Pointer(b) /\ (export = "nmea" => HasTerminator(b))
    BY <1>4
  <2>2. ~input_str.null /\ input_str.to = b
    BY <2>1, PointerIs
  <2>3. Len(b) \in Nat
    BY CAbiAssumption
  <2>4. export # "nmea" => num_bytes \in 0 .. Len(b)
    BY <2>2 DEF CallInit
  <2> QED
    BY <1>2, <2>1, <2>2, <2>3, <2>4 DEF AbiInv, Asked
<1> QED
  BY <1>1, <1>3, <1>4

LEMMA AbiStepInv == AbiInv /\ [CallNext]_callVars => AbiInv'
<1> SUFFICES ASSUME AbiInv, [CallNext]_callVars PROVE AbiInv'
  OBVIOUS
<1>1. CASE CallCrc
  <2>1. /\ doing = "call" /\ export # "nmea" /\ UNCHANGED <<callArgs, scanned>>
        /\ value' = Value(OneShot(export, AsSlice(input_str, num_bytes)))
        /\ touched' = 1 .. Len(AsSlice(input_str, num_bytes))
        /\ doing' = "returned"
    BY <1>1 DEF CallCrc
  <2>2. Asked /\ num_bytes \in Nat
    BY <2>1 DEF AbiInv, Asked
  <2>3. CASE input_str.null
    <3>1. AsSlice(input_str, num_bytes) = <<>>
      BY <2>3 DEF AsSlice
    <3>2. touched' = {} /\ value' = Value(OneShot(export, <<>>))
      BY <2>1, <3>1
    <3> QED
      BY <2>1, <2>2, <2>3, <3>2
         DEF AbiInv, Asked, AsTheOriginal, ReadsWhatOriginalReads, AnswersAsOriginal, callArgs
  <2>4. CASE ~input_str.null
    <3>1. AsSlice(input_str, num_bytes) = SubSeq(input_str.to, 1, num_bytes)
      BY <2>4 DEF AsSlice
    <3>2. input_str.to \in Seq(Byte) /\ num_bytes <= Len(input_str.to)
      BY <2>1, <2>2, <2>4, SentenceAsked DEF Asked
    <3>3. Len(AsSlice(input_str, num_bytes)) = num_bytes
      BY <2>2, <3>1, <3>2
    <3>4. touched' = 1 .. num_bytes
      BY <2>1, <3>3
    <3> QED
      BY <2>1, <2>2, <2>4, <3>1, <3>4
         DEF AbiInv, Asked, AsTheOriginal, ReadsWhatOriginalReads, AnswersAsOriginal, callArgs
  <2> QED
    BY <2>3, <2>4
<1>2. CASE CallNmeaNull
  <2>1. /\ export = "nmea"
        /\ input_str.null \/ ~has_result
        /\ touched = {} /\ value = NULL
        /\ doing' = "returned" /\ UNCHANGED <<callArgs, scanned, touched, value>>
    BY <1>2 DEF CallNmeaNull, AbiInv
  <2> QED
    BY <2>1 DEF AbiInv, Asked, AsTheOriginal, ReadsWhatOriginalReads, AnswersAsOriginal,
                callArgs
<1>3. CASE CallNmea
  <2>1. /\ doing = "call" /\ export = "nmea" /\ ~input_str.null /\ has_result
        /\ doing' = "scan" /\ UNCHANGED <<callArgs, scanned, touched, value>>
        /\ scanned = 0 /\ touched = {} /\ value = NULL
    BY <1>3 DEF CallNmea, AbiInv
  <2>2. OriginalStop(input_str.to) \in Nat /\ OriginalStop(input_str.to) >= 1
    BY <2>1, SentenceAsked, StopIsFirst DEF AbiInv
  <2> QED
    BY <2>1, <2>2 DEF AbiInv, Asked, Scanning, callArgs
<1>4. CASE ScanByte
  <2> DEFINE stop == OriginalStop(input_str.to)
  <2>1. /\ doing = "scan" /\ scanned + 1 \in DOMAIN input_str.to
        /\ input_str.to[scanned + 1] \notin Terminators
        /\ touched' = touched \cup {scanned + 1} /\ scanned' = scanned + 1
        /\ UNCHANGED <<callArgs, doing, value>>
        /\ Scanning /\ scanned \in 0 .. stop - 1 /\ touched = 1 .. scanned
    BY <1>4 DEF ScanByte, Stops, AbiInv
  <2>2. stop \in Nat /\ input_str.to[stop] \in Terminators
    BY <2>1, SentenceAsked, StopIsFirst DEF AbiInv, Scanning
  <2> HIDE DEF stop
  <2>3. scanned' \in 0 .. stop - 1 /\ touched' = 1 .. scanned'
    BY <2>1, <2>2
  <2> QED
    BY <2>1, <2>3 DEF AbiInv, Asked, Scanning, callArgs, stop
<1>5. CASE ScanStop
  <2> DEFINE stop == OriginalStop(input_str.to)
  <2>1. /\ doing = "scan" /\ doing' = "sentence"
        /\ scanned + 1 \in DOMAIN input_str.to => input_str.to[scanned + 1] \in Terminators
        /\ touched' = touched \cup {scanned + 1}
        /\ UNCHANGED <<callArgs, scanned, value>>
        /\ Scanning /\ scanned \in 0 .. stop - 1 /\ touched = 1 .. scanned
    BY <1>5 DEF ScanStop, Stops, AbiInv
  <2>2. /\ input_str.to \in Seq(Byte) /\ stop \in 1 .. Len(input_str.to)
        /\ \A j \in 1 .. stop - 1 : input_str.to[j] \notin Terminators
    BY <2>1, SentenceAsked, StopIsFirst DEF AbiInv, Scanning
  <2> HIDE DEF stop
  <2>3. scanned = stop - 1
    BY <2>1, <2>2
  <2>4. touched' = 1 .. stop
    BY <2>1, <2>2, <2>3
  <2> QED
    BY <2>1, <2>3, <2>4 DEF AbiInv, Asked, Scanning, OriginalReads, callArgs, stop
<1>6. CASE ReturnNmea
  <2>1. /\ doing = "sentence" /\ doing' = "returned"
        /\ value' = Value(OneShot("nmea", SubSeq(input_str.to, 1, scanned)))
        /\ UNCHANGED <<callArgs, scanned, touched>>
        /\ Scanning /\ scanned = OriginalStop(input_str.to) - 1
        /\ touched = OriginalReads(input_str.to)
    BY <1>6 DEF ReturnNmea, AbiInv
  <2>2. value' = Value(OriginalSum(input_str.to))
    BY <2>1, SentenceAsked, SumOfSlice DEF AbiInv, Scanning
  <2> QED
    BY <2>1, <2>2
       DEF AbiInv, Asked, Scanning, AsTheOriginal, ReadsWhatOriginalReads,
           AnswersAsOriginal, callArgs
<1>7. CASE UNCHANGED callVars
  BY <1>7 DEF callVars, callArgs, AbiInv, Asked, Scanning, AsTheOriginal,
              ReadsWhatOriginalReads, AnswersAsOriginal
<1> QED
  BY <1>1, <1>2, <1>3, <1>4, <1>5, <1>6, <1>7 DEF CallNext

LEMMA AbiInvTells == AbiInv => AsTheOriginal
<1> SUFFICES ASSUME AbiInv, doing # "returned" PROVE AsTheOriginal
  BY DEF AbiInv
<1>1. CASE doing = "call"
  BY <1>1 DEF AbiInv, AsTheOriginal, ReadsWhatOriginalReads, AnswersAsOriginal
<1>2. CASE doing = "scan"
  <2>1. Scanning /\ touched = 1 .. scanned
        /\ scanned \in 0 .. OriginalStop(input_str.to) - 1
    BY <1>2 DEF AbiInv
  <2>2. OriginalStop(input_str.to) \in Nat
    BY <2>1, SentenceAsked, StopIsFirst DEF AbiInv, Scanning
  <2>3. touched \subseteq OriginalReads(input_str.to)
    BY <2>1, <2>2 DEF OriginalReads
  <2> QED
    BY <1>2, <2>1, <2>3 DEF AsTheOriginal, ReadsWhatOriginalReads, AnswersAsOriginal, Scanning
<1>3. CASE doing = "sentence"
  BY <1>3 DEF AbiInv, Scanning, AsTheOriginal, ReadsWhatOriginalReads, AnswersAsOriginal
<1> QED
  BY <1>1, <1>2, <1>3 DEF AbiInv

(* A call of the C ABI reads the bytes that the original reads, one by    *)
(* one as it needs them, and returns what the original returns, for any   *)
(* memory and any length that is the caller's: checksum_NMEA's scan       *)
(* (lib.rs:157-176) ends at the first terminator, a '$' or none in front, *)
(* and for NULL nothing is read.                                          *)
THEOREM AsTheOriginalAlways == CallSpec => []AsTheOriginal
<1>1. AbiInv /\ [CallNext]_callVars => AbiInv'
  BY AbiStepInv
<1> QED
  BY <1>1, AbiInitInv, AbiInvTells, PTL DEF CallSpec

(* While a call is under way and when it returns, what it has read is the *)
(* caller's: the scan of checksum_NMEA ends inside the memory it was      *)
(* given, and the twelve stay within the length.                          *)
THEOREM CallTyped == CallSpec => []CallTypeOK
<1> DEFINE Counted == scanned \in Nat
<1>1. CallInit => Counted
  BY DEF CallInit
<1>2. Counted /\ [CallNext]_callVars => Counted'
  BY DEF CallNext, CallCrc, CallNmeaNull, CallNmea, ScanByte, ScanStop, ReturnNmea, callVars
<1>3. AbiInv /\ Counted => CallTypeOK
  <2> SUFFICES ASSUME AbiInv, Counted, ~input_str.null
               PROVE  touched \subseteq DOMAIN input_str.to
    BY DEF AbiInv, Asked, CallTypeOK
  <2>1. Asked /\ input_str.to \in Seq(Byte) /\ ReadsWhatOriginalReads
    BY AbiInvTells, SentenceAsked DEF AbiInv, AsTheOriginal
  <2>2. DOMAIN input_str.to = 1 .. Len(input_str.to) /\ Len(input_str.to) \in Nat
    BY <2>1
  <2>3. CASE export = "nmea"
    <3>1. touched \subseteq 1 .. OriginalStop(input_str.to)
      BY <2>1, <2>3 DEF ReadsWhatOriginalReads, OriginalReads
    <3>2. OriginalStop(input_str.to) \in 1 .. Len(input_str.to)
      BY <2>1, <2>3, SentenceAsked, StopIsFirst
    <3> QED
      BY <2>2, <3>1, <3>2
  <2>4. CASE export # "nmea"
    <3>1. touched \subseteq 1 .. num_bytes /\ num_bytes \in Nat /\ num_bytes <= Len(input_str.to)
      BY <2>1, <2>4 DEF ReadsWhatOriginalReads, Asked
    <3> QED
      BY <2>2, <3>1
  <2> QED
    BY <2>3, <2>4
<1>4. AbiInv /\ [CallNext]_callVars => AbiInv'
  BY AbiStepInv
<1> QED
  BY <1>1, <1>2, <1>3, <1>4, AbiInitInv, PTL DEF CallSpec

-----------------------------------------------------------------------------
(* The table of the benchmark: small workloads, large ones, and two that  *)
(* write nothing.                                                          *)

SmallCount == 2 * Len(SMALL_SIZES)
LastLarge  == SmallCount + Len(LARGE_SIZES)

LEMMA TableOfWorkloads ==
  /\ SmallCount \in Nat /\ LastLarge \in Nat /\ LastLarge > SmallCount
  /\ Len(Workloads) = LastLarge + 2 /\ DOMAIN Workloads = 1 .. LastLarge + 2
  /\ \A j \in 1 .. LastLarge + 2 : Workloads[j] =
       IF j <= SmallCount
       THEN Load(IF j % 2 = 1 THEN "oneshot" ELSE "nmea", SMALL_SIZES[(j + 1) \div 2])
       ELSE IF j <= LastLarge THEN Load("oneshot", LARGE_SIZES[j - SmallCount])
       ELSE IF j = LastLarge + 1 THEN Load("bytewise", BYTEWISE_BYTES) ELSE Load("manysmall", MS_REGION)
<1> DEFINE n == Len(SMALL_SIZES)
           m == Len(LARGE_SIZES)
           L == {SmallLoads[j] : j \in 1 .. 2 * n} \cup {LargeLoads[j] : j \in 1 .. m}
                \cup {Load("bytewise", BYTEWISE_BYTES), Load("manysmall", MS_REGION)}
<1>1. n \in Nat /\ m \in Nat /\ m # 0
  BY BenchAssumption
<1>2. SmallLoads \in Seq(L) /\ Len(SmallLoads) = 2 * n
  BY <1>1 DEF SmallLoads
<1>3. LargeLoads \in Seq(L) /\ Len(LargeLoads) = m
  BY <1>1 DEF LargeLoads
<1>4. OtherLoads \in Seq(L) /\ Len(OtherLoads) = 2
      /\ OtherLoads[1] = Load("bytewise", BYTEWISE_BYTES) /\ OtherLoads[2] = Load("manysmall", MS_REGION)
  <2> DEFINE a == Load("bytewise", BYTEWISE_BYTES)
             b == Load("manysmall", MS_REGION)
  <2>1. a \in L /\ b \in L
    OBVIOUS
  <2> HIDE DEF a, b, L
  <2>2. OtherLoads = <<a, b>>
    BY DEF OtherLoads, a, b
  <2> QED
    BY <2>1, <2>2 DEF a, b
<1>5. \A j \in 1 .. 2 * n : SmallLoads[j] =
        Load(IF j % 2 = 1 THEN "oneshot" ELSE "nmea", SMALL_SIZES[(j + 1) \div 2])
  BY DEF SmallLoads
<1>6. \A j \in 1 .. m : LargeLoads[j] = Load("oneshot", LARGE_SIZES[j])
  BY DEF LargeLoads
<1> HIDE DEF L
<1> DEFINE front == SmallLoads \o LargeLoads
<1>7. /\ front \in Seq(L) /\ Len(front) = 2 * n + m
      /\ \A j \in 1 .. 2 * n : front[j] = SmallLoads[j]
      /\ \A j \in 2 * n + 1 .. 2 * n + m : front[j] = LargeLoads[j - 2 * n]
  BY <1>1, <1>2, <1>3
<1> HIDE DEF front
<1>8. /\ Len(front \o OtherLoads) = 2 * n + m + 2
      /\ DOMAIN (front \o OtherLoads) = 1 .. 2 * n + m + 2
      /\ \A j \in 1 .. 2 * n + m : (front \o OtherLoads)[j] = front[j]
      /\ (front \o OtherLoads)[2 * n + m + 1] = OtherLoads[1]
      /\ (front \o OtherLoads)[2 * n + m + 2] = OtherLoads[2]
  <2>1. \A f, g \in Seq(L) :
          /\ Len(f \o g) = Len(f) + Len(g) /\ DOMAIN (f \o g) = 1 .. Len(f) + Len(g)
          /\ \A j \in 1 .. Len(f) + Len(g) : (f \o g)[j] = IF j <= Len(f) THEN f[j] ELSE g[j - Len(f)]
    OBVIOUS
  <2> DEFINE both == front \o OtherLoads
  <2>2. /\ Len(both) = Len(front) + 2 /\ DOMAIN both = 1 .. Len(front) + 2
        /\ \A j \in 1 .. Len(front) + 2 :
             both[j] = IF j <= Len(front) THEN front[j] ELSE OtherLoads[j - Len(front)]
    BY <1>4, <1>7, <2>1
  <2> HIDE DEF both, n, m
  <2>3. /\ Len(both) = 2 * n + m + 2 /\ DOMAIN both = 1 .. 2 * n + m + 2
        /\ \A j \in 1 .. 2 * n + m : both[j] = front[j]
        /\ both[2 * n + m + 1] = OtherLoads[1] /\ both[2 * n + m + 2] = OtherLoads[2]
    <3> DEFINE k == 2 * n + m
    <3>1. k \in Nat /\ Len(front) = k
      BY <1>1, <1>7
    <3> HIDE DEF k
    <3>2. k + 1 \in 1 .. k + 2 /\ k + 2 \in 1 .. k + 2 /\ k + 1 - k = 1 /\ k + 2 - k = 2
          /\ ~(k + 1 <= k) /\ ~(k + 2 <= k) /\ 1 .. k \subseteq 1 .. k + 2
      BY <3>1
    <3>3. /\ Len(both) = k + 2 /\ DOMAIN both = 1 .. k + 2
          /\ \A j \in 1 .. k : both[j] = front[j]
      BY ONLY <2>2, <3>1, <3>2
    <3>4. both[k + 1] = OtherLoads[1] /\ both[k + 2] = OtherLoads[2]
      BY ONLY <2>2, <3>1, <3>2
    <3> QED
      BY <3>3, <3>4 DEF k
  <2> QED
    BY <2>3 DEF both
<1>9. Workloads = front \o OtherLoads
  BY DEF Workloads, front
<1>10. SmallCount = 2 * n /\ LastLarge = 2 * n + m
  BY DEF SmallCount, LastLarge
<1>11. ASSUME NEW j \in 1 .. LastLarge + 2
       PROVE  Workloads[j] =
                IF j <= SmallCount
                THEN Load(IF j % 2 = 1 THEN "oneshot" ELSE "nmea", SMALL_SIZES[(j + 1) \div 2])
                ELSE IF j <= LastLarge THEN Load("oneshot", LARGE_SIZES[j - SmallCount])
                ELSE IF j = LastLarge + 1 THEN Load("bytewise", BYTEWISE_BYTES)
                ELSE Load("manysmall", MS_REGION)
  <2> HIDE DEF n, m
  <2>1. CASE j <= SmallCount
    <3>1. j \in 1 .. 2 * n
      BY <1>1, <1>10, <2>1
    <3>2. Workloads[j] = SmallLoads[j]
      BY <1>1, <1>7, <1>8, <1>9, <3>1
    <3> QED
      BY <1>5, <2>1, <3>1, <3>2
  <2>2. CASE j > SmallCount /\ j <= LastLarge
    <3>1. j \in 2 * n + 1 .. 2 * n + m /\ j - 2 * n \in 1 .. m /\ j \in 1 .. 2 * n + m
      BY <1>1, <1>10, <2>2
    <3>2. Workloads[j] = Load("oneshot", LARGE_SIZES[j - 2 * n])
      BY <1>6, <1>7, <1>8, <1>9, <3>1
    <3> QED
      BY <1>1, <1>10, <2>2, <3>2
  <2>3. CASE j = LastLarge + 1
    BY <1>1, <1>4, <1>8, <1>9, <1>10, <2>3
  <2>4. CASE j = LastLarge + 2
    BY <1>1, <1>4, <1>8, <1>9, <1>10, <2>4
  <2> QED
    BY <1>1, <1>10, <2>1, <2>2, <2>3, <2>4
<1> QED
  BY <1>1, <1>8, <1>9, <1>10, <1>11

(* The sizes are within the buffers; the last large one fills the clock;  *)
(* and behind it, nothing writes.                                         *)
LEMMA WorkloadKinds ==
  ASSUME NEW w \in DOMAIN Workloads
  PROVE  /\ w \in 1 .. LastLarge + 2
         /\ Workloads[w].kind \in {"oneshot", "nmea", "bytewise", "manysmall"}
         /\ Workloads[w].bytes \in 1 .. Len(Generated)
         /\ Workloads[w].kind = "nmea" => Workloads[w].bytes \in 1 .. NMEA_MAX - 1
         /\ w = LastLarge => Workloads[w].kind = "oneshot" /\ Workloads[w].bytes >= FILLS_CLOCK
         /\ w > LastLarge <=> Workloads[w].kind \notin {"oneshot", "nmea"}
<1>1. w \in 1 .. LastLarge + 2
  BY TableOfWorkloads
<1>2. CASE w <= SmallCount
  <2> DEFINE half == (w + 1) \div 2
  <2>1. half \in 1 .. Len(SMALL_SIZES)
    <3>1. Len(SMALL_SIZES) \in Nat /\ w <= 2 * Len(SMALL_SIZES)
      BY <1>2, BenchAssumption DEF SmallCount
    <3> QED
      BY <1>1, <3>1
  <2>2. SMALL_SIZES[half] \in 1 .. NMEA_MAX - 1 /\ NMEA_MAX \in 1 .. Len(Generated) /\ Len(Generated) \in Nat
    BY <2>1, BenchAssumption
  <2> HIDE DEF half
  <2>3. Workloads[w] = Load(IF w % 2 = 1 THEN "oneshot" ELSE "nmea", SMALL_SIZES[half])
    BY <1>1, <1>2, TableOfWorkloads DEF half
  <2>4. w < LastLarge
    BY <1>1, <1>2, TableOfWorkloads
  <2>5. Workloads[w].kind \in {"oneshot", "nmea"} /\ Workloads[w].bytes = SMALL_SIZES[half]
    BY <2>3 DEF Load
  <2> QED
    BY <1>1, <2>2, <2>4, <2>5, TableOfWorkloads
<1>3. CASE w > SmallCount /\ w <= LastLarge
  <2> DEFINE j == w - SmallCount
  <2>1. j \in 1 .. Len(LARGE_SIZES) /\ (w = LastLarge => j = Len(LARGE_SIZES))
    BY <1>1, <1>3, TableOfWorkloads, BenchAssumption DEF LastLarge
  <2>2. LARGE_SIZES[j] \in 1 .. Len(Generated) /\ LARGE_SIZES[Len(LARGE_SIZES)] >= FILLS_CLOCK
    BY <2>1, BenchAssumption DEF Last
  <2>3. Workloads[w] = Load("oneshot", LARGE_SIZES[j])
    BY <1>1, <1>3, TableOfWorkloads
  <2> HIDE DEF j
  <2>4. Workloads[w].kind = "oneshot" /\ Workloads[w].bytes = LARGE_SIZES[j]
    BY <2>3 DEF Load
  <2> QED
    BY <1>1, <1>3, <2>1, <2>2, <2>4, TableOfWorkloads
<1>4. CASE w > LastLarge
  <2>1. \/ Workloads[w] = Load("bytewise", BYTEWISE_BYTES)
        \/ Workloads[w] = Load("manysmall", MS_REGION)
    BY <1>1, <1>4, TableOfWorkloads
  <2>2. /\ Workloads[w].kind \in {"bytewise", "manysmall"}
        /\ Workloads[w].bytes \in {BYTEWISE_BYTES, MS_REGION}
    BY <2>1 DEF Load
  <2> QED
    BY <1>1, <1>4, <2>2, TableOfWorkloads, BenchAssumption
<1> QED
  BY <1>1, <1>2, <1>3, <1>4, TableOfWorkloads

-----------------------------------------------------------------------------
(* What both drivers time. *)

Filled == Fill(Generated)
ZERO   == 48

(* The bytes a workload is timed on: the digit of the first call, and     *)
(* what the buffer was filled with.                                       *)
Canon(w) == [p \in 1 .. Workloads[w].bytes |-> IF p = 1 THEN ZERO ELSE Filled[p]]

LEMMA FilledBytes ==
  /\ Len(Generated) \in Nat /\ NMEA_MAX \in 1 .. Len(Generated)
  /\ Filled \in [1 .. Len(Generated) -> Nat]
  /\ \A p \in 1 .. Len(Generated) : Filled[p] \notin Endings
<1>1. Len(Generated) \in Nat /\ DOMAIN Generated = 1 .. Len(Generated)
      /\ \A p \in 1 .. Len(Generated) : Generated[p] \in 33 .. 125
  <2>1. Generated \in Seq(33 .. 125)
    BY BenchAssumption
  <2>2. \A S : \A g \in Seq(S) :
          Len(g) \in Nat /\ DOMAIN g = 1 .. Len(g) /\ \A p \in 1 .. Len(g) : g[p] \in S
    OBVIOUS
  <2> QED
    BY <2>1, <2>2
<1>2. Filled = [p \in 1 .. Len(Generated) |-> IF Generated[p] = 42 THEN 43 ELSE Generated[p]]
  BY <1>1 DEF Filled, Fill, STAR, PLUS
<1>3. ASSUME NEW p \in 1 .. Len(Generated)
      PROVE  Filled[p] \in 33 .. 125 /\ Filled[p] # 42
  BY <1>1, <1>2
<1>4. NMEA_MAX \in 1 .. Len(Generated)
  BY BenchAssumption
<1>5. Filled \in [1 .. Len(Generated) -> Nat]
  <2>1. ASSUME NEW p \in 1 .. Len(Generated) PROVE Filled[p] \in Nat
    <3>1. 33 .. 125 \subseteq Nat
      OBVIOUS
    <3> QED
      BY <1>3, <3>1
  <2> QED
    BY <1>2, <2>1
<1>6. ASSUME NEW p \in 1 .. Len(Generated) PROVE Filled[p] \notin Endings
  <2>1. \A b \in 33 .. 125 : b # 42 => b \notin {0, 10, 13, 42}
    OBVIOUS
  <2> QED
    BY <1>3, <2>1 DEF Endings, STAR, NUL
<1> QED
  BY <1>1, <1>4, <1>5, <1>6

LEMMA SubSeqOfFunction ==
  ASSUME NEW n \in Nat, NEW S, NEW f \in [1 .. n -> S], NEW k \in 0 .. n
  PROVE  SubSeq(f, 1, k) = [p \in 1 .. k |-> f[p]]
<1>1. f \in Seq(S) /\ Len(f) = n
  OBVIOUS
<1>2. SubSeq(f, 1, k) \in Seq(S) /\ Len(SubSeq(f, 1, k)) = k
      /\ \A p \in 1 .. k : SubSeq(f, 1, k)[p] = f[p]
  BY <1>1
<1> QED
  BY <1>2

LEMMA SentenceBytes ==
  /\ SentenceBuffer(Filled) \in [1 .. NMEA_MAX -> Nat]
  /\ \A p \in 1 .. NMEA_MAX - 1 : SentenceBuffer(Filled)[p] = Filled[p]
<1> DEFINE part == SubSeq(Filled, 1, NMEA_MAX - 1)
<1>1. NMEA_MAX - 1 \in 0 .. Len(Generated) /\ NMEA_MAX \in Nat \ {0}
  BY FilledBytes
<1>2. part = [p \in 1 .. NMEA_MAX - 1 |-> Filled[p]]
  BY <1>1, FilledBytes, SubSeqOfFunction
<1> HIDE DEF part
<1>3. part \in Seq(Nat) /\ Len(part) = NMEA_MAX - 1
      /\ \A p \in 1 .. NMEA_MAX - 1 : part[p] = Filled[p]
  BY <1>1, <1>2, FilledBytes
<1>4. /\ Append(part, NUL) \in Seq(Nat) /\ Len(Append(part, NUL)) = NMEA_MAX
      /\ \A p \in 1 .. NMEA_MAX - 1 : Append(part, NUL)[p] = part[p]
  BY <1>1, <1>3 DEF NUL
<1>5. SentenceBuffer(Filled) = Append(part, NUL)
  BY DEF SentenceBuffer, part
<1> HIDE DEF part
<1>6. \A n \in Nat : \A s \in Seq(Nat) : Len(s) = n => s \in [1 .. n -> Nat]
  OBVIOUS
<1> QED
  BY <1>1, <1>3, <1>4, <1>5, <1>6

LEMMA DigitIsByte ==
  /\ \A i \in Nat : Digit(i) \in Nat
  /\ Digit(0) = ZERO
BY DEF Digit, ZERO

(* checksum_nmea is given no terminator before the one that was written. *)
LEMMA ScannedToTheEnd ==
  ASSUME NEW n \in Nat, NEW m \in [1 .. n -> Nat], NEW k \in 1 .. n - 1,
         m[k + 1] = NUL, \A p \in 1 .. k : m[p] \notin Endings
  PROVE  Scanned(m) = [p \in 1 .. k |-> m[p]]
<1> DEFINE I == {p \in 1 .. Len(m) : m[p] \in Endings}
<1>1. Len(m) = n
  OBVIOUS
<1>2. Scanned(m) = SubSeq(m, 1, (IF I # {} THEN Min(I) ELSE 0) - 1)
  BY DEF Scanned, SelectInSeq
<1>3. k + 1 \in I /\ \A p \in I : p \in Nat /\ k + 1 <= p
  BY <1>1 DEF Endings
<1> HIDE DEF I
<1>4. Min(I) \in I /\ \A p \in I : Min(I) <= p
  BY <1>3 DEF Min
<1>5. Min(I) = k + 1
  <2>1. Min(I) \in Nat /\ k + 1 <= Min(I) /\ Min(I) <= k + 1
    BY <1>3, <1>4
  <2> QED
    BY <2>1
<1>6. Scanned(m) = SubSeq(m, 1, k)
  <2>1. I # {} /\ k + 1 - 1 = k
    BY <1>3
  <2> QED
    BY <1>2, <1>5, <2>1
<1> QED
  BY <1>6, SubSeqOfFunction

-----------------------------------------------------------------------------
(* The inductive invariant.  No workload writes behind the first byte of  *)
(* a buffer, and a timed batch begins with a digit of its own, or behind  *)
(* the last large workload.  That one is calibrated to a single call, so  *)
(* that the digit it leaves is the first.                                 *)

AtFill ==
  /\ buf \in [1 .. Len(Generated) -> Nat] /\ nmea \in [1 .. NMEA_MAX -> Nat]
  /\ \A p \in 2 .. Len(Generated) : buf[p] = Filled[p]
  /\ \A p \in 2 .. NMEA_MAX - 1 : nmea[p] = Filled[p]

OneCall == workload = LastLarge => calls = 1

ZeroIsLeft ==
  workload > LastLarge \/ (workload = LastLarge /\ stage # "calibrate") => buf[1] = ZERO

TimedOnCanon ==
  /\ inputs \in [1 .. 2 -> [DOMAIN Workloads -> SUBSET {Canon(w) : w \in DOMAIN Workloads}]]
  /\ \A d \in 1 .. 2, w \in DOMAIN Workloads : inputs[d][w] \subseteq {Canon(w)}

BenchInv ==
  /\ workload \in Nat \ {0} /\ calls \in Nat \ {0}
  /\ AtFill /\ OneCall /\ ZeroIsLeft /\ TimedOnCanon

LEMMA BatchWritesFirstByte ==
  BenchInv /\ Timing /\ Batch =>
    /\ AtFill'
    /\ workload = LastLarge => buf'[1] = ZERO
    /\ workload > LastLarge => buf'[1] = buf[1]
<1> SUFFICES ASSUME BenchInv, Timing, Batch
             PROVE  /\ AtFill'
                    /\ workload = LastLarge => buf'[1] = ZERO
                    /\ workload > LastLarge => buf'[1] = buf[1]
  OBVIOUS
<1> USE DEF BenchInv
<1>1. workload \in DOMAIN Workloads /\ workload \in 1 .. LastLarge + 2 /\ LastLarge \in Nat
  BY TableOfWorkloads DEF Timing
<1>2. /\ Wl.kind = "oneshot" => buf' = [buf EXCEPT ![1] = Digit(calls - 1)]
      /\ Wl.kind # "oneshot" => buf' = buf
      /\ Wl.kind = "nmea" => nmea' = [nmea EXCEPT ![1] = Digit(calls - 1)]
      /\ Wl.kind # "nmea" => nmea' = nmea
  BY DEF Batch
<1>3. Digit(calls - 1) \in Nat
  BY DigitIsByte
<1>4. AtFill'
  <2>1. buf' \in [1 .. Len(Generated) -> Nat] /\ \A p \in 2 .. Len(Generated) : buf'[p] = Filled[p]
    BY <1>2, <1>3, FilledBytes DEF AtFill
  <2>2. nmea' \in [1 .. NMEA_MAX -> Nat] /\ \A p \in 2 .. NMEA_MAX - 1 : nmea'[p] = Filled[p]
    BY <1>2, <1>3, FilledBytes DEF AtFill
  <2> QED
    BY <2>1, <2>2 DEF AtFill, Filled
<1>5. CASE workload = LastLarge
  <2>1. Wl.kind = "oneshot" /\ calls = 1
    BY <1>1, <1>5, WorkloadKinds DEF Wl, OneCall
  <2>2. 1 \in DOMAIN buf
    BY FilledBytes DEF AtFill
  <2>3. buf'[1] = Digit(0)
    BY <1>2, <2>1, <2>2
  <2>4. buf'[1] = ZERO
    BY <2>3, DigitIsByte
  <2> QED
    BY <1>1, <1>4, <1>5, <2>4
<1>6. CASE workload > LastLarge
  BY <1>1, <1>2, <1>4, <1>6, WorkloadKinds DEF Wl
<1> QED
  BY <1>1, <1>4, <1>5, <1>6

(* The first call of a timed batch. *)
LEMMA FirstInput ==
  ASSUME BenchInv, Timing, stage = "sample"
  PROVE  InputOf(0) = Canon(workload)
<1> DEFINE n == Workloads[workload].bytes
<1>1. workload \in DOMAIN Workloads /\ n \in 1 .. Len(Generated) /\ Len(Generated) \in Nat
      /\ Wl = Workloads[workload] /\ Wl.bytes = n
  BY WorkloadKinds, FilledBytes DEF Timing, Wl
<1>2. SubSeq(buf, 1, n) = [p \in 1 .. n |-> buf[p]]
  BY <1>1, SubSeqOfFunction DEF BenchInv, AtFill
<1>3. CASE Wl.kind = "oneshot"
  <2>1. InputOf(0) = [SubSeq(buf, 1, n) EXCEPT ![1] = ZERO]
    BY <1>1, <1>3, DigitIsByte DEF InputOf
  <2> HIDE DEF n
  <2>2. \A p \in 2 .. n : buf[p] = Filled[p]
    BY <1>1 DEF BenchInv, AtFill
  <2>3. InputOf(0) = [p \in 1 .. n |-> IF p = 1 THEN ZERO ELSE Filled[p]]
    <3> DEFINE part == SubSeq(buf, 1, n)
    <3>1. part = [p \in 1 .. n |-> buf[p]]
      BY <1>2 DEF n
    <3>2. InputOf(0) = [part EXCEPT ![1] = ZERO]
      BY <2>1
    <3> HIDE DEF part
    <3> QED
      BY <1>1, <2>2, <3>1, <3>2 DEF n
  <2> QED
    BY <2>3 DEF Canon, n
<1>4. CASE Wl.kind = "nmea"
  <2> DEFINE m == [nmea EXCEPT ![n + 1] = NUL, ![1] = Digit(0)]
  <2>1. n \in 1 .. NMEA_MAX - 1 /\ NMEA_MAX \in Nat
    BY <1>1, <1>4, WorkloadKinds, FilledBytes
  <2>2. InputOf(0) = Scanned(m)
    BY <1>1, <1>4 DEF InputOf
  <2> HIDE DEF n
  <2>3. m \in [1 .. NMEA_MAX -> Nat] /\ m[n + 1] = NUL /\ m[1] = ZERO
        /\ \A p \in 2 .. n : m[p] = Filled[p]
    <3>1. nmea \in [1 .. NMEA_MAX -> Nat] /\ \A p \in 2 .. NMEA_MAX - 1 : nmea[p] = Filled[p]
      BY DEF BenchInv, AtFill
    <3>2. NUL \in Nat /\ Digit(0) = ZERO /\ ZERO \in Nat
      BY DigitIsByte DEF NUL, ZERO
    <3>3. m = [p \in 1 .. NMEA_MAX |-> IF p = 1 THEN ZERO ELSE IF p = n + 1 THEN NUL ELSE nmea[p]]
      BY <2>1, <3>1, <3>2
    <3> HIDE DEF m
    <3> QED
      BY <2>1, <3>1, <3>2, <3>3
  <2> HIDE DEF m
  <2>4. \A p \in 1 .. n : m[p] \notin Endings
    <3>1. ZERO \notin Endings
      BY DEF ZERO, Endings, NUL, STAR
    <3> QED
      BY <1>1, <2>3, <3>1, FilledBytes
  <2>5. Scanned(m) = [p \in 1 .. n |-> m[p]]
    BY <2>1, <2>3, <2>4, ScannedToTheEnd
  <2>6. Scanned(m) = [p \in 1 .. n |-> IF p = 1 THEN ZERO ELSE Filled[p]]
    BY <1>1, <2>3, <2>5
  <2> QED
    BY <2>2, <2>6 DEF Canon, n
<1>5. CASE Wl.kind \notin {"oneshot", "nmea"}
  <2>1. InputOf(0) = SubSeq(buf, 1, n)
    BY <1>1, <1>5 DEF InputOf
  <2>2. workload > LastLarge /\ buf[1] = ZERO
    BY <1>1, <1>5, WorkloadKinds DEF BenchInv, ZeroIsLeft
  <2> HIDE DEF n
  <2>3. \A p \in 2 .. n : buf[p] = Filled[p]
    BY <1>1 DEF BenchInv, AtFill
  <2>4. SubSeq(buf, 1, n) = [p \in 1 .. n |-> IF p = 1 THEN ZERO ELSE Filled[p]]
    BY <1>1, <1>2, <2>2, <2>3
  <2> QED
    BY <2>1, <2>4 DEF Canon, n
<1> QED
  BY <1>3, <1>4, <1>5

-----------------------------------------------------------------------------
LEMMA BenchInitInv == BenchInit => BenchInv
<1> SUFFICES ASSUME BenchInit PROVE BenchInv
  OBVIOUS
<1>1. workload = 1 /\ stage = "calibrate" /\ calls = 1 /\ buf = Filled /\ nmea = SentenceBuffer(Filled)
      /\ inputs = <<[w \in DOMAIN Workloads |-> {}], [w \in DOMAIN Workloads |-> {}]>>
  BY DEF BenchInit, StartDriver, Filled
<1>2. AtFill
  BY <1>1, FilledBytes, SentenceBytes DEF AtFill
<1>3. OneCall /\ ZeroIsLeft
  BY <1>1, TableOfWorkloads DEF OneCall, ZeroIsLeft
<1>4. TimedOnCanon
  BY <1>1 DEF TimedOnCanon
<1> QED
  BY <1>1, <1>2, <1>3, <1>4 DEF BenchInv

LEMMA BenchNextInv == BenchInv /\ [BenchNext]_benchVars => BenchInv'
<1> SUFFICES ASSUME BenchInv, [BenchNext]_benchVars PROVE BenchInv'
  OBVIOUS
<1>a. Timing /\ Batch => /\ AtFill'
                         /\ workload = LastLarge => buf'[1] = ZERO
                         /\ workload > LastLarge => buf'[1] = buf[1]
  BY BatchWritesFirstByte
<1>b. /\ workload \in Nat \ {0} /\ calls \in Nat \ {0}
      /\ AtFill /\ OneCall /\ ZeroIsLeft /\ TimedOnCanon
  BY DEF BenchInv
<1>c. inputs' = inputs => TimedOnCanon'
  BY <1>b DEF TimedOnCanon, Canon
<1>0. LastLarge \in Nat /\ LastLarge' = LastLarge /\ LastLarge >= 1
  BY TableOfWorkloads DEF LastLarge, SmallCount
<1>1. CASE Double
  <2>1. Timing /\ Batch /\ stage = "calibrate" /\ stage' = stage /\ calls' = 2 * calls
        /\ Wl.bytes < FILLS_CLOCK /\ workload' = workload /\ inputs' = inputs
    BY <1>1 DEF Double
  <2>2. workload # LastLarge
    <3> SUFFICES ASSUME workload = LastLarge PROVE FALSE
      OBVIOUS
    <3>1. workload \in DOMAIN Workloads
      BY <2>1 DEF Timing
    <3>2. Wl.bytes >= FILLS_CLOCK /\ Wl.bytes \in Nat /\ FILLS_CLOCK \in Nat
      BY <3>1, WorkloadKinds, BenchAssumption DEF Wl
    <3> QED
      BY <2>1, <3>2
  <2>3. OneCall'
    BY <1>0, <2>1, <2>2, <1>b DEF OneCall
  <2>4. ZeroIsLeft'
    BY <1>0, <2>1, <2>2, <1>a, <1>b DEF ZeroIsLeft
  <2> QED
    BY <2>1, <2>3, <2>4, <1>a, <1>b, <1>c DEF BenchInv
<1>2. CASE Calibrated
  <2>1. Timing /\ Batch /\ calls' = calls /\ workload' = workload /\ inputs' = inputs
    BY <1>2 DEF Calibrated
  <2>2. ZeroIsLeft'
    BY <1>0, <2>1, <1>a, <1>b DEF ZeroIsLeft
  <2> QED
    BY <1>0, <2>1, <2>2, <1>a, <1>b, <1>c DEF BenchInv, OneCall
<1>3. CASE WarmUp
  <2>1. Timing /\ Batch /\ calls' = calls /\ workload' = workload /\ inputs' = inputs
    BY <1>3 DEF WarmUp
  <2>2. ZeroIsLeft'
    BY <1>0, <2>1, <1>a, <1>b DEF ZeroIsLeft
  <2> QED
    BY <1>0, <2>1, <2>2, <1>a, <1>b, <1>c DEF BenchInv, OneCall
<1>4. CASE Sample
  <2>1. Timing /\ stage = "sample" /\ Batch /\ calls' = calls /\ workload' = workload
        /\ inputs' = [inputs EXCEPT ![driver][workload] = @ \cup {InputOf(0)}]
    BY <1>4 DEF Sample
  <2>2. ZeroIsLeft'
    BY <1>0, <2>1, <1>a, <1>b DEF ZeroIsLeft
  <2>3. InputOf(0) = Canon(workload) /\ driver \in 1 .. 2 /\ workload \in DOMAIN Workloads
    BY <2>1, FirstInput DEF Timing
  <2>4. TimedOnCanon'
    <3> DEFINE C == {Canon(w) : w \in DOMAIN Workloads}
    <3>1. inputs' = [inputs EXCEPT ![driver][workload] = @ \cup {Canon(workload)}]
          /\ Canon(workload) \in C
      BY <2>1, <2>3
    <3>2. inputs' \in [1 .. 2 -> [DOMAIN Workloads -> SUBSET C]]
      BY <1>b, <2>3, <3>1 DEF TimedOnCanon
    <3>3. \A d \in 1 .. 2, w \in DOMAIN Workloads : inputs'[d][w] \subseteq {Canon(w)}
      BY <1>b, <2>3, <3>1 DEF TimedOnCanon
    <3> QED
      BY <3>2, <3>3 DEF TimedOnCanon
  <2> QED
    BY <1>0, <2>1, <2>2, <2>4, <1>a, <1>b DEF BenchInv, OneCall
<1>5. CASE WorkloadDone
  <2>1. Timing /\ stage = "sample" /\ workload' = workload + 1 /\ stage' = "calibrate" /\ calls' = 1
        /\ UNCHANGED <<buf, nmea, inputs>>
    BY <1>5 DEF WorkloadDone
  <2>2. OneCall' /\ ZeroIsLeft'
    BY <1>0, <1>b, <2>1 DEF OneCall, ZeroIsLeft
  <2> QED
    BY <1>b, <1>c, <2>1, <2>2 DEF AtFill, BenchInv
<1>6. CASE DriverDone
  <2>1. workload' = 1 /\ stage' = "calibrate" /\ calls' = 1 /\ inputs' = inputs
        /\ buf' = Filled /\ nmea' = SentenceBuffer(Filled)
    BY <1>6 DEF DriverDone, Filled
  <2>2. AtFill'
    BY <2>1, FilledBytes, SentenceBytes DEF AtFill
  <2>3. OneCall' /\ ZeroIsLeft'
    BY <1>0, <2>1, TableOfWorkloads DEF OneCall, ZeroIsLeft
  <2> QED
    BY <1>b, <1>c, <2>1, <2>2, <2>3 DEF BenchInv
<1>7. CASE UNCHANGED benchVars
  BY <1>0, <1>b, <1>c, <1>7 DEF benchVars, AtFill, OneCall, ZeroIsLeft, BenchInv
<1> QED
  BY <1>1, <1>2, <1>3, <1>4, <1>5, <1>6, <1>7 DEF BenchNext

LEMMA BenchInvIsSameBytes == BenchInv => SameBytes
<1> SUFFICES ASSUME BenchInv, NEW w \in DOMAIN inputs[1]
             PROVE  LET seen == inputs[1][w] \cup inputs[2][w]
                    IN  /\ Cardinality(seen) <= 1
                        /\ \A bytes \in seen : Len(bytes) = Workloads[w].bytes
  BY DEF SameBytes
<1> DEFINE seen == inputs[1][w] \cup inputs[2][w]
<1>1. w \in DOMAIN Workloads /\ seen \subseteq {Canon(w)}
  BY DEF BenchInv, TimedOnCanon
<1>2. Len(Canon(w)) = Workloads[w].bytes
  BY <1>1, WorkloadKinds DEF Canon
<1>3. Cardinality({Canon(w)}) = 1 /\ IsFiniteSet({Canon(w)})
  BY FS_Singleton
<1>4. Cardinality(seen) <= 1
  BY <1>1, <1>3, FS_Subset
<1> QED
  BY <1>1, <1>2, <1>4

(* main.rs:283-285 of the benchmark, for buffers, tables of sizes and     *)
(* batches of every length: a workload is timed on one sequence of bytes, *)
(* by both drivers and in every batch, and it has the size that is        *)
(* reported.                                                              *)
THEOREM SameBytesAlways == BenchSpec => []SameBytes
<1>1. BenchInit => BenchInv
  BY BenchInitInv
<1>2. BenchInv /\ [BenchNext]_benchVars => BenchInv'
  BY BenchNextInv
<1>3. BenchInv => SameBytes
  BY BenchInvIsSameBytes
<1> QED
  BY <1>1, <1>2, <1>3, PTL DEF BenchSpec

-----------------------------------------------------------------------------
(* Twice an odd-divisor-free number has no odd divisor.                   *)
LEMMA QuotientAndRest ==
  ASSUME NEW a \in Nat, NEW d \in Nat \ {0}
  PROVE  a \div d \in Nat /\ a % d \in 0 .. d - 1 /\ a = d * (a \div d) + (a % d)
OBVIOUS

LEMMA MultipleHasNoRest ==
  ASSUME NEW d \in Nat \ {0}, NEW q \in Nat
  PROVE  (d * q) % d = 0
OBVIOUS

LEMMA RestOfSmaller ==
  ASSUME NEW d \in Nat \ {0}, NEW k \in 0 .. d - 1
  PROVE  k % d = k
OBVIOUS

LEMMA OddTimesOdd ==
  ASSUME NEW s \in Nat, NEW t \in Nat, NEW k \in Nat
  PROVE  2 * k # (2 * s + 1) * (2 * t + 1)
<1>1. (2 * s + 1) * (2 * t + 1) = 2 * (2 * s * t + s + t) + 1
  OBVIOUS
<1>2. 2 * s * t + s + t \in Nat
  OBVIOUS
<1> QED
  BY <1>1, <1>2

LEMMA OddDivisor ==
  ASSUME NEW k \in Nat, NEW d \in Nat \ {0}, d % 2 = 1, (2 * k) % d = 0
  PROVE  k % d = 0
<1> DEFINE q == (2 * k) \div d
<1>1. q \in Nat /\ 2 * k = d * q
  BY QuotientAndRest
<1>2. PICK s \in Nat : d = 2 * s + 1
  <2>1. d \div 2 \in Nat /\ d = 2 * (d \div 2) + (d % 2)
    BY QuotientAndRest
  <2> QED
    BY <2>1
<1> HIDE DEF q
<1>3. PICK t \in Nat : q = 2 * t \/ q = 2 * t + 1
  <2>1. q \div 2 \in Nat /\ q = 2 * (q \div 2) + (q % 2) /\ q % 2 \in 0 .. 1
    BY <1>1, QuotientAndRest
  <2> QED
    BY <2>1
<1>4. q = 2 * t
  BY <1>1, <1>2, <1>3, OddTimesOdd
<1>5. k = d * t
  <2>1. d * (2 * t) = 2 * (d * t) /\ d * t \in Nat
    OBVIOUS
  <2> QED
    BY <1>1, <1>4, <2>1
<1> QED
  BY <1>5, MultipleHasNoRest

LEMMA PowerDoubled ==
  ASSUME NEW k \in Nat \ {0}, PowerOfTwo(k)
  PROVE  PowerOfTwo(2 * k)
<1> SUFFICES ASSUME NEW d \in 3 .. 2 * k, d % 2 = 1, (2 * k) % d = 0
             PROVE  FALSE
  BY DEF PowerOfTwo
<1>1. k % d = 0
  <2>1. d \in Nat \ {0} /\ k \in Nat
    OBVIOUS
  <2> QED
    BY <2>1, OddDivisor
<1>2. CASE d <= k
  BY <1>1, <1>2 DEF PowerOfTwo
<1>3. CASE d > k
  <2>1. k \in 0 .. d - 1 /\ d \in Nat \ {0}
    BY <1>3
  <2> QED
    BY <1>1, <2>1, RestOfSmaller
<1> QED
  BY <1>2, <1>3

(* The counters of a driver. *)
BenchCounters ==
  /\ driver \in 1 .. 3 /\ workload \in 1 .. Len(Workloads) + 1
  /\ stage \in {"calibrate", "warm-up", "sample"}
  /\ calls \in 1 .. 2 * MAX_K /\ PowerOfTwo(calls)
  /\ done \in 0 .. Samples + WARM_UPS

LEMMA OneIsAPower == PowerOfTwo(1) /\ 1 \in 1 .. 2 * MAX_K
BY BenchAssumption DEF PowerOfTwo

LEMMA TableIsSequence == Len(Workloads) \in Nat /\ DOMAIN Workloads = 1 .. Len(Workloads)
BY TableOfWorkloads

LEMMA BenchInitCounters == BenchInit => BenchCounters
BY OneIsAPower, TableIsSequence, BenchAssumption DEF BenchInit, StartDriver, BenchCounters, WARM_UPS

LEMMA BenchNextCounters == BenchCounters /\ [BenchNext]_benchVars => BenchCounters'
<1> SUFFICES ASSUME BenchCounters, [BenchNext]_benchVars PROVE BenchCounters'
  OBVIOUS
<1>0. MAX_K \in Nat \ {0} /\ Samples \in Nat /\ WARM_UPS = 3 /\ Len(Workloads) \in Nat
      /\ DOMAIN Workloads = 1 .. Len(Workloads)
  BY TableIsSequence, BenchAssumption DEF WARM_UPS
<1>1. CASE Double
  <2>1. calls < MAX_K /\ calls' = 2 * calls /\ UNCHANGED <<driver, workload, stage, done>>
    BY <1>1 DEF Double
  <2>2. calls' \in 1 .. 2 * MAX_K /\ calls \in Nat \ {0}
    BY <1>0, <2>1 DEF BenchCounters
  <2>3. PowerOfTwo(calls')
    BY <2>1, <2>2, PowerDoubled DEF BenchCounters
  <2> QED
    BY <2>1, <2>2, <2>3 DEF BenchCounters, PowerOfTwo
<1>2. CASE Calibrated
  BY <1>2 DEF Calibrated, BenchCounters, PowerOfTwo
<1>3. CASE WarmUp
  <2>1. done' \in 0 .. Samples + WARM_UPS
    BY <1>0, <1>3 DEF WarmUp, BenchCounters
  <2>2. stage' \in {"warm-up", "sample"} /\ UNCHANGED <<driver, workload, calls>>
    BY <1>3 DEF WarmUp
  <2> QED
    BY <2>1, <2>2 DEF BenchCounters, PowerOfTwo
<1>4. CASE Sample
  <2>1. done' \in 0 .. Samples + WARM_UPS
    BY <1>0, <1>4 DEF Sample, BenchCounters
  <2>2. UNCHANGED <<driver, workload, stage, calls>>
    BY <1>4 DEF Sample
  <2> QED
    BY <2>1, <2>2 DEF BenchCounters, PowerOfTwo
<1>5. CASE WorkloadDone
  <2>1. workload' \in 1 .. Len(Workloads) + 1 /\ done' \in 0 .. Samples + WARM_UPS
    BY <1>0, <1>5 DEF WorkloadDone, Timing
  <2>2. calls' = 1 /\ stage' = "calibrate" /\ driver' = driver
    BY <1>5 DEF WorkloadDone
  <2> QED
    BY <2>1, <2>2, OneIsAPower DEF BenchCounters, PowerOfTwo
<1>6. CASE DriverDone
  <2>1. driver' \in 1 .. 3 /\ workload' \in 1 .. Len(Workloads) + 1 /\ done' \in 0 .. Samples + WARM_UPS
    BY <1>0, <1>6 DEF DriverDone
  <2>2. calls' = 1 /\ stage' = "calibrate"
    BY <1>6 DEF DriverDone
  <2> QED
    BY <2>1, <2>2, OneIsAPower DEF BenchCounters, PowerOfTwo
<1>7. CASE UNCHANGED benchVars
  BY <1>7 DEF benchVars, BenchCounters, PowerOfTwo
<1> QED
  BY <1>1, <1>2, <1>3, <1>4, <1>5, <1>6, <1>7 DEF BenchNext

(* A batch is a power of two that the cap bounds, the counters stay in    *)
(* their ranges, and the buffers keep their sizes, whatever the clock     *)
(* made of every batch.                                                   *)
THEOREM BenchTyped == BenchSpec => []BenchTypeOK
<1>1. BenchInit => BenchInv /\ BenchCounters
  BY BenchInitInv, BenchInitCounters
<1>2. BenchInv /\ BenchCounters /\ [BenchNext]_benchVars => BenchInv' /\ BenchCounters'
  BY BenchNextInv, BenchNextCounters
<1>3. BenchInv /\ BenchCounters => BenchTypeOK
  <2> SUFFICES ASSUME BenchInv, BenchCounters PROVE BenchTypeOK
    OBVIOUS
  <2>1. DOMAIN buf = DOMAIN Generated /\ DOMAIN nmea = 1 .. NMEA_MAX
    BY BenchAssumption DEF BenchInv, AtFill
  <2>2. Len(inputs[1]) = Len(Workloads)
    BY TableIsSequence DEF BenchInv, TimedOnCanon
  <2> QED
    BY <2>1, <2>2 DEF BenchCounters, BenchTypeOK
<1> QED
  BY <1>1, <1>2, <1>3, PTL DEF BenchSpec
=============================================================================
