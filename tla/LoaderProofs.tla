---------------------------- MODULE LoaderProofs ----------------------------
(***************************************************************************)
(* What the dumper makes of a record, and that the loader makes the record *)
(* of it again, for records of any size and longs of any width.  Of a file *)
(* that was cut, the loader finds all that is in it whole.                 *)
(***************************************************************************)
EXTENDS Loader, Recursion

----------------------------------------------------------------------------
(* The powers of ByteValues. *)
LEMMA PowerFact ==
  /\ Power[0] = 1
  /\ \A n \in Nat : /\ Power[n] \in Nat \ {0}
                    /\ Power[n + 1] = ByteValues * Power[n]
                    /\ ByteValues * Power[n] > Power[n]
<1> DEFINE IsIt(p) == p = [n \in Nat |-> IF n = 0 THEN 1
                                         ELSE ByteValues * p[n - 1]]
<1>0. ByteValues \in Nat /\ ByteValues > 1
  BY FormatAssumption
<1>1. \E p : IsIt(p)
  <2> DEFINE step == [i \in Nat |-> [x \in Int |-> ByteValues * x]]
  <2>1. 1 \in Int /\ \A i \in Nat : \A x \in Int : step[i][x] \in Int
    BY <1>0
  <2>2. PICK p : Iterates(p, Int, 1, step)
    <3> HIDE DEF step
    <3> QED
      BY <2>1, IterationExists
  <2>3. p \in [Nat -> Int] /\ p[0] = 1
        /\ \A n \in Nat : p[n + 1] = ByteValues * p[n]
    BY <2>2 DEF Iterates
  <2>4. ASSUME NEW n \in Nat
        PROVE  p[n] = IF n = 0 THEN 1 ELSE ByteValues * p[n - 1]
    <3>1. CASE n = 0
      BY <2>3, <3>1
    <3>2. CASE n # 0
      <4>1. n - 1 \in Nat /\ (n - 1) + 1 = n
        BY <3>2
      <4>2. p[(n - 1) + 1] = ByteValues * p[n - 1]
        BY <2>3, <4>1
      <4> QED
        BY <3>2, <4>1, <4>2
    <3> QED
      BY <3>1, <3>2
  <2>5. p = [n \in Nat |-> p[n]]
    BY <2>3
  <2>6. IsIt(p)
    BY <2>4, <2>5
  <2> QED
    BY <2>6
<1>2. IsIt(Power)
  BY <1>1 DEF Power
<1>3. Power[0] = 1 /\ \A n \in Nat : Power[n + 1] = ByteValues * Power[n]
  <2>1. \A n \in Nat : Power[n] = IF n = 0 THEN 1
                                  ELSE ByteValues * Power[n - 1]
    BY <1>2
  <2>2. ASSUME NEW n \in Nat
        PROVE  Power[n + 1] = ByteValues * Power[n]
    <3>1. n + 1 \in Nat /\ n + 1 # 0 /\ (n + 1) - 1 = n
      OBVIOUS
    <3> QED
      BY <2>1, <3>1
  <2> QED
    BY <2>1, <2>2
<1>4. \A x \in Nat \ {0} : ByteValues * x \in Nat \ {0} /\ ByteValues * x > x
  BY <1>0
<1>5. Nat \subseteq {n \in Nat : Power[n] \in Nat \ {0}}
  <2> DEFINE S == {n \in Nat : Power[n] \in Nat \ {0}}
  <2>1. 0 \in S
    BY <1>3
  <2>2. \A n \in Nat : n \in S => n + 1 \in S
    BY <1>3, <1>4
  <2> HIDE DEF S
  <2>3. Nat \subseteq S
    BY <2>1, <2>2, Induction
  <2> QED
    BY <2>3 DEF S
<1> QED
  BY <1>3, <1>4, <1>5

(* One more digit of a number, in base b. *)
LEMMA OneMoreDigit ==
  ASSUME NEW x \in Nat, NEW p \in Nat \ {0}, NEW b \in Nat \ {0}
  PROVE  x % (b * p) = (x % p) + ((x \div p) % b) * p
<1>1. PICK q \in Int, r \in 0..(p - 1) :
        q = x \div p /\ r = x % p /\ x = p * q + r
  <2>1. x \div p \in Int /\ x % p \in 0..(p - 1) /\ x \in Int
        /\ x = p * (x \div p) + (x % p)
    BY Division
  <2> QED
    BY <2>1, Zenon
<1>2. PICK z \in Int, d \in 0..(b - 1) :
        z = q \div b /\ d = q % b /\ q = b * z + d
  BY Division
<1>3. x = (b * p) * z + (r + d * p)
  <2>1. p * (b * z + d) = (b * p) * z + d * p
    <3>1. p * (b * z + d) = p * (b * z) + p * d
      OBVIOUS
    <3>2. p * (b * z) = (b * p) * z /\ p * d = d * p
      OBVIOUS
    <3> QED
      BY <3>1, <3>2
  <2>2. PICK u \in Int, w \in Int : u = (b * p) * z /\ w = d * p
    <3>1. (b * p) * z \in Int /\ d * p \in Int
      OBVIOUS
    <3> QED
      BY <3>1, Zenon
  <2>3. x = (u + w) + r
    BY <1>1, <1>2, <2>1, <2>2, Zenon
  <2>4. x = u + (r + w)
    BY <2>3
  <2> QED
    BY <2>2, <2>4, Zenon
<1>4. r + d * p \in 0..(b * p - 1)
  <2>1. PICK e \in Nat : b = d + 1 + e
    <3>1. b - d - 1 \in Nat /\ b = d + 1 + (b - d - 1)
      OBVIOUS
    <3> QED
      BY <3>1
  <2>2. b * p = d * p + p + e * p /\ d * p \in Nat /\ e * p \in Nat
    BY <2>1
  <2>3. ASSUME NEW u \in Nat, NEW w \in Nat, NEW bp \in Int, bp = u + p + w
        PROVE  r + u \in 0..(bp - 1)
    BY <2>3
  <2> QED
    BY <2>2, <2>3
<1>5. b * p \in Nat \ {0}
  OBVIOUS
<1>6. ((b * p) * z + (r + d * p)) % (b * p) = r + d * p
  BY <1>4, <1>5, DivisionIsUnique
<1> QED
  BY <1>1, <1>2, <1>3, <1>6

----------------------------------------------------------------------------
(* A long in memory, and what it is read as. *)
Byte == 0..(ByteValues - 1)

LEMMA LongFact ==
  ASSUME NEW v \in Int
  PROVE  /\ LowBits(v) \in 0..(Power[LongSize] - 1)
         /\ Long(v) \in Seq(Byte) /\ Len(Long(v)) = LongSize
         /\ DOMAIN Long(v) = 1..LongSize
         /\ \A i \in 1..LongSize :
              Long(v)[i] = (LowBits(v) \div Power[i - 1]) % ByteValues
<1>1. LongSize \in Nat \ {0} /\ ByteValues \in Nat \ {0}
  BY FormatAssumption
<1>2. LowBits(v) \in 0..(Power[LongSize] - 1)
  <2>1. Power[LongSize] \in Nat \ {0}
    BY <1>1, PowerFact
  <2> QED
    BY <2>1, Division DEF LowBits
<1>3. ASSUME NEW i \in 1..LongSize
      PROVE  (LowBits(v) \div Power[i - 1]) % ByteValues \in Byte
  <2>1. i - 1 \in Nat
    BY <1>1
  <2>2. Power[i - 1] \in Nat \ {0} /\ LowBits(v) \in Int
    BY <1>2, <2>1, PowerFact
  <2>3. LowBits(v) \div Power[i - 1] \in Int
    BY <2>2, Division
  <2> QED
    BY <1>1, <2>3, Division DEF Byte
<1>4. Long(v) \in [1..LongSize -> Byte]
  BY <1>3 DEF Long
<1>5. \A i \in 1..LongSize :
        Long(v)[i] = (LowBits(v) \div Power[i - 1]) % ByteValues
  BY DEF Long
<1>6. DOMAIN Long(v) = 1..LongSize
  BY DEF Long
<1> HIDE DEF Long
<1>7. Long(v) \in Seq(Byte) /\ Len(Long(v)) = LongSize
  BY <1>1, <1>4, FunctionIsSeq
<1> QED
  BY <1>2, <1>5, <1>6, <1>7

(* unpack_unsigned_long of an unsigned long. *)
LEMMA UnsignedOfLong ==
  ASSUME NEW v \in Int
  PROVE  Unsigned(Long(v)) = LowBits(v)
<1> DEFINE n == LongSize
           b == Long(v)
           x == LowBits(v)
           terms == [i \in 1..n |-> b[i] * Power[i - 1]]
           indices == [i \in DOMAIN b |-> i]
           IsFold(f) == f = [S \in SUBSET (DOMAIN indices) |->
              IF S = {} THEN 0
              ELSE f[S \ {Max(S)}]
                   + b[indices[Max(S)]] * Power[indices[Max(S)] - 1]]
<1>1. n \in Nat \ {0} /\ ByteValues \in Nat \ {0}
  BY FormatAssumption
<1>2. DOMAIN b = 1..n /\ DOMAIN indices = 1..n /\ x \in Nat /\ x < Power[n]
      /\ \A i \in 1..n : b[i] \in Nat
                         /\ b[i] = (x \div Power[i - 1]) % ByteValues
  <2>1. Power[n] \in Nat \ {0}
    BY <1>1, PowerFact
  <2>2. x \in Nat /\ x < Power[n]
    <3>1. x \in 0..(Power[n] - 1)
      BY LongFact
    <3> HIDE DEF x
    <3> QED
      BY <2>1, <3>1
  <2>3. DOMAIN b = 1..n
        /\ \A i \in 1..n : b[i] = (x \div Power[i - 1]) % ByteValues
    BY LongFact
  <2>4. \A i \in 1..n : b[i] \in Nat
    <3>1. b \in Seq(Byte) /\ Len(b) = n
      BY LongFact
    <3>2. \A i \in 1..n : b[i] \in Byte
      <4> HIDE DEF b
      <4> QED
        BY <1>1, <3>1, ElementOfSeq
    <3> QED
      BY <1>1, <3>2 DEF Byte
  <2> QED
    BY <2>2, <2>3, <2>4
<1> HIDE DEF b, x
<1>3. terms \in [1..n -> Int]
  <2>1. ASSUME NEW i \in 1..n
        PROVE  b[i] * Power[i - 1] \in Int
    <3>1. i - 1 \in Nat
      BY <1>1
    <3>2. Power[i - 1] \in Int
      BY <3>1, PowerFact
    <3>3. b[i] \in Int
      BY <1>2
    <3> QED
      BY <3>2, <3>3
  <2> QED
    BY <2>1
<1>4. ASSUME NEW f
      PROVE  IsFold(f) <=> IsSum(f, n, 0, terms)
  <2>1. \A S \in SUBSET (1..n) : S # {} =>
          /\ Max(S) \in 1..n /\ indices[Max(S)] = Max(S)
          /\ terms[Max(S)] = b[Max(S)] * Power[Max(S) - 1]
    <3>1. ASSUME NEW S \in SUBSET (1..n), S # {}
          PROVE  Max(S) \in 1..n
      BY <1>1, <3>1, LastOfSome
    <3> QED
      BY <1>2, <3>1
  <2>2. [S \in SUBSET (DOMAIN indices) |->
              IF S = {} THEN 0
              ELSE f[S \ {Max(S)}]
                   + b[indices[Max(S)]] * Power[indices[Max(S)] - 1]]
        = [S \in SUBSET (1..n) |->
              IF S = {} THEN 0 ELSE f[S \ {Max(S)}] + terms[Max(S)]]
    <3> HIDE DEF indices, terms
    <3> QED
      BY <1>2, <2>1
  <2> QED
    BY <2>2 DEF IsSum
<1> DEFINE g == CHOOSE f : IsFold(f)
<1>5. IsSum(g, n, 0, terms)
  <2>1. \E f : IsSum(f, n, 0, terms)
    <3> HIDE DEF terms
    <3> QED
      BY <1>1, <1>3, SumExists
  <2>2. \E f : IsFold(f)
    <3> HIDE DEF IsFold
    <3> QED
      BY <1>4, <2>1
  <2>3. IsFold(g)
    <3> HIDE DEF IsFold
    <3> QED
      BY <2>2
  <2> HIDE DEF IsFold, g
  <2> QED
    BY <1>4, <2>3
<1>6. Unsigned(b) = g[1..n]
  <2>1. Unsigned(b) = g[DOMAIN indices]
    BY DEF Unsigned, FoldLeftDomain, FoldLeft, MapThenFoldSet
  <2> HIDE DEF g, indices
  <2> QED
    BY <1>2, <2>1
<1> HIDE DEF g, terms
<1>7. /\ g[1..0] = 0
      /\ \A k \in 1..n : g[1..k] = g[1..(k - 1)] + terms[k]
  <2>1. n \in Nat /\ 0 \in Int
    BY <1>1
  <2>2. SumsUp(g, n, 0, terms)
    BY <1>3, <1>5, <2>1, SumOfFirst
  <2> QED
    BY <2>2 DEF SumsUp
<1>8. 0..n \subseteq {k \in Nat : g[1..k] = x % Power[k]}
  <2> DEFINE S == {k \in Nat : g[1..k] = x % Power[k]}
  <2>1. 0 \in S
    <3>1. x % 1 = 0
      BY <1>2
    <3> QED
      BY <1>7, <3>1, PowerFact
  <2>2. ASSUME NEW k \in 0..(n - 1), k \in S
        PROVE  k + 1 \in S
    <3>1. k + 1 \in 1..n /\ (k + 1) - 1 = k /\ k \in Nat
          /\ g[1..k] = x % Power[k]
      BY <1>1, <2>2
    <3>2. g[1..(k + 1)] = (x % Power[k])
                          + ((x \div Power[k]) % ByteValues) * Power[k]
      BY <1>2, <1>7, <3>1 DEF terms
    <3>3. Power[k] \in Nat \ {0} /\ Power[k + 1] = ByteValues * Power[k]
      BY <3>1, PowerFact
    <3>4. x % (ByteValues * Power[k]) =
            (x % Power[k]) + ((x \div Power[k]) % ByteValues) * Power[k]
      BY <1>1, <1>2, <3>3, OneMoreDigit
    <3> QED
      BY <3>1, <3>2, <3>3, <3>4
  <2> HIDE DEF S
  <2>3. 0..n \subseteq S
    BY <1>1, <2>1, <2>2, InductionUpTo
  <2> QED
    BY <2>3 DEF S
<1>9. x % Power[n] = x
  BY <1>1, <1>2, PowerFact, Remainder
<1> QED
  BY <1>1, <1>6, <1>8, <1>9 DEF b, x

(* unpack_signed_long of a long, signed or unsigned. *)
LEMMA SignedOfLong ==
  ASSUME NEW v \in Int,
         0 - Power[LongSize] <= 2 * v, 2 * v < Power[LongSize]
  PROVE  Signed(Long(v)) = v
<1>1. Unsigned(Long(v)) = LowBits(v)
  BY UnsignedOfLong
<1>2. PICK p \in Nat \ {0} : p = Power[LongSize]
  BY FormatAssumption, PowerFact
<1>3. CASE v >= 0
  <2>1. v % p = v
    BY <1>2, <1>3, Remainder
  <2> QED
    BY <1>1, <1>2, <2>1 DEF Signed, LowBits
<1>4. CASE v < 0
  <2>1. v % p = v + p
    <3>1. v + p \in 0..(p - 1) /\ p * (-1) + (v + p) = v /\ -1 \in Int
      BY <1>2, <1>4
    <3> QED
      BY <3>1, DivisionIsUnique
  <2>2. ~(2 * (v + p) < p) /\ (v + p) - p = v
    BY <1>2
  <2> QED
    BY <1>1, <1>2, <2>1, <2>2 DEF Signed, LowBits
<1> QED
  BY <1>3, <1>4

LEMMA UnsignedOfSmallLong ==
  ASSUME NEW v \in Nat, v < Power[LongSize]
  PROVE  Unsigned(Long(v)) = v
<1>1. Power[LongSize] \in Nat \ {0}
  BY FormatAssumption, PowerFact
<1> QED
  BY <1>1, UnsignedOfLong, Remainder DEF LowBits

(* Some longs in memory, and each of them. *)
LEMMA LongsFact ==
  ASSUME NEW values \in Seq(Int)
  PROVE  /\ Longs(values) \in Seq(Byte)
         /\ Len(Longs(values)) = Len(values) * LongSize
         /\ \A i \in 1..Len(values), j \in 1..LongSize :
              Longs(values)[(i - 1) * LongSize + j] = Long(values[i])[j]
<1> DEFINE longs == [i \in 1..Len(values) |-> Long(values[i])]
<1>1. LongSize \in Nat /\ Len(values) \in Nat
      /\ \A i \in 1..Len(values) : values[i] \in Int
  BY FormatAssumption, LenProperties, ElementOfSeq
<1>2. /\ longs \in [1..Len(values) -> Seq(Byte)]
      /\ \A i \in 1..Len(values) : longs[i] = Long(values[i])
                                   /\ Len(longs[i]) = LongSize
  <2>1. \A i \in 1..Len(values) :
          Long(values[i]) \in Seq(Byte) /\ Len(Long(values[i])) = LongSize
    BY <1>1, LongFact
  <2> QED
    BY <2>1
<1> HIDE DEF longs
<1>3. longs \in Seq(Seq(Byte)) /\ Len(longs) = Len(values)
  BY <1>1, <1>2, FunctionIsSeq
<1>4. \A i \in 1..Len(longs) : Len(longs[i]) = LongSize
  BY <1>2, <1>3
<1>5. /\ Len(FlattenSeq(longs)) = Len(longs) * LongSize
      /\ \A i \in 1..Len(longs), j \in 1..LongSize :
           FlattenSeq(longs)[(i - 1) * LongSize + j] = longs[i][j]
  <2>1. IsUniform(FlattenSeq(longs), longs, LongSize)
    BY <1>1, <1>3, <1>4, FlattenUniform
  <2> QED
    BY <2>1 DEF IsUniform
<1>6. FlattenSeq(longs) \in Seq(Byte)
  BY <1>3, FlattenType
<1>7. Longs(values) = FlattenSeq(longs)
  BY DEF Longs, longs
<1> QED
  BY <1>2, <1>3, <1>5, <1>6, <1>7

(***************************************************************************)
(* What a record holds: longs are unsigned, but for the return value.      *)
(***************************************************************************)
Unsigneds == 0..(Power[LongSize] - 1)
Signeds == {n \in Int : 0 - Power[LongSize] <= 2 * n /\ 2 * n < Power[LongSize]}
Bytes == {b \in Seq(Byte) : Len(b) \in Unsigneds}
Copies == [from : Unsigneds, to : Unsigneds, bytes : Bytes]
Records == [regs : {r \in Seq(Unsigneds) : Len(r) = NumRegisters},
            ret : Signeds, amount : Unsigneds, copies : Seq(Copies)]

LEMMA Sizes ==
  /\ SizeOfCopyRecord \in Nat \ {0} /\ SizeOfCopyRecord = 3 * LongSize
  /\ SizeOfSyscallDump \in Nat \ {0}
  /\ SizeOfSyscallDump = (NumRegisters + 2) * LongSize
  /\ LongSize \in Nat \ {0} /\ NumRegisters \in Nat
<1>1. LongSize \in Nat \ {0} /\ NumRegisters \in Nat
  BY FormatAssumption
<1>2. \A a, b \in Nat \ {0} : a * b \in Nat \ {0}
  OBVIOUS
<1>3. 3 \in Nat \ {0} /\ NumRegisters + 2 \in Nat \ {0}
  BY <1>1
<1> QED
  BY <1>1, <1>2, <1>3 DEF SizeOfCopyRecord, SizeOfSyscallDump

LEMMA DumpCopyRecordFact ==
  ASSUME NEW copy \in Copies
  PROVE  /\ DumpCopyRecord(copy) \in Seq(Byte)
         /\ Len(DumpCopyRecord(copy)) = SizeOfCopyRecord + Len(copy.bytes)
         /\ Len(copy.bytes) \in Nat
<1> DEFINE fields == <<copy.from, copy.to, Len(copy.bytes)>>
<1>1. /\ copy.from \in Unsigneds /\ copy.to \in Unsigneds
      /\ copy.bytes \in Seq(Byte) /\ Len(copy.bytes) \in Unsigneds
      /\ Unsigneds \subseteq Nat
  BY DEF Copies, Bytes, Unsigneds
<1>2. fields \in Seq(Int) /\ Len(fields) = 3
  <2>1. copy.from \in Int /\ copy.to \in Int /\ Len(copy.bytes) \in Int
    BY <1>1 DEF Unsigneds
  <2>2. \A a, b, c \in Int : <<a, b, c>> \in Seq(Int) /\ Len(<<a, b, c>>) = 3
    OBVIOUS
  <2> QED
    BY <2>1, <2>2, Zenon
<1> HIDE DEF fields
<1>3. Longs(fields) \in Seq(Byte) /\ Len(Longs(fields)) = 3 * LongSize
  BY <1>2, LongsFact
<1>4. /\ Longs(fields) \o copy.bytes \in Seq(Byte)
      /\ Len(Longs(fields) \o copy.bytes)
           = Len(Longs(fields)) + Len(copy.bytes)
  BY <1>1, <1>3, ConcatProperties
<1> QED
  BY <1>1, <1>3, <1>4 DEF DumpCopyRecord, SizeOfCopyRecord, fields

LEMMA DumpSyscallRecordFact ==
  ASSUME NEW record \in Records
  PROVE  /\ DumpSyscallRecord(record) \in Seq(Byte)
         /\ Len(DumpSyscallRecord(record)) = SizeOfSyscallDump
         /\ record.regs \o <<record.ret, record.amount>> \in Seq(Int)
         /\ Len(record.regs \o <<record.ret, record.amount>>)
              = NumRegisters + 2
<1> DEFINE tail == <<record.ret, record.amount>>
           fields == record.regs \o tail
<1>1. /\ record.regs \in Seq(Unsigneds) /\ Len(record.regs) = NumRegisters
      /\ record.ret \in Int /\ record.amount \in Int
      /\ Unsigneds \subseteq Int
  BY DEF Records, Signeds, Unsigneds
<1>2. record.regs \in Seq(Int)
  BY <1>1, SeqMonotonic
<1>3. tail \in Seq(Int) /\ Len(tail) = 2
  BY <1>1
<1>4. fields \in Seq(Int) /\ Len(fields) = NumRegisters + 2
  <2> HIDE DEF tail
  <2>1. /\ fields \in Seq(Int)
        /\ Len(fields) = Len(record.regs) + Len(tail)
    BY <1>2, <1>3, ConcatProperties
  <2> QED
    BY <1>1, <1>3, <2>1
<1>5. /\ Longs(fields) \in Seq(Byte)
      /\ Len(Longs(fields)) = (NumRegisters + 2) * LongSize
  <2> HIDE DEF fields
  <2> QED
    BY <1>4, LongsFact
<1> QED
  BY <1>4, <1>5 DEF DumpSyscallRecord, SizeOfSyscallDump

----------------------------------------------------------------------------
(* Copies, and records, one after the other. *)
DumpOfCopy == [copy \in Copies |-> DumpCopyRecord(copy)]

LEMMA DumpOfCopies ==
  ASSUME NEW copies \in Seq(Copies)
  PROVE  /\ HasImages(DumpOfCopy, copies, Copies, Seq(Byte))
         /\ DumpCopyRecords(copies) = FlattenSeq(Images(DumpOfCopy, copies))
         /\ DumpCopyRecords(copies) \in Seq(Byte)
<1>1. DumpOfCopy \in [Copies -> Seq(Byte)]
  BY DumpCopyRecordFact DEF DumpOfCopy
<1>2. HasImages(DumpOfCopy, copies, Copies, Seq(Byte))
  BY <1>1 DEF HasImages
<1>3. [i \in 1..Len(copies) |-> DumpCopyRecord(copies[i])]
        = Images(DumpOfCopy, copies)
  <2>1. \A i \in 1..Len(copies) : copies[i] \in Copies
    BY LenProperties, ElementOfSeq
  <2>2. \A i \in 1..Len(copies) :
          DumpOfCopy[copies[i]] = DumpCopyRecord(copies[i])
    BY <2>1 DEF DumpOfCopy
  <2> QED
    BY <2>2 DEF Images
<1>4. DumpCopyRecords(copies) = FlattenSeq(Images(DumpOfCopy, copies))
  BY <1>3 DEF DumpCopyRecords
<1>5. FlattenSeq(Images(DumpOfCopy, copies)) \in Seq(Byte)
  BY <1>2, FlattenImagesType
<1> QED
  BY <1>2, <1>4, <1>5

(* The copies from the k-th on. *)
LEMMA DumpOfFirstCopy ==
  ASSUME NEW copies \in Seq(Copies), NEW k \in 1..Len(copies)
  PROVE  DumpCopyRecords(SubSeq(copies, k, Len(copies))) =
           DumpCopyRecord(copies[k])
           \o DumpCopyRecords(SubSeq(copies, k + 1, Len(copies)))
<1> DEFINE n == Len(copies)
<1>1. n \in Nat /\ copies[k] \in Copies
  BY LenProperties, ElementOfSeq
<1>2. SubSeq(copies, k, n) \in Seq(Copies)
      /\ SubSeq(copies, k + 1, n) \in Seq(Copies)
  BY <1>1, PartOfSeq
<1>3. /\ DumpCopyRecords(SubSeq(copies, k, n))
           = FlattenSeq(Images(DumpOfCopy, SubSeq(copies, k, n)))
      /\ DumpCopyRecords(SubSeq(copies, k + 1, n))
           = FlattenSeq(Images(DumpOfCopy, SubSeq(copies, k + 1, n)))
  BY <1>2, DumpOfCopies
<1>4. HasImages(DumpOfCopy, copies, Copies, Seq(Byte))
  BY DumpOfCopies
<1>5. FlattenSeq(Images(DumpOfCopy, SubSeq(copies, k, n))) =
        DumpOfCopy[copies[k]]
        \o FlattenSeq(Images(DumpOfCopy, SubSeq(copies, k + 1, n)))
  <2>1. SplitsFirst(DumpOfCopy, copies, k)
    BY <1>4, FlattenFirst
  <2> QED
    BY <2>1 DEF SplitsFirst
<1>6. DumpOfCopy[copies[k]] = DumpCopyRecord(copies[k])
  BY <1>1 DEF DumpOfCopy
<1> QED
  BY <1>3, <1>5, <1>6

(* The first k copies. *)
LEMMA DumpOfLastCopy ==
  ASSUME NEW copies \in Seq(Copies), NEW k \in 1..Len(copies)
  PROVE  DumpCopyRecords(SubSeq(copies, 1, k)) =
           DumpCopyRecords(SubSeq(copies, 1, k - 1))
           \o DumpCopyRecord(copies[k])
<1>1. Len(copies) \in Nat
  BY LenProperties
<1> DEFINE s == SubSeq(copies, 1, k)
<1>2. s \in Seq(Copies) /\ Len(s) = k /\ s[k] = copies[k]
      /\ s[k] \in Copies
  <2>1. 1 \in 1..(Len(copies) + 1) /\ k \in (1 - 1)..Len(copies)
        /\ k - 1 + 1 = k /\ k \in 1..k /\ 1 + k - 1 = k
    BY <1>1
  <2> QED
    BY <2>1, PartOfSeq, ElementOfSeq
<1>3. SubSeq(s, 1, k - 1) = SubSeq(copies, 1, k - 1)
  <2>1. CASE k = 1
    BY <2>1, SubSeqEmpty
  <2>2. CASE k # 1
    <3>1. /\ 1 \in 1..Len(copies) /\ k \in 1..Len(copies)
          /\ 1 \in 1..(k - 1 + 1) /\ k - 1 \in 1..(k - 1 + 1)
          /\ 1 + 1 - 1 = 1 /\ 1 + (k - 1) - 1 = k - 1
      BY <1>1, <2>2
    <3> QED
      BY <3>1, SubSeqOfSubSeq
  <2> QED
    BY <2>1, <2>2
<1>4. SubSeq(s, k, k) = <<copies[k]>> /\ SubSeq(s, k, k) \in Seq(Copies)
  <2> HIDE DEF s
  <2>1. k \in 1..Len(s) /\ k \in k..Len(s) /\ k + 1 \in Int /\ k < k + 1
    BY <1>1, <1>2
  <2>2. SubSeq(s, k, k) = <<s[k]>> \o SubSeq(s, k + 1, k)
    BY <1>2, <2>1, SubSeqRecursiveFirst
  <2>3. SubSeq(s, k + 1, k) = <<>>
    BY <2>1, SubSeqEmpty
  <2>4. <<s[k]>> \in Seq(Copies) /\ <<s[k]>> \o <<>> = <<s[k]>>
    BY <1>2
  <2> QED
    BY <1>2, <2>2, <2>3, <2>4
<1> HIDE DEF s
<1>5. HasImages(DumpOfCopy, s, Copies, Seq(Byte))
  BY <1>2, DumpOfCopies
<1>6. FlattenSeq(Images(DumpOfCopy, s)) =
        FlattenSeq(Images(DumpOfCopy, SubSeq(s, 1, k - 1)))
        \o FlattenSeq(Images(DumpOfCopy, SubSeq(s, k - 1 + 1, Len(s))))
  <2>1. k - 1 \in 0..Len(s)
    BY <1>1, <1>2
  <2>2. Splits(DumpOfCopy, s, k - 1)
    BY <1>5, <2>1, FlattenSplit
  <2> QED
    BY <2>2 DEF Splits
<1>7. /\ DumpCopyRecords(s) = FlattenSeq(Images(DumpOfCopy, s))
      /\ DumpCopyRecords(SubSeq(s, 1, k - 1))
           = FlattenSeq(Images(DumpOfCopy, SubSeq(s, 1, k - 1)))
  <2>1. SubSeq(s, 1, k - 1) \in Seq(Copies)
    BY <1>1, <1>2, PartOfSeq
  <2> QED
    BY <1>2, <2>1, DumpOfCopies
<1>8. FlattenSeq(Images(DumpOfCopy, SubSeq(s, k, k)))
        = DumpCopyRecord(copies[k])
  <2>1. Images(DumpOfCopy, <<copies[k]>>) = <<DumpCopyRecord(copies[k])>>
    BY <1>2 DEF Images, DumpOfCopy
  <2>2. DumpCopyRecord(copies[k]) \in Seq(Byte)
    BY <1>2, DumpCopyRecordFact
  <2> QED
    BY <1>4, <2>1, <2>2, FlattenOne
<1>9. k - 1 + 1 = k
  BY <1>1
<1> QED
  BY <1>2, <1>3, <1>6, <1>7, <1>8, <1>9 DEF s

LEMMA DumpSingleRecordFact ==
  ASSUME NEW record \in Records
  PROVE  /\ DumpSingleRecord(record) \in Seq(Byte)
         /\ Len(DumpSingleRecord(record)) =
              SizeOfSyscallDump + Len(DumpCopyRecords(record.copies))
         /\ Len(DumpCopyRecords(record.copies)) \in Nat
<1>1. record.copies \in Seq(Copies)
  BY DEF Records
<1>2. DumpCopyRecords(record.copies) \in Seq(Byte)
  BY <1>1, DumpOfCopies
<1>3. /\ DumpSyscallRecord(record) \in Seq(Byte)
      /\ Len(DumpSyscallRecord(record)) = SizeOfSyscallDump
  BY DumpSyscallRecordFact
<1> QED
  BY <1>2, <1>3, ConcatProperties, LenProperties DEF DumpSingleRecord

DumpOfRecord == [record \in Records |-> DumpSingleRecord(record)]

LEMMA DumpOfRecords ==
  ASSUME NEW records \in Seq(Records)
  PROVE  /\ HasImages(DumpOfRecord, records, Records, Seq(Byte))
         /\ DumpRecords(records) = FlattenSeq(Images(DumpOfRecord, records))
         /\ DumpRecords(records) \in Seq(Byte)
<1>1. DumpOfRecord \in [Records -> Seq(Byte)]
  BY DumpSingleRecordFact DEF DumpOfRecord
<1>2. HasImages(DumpOfRecord, records, Records, Seq(Byte))
  BY <1>1 DEF HasImages
<1>3. [i \in 1..Len(records) |-> DumpSingleRecord(records[i])]
        = Images(DumpOfRecord, records)
  <2>1. \A i \in 1..Len(records) : records[i] \in Records
    BY LenProperties, ElementOfSeq
  <2>2. \A i \in 1..Len(records) :
          DumpOfRecord[records[i]] = DumpSingleRecord(records[i])
    BY <2>1 DEF DumpOfRecord
  <2> QED
    BY <2>2 DEF Images
<1>4. DumpRecords(records) = FlattenSeq(Images(DumpOfRecord, records))
  BY <1>3 DEF DumpRecords
<1>5. FlattenSeq(Images(DumpOfRecord, records)) \in Seq(Byte)
  BY <1>2, FlattenImagesType
<1> QED
  BY <1>2, <1>4, <1>5

(* The records from the k-th on. *)
LEMMA DumpOfFirstRecord ==
  ASSUME NEW records \in Seq(Records), NEW k \in 1..Len(records)
  PROVE  DumpRecords(SubSeq(records, k, Len(records))) =
           DumpSingleRecord(records[k])
           \o DumpRecords(SubSeq(records, k + 1, Len(records)))
<1> DEFINE n == Len(records)
<1>1. n \in Nat /\ records[k] \in Records
  BY LenProperties, ElementOfSeq
<1>2. SubSeq(records, k, n) \in Seq(Records)
      /\ SubSeq(records, k + 1, n) \in Seq(Records)
  BY <1>1, PartOfSeq
<1>3. /\ DumpRecords(SubSeq(records, k, n))
           = FlattenSeq(Images(DumpOfRecord, SubSeq(records, k, n)))
      /\ DumpRecords(SubSeq(records, k + 1, n))
           = FlattenSeq(Images(DumpOfRecord, SubSeq(records, k + 1, n)))
  BY <1>2, DumpOfRecords
<1>4. HasImages(DumpOfRecord, records, Records, Seq(Byte))
  BY DumpOfRecords
<1>5. FlattenSeq(Images(DumpOfRecord, SubSeq(records, k, n))) =
        DumpOfRecord[records[k]]
        \o FlattenSeq(Images(DumpOfRecord, SubSeq(records, k + 1, n)))
  <2>1. SplitsFirst(DumpOfRecord, records, k)
    BY <1>4, FlattenFirst
  <2> QED
    BY <2>1 DEF SplitsFirst
<1>6. DumpOfRecord[records[k]] = DumpSingleRecord(records[k])
  BY <1>1 DEF DumpOfRecord
<1> QED
  BY <1>3, <1>5, <1>6

(* The length of the first k records. *)
LEMMA LengthOfFirstRecords ==
  ASSUME NEW records \in Seq(Records), NEW k \in 0..Len(records)
  PROVE  /\ Len(DumpRecords(records)) =
              Len(DumpRecords(SubSeq(records, 1, k)))
              + Len(DumpRecords(SubSeq(records, k + 1, Len(records))))
         /\ Len(DumpRecords(SubSeq(records, 1, k))) \in Nat
         /\ Len(DumpRecords(SubSeq(records, k + 1, Len(records)))) \in Nat
<1> DEFINE u == SubSeq(records, 1, k)
           w == SubSeq(records, k + 1, Len(records))
<1>1. Len(records) \in Nat
  BY LenProperties
<1>2. u \in Seq(Records) /\ w \in Seq(Records)
  BY <1>1, PartOfSeq
<1>3. FlattenSeq(Images(DumpOfRecord, records)) =
        FlattenSeq(Images(DumpOfRecord, u))
        \o FlattenSeq(Images(DumpOfRecord, w))
  <2>1. Splits(DumpOfRecord, records, k)
    BY DumpOfRecords, FlattenSplit
  <2> QED
    BY <2>1 DEF Splits
<1> HIDE DEF u, w
<1>4. /\ DumpRecords(u) = FlattenSeq(Images(DumpOfRecord, u))
      /\ DumpRecords(w) = FlattenSeq(Images(DumpOfRecord, w))
      /\ DumpRecords(records) = FlattenSeq(Images(DumpOfRecord, records))
      /\ DumpRecords(u) \in Seq(Byte) /\ DumpRecords(w) \in Seq(Byte)
  BY <1>2, DumpOfRecords
<1>5. DumpRecords(records) = DumpRecords(u) \o DumpRecords(w)
  BY <1>3, <1>4
<1>6. /\ Len(DumpRecords(records)) = Len(DumpRecords(u)) + Len(DumpRecords(w))
      /\ Len(DumpRecords(u)) \in Nat /\ Len(DumpRecords(w)) \in Nat
  BY <1>4, <1>5, ConcatProperties, LenProperties
<1> QED
  BY <1>6 DEF u, w

----------------------------------------------------------------------------
(* get_record_len counts what dump_single_record writes. *)
LEMMA RecordLength ==
  ASSUME NEW record \in Records
  PROVE  GetRecordLen(record) = Len(DumpSingleRecord(record))
<1> DEFINE copies == record.copies
           n == Len(copies)
           terms == [i \in 1..n |-> SizeOfCopyRecord + Len(copies[i].bytes)]
           IsFold(f) == f = [S \in SUBSET (DOMAIN copies) |->
              IF S = {} THEN SizeOfSyscallDump
              ELSE f[S \ {Max(S)}]
                   + (SizeOfCopyRecord + Len(copies[Max(S)].bytes))]
<1>1. /\ copies \in Seq(Copies) /\ n \in Nat /\ DOMAIN copies = 1..n
      /\ \A i \in 1..n : copies[i] \in Copies
  <2>1. copies \in Seq(Copies)
    BY DEF Records
  <2> QED
    BY <2>1, LenProperties, ElementOfSeq
<1>2. SizeOfCopyRecord \in Int /\ SizeOfSyscallDump \in Int
  BY Sizes
<1>3. /\ terms \in [1..n -> Int]
      /\ \A i \in 1..n : terms[i] = Len(DumpCopyRecord(copies[i]))
  <2>1. \A i \in 1..n :
          /\ Len(copies[i].bytes) \in Nat
          /\ Len(DumpCopyRecord(copies[i]))
               = SizeOfCopyRecord + Len(copies[i].bytes)
    BY <1>1, DumpCopyRecordFact
  <2> HIDE DEF copies
  <2> QED
    BY <1>2, <2>1
<1>4. ASSUME NEW f
      PROVE  IsFold(f) <=> IsSum(f, n, SizeOfSyscallDump, terms)
  <2>1. ASSUME NEW S \in SUBSET (1..n), S # {}
        PROVE  terms[Max(S)] = SizeOfCopyRecord + Len(copies[Max(S)].bytes)
    <3>1. Max(S) \in 1..n
      BY <1>1, <2>1, LastOfSome
    <3> HIDE DEF copies
    <3> QED
      BY <3>1
  <2>2. [S \in SUBSET (DOMAIN copies) |->
              IF S = {} THEN SizeOfSyscallDump
              ELSE f[S \ {Max(S)}]
                   + (SizeOfCopyRecord + Len(copies[Max(S)].bytes))]
        = [S \in SUBSET (1..n) |->
              IF S = {} THEN SizeOfSyscallDump
              ELSE f[S \ {Max(S)}] + terms[Max(S)]]
    <3> HIDE DEF terms, copies
    <3> QED
      BY <1>1, <2>1
  <2> QED
    BY <2>2 DEF IsSum
<1> DEFINE g == CHOOSE f : IsFold(f)
<1>5. IsSum(g, n, SizeOfSyscallDump, terms)
  <2>1. \E f : IsSum(f, n, SizeOfSyscallDump, terms)
    <3> HIDE DEF terms, copies
    <3> QED
      BY <1>1, <1>2, <1>3, SumExists
  <2>2. \E f : IsFold(f)
    <3> HIDE DEF IsFold
    <3> QED
      BY <1>4, <2>1
  <2>3. IsFold(g)
    <3> HIDE DEF IsFold
    <3> QED
      BY <2>2
  <2> HIDE DEF IsFold, g
  <2> QED
    BY <1>4, <2>3
<1>6. GetRecordLen(record) = g[1..n]
  <2>1. GetRecordLen(record) = g[DOMAIN copies]
    BY DEF GetRecordLen, FoldLeft, MapThenFoldSet
  <2> HIDE DEF g, copies
  <2> QED
    BY <1>1, <2>1
<1> HIDE DEF g, terms, copies, IsFold
<1>7. /\ g[1..0] = SizeOfSyscallDump
      /\ \A k \in 0..n : g[1..k] \in Int
      /\ \A k \in 1..n : g[1..k] = g[1..(k - 1)] + terms[k]
  <2>1. SumsUp(g, n, SizeOfSyscallDump, terms)
    BY <1>1, <1>2, <1>3, <1>5, SumOfFirst
  <2> QED
    BY <2>1 DEF SumsUp
<1> DEFINE dumped(k) == SizeOfSyscallDump
                        + Len(DumpCopyRecords(SubSeq(copies, 1, k)))
<1>8. 0..n \subseteq {k \in Nat : g[1..k] = dumped(k)}
  <2> DEFINE S == {k \in Nat : g[1..k] = dumped(k)}
  <2>1. 0 \in S
    <3>1. SubSeq(copies, 1, 0) = <<>>
      BY SubSeqEmpty
    <3>2. DumpCopyRecords(<<>>) = <<>>
      BY FlattenEmpty DEF DumpCopyRecords
    <3>3. Len(DumpCopyRecords(SubSeq(copies, 1, 0))) = 0
      BY <3>1, <3>2, EmptySeq
    <3>4. g[1..0] = dumped(0)
      BY <1>2, <1>7, <3>3
    <3> HIDE DEF dumped
    <3> QED
      BY <3>4
  <2>2. ASSUME NEW k \in 0..(n - 1), k \in S
        PROVE  k + 1 \in S
    <3>1. k + 1 \in 1..n /\ (k + 1) - 1 = k /\ g[1..k] = dumped(k)
      BY <1>1, <2>2
    <3>2. DumpCopyRecords(SubSeq(copies, 1, k + 1)) =
            DumpCopyRecords(SubSeq(copies, 1, k))
            \o DumpCopyRecord(copies[k + 1])
      BY <1>1, <3>1, DumpOfLastCopy
    <3>3. /\ DumpCopyRecords(SubSeq(copies, 1, k)) \in Seq(Byte)
          /\ DumpCopyRecord(copies[k + 1]) \in Seq(Byte)
      <4>1. SubSeq(copies, 1, k) \in Seq(Copies)
        BY <1>1, PartOfSeq
      <4> QED
        BY <1>1, <3>1, <4>1, DumpOfCopies, DumpCopyRecordFact
    <3>4. /\ Len(DumpCopyRecords(SubSeq(copies, 1, k + 1)))
               = Len(DumpCopyRecords(SubSeq(copies, 1, k)))
                 + Len(DumpCopyRecord(copies[k + 1]))
          /\ Len(DumpCopyRecords(SubSeq(copies, 1, k))) \in Nat
          /\ Len(DumpCopyRecord(copies[k + 1])) \in Nat
      BY <3>2, <3>3, ConcatProperties, LenProperties
    <3>5. g[1..(k + 1)] = g[1..k] + Len(DumpCopyRecord(copies[k + 1]))
      BY <1>3, <1>7, <3>1
    <3> QED
      BY <1>2, <3>1, <3>4, <3>5
  <2> HIDE DEF S
  <2>3. 0..n \subseteq S
    BY <1>1, <2>1, <2>2, InductionUpTo
  <2> QED
    BY <2>3 DEF S
<1>9. SubSeq(copies, 1, n) = copies
  BY <1>1, SubSeqFull
<1>10. GetRecordLen(record) = SizeOfSyscallDump + Len(DumpCopyRecords(copies))
  <2>1. n \in 0..n
    BY <1>1
  <2>2. g[1..n] = dumped(n)
    <3> HIDE DEF dumped
    <3> QED
      BY <1>8, <2>1
  <2> QED
    BY <1>6, <1>9, <2>2
<1> QED
  BY <1>10, DumpSingleRecordFact DEF copies

----------------------------------------------------------------------------
(* A beginning of the file and what is missing of it. *)
LEMMA BufferAndMissing ==
  ASSUME NEW T, NEW a \in Seq(T), NEW b \in Seq(T), NEW c \in Seq(T),
         NEW d \in Seq(T), a \o b = c \o d
  PROVE  /\ Len(a) + Len(b) = Len(c) + Len(d)
         /\ \A i \in 1..Len(a) : i <= Len(c) => a[i] = c[i]
         /\ Len(c) <= Len(a) => SubSeq(a, Len(c) + 1, Len(a)) \o b = d
<1>1. Len(a) \in Nat /\ Len(b) \in Nat /\ Len(c) \in Nat /\ Len(d) \in Nat
  BY LenProperties
<1>2. /\ Len(a \o b) = Len(a) + Len(b)
      /\ \A i \in 1..(Len(a) + Len(b)) :
           (a \o b)[i] = IF i <= Len(a) THEN a[i] ELSE b[i - Len(a)]
  BY ConcatProperties
<1>3. /\ Len(c \o d) = Len(c) + Len(d)
      /\ \A i \in 1..(Len(c) + Len(d)) :
           (c \o d)[i] = IF i <= Len(c) THEN c[i] ELSE d[i - Len(c)]
  BY ConcatProperties
<1>4. Len(a) + Len(b) = Len(c) + Len(d)
  BY <1>2, <1>3
<1>5. ASSUME NEW i \in 1..Len(a), i <= Len(c)
      PROVE  a[i] = c[i]
  <2>1. i \in 1..(Len(a) + Len(b)) /\ i \in 1..(Len(c) + Len(d))
        /\ i <= Len(a)
    BY <1>1, <1>5
  <2> QED
    BY <1>2, <1>3, <1>5, <2>1
<1>6. ASSUME Len(c) <= Len(a)
      PROVE  SubSeq(a, Len(c) + 1, Len(a)) \o b = d
  <2> DEFINE rest == SubSeq(a, Len(c) + 1, Len(a))
  <2>1. /\ rest \in Seq(T) /\ Len(rest) = Len(a) - Len(c)
        /\ \A k \in 1..(Len(a) - Len(c)) : rest[k] = a[Len(c) + k]
    <3>1. Len(c) + 1 \in 1..(Len(a) + 1) /\ Len(a) \in (Len(c) + 1 - 1)..Len(a)
          /\ Len(a) - (Len(c) + 1) + 1 = Len(a) - Len(c)
          /\ \A k \in Int : Len(c) + 1 + k - 1 = Len(c) + k
      BY <1>1, <1>6
    <3> QED
      BY <3>1, PartOfSeq
  <2> HIDE DEF rest
  <2>2. /\ rest \o b \in Seq(T)
        /\ Len(rest \o b) = Len(rest) + Len(b)
        /\ \A k \in 1..(Len(rest) + Len(b)) :
             (rest \o b)[k] = IF k <= Len(rest) THEN rest[k]
                              ELSE b[k - Len(rest)]
    BY <2>1, ConcatProperties
  <2>3. Len(rest \o b) = Len(d)
    BY <1>1, <1>4, <2>1, <2>2
  <2>4. ASSUME NEW k \in 1..Len(d)
        PROVE  (rest \o b)[k] = d[k]
    <3>1. /\ Len(c) + k \in 1..(Len(c) + Len(d))
          /\ Len(c) + k \in 1..(Len(a) + Len(b))
          /\ ~(Len(c) + k <= Len(c)) /\ (Len(c) + k) - Len(c) = k
          /\ k \in 1..(Len(rest) + Len(b))
      BY <1>1, <1>4, <2>1
    <3>2. (c \o d)[Len(c) + k] = d[k]
      BY <1>3, <3>1
    <3>3. CASE k <= Len(rest)
      <4>1. k \in 1..(Len(a) - Len(c)) /\ Len(c) + k <= Len(a)
        BY <1>1, <2>1, <3>3
      <4>2. (a \o b)[Len(c) + k] = a[Len(c) + k]
        BY <1>2, <3>1, <4>1
      <4>3. (rest \o b)[k] = rest[k] /\ rest[k] = a[Len(c) + k]
        BY <2>1, <2>2, <3>1, <3>3, <4>1
      <4> QED
        BY <3>2, <4>2, <4>3
    <3>4. CASE ~(k <= Len(rest))
      <4>1. ~(Len(c) + k <= Len(a)) /\ (Len(c) + k) - Len(a) = k - Len(rest)
        BY <1>1, <2>1, <3>4
      <4>2. (a \o b)[Len(c) + k] = b[k - Len(rest)]
        BY <1>2, <3>1, <4>1
      <4>3. (rest \o b)[k] = b[k - Len(rest)]
        BY <2>2, <3>1, <3>4
      <4> QED
        BY <3>2, <4>2, <4>3
    <3> QED
      BY <3>3, <3>4
  <2>5. rest \o b = d
    BY <2>2, <2>3, <2>4, SeqEqual
  <2> QED
    BY <2>5 DEF rest
<1> QED
  BY <1>4, <1>5, <1>6

(* The longs that the buffer begins with. *)
LEMMA LongsOfBuffer ==
  ASSUME buffer \in Seq(Byte), NEW values \in Seq(Int),
         Len(Longs(values)) <= Len(buffer),
         \A i \in 1..Len(buffer) :
           i <= Len(Longs(values)) => buffer[i] = Longs(values)[i],
         NEW k \in 1..Len(values)
  PROVE  LongAt(k) = Long(values[k])
<1>1. /\ LongSize \in Nat \ {0} /\ Len(values) \in Nat /\ Len(buffer) \in Nat
      /\ values[k] \in Int
  BY FormatAssumption, LenProperties, ElementOfSeq
<1>2. /\ Len(Longs(values)) = Len(values) * LongSize
      /\ \A j \in 1..LongSize :
           Longs(values)[(k - 1) * LongSize + j] = Long(values[k])[j]
  BY LongsFact
<1>3. PICK p \in Nat, n \in Nat :
        /\ p = (k - 1) * LongSize /\ k * LongSize = p + LongSize
        /\ n = Len(values) * LongSize /\ p + LongSize <= n
  <2>1. k - 1 \in Nat /\ Len(values) - k \in Nat
    BY <1>1
  <2>2. /\ (k - 1) * LongSize \in Nat
        /\ k * LongSize = (k - 1) * LongSize + LongSize
        /\ Len(values) * LongSize \in Nat
    BY <1>1, <2>1
  <2>3. (Len(values) - k) * LongSize \in Nat
    BY <1>1, <2>1
  <2>4. Len(values) * LongSize = k * LongSize + (Len(values) - k) * LongSize
    BY <1>1
  <2>5. ASSUME NEW a \in Nat, NEW b \in Nat, NEW c \in Nat, NEW e \in Int,
               b = e + c, e = a + LongSize
        PROVE  a + LongSize <= b
    BY <1>1, <2>5
  <2>6. (k - 1) * LongSize + LongSize <= Len(values) * LongSize
    BY <1>1, <2>2, <2>3, <2>4, <2>5
  <2> QED
    BY <2>2, <2>6, Zenon
<1>4. LongAt(k) = SubSeq(buffer, p + 1, p + LongSize)
  BY <1>3 DEF LongAt
<1>5. n <= Len(buffer)
  BY <1>2, <1>3
<1>6. /\ LongAt(k) \in Seq(Byte) /\ Len(LongAt(k)) = LongSize
      /\ \A j \in 1..LongSize : LongAt(k)[j] = buffer[p + j]
  <2>1. p + 1 \in 1..(Len(buffer) + 1)
        /\ p + LongSize \in (p + 1 - 1)..Len(buffer)
        /\ (p + LongSize) - (p + 1) + 1 = LongSize
        /\ \A j \in Int : p + 1 + j - 1 = p + j
    BY <1>1, <1>3, <1>5
  <2>2. /\ SubSeq(buffer, p + 1, p + LongSize) \in Seq(Byte)
        /\ Len(SubSeq(buffer, p + 1, p + LongSize)) =
             (p + LongSize) - (p + 1) + 1
        /\ \A j \in 1..((p + LongSize) - (p + 1) + 1) :
             SubSeq(buffer, p + 1, p + LongSize)[j] = buffer[p + 1 + j - 1]
    BY <2>1, PartOfSeq, SMTT(30)
  <2>3. /\ LongAt(k) \in Seq(Byte) /\ Len(LongAt(k)) = LongSize
        /\ \A j \in 1..LongSize : LongAt(k)[j] = buffer[p + 1 + j - 1]
    BY <1>4, <2>1, <2>2, Zenon
  <2>4. ASSUME NEW j \in 1..LongSize
        PROVE  LongAt(k)[j] = buffer[p + j]
    <3>1. j \in Int
      BY <1>1
    <3>2. p + 1 + j - 1 = p + j
      BY <2>1, <3>1
    <3> QED
      BY <2>3, <3>2, Zenon
  <2> QED
    BY <2>3, <2>4, Zenon
<1>7. ASSUME NEW j \in 1..LongSize
      PROVE  LongAt(k)[j] = Long(values[k])[j]
  <2>1. p + j \in 1..Len(buffer) /\ p + j <= n
    <3>1. p + LongSize <= n /\ p \in Nat /\ n \in Nat /\ j <= LongSize
          /\ j \in Nat /\ j >= 1
      BY <1>1, <1>3
    <3> QED
      BY <1>1, <1>5, <3>1, SMTT(30)
  <2>2. buffer[p + j] = Longs(values)[p + j]
    BY <1>2, <1>3, <2>1
  <2>3. Longs(values)[p + j] = Long(values[k])[j]
    BY <1>2, <1>3
  <2> QED
    BY <1>6, <2>2, <2>3
<1>8. Long(values[k]) \in Seq(Byte) /\ Len(Long(values[k])) = LongSize
  BY <1>1, LongFact
<1> QED
  BY <1>6, <1>7, <1>8, SeqEqual

----------------------------------------------------------------------------
(* The loader. *)

(* The end of a sequence, and its beginning. *)
LEMMA EndOfSeq ==
  ASSUME NEW T, NEW s, s \in Seq(T), NEW k, k \in 0..Len(s)
  PROVE  /\ SubSeq(s, k + 1, Len(s)) \in Seq(T)
         /\ Len(SubSeq(s, k + 1, Len(s))) = Len(s) - k
         /\ \A i \in 1..(Len(s) - k) : SubSeq(s, k + 1, Len(s))[i] = s[k + i]
<1>1. Len(s) \in Nat
  BY LenProperties
<1>2. ASSUME NEW i, NEW j, i = k + 1, j = Len(s)
      PROVE  /\ SubSeq(s, i, j) \in Seq(T)
             /\ Len(SubSeq(s, i, j)) = j - k
             /\ \A m \in 1..(j - k) : SubSeq(s, i, j)[m] = s[k + m]
  <2>1. i \in 1..(Len(s) + 1) /\ j \in (i - 1)..Len(s) /\ j - i + 1 = j - k
        /\ \A m \in Int : i + m - 1 = k + m
    BY <1>1, <1>2
  <2>2. /\ SubSeq(s, i, j) \in Seq(T)
        /\ Len(SubSeq(s, i, j)) = j - i + 1
        /\ \A m \in 1..(j - i + 1) : SubSeq(s, i, j)[m] = s[i + m - 1]
    BY <2>1, PartOfSeq
  <2> QED
    BY <2>1, <2>2
<1> QED
  BY <1>2

LEMMA BeginningOfSeq ==
  ASSUME NEW T, NEW s, s \in Seq(T), NEW k, k \in 0..Len(s)
  PROVE  /\ SubSeq(s, 1, k) \in Seq(T)
         /\ Len(SubSeq(s, 1, k)) = k
         /\ \A i \in 1..k : SubSeq(s, 1, k)[i] = s[i]
<1>1. Len(s) \in Nat
  BY LenProperties
<1>2. 1 \in 1..(Len(s) + 1) /\ k \in (1 - 1)..Len(s) /\ k - 1 + 1 = k
  BY <1>1
<1>3. /\ SubSeq(s, 1, k) \in Seq(T)
      /\ Len(SubSeq(s, 1, k)) = k - 1 + 1
      /\ \A i \in 1..(k - 1 + 1) : SubSeq(s, 1, k)[i] = s[1 + i - 1]
  BY <1>2, PartOfSeq
<1> QED
  BY <1>2, <1>3

(* The longs at the front of the buffer, and what follows them. *)
AreUnpacked(values, missing, rest) ==
  /\ \A k \in 1..Len(values) : LongAt(k) = Long(values[k])
  /\ Rest(Len(values) * LongSize) \in Seq(Byte)
  /\ Rest(Len(values) * LongSize) \o missing = rest

(***************************************************************************)
(* The longs at the beginning of what is left of the file are read as they *)
(* were dumped, wherever the file ends behind them.                        *)
(***************************************************************************)
LEMMA Unpacked ==
  ASSUME buffer \in Seq(Byte), NEW missing \in Seq(Byte),
         NEW values \in Seq(Int), NEW rest \in Seq(Byte),
         buffer \o missing = Longs(values) \o rest,
         Len(values) * LongSize <= Len(buffer)
  PROVE  AreUnpacked(values, missing, rest)
<1> DEFINE front == Longs(values)
           n == Len(values) * LongSize
<1>1. front \in Seq(Byte) /\ Len(front) = n
  BY LongsFact
<1>2. Len(buffer) \in Nat /\ n \in Nat
  BY <1>1, LenProperties
<1>0. buffer \o missing = front \o rest /\ n <= Len(buffer)
  OBVIOUS
<1> HIDE DEF front, n
<1>3. /\ \A i \in 1..Len(buffer) : i <= Len(front) => buffer[i] = front[i]
      /\ SubSeq(buffer, Len(front) + 1, Len(buffer)) \o missing = rest
  BY <1>0, <1>1, <1>2, BufferAndMissing
<1>4. SubSeq(buffer, n + 1, Len(buffer)) \in Seq(Byte)
  <2>1. n + 1 \in 1..(Len(buffer) + 1) /\ Len(buffer) \in (n + 1 - 1)..Len(buffer)
    BY <1>0, <1>2
  <2> QED
    BY <2>1, PartOfSeq
<1>5. \A k \in 1..Len(values) : LongAt(k) = Long(values[k])
  <2>1. ASSUME NEW k \in 1..Len(values)
        PROVE  LongAt(k) = Long(values[k])
    <3>1. Len(Longs(values)) <= Len(buffer)
      BY <1>1 DEF front, n
    <3>2. \A i \in 1..Len(buffer) :
            i <= Len(Longs(values)) => buffer[i] = Longs(values)[i]
      BY <1>3 DEF front
    <3> QED
      BY <3>1, <3>2, LongsOfBuffer
  <2> QED
    BY <2>1
<1>6. /\ Rest(n) = SubSeq(buffer, n + 1, Len(buffer))
      /\ Len(front) = n
  BY <1>1 DEF Rest
<1> QED
  BY <1>3, <1>4, <1>5, <1>6 DEF AreUnpacked, n

LEMMA ThreeLongs ==
  ASSUME NEW a \in Int, NEW b \in Int, NEW c \in Int
  PROVE  /\ <<a, b, c>> \in Seq(Int) /\ Len(<<a, b, c>>) = 3
         /\ <<a, b, c>>[1] = a /\ <<a, b, c>>[2] = b /\ <<a, b, c>>[3] = c
OBVIOUS

(* The registers of a call, its return value, and the number of copies. *)
IsUnpackedCall(r, missing, rest) ==
  /\ [i \in 1..NumRegisters |-> Unsigned(LongAt(i))] = r.regs
  /\ Signed(LongAt(NumRegisters + 1)) = r.ret
  /\ Unsigned(LongAt(NumRegisters + 2)) = r.amount
  /\ Rest(SizeOfSyscallDump) \in Seq(Byte)
  /\ Rest(SizeOfSyscallDump) \o missing = rest

(***************************************************************************)
(* load_system_call reads the registers, the return value and the number   *)
(* of copies of a record that are in the file.                             *)
(***************************************************************************)
LEMMA UnpackedCall ==
  ASSUME buffer \in Seq(Byte), NEW missing \in Seq(Byte),
         NEW r \in Records, NEW rest \in Seq(Byte),
         buffer \o missing = DumpSyscallRecord(r) \o rest,
         SizeOfSyscallDump <= Len(buffer)
  PROVE  IsUnpackedCall(r, missing, rest)
<1> DEFINE values == r.regs \o <<r.ret, r.amount>>
           n == NumRegisters
<1>1. /\ r.regs \in Seq(Unsigneds) /\ Len(r.regs) = n
      /\ r.ret \in Signeds /\ r.amount \in Unsigneds
      /\ r.ret \in Int /\ r.amount \in Int
  BY DEF Records, Signeds, Unsigneds
<1>2. /\ values \in Seq(Int) /\ Len(values) = n + 2
      /\ DumpSyscallRecord(r) = Longs(values)
  BY DumpSyscallRecordFact DEF DumpSyscallRecord
<1>3. n \in Nat /\ LongSize \in Nat /\ SizeOfSyscallDump = (n + 2) * LongSize
      /\ Power[LongSize] \in Nat
  BY Sizes, FormatAssumption, PowerFact
<1>4. /\ \A i \in 1..n : values[i] = r.regs[i]
      /\ values[n + 1] = r.ret /\ values[n + 2] = r.amount
  <2>1. /\ r.regs \in Seq(Int) /\ <<r.ret, r.amount>> \in Seq(Int)
        /\ Len(<<r.ret, r.amount>>) = 2
        /\ <<r.ret, r.amount>>[1] = r.ret /\ <<r.ret, r.amount>>[2] = r.amount
    <3>1. r.regs \in Seq(Int)
      <4>1. Unsigneds \subseteq Int
        BY DEF Unsigneds
      <4> QED
        BY <1>1, <4>1, SeqMonotonic
    <3> QED
      BY <1>1, <3>1
  <2>2. ASSUME NEW s \in Seq(Int), NEW t \in Seq(Int), Len(s) = n, Len(t) = 2
        PROVE  /\ \A i \in 1..n : (s \o t)[i] = s[i]
               /\ (s \o t)[n + 1] = t[1] /\ (s \o t)[n + 2] = t[2]
    <3>0. \A i \in 1..(Len(s) + Len(t)) :
            (s \o t)[i] = IF i <= Len(s) THEN s[i] ELSE t[i - Len(s)]
      BY ConcatProperties
    <3>1. \A i \in 1..(n + 2) : (s \o t)[i] = IF i <= n THEN s[i]
                                              ELSE t[i - n]
      BY <2>2, <3>0
    <3>2. n + 1 \in 1..(n + 2) /\ n + 2 \in 1..(n + 2)
          /\ (n + 1) - n = 1 /\ (n + 2) - n = 2
          /\ ~(n + 1 <= n) /\ ~(n + 2 <= n)
      BY <1>3
    <3>3. \A i \in 1..n : i \in 1..(n + 2) /\ i <= n
      BY <1>3
    <3> QED
      BY <3>1, <3>2, <3>3
  <2> QED
    BY <1>1, <2>1, <2>2
<1> HIDE DEF values
<1>5. AreUnpacked(values, missing, rest)
  BY <1>2, <1>3, Unpacked
<1>6. /\ \A k \in 1..(n + 2) : LongAt(k) = Long(values[k])
      /\ Rest(SizeOfSyscallDump) \in Seq(Byte)
      /\ Rest(SizeOfSyscallDump) \o missing = rest
  BY <1>2, <1>3, <1>5 DEF AreUnpacked
<1>7. \A i \in 1..n : Unsigned(LongAt(i)) = r.regs[i]
  <2>1. ASSUME NEW i \in 1..n
        PROVE  Unsigned(LongAt(i)) = r.regs[i]
    <3>1. i \in 1..(n + 2) /\ i \in 1..Len(r.regs)
      BY <1>1, <1>3
    <3>2. LongAt(i) = Long(r.regs[i])
      BY <1>4, <1>6, <3>1
    <3>3. r.regs[i] \in Unsigneds
      BY <1>1, <3>1, ElementOfSeq
    <3>4. r.regs[i] \in Nat /\ r.regs[i] < Power[LongSize]
      BY <1>3, <3>3, SMTT(30) DEF Unsigneds
    <3> QED
      BY <3>2, <3>4, UnsignedOfSmallLong
  <2> QED
    BY <2>1
<1>8. [i \in 1..n |-> Unsigned(LongAt(i))] = r.regs
  <2>1. r.regs \in [1..n -> Unsigneds]
    BY <1>1, LenProperties
  <2>2. r.regs = [i \in 1..n |-> r.regs[i]]
    BY <2>1
  <2> QED
    BY <1>7, <2>2
<1>9. Signed(LongAt(n + 1)) = r.ret
  <2>1. n + 1 \in 1..(n + 2)
    BY <1>3
  <2>2. LongAt(n + 1) = Long(r.ret)
    BY <1>4, <1>6, <2>1
  <2>3. r.ret \in Int /\ 0 - Power[LongSize] <= 2 * r.ret
        /\ 2 * r.ret < Power[LongSize]
    BY <1>1 DEF Signeds
  <2> QED
    BY <2>2, <2>3, SignedOfLong
<1>10. Unsigned(LongAt(n + 2)) = r.amount
  <2>1. n + 2 \in 1..(n + 2)
    BY <1>3
  <2>2. LongAt(n + 2) = Long(r.amount)
    BY <1>4, <1>6, <2>1
  <2>3. r.amount \in Nat /\ r.amount < Power[LongSize]
    BY <1>1, <1>3 DEF Unsigneds
  <2> QED
    BY <2>2, <2>3, UnsignedOfSmallLong
<1> QED
  BY <1>6, <1>8, <1>9, <1>10 DEF IsUnpackedCall

(* unpack_str: all of the characters, or those there are. *)
IsTaken(buf, s, chars, got, missing, rest) ==
  /\ got \in Seq(Byte)
  /\ SubSeq(buf, s + Len(got) + 1, Len(buf)) \in Seq(Byte)
  /\ \/ /\ got = chars
        /\ SubSeq(buf, s + Len(got) + 1, Len(buf)) \o missing = rest
     \/ /\ IsPrefix(got, chars)
        /\ SubSeq(buf, s + Len(got) + 1, Len(buf)) = <<>>
        /\ Len(rest) < Len(missing)

(* unpack_str takes the bytes of a copy, or what there is of them. *)
LEMMA CharsTaken ==
  ASSUME NEW buf \in Seq(Byte), NEW missing \in Seq(Byte),
         NEW chars \in Seq(Byte), NEW rest \in Seq(Byte),
         NEW s \in 0..Len(buf), NEW front,
         front = SubSeq(buf, s + 1, Len(buf)),
         front \o missing = chars \o rest
  PROVE  IsTaken(buf, s, chars,
                 SubSeq(buf, s + 1, IF s + Len(chars) <= Len(buf)
                                    THEN s + Len(chars) ELSE Len(buf)),
                 missing, rest)
<1>1. Len(buf) \in Nat /\ Len(chars) \in Nat /\ Len(rest) \in Nat
      /\ Len(missing) \in Nat
  BY LenProperties
<1>2. /\ front \in Seq(Byte) /\ Len(front) = Len(buf) - s
      /\ \A k \in 1..(Len(buf) - s) : front[k] = buf[s + k]
  <2>1. /\ SubSeq(buf, s + 1, Len(buf)) \in Seq(Byte)
        /\ Len(SubSeq(buf, s + 1, Len(buf))) = Len(buf) - s
        /\ \A k \in 1..(Len(buf) - s) :
             SubSeq(buf, s + 1, Len(buf))[k] = buf[s + k]
    BY EndOfSeq
  <2> QED
    BY <2>1
<1>3. /\ Len(front) + Len(missing) = Len(chars) + Len(rest)
      /\ \A i \in 1..Len(front) : i <= Len(chars) => front[i] = chars[i]
      /\ Len(chars) <= Len(front) =>
           SubSeq(front, Len(chars) + 1, Len(front)) \o missing = rest
  <2>1. ASSUME NEW a \in Seq(Byte), a \o missing = chars \o rest
        PROVE  /\ Len(a) + Len(missing) = Len(chars) + Len(rest)
               /\ \A i \in 1..Len(a) : i <= Len(chars) => a[i] = chars[i]
               /\ Len(chars) <= Len(a) =>
                    SubSeq(a, Len(chars) + 1, Len(a)) \o missing = rest
    BY <2>1, BufferAndMissing
  <2> QED
    BY <1>2, <2>1
<1>4. CASE s + Len(chars) <= Len(buf)
  <2> DEFINE got == SubSeq(buf, s + 1, s + Len(chars))
  <2>1. /\ got \in Seq(Byte) /\ Len(got) = Len(chars)
        /\ \A k \in 1..Len(chars) : got[k] = buf[s + k]
    <3>1. s + 1 \in 1..(Len(buf) + 1) /\ s + Len(chars) \in (s + 1 - 1)..Len(buf)
          /\ (s + Len(chars)) - (s + 1) + 1 = Len(chars)
          /\ \A k \in Int : s + 1 + k - 1 = s + k
      BY <1>1, <1>4
    <3> QED
      BY <3>1, PartOfSeq, SMTT(30)
  <2> HIDE DEF got
  <2>2. got = chars
    <3>1. ASSUME NEW k \in 1..Len(got)
          PROVE  got[k] = chars[k]
      <4>1. k \in 1..(Len(buf) - s) /\ k \in 1..Len(front) /\ k <= Len(chars)
            /\ k \in 1..Len(chars)
        BY <1>1, <1>2, <1>4, <2>1
      <4> QED
        BY <1>2, <1>3, <2>1, <4>1
    <3> QED
      BY <2>1, <3>1, SeqEqual
  <2> DEFINE n == Len(buf) - s - Len(chars)
             tail == SubSeq(buf, s + Len(chars) + 1, Len(buf))
             other == SubSeq(front, Len(chars) + 1, Len(front))
  <2>3. /\ tail \in Seq(Byte) /\ Len(tail) = n
        /\ \A k \in 1..n : tail[k] = buf[s + Len(chars) + k]
    <3>1. s + Len(chars) \in 0..Len(buf) /\ Len(buf) - (s + Len(chars)) = n
      BY <1>1, <1>4
    <3>2. ASSUME NEW m, m \in 0..Len(buf)
          PROVE  /\ SubSeq(buf, m + 1, Len(buf)) \in Seq(Byte)
                 /\ Len(SubSeq(buf, m + 1, Len(buf))) = Len(buf) - m
                 /\ \A k \in 1..(Len(buf) - m) :
                      SubSeq(buf, m + 1, Len(buf))[k] = buf[m + k]
      BY <3>2, EndOfSeq
    <3> HIDE DEF n
    <3> QED
      BY <3>1, <3>2
  <2>4. /\ other \in Seq(Byte) /\ Len(other) = n
        /\ \A k \in 1..n : other[k] = front[Len(chars) + k]
    <3>1. Len(chars) \in 0..Len(front) /\ Len(front) - Len(chars) = n
      BY <1>1, <1>2, <1>4
    <3>2. ASSUME NEW a \in Seq(Byte), Len(chars) \in 0..Len(a),
                 Len(a) - Len(chars) = n
          PROVE  /\ SubSeq(a, Len(chars) + 1, Len(a)) \in Seq(Byte)
                 /\ Len(SubSeq(a, Len(chars) + 1, Len(a))) = n
                 /\ \A k \in 1..n : SubSeq(a, Len(chars) + 1, Len(a))[k]
                                      = a[Len(chars) + k]
      <4> HIDE DEF n
      <4> QED
        BY <3>2, EndOfSeq
    <3> QED
      BY <1>2, <3>1, <3>2
  <2> HIDE DEF tail, other
  <2>5. tail = other
    <3>1. ASSUME NEW k \in 1..Len(tail)
          PROVE  tail[k] = other[k]
      <4>1. k \in 1..n /\ Len(chars) + k \in 1..(Len(buf) - s)
            /\ s + Len(chars) + k = s + (Len(chars) + k)
        BY <1>1, <1>4, <2>3
      <4> QED
        BY <1>2, <2>3, <2>4, <4>1
    <3> QED
      BY <2>3, <2>4, <3>1, SeqEqual
  <2>6. Len(chars) <= Len(front)
    BY <1>1, <1>2, <1>4
  <2>7. other \o missing = rest
    BY <1>3, <2>6 DEF other
  <2>8. SubSeq(buf, s + Len(got) + 1, Len(buf)) = tail
    BY <2>1 DEF tail
  <2>9. IsTaken(buf, s, chars, got, missing, rest)
    BY <2>1, <2>2, <2>3, <2>5, <2>7, <2>8 DEF IsTaken
  <2> QED
    BY <1>4, <2>9 DEF got
<1>5. CASE ~(s + Len(chars) <= Len(buf))
  <2>1. Len(front) \in Nat /\ Len(front) < Len(chars)
        /\ s + Len(front) = Len(buf)
    BY <1>1, <1>2, <1>5
  <2>2. SubSeq(buf, s + Len(front) + 1, Len(buf)) = <<>>
    <3>1. s + Len(front) + 1 = Len(buf) + 1 /\ Len(buf) < Len(buf) + 1
      BY <1>1, <2>1
    <3>2. SubSeq(buf, Len(buf) + 1, Len(buf)) = <<>>
      BY <1>1, <3>1, SubSeqEmpty
    <3> QED
      BY <3>1, <3>2
  <2>3. IsPrefix(front, chars)
    <3> DEFINE u == SubSeq(front, 1, Len(front))
               w == SubSeq(chars, 1, Len(front))
    <3>1. u = front
      BY <1>2, SubSeqFull
    <3>2. /\ w \in Seq(Byte) /\ Len(w) = Len(front)
          /\ \A k \in 1..Len(front) : w[k] = chars[k]
      <4>1. 1 \in 1..(Len(chars) + 1) /\ Len(front) \in (1 - 1)..Len(chars)
            /\ Len(front) - 1 + 1 = Len(front)
            /\ \A k \in Int : 1 + k - 1 = k
        BY <1>1, <2>1
      <4> QED
        BY <4>1, PartOfSeq, SMTT(30)
    <3> HIDE DEF u, w
    <3>3. w = front
      <4>1. \A k \in 1..Len(front) : k <= Len(chars)
        BY <1>1, <2>1
      <4>2. \A k \in 1..Len(w) : w[k] = front[k]
        BY <1>3, <3>2, <4>1
      <4> QED
        BY <1>2, <3>2, <4>2, SeqEqual
    <3> QED
      BY <2>1, <3>1, <3>3 DEF IsPrefix, u, w
  <2>4. Len(rest) < Len(missing)
    BY <1>1, <1>3, <2>1
  <2>5. <<>> \in Seq(Byte)
    BY EmptySeq
  <2>6. IsTaken(buf, s, chars, front, missing, rest)
    BY <1>2, <2>2, <2>3, <2>4, <2>5 DEF IsTaken
  <2> QED
    BY <1>5, <2>6
<1> QED
  BY <1>4, <1>5

(* from, to and len of a copy; then its bytes, all of them or the first. *)
IsUnpackedCopy(c, bytes, missing, rest) ==
  /\ Unsigned(LongAt(1)) = c.from /\ Unsigned(LongAt(2)) = c.to
  /\ Unsigned(LongAt(3)) = Len(c.bytes)
  /\ bytes \in Seq(Byte)
  /\ Rest(SizeOfCopyRecord + Len(bytes)) \in Seq(Byte)
  /\ \/ /\ bytes = c.bytes
        /\ Rest(SizeOfCopyRecord + Len(bytes)) \o missing = rest
     \/ /\ IsPrefix(bytes, c.bytes)
        /\ Rest(SizeOfCopyRecord + Len(bytes)) = <<>>
        /\ Len(rest) < Len(missing)

(***************************************************************************)
(* A copy is read as it was dumped; where the file ends in its bytes,      *)
(* without the end of them.                                                *)
(***************************************************************************)
LEMMA UnpackedCopy ==
  ASSUME buffer \in Seq(Byte), NEW missing \in Seq(Byte),
         NEW c \in Copies, NEW rest \in Seq(Byte),
         buffer \o missing = DumpCopyRecord(c) \o rest,
         SizeOfCopyRecord <= Len(buffer)
  PROVE  IsUnpackedCopy(c, UnpackStr(Unsigned(LongAt(3))), missing, rest)
<1> DEFINE values == <<c.from, c.to, Len(c.bytes)>>
           s == SizeOfCopyRecord
           len == Len(c.bytes)
           all == c.bytes \o rest
<1>1. /\ c.from \in Unsigneds /\ c.to \in Unsigneds /\ len \in Unsigneds
      /\ c.bytes \in Seq(Byte) /\ Power[LongSize] \in Nat
      /\ s \in Nat /\ s = 3 * LongSize /\ Len(buffer) \in Nat /\ len \in Nat
  BY Sizes, FormatAssumption, PowerFact, LenProperties DEF Copies, Bytes
<1>2. c.from \in Nat /\ c.to \in Nat /\ len \in Nat
      /\ c.from < Power[LongSize] /\ c.to < Power[LongSize]
      /\ len < Power[LongSize]
  BY <1>1, SMTT(30) DEF Unsigneds
<1>3. /\ values \in Seq(Int) /\ Len(values) = 3
      /\ values[1] = c.from /\ values[2] = c.to /\ values[3] = len
  BY <1>2, ThreeLongs
<1>4. all \in Seq(Byte)
  BY <1>1, ConcatProperties
<1>5. buffer \o missing = Longs(values) \o all
  <2>1. DumpCopyRecord(c) = Longs(values) \o c.bytes
    BY DEF DumpCopyRecord
  <2>2. Longs(values) \in Seq(Byte)
    BY <1>3, LongsFact
  <2> HIDE DEF values
  <2>3. ASSUME NEW u \in Seq(Byte), NEW w \in Seq(Byte)
        PROVE  (u \o w) \o rest = u \o (w \o rest)
    BY ConcatAssociative, SMTT(30)
  <2> QED
    BY <1>1, <2>1, <2>2, <2>3
<1> HIDE DEF values, all
<1>6. AreUnpacked(values, missing, all)
  BY <1>1, <1>3, <1>4, <1>5, Unpacked
<1>7. /\ \A k \in 1..3 : LongAt(k) = Long(values[k])
      /\ SubSeq(buffer, s + 1, Len(buffer)) \o missing = all
  BY <1>1, <1>3, <1>6 DEF AreUnpacked, Rest
<1>8. /\ Unsigned(LongAt(1)) = c.from /\ Unsigned(LongAt(2)) = c.to
      /\ Unsigned(LongAt(3)) = len
  BY <1>2, <1>3, <1>7, UnsignedOfSmallLong, SMTT(30)
<1>9. s \in 0..Len(buffer)
  BY <1>1
<1> HIDE DEF s
<1>10. IsTaken(buffer, s, c.bytes,
               SubSeq(buffer, s + 1, IF s + len <= Len(buffer)
                                     THEN s + len ELSE Len(buffer)),
               missing, rest)
  BY <1>1, <1>7, <1>9, CharsTaken DEF all
<1>11. IsTaken(buffer, s, c.bytes, UnpackStr(len), missing, rest)
  BY <1>10 DEF UnpackStr, s
<1>12. \A n : Rest(s + n) = SubSeq(buffer, s + n + 1, Len(buffer))
  BY DEF Rest
<1> QED
  BY <1>8, <1>11, <1>12 DEF IsUnpackedCopy, IsTaken, s
=============================================================================
