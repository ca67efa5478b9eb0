---------------------------- MODULE TraceeProofs ----------------------------
(***************************************************************************)
(* The words of the tracee's memory: what is read by words is what was     *)
(* asked for, and a buffer that is written by words changes the bytes it   *)
(* covers and no others, whatever the size of a word, the length of the    *)
(* buffer and its address are.                                             *)
(***************************************************************************)
EXTENDS TraceeMemory, Recursion

----------------------------------------------------------------------------
(* The memory, once the rest of the first buffer is written to it. *)
Target ==
  [a \in DOMAIN memory |->
     IF a \in To..(To + Len(Chars) - 1) THEN Chars[a - To + 1] ELSE memory[a]]

(* A buffer and a memory of integers. *)
TraceeTypeOK ==
  /\ todo \in Seq([to : Int, bytes : Seq(Int)])
  /\ DOMAIN memory \subseteq Int
  /\ memory \in [DOMAIN memory -> Int]

LEMMA FirstBuffer ==
  ASSUME TraceeTypeOK, todo # <<>>
  PROVE  /\ To \in Int /\ Chars \in Seq(Int) /\ Len(Chars) \in Nat
         /\ 1 \in DOMAIN todo
<1>1. /\ todo \in Seq([to : Int, bytes : Seq(Int)])
      /\ Len(todo) \in Nat \ {0} /\ DOMAIN todo = 1..Len(todo)
  BY EmptySeq, LenProperties DEF TraceeTypeOK
<1>2. todo[1] \in [to : Int, bytes : Seq(Int)]
  <2>1. 1 \in 1..Len(todo)
    BY <1>1
  <2> QED
    BY <1>1, <2>1, ElementOfSeq, Zenon
<1> QED
  BY <1>1, <1>2, LenProperties DEF To, Chars

(* What a word becomes: the bytes of the buffer, then what was there. *)
LEMMA DataOfWord ==
  ASSUME TraceeTypeOK, todo # <<>>, CanReach(To),
         NEW i \in 1..WordSize
  PROVE  Data[i] = IF i <= Len(Chars) THEN Chars[i] ELSE memory[To + i - 1]
<1>0. /\ To \in Int /\ Chars \in Seq(Int) /\ Len(Chars) \in Nat
      /\ WordSize \in Nat \ {0}
  BY FirstBuffer, WordAssumption
<1> DEFINE p == Peek(To)
<1>1. /\ p \in Seq(Int) /\ Len(p) = WordSize
      /\ \A j \in 1..WordSize : p[j] = memory[To + j - 1]
  <2>1. \A j \in 1..WordSize : memory[To + j - 1] \in Int
    <3>1. \A j \in 1..WordSize : To + j - 1 \in Word(To)
      BY <1>0 DEF Word
    <3> QED
      BY <3>1 DEF CanReach, TraceeTypeOK
  <2>2. /\ p \in [1..WordSize -> Int]
        /\ \A j \in 1..WordSize : p[j] = memory[To + j - 1]
    BY <2>1 DEF Peek
  <2> HIDE DEF p
  <2>3. p \in Seq(Int)
    BY <1>0, <2>2, SeqDef
  <2>4. Len(p) = WordSize
    BY <1>0, <2>2, <2>3
  <2> QED
    BY <2>2, <2>3, <2>4
<1> HIDE DEF p
<1>2. CASE Len(Chars) >= WordSize
  BY <1>0, <1>2, SubSeqProperties DEF Data
<1>3. CASE Len(Chars) < WordSize
  <2> DEFINE rest == SubSeq(p, Len(Chars) + 1, WordSize)
  <2>1. /\ rest \in Seq(Int) /\ Len(rest) = WordSize - Len(Chars)
        /\ \A j \in 1..(WordSize - Len(Chars)) : rest[j] = p[Len(Chars) + j]
    BY <1>0, <1>1, <1>3, SubSeqProperties
  <2>2. Data = Chars \o rest
    BY <1>0, <1>3 DEF Data, p
  <2> HIDE DEF rest
  <2>3. Data[i] = IF i <= Len(Chars) THEN Chars[i] ELSE rest[i - Len(Chars)]
    BY <1>0, <2>1, <2>2, ConcatProperties
  <2>4. i > Len(Chars) => rest[i - Len(Chars)] = p[i]
    <3>1. SUFFICES ASSUME i > Len(Chars)
                   PROVE  rest[i - Len(Chars)] = p[i]
      OBVIOUS
    <3>2. i - Len(Chars) \in 1..(WordSize - Len(Chars))
          /\ Len(Chars) + (i - Len(Chars)) = i
      BY <1>0, <3>1
    <3> QED
      BY <2>1, <3>2
  <2> QED
    BY <1>0, <1>1, <2>3, <2>4
<1> QED
  BY <1>0, <1>2, <1>3

(* The rest of the buffer, after a word of it. *)
LEMMA RestOfBuffer ==
  ASSUME TraceeTypeOK, todo # <<>>, PokeWord
  PROVE  /\ To' = To + WordSize
         /\ Len(Chars') = IF Len(Chars) <= WordSize
                          THEN 0 ELSE Len(Chars) - WordSize
         /\ \A j \in 1..Len(Chars') : Chars'[j] = Chars[WordSize + j]
<1>0. /\ To \in Int /\ Chars \in Seq(Int) /\ Len(Chars) \in Nat
      /\ WordSize \in Nat \ {0} /\ 1 \in DOMAIN todo
  BY FirstBuffer, WordAssumption
<1>1. /\ To' = To + WordSize
      /\ Chars' = SubSeq(Chars, WordSize + 1, Len(Chars))
  BY <1>0 DEF PokeWord, To, Chars
<1> QED
  BY <1>0, <1>1, SubSeqProperties

(***************************************************************************)
(* write_buffer_to_tracee: each PTRACE_POKEDATA brings the memory nearer   *)
(* to the one with the buffer's bytes in it, and to no other: the last     *)
(* word, which the buffer may fill only in part, keeps the bytes that      *)
(* follow it.                                                              *)
(***************************************************************************)
THEOREM WordsWriteTheBuffer ==
  ASSUME TraceeTypeOK, PokeWord
  PROVE  Target' = Target
<1>0. /\ To \in Int /\ Chars \in Seq(Int) /\ Len(Chars) \in Nat
      /\ WordSize \in Nat \ {0} /\ todo # <<>> /\ CanReach(To)
  BY FirstBuffer, WordAssumption DEF PokeWord
<1>1. /\ DOMAIN memory' = DOMAIN memory
      /\ \A a \in DOMAIN memory :
           memory'[a] = IF a \in Word(To) THEN Data[a - To + 1] ELSE memory[a]
  BY DEF PokeWord, Poke
<1>2. ASSUME NEW a \in DOMAIN memory
      PROVE  Target'[a] = Target[a]
  <2>0. a \in Int
    BY DEF TraceeTypeOK
  <2>1. /\ To' = To + WordSize
        /\ \A k \in 1..Len(Chars') : Chars'[k] = Chars[WordSize + k]
    BY <1>0, RestOfBuffer
  <2>2. /\ Target[a] = IF a \in To..(To + Len(Chars) - 1)
                       THEN Chars[a - To + 1] ELSE memory[a]
        /\ Target'[a] = IF a \in To'..(To' + Len(Chars') - 1)
                        THEN Chars'[a - To' + 1] ELSE memory'[a]
    BY <1>1 DEF Target
  <2>3. /\ a \in To'..(To' + Len(Chars') - 1)
             <=> a \in To..(To + Len(Chars) - 1) /\ a \notin Word(To)
        /\ a \in To'..(To' + Len(Chars') - 1)
             => /\ a - To' + 1 \in 1..Len(Chars')
                /\ WordSize + (a - To' + 1) = a - To + 1
    <3>1. /\ Len(Chars) <= WordSize => Len(Chars') = 0
          /\ Len(Chars) > WordSize => Len(Chars') = Len(Chars) - WordSize
          /\ To' = To + WordSize
      BY <1>0, RestOfBuffer
    <3>2. /\ WordSize \in Nat \ {0} /\ To \in Int /\ Len(Chars) \in Nat
          /\ Len(Chars') \in Nat /\ To' \in Int
      BY <1>0, <3>1
    <3> QED
      BY <2>0, <3>1, <3>2, SMTT(30) DEF Word
  <2>4. CASE a \in To'..(To' + Len(Chars') - 1)
    BY <2>1, <2>2, <2>3, <2>4
  <2>5. CASE a \in Word(To)
    <3>1. a - To + 1 \in 1..WordSize /\ To + (a - To + 1) - 1 = a
      BY <1>0, <2>0, <2>5 DEF Word
    <3>2. memory'[a] = IF a - To + 1 <= Len(Chars) THEN Chars[a - To + 1]
                       ELSE memory[a]
      BY <1>0, <1>1, <2>5, <3>1, DataOfWord
    <3>3. a - To + 1 <= Len(Chars) <=> a \in To..(To + Len(Chars) - 1)
      BY <1>0, <2>0, <3>1
    <3> QED
      BY <2>2, <2>3, <2>5, <3>2, <3>3
  <2>6. CASE a \notin To'..(To' + Len(Chars') - 1) /\ a \notin Word(To)
    BY <1>1, <2>2, <2>3, <2>6
  <2> QED
    BY <2>4, <2>5, <2>6
<1> QED
  BY <1>1, <1>2 DEF Target

----------------------------------------------------------------------------
(* The quotient that WordsOf rounds up. *)
LEMMA RoundedUp ==
  ASSUME NEW n \in Nat, NEW w \in Nat \ {0}
  PROVE  /\ (n + w - 1) \div w \in Nat
         /\ n <= ((n + w - 1) \div w) * w
         /\ \A k \in 1..n : \E i \in 1..((n + w - 1) \div w), j \in 1..w :
              k = (i - 1) * w + j
<1>1. PICK m \in Int, r \in 0..(w - 1) :
        m = (n + w - 1) \div w /\ n + w - 1 = w * m + r
  <2>1. /\ (n + w - 1) \div w \in Int /\ (n + w - 1) % w \in 0..(w - 1)
        /\ n + w - 1 = w * ((n + w - 1) \div w) + ((n + w - 1) % w)
    <3>1. n + w - 1 \in Int
      OBVIOUS
    <3> QED
      BY <3>1, Division
  <2> QED
    BY <2>1, Zenon
<1>2. m >= 0
  <2>1. m <= -1 => w * m <= 0 - w
    OBVIOUS
  <2> QED
    BY <1>1, <2>1
<1>3. n <= m * w
  <2>1. w * m = m * w /\ w * m \in Int
    OBVIOUS
  <2>2. w * m >= n
    BY <1>1, <2>1
  <2> QED
    BY <2>1, <2>2
<1>4. ASSUME NEW k \in 1..n
      PROVE  \E i \in 1..m, j \in 1..w : k = (i - 1) * w + j
  <2>1. PICK q \in Int, s \in 0..(w - 1) : k - 1 = w * q + s
    <3>1. /\ (k - 1) \div w \in Int /\ (k - 1) % w \in 0..(w - 1)
          /\ k - 1 = w * ((k - 1) \div w) + ((k - 1) % w)
      <4>1. k - 1 \in Int
        OBVIOUS
      <4> QED
        BY <4>1, Division
    <3> QED
      BY <3>1, Zenon
  <2>2. q >= 0
    <3>1. q <= -1 => w * q <= 0 - w
      OBVIOUS
    <3> QED
      BY <2>1, <3>1
  <2>3. q + 1 <= m
    <3>1. SUFFICES ASSUME q >= m
                   PROVE  FALSE
      BY <1>1
    <3>2. PICK d \in Nat : q = m + d
      <4>1. q - m \in Nat /\ q = m + (q - m)
        BY <3>1
      <4> QED
        BY <4>1
    <3>3. w * q = w * m + w * d /\ w * d \in Nat /\ w * m \in Int
      BY <3>2
    <3>4. w * q >= w * m
      BY <3>3
    <3>5. k - 1 >= n
      <4>1. k - 1 >= w * m /\ w * m = n + w - 1 - r
        BY <1>1, <2>1, <3>3, <3>4
      <4>2. w * m >= n
        BY <4>1
      <4> QED
        BY <3>3, <4>1, <4>2
    <3> QED
      BY <3>5
  <2>4. q + 1 \in 1..m /\ s + 1 \in 1..w
    BY <2>2, <2>3
  <2>5. k = ((q + 1) - 1) * w + (s + 1)
    <3>1. ((q + 1) - 1) * w = w * q /\ w * q \in Int
      OBVIOUS
    <3>2. k = w * q + (s + 1)
      BY <2>1, <3>1
    <3> QED
      BY <3>1, <3>2
  <2> QED
    BY <2>4, <2>5
<1> QED
  BY <1>1, <1>2, <1>3, <1>4

(***************************************************************************)
(* read_from_tracee returns the bytes that were asked for, and only those. *)
(***************************************************************************)
THEOREM WordsReadTheBuffer ==
  ASSUME NEW T, NEW addr \in Int, NEW length \in Nat,
         DOMAIN memory \subseteq Int, memory \in [DOMAIN memory -> T],
         CanRead(addr, length)
  PROVE  /\ ReadFromTracee(addr, length)
              = [i \in 1..length |-> memory[addr + i - 1]]
         /\ \A i \in 1..length : addr + i - 1 \in DOMAIN memory
<1> DEFINE n == (length + WordSize - 1) \div WordSize
           words == WordsOf(addr, length)
           peeks == [i \in 1..Len(words) |-> Peek(words[i])]
<1>1. WordSize \in Nat \ {0}
  BY WordAssumption
<1>2. /\ n \in Nat /\ length <= n * WordSize
      /\ \A k \in 1..length : \E i \in 1..n, j \in 1..WordSize :
              k = (i - 1) * WordSize + j
  BY <1>1, RoundedUp
<1> HIDE DEF n
<1>3. /\ words \in Seq(Int) /\ Len(words) = n
      /\ \A i \in 1..n : words[i] = addr + (i - 1) * WordSize
  <2>1. \A i \in 1..n : addr + (i - 1) * WordSize \in Int
    BY <1>1
  <2>2. words = [i \in 1..n |-> addr + (i - 1) * WordSize]
    BY DEF WordsOf, n
  <2>3. words \in [1..n -> Int]
    BY <2>1, <2>2
  <2>4. \A i \in 1..n : words[i] = addr + (i - 1) * WordSize
    BY <2>2
  <2> HIDE DEF words
  <2> QED
    BY <1>2, <2>3, <2>4, FunctionIsSeq
<1> HIDE DEF words
<1>4. ASSUME NEW i \in 1..n, NEW j \in 1..WordSize
      PROVE  /\ words[i] + j - 1 \in DOMAIN memory
             /\ memory[words[i] + j - 1] \in T
             /\ words[i] + j - 1 = addr + ((i - 1) * WordSize + j) - 1
  <2>1. words[i] \in Int /\ words[i] = addr + (i - 1) * WordSize
        /\ (i - 1) * WordSize \in Int
    BY <1>1, <1>3, ElementOfSeq
  <2>2. words[i] + j - 1 \in Word(words[i])
    BY <1>1, <2>1 DEF Word
  <2>3. Word(words[i]) \subseteq DOMAIN memory
    <3>1. Len(WordsOf(addr, length)) = n /\ WordsOf(addr, length)[i] = words[i]
      BY <1>3 DEF words
    <3> QED
      BY <3>1 DEF CanRead, CanReach
  <2>4. words[i] + j - 1 = addr + ((i - 1) * WordSize + j) - 1
    BY <2>1
  <2> QED
    BY <2>2, <2>3, <2>4
<1>5. /\ peeks \in Seq(Seq(T)) /\ Len(peeks) = n
      /\ \A i \in 1..n : /\ peeks[i] \in Seq(T) /\ Len(peeks[i]) = WordSize
                         /\ \A j \in 1..WordSize :
                              peeks[i][j] = memory[words[i] + j - 1]
  <2>1. ASSUME NEW i \in 1..n
        PROVE  /\ Peek(words[i]) \in Seq(T)
               /\ Len(Peek(words[i])) = WordSize
               /\ \A j \in 1..WordSize :
                    Peek(words[i])[j] = memory[words[i] + j - 1]
    <3>1. Peek(words[i]) \in [1..WordSize -> T]
      BY <1>4 DEF Peek
    <3>2. \A j \in 1..WordSize : Peek(words[i])[j] = memory[words[i] + j - 1]
      BY DEF Peek
    <3> QED
      BY <1>1, <3>1, <3>2, FunctionIsSeq
  <2>2. /\ peeks \in [1..n -> Seq(T)]
        /\ \A i \in 1..n : peeks[i] = Peek(words[i])
    BY <1>3, <2>1
  <2> HIDE DEF peeks
  <2>3. peeks \in Seq(Seq(T)) /\ Len(peeks) = n
    BY <1>2, <2>2, FunctionIsSeq
  <2> QED
    BY <2>1, <2>2, <2>3
<1>6. ReadFromTracee(addr, length) = SubSeq(FlattenSeq(peeks), 1, length)
  BY DEF ReadFromTracee, peeks, words
<1> HIDE DEF peeks
<1>7. /\ FlattenSeq(peeks) \in Seq(T)
      /\ Len(FlattenSeq(peeks)) = n * WordSize
      /\ \A i \in 1..n, j \in 1..WordSize :
           FlattenSeq(peeks)[(i - 1) * WordSize + j] = peeks[i][j]
  <2>1. IsUniform(FlattenSeq(peeks), peeks, WordSize)
    BY <1>1, <1>5, FlattenUniform
  <2>2. FlattenSeq(peeks) \in Seq(T)
    BY <1>5, FlattenType
  <2> QED
    BY <1>5, <2>1, <2>2 DEF IsUniform
<1>8. /\ SubSeq(FlattenSeq(peeks), 1, length) \in Seq(T)
      /\ Len(SubSeq(FlattenSeq(peeks), 1, length)) = length
      /\ \A k \in 1..length :
           SubSeq(FlattenSeq(peeks), 1, length)[k] = FlattenSeq(peeks)[k]
  <2>1. /\ 1 \in 1..(Len(FlattenSeq(peeks)) + 1)
        /\ length \in (1 - 1)..Len(FlattenSeq(peeks))
        /\ length - 1 + 1 = length /\ \A k \in Int : 1 + k - 1 = k
    <3>1. PICK l \in Nat : l = n * WordSize /\ length <= l
      <4>1. n * WordSize \in Nat
        BY <1>1, <1>2
      <4> QED
        BY <1>2, <4>1
    <3>2. Len(FlattenSeq(peeks)) = l
      BY <1>7, <3>1
    <3> QED
      BY <3>1, <3>2
  <2>2. /\ SubSeq(FlattenSeq(peeks), 1, length) \in Seq(T)
        /\ Len(SubSeq(FlattenSeq(peeks), 1, length)) = length - 1 + 1
        /\ \A k \in 1..(length - 1 + 1) :
             SubSeq(FlattenSeq(peeks), 1, length)[k]
               = FlattenSeq(peeks)[1 + k - 1]
    BY <1>7, <2>1, PartOfSeq
  <2> QED
    BY <2>1, <2>2
<1>9. ASSUME NEW k \in 1..length
      PROVE  /\ FlattenSeq(peeks)[k] = memory[addr + k - 1]
             /\ addr + k - 1 \in DOMAIN memory
             /\ memory[addr + k - 1] \in T
  <2>1. PICK i \in 1..n, j \in 1..WordSize : k = (i - 1) * WordSize + j
    BY <1>2
  <2>2. FlattenSeq(peeks)[k] = peeks[i][j]
    BY <1>7, <2>1
  <2>3. peeks[i][j] = memory[words[i] + j - 1]
    BY <1>5
  <2>4. words[i] + j - 1 = addr + k - 1
    BY <1>4, <2>1
  <2> QED
    BY <1>4, <2>2, <2>3, <2>4
<1>10. /\ [i \in 1..length |-> memory[addr + i - 1]] \in Seq(T)
       /\ Len([i \in 1..length |-> memory[addr + i - 1]]) = length
  <2>1. [i \in 1..length |-> memory[addr + i - 1]] \in [1..length -> T]
    BY <1>9
  <2> QED
    BY <2>1, FunctionIsSeq
<1>11. SubSeq(FlattenSeq(peeks), 1, length)
         = [i \in 1..length |-> memory[addr + i - 1]]
  BY <1>8, <1>9, <1>10, SeqEqual
<1> QED
  BY <1>6, <1>9, <1>11
=============================================================================
