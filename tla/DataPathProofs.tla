--------------------------- MODULE DataPathProofs ---------------------------
(***************************************************************************)
(* Proofs about DataPath: what the hooks record is what the system calls   *)
(* wrote, and it gets through the dump file and the loader to the memory   *)
(* of the tracee, for any memory, any number of calls and copies, any      *)
(* sizes of a long and of a word, and wherever the file is cut.            *)
(***************************************************************************)
EXTENDS DataPath, LoaderProofs, TraceeProofs

----------------------------------------------------------------------------
(***************************************************************************)
(* The inductive invariant.  Types first.                                  *)
(***************************************************************************)
CopyingType == [kind : {"copy"}, to : Unsigneds, len : 0..Len(Source),
                left : 0..Len(Source)]
SavedType == [kind : {"saved"}, ptr : Mapped, mem : [1..WrapSize -> Byte]]
FailedType == [kind : {"failed"}, ptr : Mapped]
Pieces == Len(current.copies) + (IF copying = None THEN 0 ELSE 1)

RecordingTypeOK ==
  /\ user \in [Mapped -> Byte]
  /\ effect \in [Mapped -> Byte]
  /\ spoiled \subseteq Mapped
  /\ \/ copying = None
     \/ /\ copying \in CopyingType
        /\ copying.left <= copying.len
        /\ source \in Seq(Byte)
        /\ Len(source) = copying.len
  /\ \/ wrapped = None
     \/ wrapped \in FailedType
     \/ wrapped \in SavedType /\ Span(wrapped.ptr, WrapSize) \subseteq Mapped
  /\ current \in [amount : Nat, copies : Seq(Copies)]
  /\ current.amount = Len(current.copies)
  /\ writes \in 0..MaxWrites
  /\ Pieces <= writes + WrapSize
  /\ wrapped.kind = "saved" => Pieces <= writes

HistoryTypeOK ==
  /\ recorded \in Seq(Records)
  /\ \A k \in 1..Len(recorded) :
       recorded[k].amount = Len(recorded[k].copies)
  /\ Len(recorded) <= MaxRecords
  /\ after \in Seq([Mapped -> Byte])
  /\ Len(after) = Len(recorded)

(* The memory of the recorded process before its k-th call. *)
Before(k) == IF k = 1 THEN [a \in Mapped |-> 0] ELSE after[k - 1]

(***************************************************************************)
(* The last of the copies that covers an address has this byte for it; or  *)
(* none covers it, and the byte is the one in the memory.                  *)
(***************************************************************************)
Covers(copy, a) == a \in Span(copy.to, Len(copy.bytes))
ByteOf(copy, a) == copy.bytes[a - copy.to + 1]
Results(mem, copies, a, byte) ==
  \/ \E i \in 1..Len(copies) :
       /\ Covers(copies[i], a)
       /\ ByteOf(copies[i], a) = byte
       /\ \A j \in (i + 1)..Len(copies) : ~Covers(copies[j], a)
  \/ /\ \A i \in 1..Len(copies) : ~Covers(copies[i], a)
     /\ mem[a] = byte

Pending(a) ==
  copying # None /\ a \in Span(copying.to, copying.len - copying.left)
InWrap(a) == wrapped.kind = "saved" /\ a \in Span(wrapped.ptr, WrapSize)
SavedByte(a) == wrapped.mem[a - wrapped.ptr + 1]

(* Of an address: what the record in progress tells of it, or will tell. *)
IsTold(a) ==
  /\ user[a] = effect[a]
  /\ Pending(a) => effect[a] = source[a - copying.to + 1]
  /\ InWrap(a) => SavedByte(a) = Before(Len(recorded) + 1)[a]
  /\ \/ Pending(a)
     \/ InWrap(a) /\ effect[a] # SavedByte(a)
     \/ Results(Before(Len(recorded) + 1), current.copies, a, effect[a])

(* What the finished record k tells of it. *)
IsRecorded(k, a) == Results(Before(k), recorded[k].copies, a, after[k][a])

(* The calls, among the first n, that write to stdout. *)
WritesIn(records, n) ==
  {k \in 1..n : /\ records[k].regs[1] = WriteSysCall
                /\ records[k].regs[2] = Stdout}

(* What the process printed with call k, of the buffer it gave. *)
Outputs == [at : Nat, len : Nat, bytes : Seq(Byte)]

IsPrinted(k, p) ==
  /\ p.at = recorded[k].regs[3]
  /\ p.len = recorded[k].regs[4]
  /\ Len(p.bytes) <= p.len
  /\ Span(p.at, Len(p.bytes)) \subseteq Mapped
  /\ \A a \in Span(p.at, Len(p.bytes)) \ spoiled :
       p.bytes[a - p.at + 1] = Before(k)[a]

Told == \A a \in Mapped \ spoiled : IsTold(a)

AllRecorded ==
  \A a \in Mapped \ spoiled, k \in 1..Len(recorded) : IsRecorded(k, a)

AllPrinted ==
  /\ printed \in Seq(Outputs)
  /\ Len(printed) = Cardinality(WritesIn(recorded, Len(recorded)))
  /\ \A k \in WritesIn(recorded, Len(recorded)) :
       IsPrinted(k, printed[Cardinality(WritesIn(recorded, k))])

RecordingInv ==
  RecordingTypeOK /\ Told /\ HistoryTypeOK /\ AllRecorded /\ AllPrinted

----------------------------------------------------------------------------
(* The loader, and what is left of the file. *)
Calls == [regs : {r \in Seq(Unsigneds) : Len(r) = NumRegisters},
          ret : Signeds,
          copies : Seq([from : Unsigneds, to : Unsigneds, bytes : Seq(Byte)])]

LoaderTypeOK ==
  /\ buffer \in Seq(Byte)
  /\ cut \in 0..Len(DumpRecords(recorded))
  /\ system_calls \in Seq(Calls)
  /\ Len(system_calls) <= Len(recorded)
  /\ loading.left \in Nat
  /\ loader \in {"waiting", "loading", "loaded", "raised"}

Missing ==
  SubSeq(DumpRecords(recorded), cut + 1, Len(DumpRecords(recorded)))
Left(n) == DumpRecords(SubSeq(recorded, n + 1, Len(recorded)))
IsWhole(i) == system_calls[i] = Loaded(recorded[i])
AreWhole(n) == \A i \in 1..n : IsWhole(i)

(* Between two calls, or at the end. *)
Between ==
  /\ AreWhole(Len(system_calls))
  /\ loading = Nothing
  /\ buffer \o Missing = Left(Len(system_calls))

(* Between two copies of record r: those before are loaded. *)
Within(r) ==
  LET j == Len(loading.copies)
  IN  /\ j \in 0..(Len(r.copies) - 1)
      /\ loading = [regs |-> r.regs, ret |-> r.ret,
                    left |-> Len(r.copies) - j,
                    copies |-> SubSeq(r.copies, 1, j)]
      /\ buffer \o Missing =
           DumpCopyRecords(SubSeq(r.copies, j + 1, Len(r.copies)))
           \o Left(Len(system_calls) + 1)

(* The file has ended in the bytes of a copy, and its call is not loaded. *)
LostWithin ==
  /\ buffer = <<>>
  /\ loading.left \in Nat \ {0}

(* Or it is: it is the last one. *)
LostAtEnd ==
  LET n == Len(system_calls)
  IN  /\ n > 0
      /\ AreWhole(n - 1)
      /\ LosesItsEnd(system_calls[n], recorded[n])
      /\ loading = Nothing
      /\ buffer = <<>>
      /\ ~InFile(n)

LoaderInv ==
  /\ LoaderTypeOK
  /\ loader = "waiting" =>
       /\ buffer = <<>> /\ loading = Nothing /\ system_calls = <<>>
       /\ cut = 0
  /\ loader # "waiting" =>
       \/ Between
       \/ /\ loader # "loaded"
          /\ Len(system_calls) < Len(recorded)
          /\ AreWhole(Len(system_calls))
          /\ Within(recorded[Len(system_calls) + 1]) \/ LostWithin
       \/ LostAtEnd

----------------------------------------------------------------------------
(* The replay. *)
ReplayTypeOK ==
  /\ memory \in [Mapped -> Byte]
  /\ todo \in Seq([to : Nat, bytes : Seq(Byte)])
  /\ replayer \in {"waiting", "running", "simulating", "done", "raised"}
  /\ replayed \in 0..Len(system_calls)
  /\ rax \in Unsigneds
  /\ stdout \in Seq(Seq(Byte))

(* No part of the recording is replayed. *)
AtStart ==
  /\ memory = [a \in Mapped |-> 0]
  /\ todo = <<>> /\ stdout = <<>> /\ replayed = 0

(* Between two calls. *)
Reproduced ==
  \A a \in Mapped \ spoiled : memory[a] = Before(replayed + 1)[a]

AfterCall ==
  /\ todo = <<>>
  /\ Len(stdout) = Cardinality(WritesIn(recorded, replayed))
  /\ replayed > 0 => rax = LowBits(recorded[replayed].ret)
  /\ replayed = 0 \/ IsWhole(replayed) => Reproduced

(* In a call: what is still to be written makes the memory after it. *)
Reproduces ==
  \A a \in Mapped \ spoiled :
    Results(memory, todo, a, after[replayed + 1][a])

InCall ==
  /\ replayed < Len(system_calls)
  /\ Len(stdout) = Cardinality(WritesIn(recorded, replayed + 1))
  /\ IsWhole(replayed + 1) => Reproduces

ReplayInv ==
  /\ ReplayTypeOK
  /\ replayer # "waiting" => loader = "loaded"
  /\ replayer = "waiting" => AtStart
  /\ replayer = "running" => AfterCall
  /\ replayer = "simulating" => InCall
  /\ Len(stdout) <= Len(printed)
  /\ OutputReproduced

PathInv == RecordingInv /\ LoaderInv /\ ReplayInv

----------------------------------------------------------------------------
(* The operators of the recorded memory. *)

(* What the assumptions say of the numbers of the model. *)
LEMMA Numbers ==
  /\ ByteValues \in Nat \ {0, 1} /\ LongSize \in Nat \ {0}
  /\ Mapped \subseteq Nat /\ Mapped \subseteq Unsigneds
  /\ Source \in Seq(Byte) /\ NewSource \in Seq(Byte) /\ Foreign \in Byte
  /\ Len(Source) \in Nat /\ Len(NewSource) = Len(Source)
  /\ Len(Source) \in Unsigneds /\ Len(Source) \in Signeds
  /\ \A n \in 0..Len(Source) : n \in Unsigneds /\ n \in Signeds
  /\ \A a \in CopyArgs : a[1] \in Unsigneds /\ a[2] \in 0..Len(Source)
  /\ \A n \in PutSizes : n \in 1..Len(Source)
  /\ WrapSize \in Nat \ {0} /\ MaxWrites \in Nat /\ MaxRecords \in Nat
  /\ \A n \in 0..(MaxWrites + WrapSize) : n \in Unsigneds
  /\ Returns \subseteq Signeds
  /\ \A w \in WriteCalls : /\ w[1] \in Unsigneds /\ w[2] \in Unsigneds
                           /\ w[3] \in Unsigneds /\ w[4] \in Signeds
  /\ 0 \in Byte /\ 0 \in Unsigneds /\ 1 \in Unsigneds
  /\ Power[LongSize] \in Nat \ {0, 1} /\ NumRegisters = 4
<1>1. ByteValues \in Nat \ {0, 1} /\ LongSize \in Nat \ {0}
  BY FormatAssumption
<1>2. Power[LongSize] \in Nat /\ Power[LongSize] > 1
  <2>1. LongSize - 1 \in Nat /\ (LongSize - 1) + 1 = LongSize
    BY <1>1
  <2>2. Power[LongSize - 1] \in Nat \ {0}
        /\ Power[(LongSize - 1) + 1] = ByteValues * Power[LongSize - 1]
        /\ ByteValues * Power[LongSize - 1] > Power[LongSize - 1]
    BY <2>1, PowerFact
  <2> QED
    BY <1>1, <2>1, <2>2, PowerFact
<1>3. /\ Mapped \subseteq Nat /\ Len(Source) = Len(NewSource)
      /\ CopyArgs \subseteq Nat \X (0..Len(Source))
      /\ PutSizes \subseteq 1..Len(Source)
      /\ WrapSize \in Nat \ {0}
      /\ Returns \subseteq Int
      /\ WriteCalls \subseteq Nat \X Nat \X Nat \X Int
      /\ MaxWrites \in Nat /\ MaxRecords \in Nat
  BY MemoryAssumption
<1>4. /\ NumRegisters = 4
      /\ Source \in Seq(Byte) /\ NewSource \in Seq(Byte)
      /\ Foreign \in Byte
      /\ \A a \in Mapped : a < Power[LongSize]
      /\ \A a \in CopyArgs : a[1] < Power[LongSize]
      /\ 2 * Len(Source) < Power[LongSize]
      /\ MaxWrites + WrapSize < Power[LongSize]
      /\ \A ret \in Returns \cup {w[4] : w \in WriteCalls} :
           0 - Power[LongSize] <= 2 * ret /\ 2 * ret < Power[LongSize]
      /\ \A w \in WriteCalls, i \in 1..3 : w[i] < Power[LongSize]
  BY PathAssumption DEF Byte
<1>5. Len(Source) \in Nat
  BY <1>4, LenProperties
<1>6. Mapped \subseteq Unsigneds /\ 0 \in Byte /\ 0 \in Unsigneds
      /\ 1 \in Unsigneds
  BY <1>1, <1>2, <1>3, <1>4 DEF Unsigneds, Byte
<1>7. \A n \in 0..Len(Source) : n \in Unsigneds /\ n \in Signeds
  BY <1>2, <1>4, <1>5 DEF Unsigneds, Signeds
<1>8. \A a \in CopyArgs : a[1] \in Unsigneds /\ a[2] \in 0..Len(Source)
  BY <1>2, <1>3, <1>4 DEF Unsigneds
<1>9. \A n \in 0..(MaxWrites + WrapSize) : n \in Unsigneds
  BY <1>2, <1>3, <1>4 DEF Unsigneds
<1>10. Returns \subseteq Signeds
  BY <1>3, <1>4 DEF Signeds
<1>11. ASSUME NEW w \in WriteCalls
       PROVE  /\ w[1] \in Unsigneds /\ w[2] \in Unsigneds
              /\ w[3] \in Unsigneds /\ w[4] \in Signeds
  <2>1. w[1] \in Nat /\ w[2] \in Nat /\ w[3] \in Nat /\ w[4] \in Int
    BY <1>3
  <2>2. /\ w[1] < Power[LongSize] /\ w[2] < Power[LongSize]
        /\ w[3] < Power[LongSize]
    BY <1>4
  <2>3. 0 - Power[LongSize] <= 2 * w[4] /\ 2 * w[4] < Power[LongSize]
    BY <1>4
  <2> QED
    BY <1>2, <2>1, <2>2, <2>3 DEF Unsigneds, Signeds
<1> QED
  BY <1>1, <1>2, <1>3, <1>4, <1>5, <1>6, <1>7, <1>8, <1>9, <1>10, <1>11

(* A write changes the bytes it covers and no others. *)
IsOverwritten(new, old, at, bytes) ==
  /\ new \in [Mapped -> Byte]
  /\ \A a \in Mapped : new[a] = IF a \in Span(at, Len(bytes))
                                THEN bytes[a - at + 1] ELSE old[a]

LEMMA OverwriteFact ==
  ASSUME NEW mem, mem \in [Mapped -> Byte], NEW at \in Nat,
         NEW bytes, bytes \in Seq(Byte)
  PROVE  IsOverwritten(Overwrite(mem, at, bytes), mem, at, bytes)
<1> DEFINE new == Overwrite(mem, at, bytes)
<1>1. Len(bytes) \in Nat /\ Mapped \subseteq Nat
  BY LenProperties, Numbers
<1>2. ASSUME NEW a \in Mapped, a \in Span(at, Len(bytes))
      PROVE  bytes[a - at + 1] \in Byte
  <2>1. a - at + 1 \in 1..Len(bytes)
    BY <1>1, <1>2 DEF Span
  <2> QED
    BY <2>1, ElementOfSeq
<1>3. new = [a \in Mapped |-> IF a \in Span(at, Len(bytes))
                              THEN bytes[a - at + 1] ELSE mem[a]]
  BY DEF Overwrite
<1>4. new \in [Mapped -> Byte]
  BY <1>2, <1>3
<1> QED
  BY <1>3, <1>4 DEF IsOverwritten

(* The bytes that _copy_to_user can write are mapped. *)
LEMMA ReachableFact ==
  ASSUME NEW at \in Nat, NEW n \in Nat
  PROVE  Reachable(at, n) \in 0..n /\ Span(at, Reachable(at, n)) \subseteq Mapped
<1> DEFINE T == {k \in 0..n : k < n => at + k \notin Mapped}
<1>1. n \in T /\ T \subseteq Nat
  OBVIOUS
<1>2. PICK k \in T : \A j \in T : k <= j
  <2> HIDE DEF T
  <2> QED
    BY <1>1, LeastNumber
<1>3. Span(at, k) \subseteq Mapped
  <2>1. ASSUME NEW a \in Span(at, k)
        PROVE  a \in Mapped
    <3>1. a - at \in 0..n /\ a - at < k /\ a = at + (a - at)
      BY <1>2, <2>1 DEF Span
    <3>2. a - at \notin T
      BY <1>2, <3>1
    <3> QED
      BY <3>1, <3>2
  <2> QED
    BY <2>1
<1>4. k \in 0..n /\ (k < n => at + k \notin Mapped)
  BY <1>2
<1> QED
  BY <1>3, <1>4 DEF Reachable

(* The bytes of a short sequence, and that of the source. *)
LEMMA SourceFact ==
  ASSUME NEW n \in 0..Len(Source)
  PROVE  /\ SubSeq(Source, 1, n) \in Seq(Byte)
         /\ Len(SubSeq(Source, 1, n)) = n
         /\ \A i \in 1..n : SubSeq(Source, 1, n)[i] = Source[i]
         /\ SubSeq(NewSource, 1, n) \in Seq(Byte)
         /\ Len(SubSeq(NewSource, 1, n)) = n
<1>1. /\ Source \in Seq(Byte) /\ NewSource \in Seq(Byte)
      /\ Len(Source) \in Nat /\ Len(NewSource) = Len(Source)
  BY Numbers
<1>2. n \in (1 - 1)..Len(Source) /\ 1 \in 1..(Len(Source) + 1)
      /\ n - 1 + 1 = n
  BY <1>1
<1>3. /\ SubSeq(Source, 1, n) \in Seq(Byte)
      /\ Len(SubSeq(Source, 1, n)) = n - 1 + 1
      /\ \A i \in 1..(n - 1 + 1) : SubSeq(Source, 1, n)[i] = Source[1 + i - 1]
  BY <1>1, <1>2, PartOfSeq
<1>4. /\ SubSeq(NewSource, 1, n) \in Seq(Byte)
      /\ Len(SubSeq(NewSource, 1, n)) = n - 1 + 1
  BY <1>1, <1>2, PartOfSeq
<1> QED
  BY <1>2, <1>3, <1>4

(* Which addresses changed, and that there are no more than can be. *)
AreChanged(changed) ==
  /\ changed \in Seq(Int)
  /\ Len(changed) <= WrapSize
  /\ \A i \in 1..Len(changed) : changed[i] \in Span(wrapped.ptr, WrapSize)
  /\ \A a \in Span(wrapped.ptr, WrapSize) :
       wrapped.mem[a - wrapped.ptr + 1] # user[a]
         <=> \E i \in 1..Len(changed) : changed[i] = a

(* Changed lists the bytes that are no longer the saved ones, each once. *)
LEMMA ChangedFact ==
  ASSUME wrapped \in SavedType, Mapped \subseteq Nat
  PROVE  AreChanged(Changed)
<1> DEFINE w == WrapSize
           p == wrapped.ptr
           m == wrapped.mem
           IsIt(f) == f = [n \in 0..w |->
             IF n = 0 THEN <<>>
             ELSE LET a == p + n - 1
                  IN  IF m[n] # user[a] THEN Append(f[n - 1], a)
                                        ELSE f[n - 1]]
           step == [n \in Nat |-> [s \in Seq(Int) |->
                      IF m[n + 1] # user[p + (n + 1) - 1]
                      THEN Append(s, p + (n + 1) - 1) ELSE s]]
<1>1. w \in Nat /\ p \in Int
  <2>1. p \in Mapped
    BY DEF SavedType
  <2>2. Mapped \subseteq Nat /\ WrapSize \in Nat
    BY MemoryAssumption
  <2>3. p \in Nat
    BY <2>1, <2>2
  <2> QED
    BY <2>2, <2>3
<1>2. PICK g : Iterates(g, Seq(Int), <<>>, step)
  <2>1. <<>> \in Seq(Int)
    BY EmptySeq
  <2>2. \A n \in Nat : \A s \in Seq(Int) : step[n][s] \in Seq(Int)
    <3>1. ASSUME NEW n \in Nat, NEW s \in Seq(Int)
          PROVE  step[n][s] \in Seq(Int)
      <4>1. p + (n + 1) - 1 \in Int
        BY <1>1
      <4>2. Append(s, p + (n + 1) - 1) \in Seq(Int)
        BY <4>1, AppendProperties
      <4> QED
        BY <4>2
    <3> QED
      BY <3>1
  <2> HIDE DEF step
  <2> QED
    BY <2>1, <2>2, IterationExists
<1>3. /\ g \in [Nat -> Seq(Int)] /\ g[0] = <<>>
      /\ \A n \in Nat : g[n + 1] = IF m[n + 1] # user[p + (n + 1) - 1]
                                   THEN Append(g[n], p + (n + 1) - 1)
                                   ELSE g[n]
  <2>1. /\ g \in [Nat -> Seq(Int)] /\ g[0] = <<>>
        /\ \A n \in Nat : g[n + 1] = step[n][g[n]]
    BY <1>2 DEF Iterates
  <2> QED
    BY <2>1
<1>4. \E f : IsIt(f)
  <2> DEFINE f == [n \in 0..w |-> g[n]]
  <2>1. ASSUME NEW n \in 0..w
        PROVE  f[n] = IF n = 0 THEN <<>>
                      ELSE LET a == p + n - 1
                           IN  IF m[n] # user[a] THEN Append(f[n - 1], a)
                                                 ELSE f[n - 1]
    <3>1. CASE n = 0
      BY <1>3, <3>1
    <3>2. CASE n # 0
      <4>1. n - 1 \in Nat /\ (n - 1) + 1 = n /\ n - 1 \in 0..w
        BY <1>1, <3>2
      <4>2. g[n] = IF m[n] # user[p + n - 1] THEN Append(g[n - 1], p + n - 1)
                                             ELSE g[n - 1]
        BY <1>3, <4>1
      <4> QED
        BY <3>2, <4>1, <4>2
    <3> QED
      BY <3>1, <3>2
  <2>2. IsIt(f)
    BY <2>1
  <2> QED
    BY <2>2
<1> DEFINE f == CHOOSE h : IsIt(h)
<1>5. Changed = f[w]
  BY DEF Changed
<1>6. IsIt(f)
  BY <1>4
<1> HIDE DEF f
<1>7. /\ f[0] = <<>>
      /\ \A n \in 0..(w - 1) : f[n + 1] = IF m[n + 1] # user[p + n]
                                          THEN Append(f[n], p + n) ELSE f[n]
  <2>1. \A n \in 0..w : f[n] = IF n = 0 THEN <<>>
             ELSE LET a == p + n - 1
                  IN  IF m[n] # user[a] THEN Append(f[n - 1], a)
                                        ELSE f[n - 1]
    BY <1>6, Zenon
  <2>2. 0 \in 0..w
    BY <1>1
  <2>3. ASSUME NEW n \in 0..(w - 1)
        PROVE  f[n + 1] = IF m[n + 1] # user[p + n]
                          THEN Append(f[n], p + n) ELSE f[n]
    <3>1. n + 1 \in 0..w /\ n + 1 # 0 /\ (n + 1) - 1 = n
          /\ p + (n + 1) - 1 = p + n
      BY <1>1
    <3> QED
      BY <2>1, <3>1
  <2> QED
    BY <2>1, <2>2, <2>3
<1> HIDE DEF p
<1> DEFINE Upto(n) ==
             /\ f[n] \in Seq(Int)
             /\ Len(f[n]) <= n
             /\ \A i \in 1..Len(f[n]) : f[n][i] \in Span(p, n)
             /\ \A a \in Span(p, n) :
                  m[a - p + 1] # user[a]
                    <=> \E i \in 1..Len(f[n]) : f[n][i] = a
           S == {n \in 0..w : Upto(n)}
<1>8. 0 \in S
  <2>1. f[0] \in Seq(Int) /\ Len(f[0]) = 0
    BY <1>7, EmptySeq
  <2> QED
    BY <1>1, <2>1 DEF Span
<1>9. ASSUME NEW n \in 0..(w - 1), n \in S
      PROVE  n + 1 \in S
  <2>0. n \in Nat /\ n + 1 \in 0..w
    BY <1>1
  <2>1. Upto(n)
    BY <1>9
  <2>2. Len(f[n]) \in Nat
    BY <2>1, LenProperties
  <2>3. \A a : a \in Span(p, n + 1) <=> a \in Span(p, n) \/ a = p + n
    BY <1>1, <2>0 DEF Span
  <2>4. (p + n) - p + 1 = n + 1 /\ p + n \in Int /\ p + n \notin Span(p, n)
    BY <1>1, <2>0 DEF Span
  <2>5. CASE m[n + 1] # user[p + n]
    <3>1. f[n + 1] = Append(f[n], p + n)
      BY <1>7, <2>5
    <3>2. /\ f[n + 1] \in Seq(Int) /\ Len(f[n + 1]) = Len(f[n]) + 1
          /\ \A i \in 1..Len(f[n]) : f[n + 1][i] = f[n][i]
          /\ f[n + 1][Len(f[n]) + 1] = p + n
      BY <2>1, <2>4, <3>1, AppendProperties
    <3>3. \A i : i \in 1..Len(f[n + 1])
                   <=> i \in 1..Len(f[n]) \/ i = Len(f[n]) + 1
      BY <2>2, <3>2
    <3>4. Len(f[n + 1]) <= n + 1
      BY <2>0, <2>1, <2>2, <3>2
    <3> HIDE DEF S
    <3>5. \A i \in 1..Len(f[n + 1]) : f[n + 1][i] \in Span(p, n + 1)
      BY <2>1, <2>3, <3>2, <3>3
    <3>6. ASSUME NEW a \in Span(p, n + 1)
          PROVE  m[a - p + 1] # user[a]
                   <=> \E i \in 1..Len(f[n + 1]) : f[n + 1][i] = a
      <4>1. CASE a = p + n
        BY <2>2, <2>4, <2>5, <3>2, <3>3, <4>1
      <4>2. CASE a # p + n
        BY <2>1, <2>3, <3>2, <3>3, <4>2, ZenonT(30)
      <4> QED
        BY <4>1, <4>2
    <3>7. Upto(n + 1)
      BY <3>2, <3>4, <3>5, <3>6
    <3> QED
      BY <2>0, <3>7 DEF S
  <2>6. CASE m[n + 1] = user[p + n]
    <3>1. f[n + 1] = f[n]
      BY <1>7, <2>6
    <3>2. Upto(n + 1)
      BY <2>0, <2>1, <2>2, <2>3, <2>4, <2>6, <3>1
    <3> QED
      BY <2>0, <3>2
  <2> QED
    BY <2>5, <2>6
<1> HIDE DEF Upto
<1>10. w \in S
  <2> HIDE DEF S
  <2>1. 0..w \subseteq S
    BY <1>1, <1>8, <1>9, InductionUpTo
  <2> QED
    BY <1>1, <2>1
<1>11. Upto(w)
  BY <1>10
<1> QED
  BY <1>5, <1>11 DEF p, Upto, AreChanged

----------------------------------------------------------------------------
(* What the copies of a record tell of an address. *)

LEMMA ResultsOfNone ==
  ASSUME NEW mem, NEW a, NEW byte, mem[a] = byte
  PROVE  Results(mem, <<>>, a, byte)
<1>1. Len(<<>>) = 0
  OBVIOUS
<1>2. \A i \in 1..Len(<<>>) : FALSE
  BY <1>1
<1> QED
  BY <1>2 DEF Results

(* More copies: those that cover the address tell of it, or none does. *)
ResultsKept(mem, cs, ds, a, byte) ==
  Results(mem, cs, a, byte) /\ (\A i \in 1..Len(ds) : ~Covers(ds[i], a))
    => Results(mem, cs \o ds, a, byte)

ResultsNew(mem, cs, ds, a, byte) ==
  (\E i \in 1..Len(ds) : Covers(ds[i], a))
  /\ (\A i \in 1..Len(ds) : Covers(ds[i], a) => ByteOf(ds[i], a) = byte)
    => Results(mem, cs \o ds, a, byte)

LEMMA ResultsOfMore ==
  ASSUME NEW T, NEW mem, NEW a, NEW byte, NEW cs \in Seq(T), NEW ds \in Seq(T)
  PROVE  /\ ResultsKept(mem, cs, ds, a, byte)
         /\ ResultsNew(mem, cs, ds, a, byte)
<1> DEFINE all == cs \o ds
           n == Len(cs)
           m == Len(ds)
<1>1. n \in Nat /\ m \in Nat /\ all \in Seq(T) /\ Len(all) = n + m
      /\ (\A i \in 1..n : all[i] = cs[i])
      /\ (\A i \in 1..m : all[n + i] = ds[i])
  <2>1. n \in Nat /\ m \in Nat
    BY LenProperties
  <2>2. all \in Seq(T) /\ Len(all) = n + m
    BY ConcatProperties
  <2>3. \A i \in 1..(n + m) : all[i] = IF i <= n THEN cs[i] ELSE ds[i - n]
    BY ConcatProperties
  <2>4. ASSUME NEW i \in 1..m
        PROVE  all[n + i] = ds[i]
    <3>1. n + i \in 1..(n + m) /\ ~(n + i <= n) /\ (n + i) - n = i
      BY <2>1
    <3> QED
      BY <2>3, <3>1
  <2>5. ASSUME NEW i \in 1..n
        PROVE  all[i] = cs[i]
    <3>1. i \in 1..(n + m) /\ i <= n
      BY <2>1
    <3> QED
      BY <2>3, <3>1
  <2> QED
    BY <2>1, <2>2, <2>4, <2>5
<1>2. \A i \in 1..Len(all) : i \in 1..n \/ \E j \in 1..m : i = n + j
  <2>1. ASSUME NEW i \in 1..Len(all), i \notin 1..n
        PROVE  i - n \in 1..m /\ i = n + (i - n)
    BY <1>1, <2>1
  <2> QED
    BY <2>1
<1> HIDE DEF all
<1>3. ASSUME Results(mem, cs, a, byte), \A i \in 1..m : ~Covers(ds[i], a)
      PROVE  Results(mem, all, a, byte)
  <2>1. CASE \E i \in 1..n : /\ Covers(cs[i], a)
                             /\ ByteOf(cs[i], a) = byte
                             /\ \A j \in (i + 1)..n : ~Covers(cs[j], a)
    <3>1. PICK i \in 1..n : /\ Covers(cs[i], a)
                            /\ ByteOf(cs[i], a) = byte
                            /\ \A j \in (i + 1)..n : ~Covers(cs[j], a)
      BY <2>1
    <3>2. i \in 1..Len(all) /\ all[i] = cs[i]
      BY <1>1
    <3>3. ASSUME NEW j \in (i + 1)..Len(all)
          PROVE  ~Covers(all[j], a)
      <4>1. j \in 1..Len(all) /\ (j \in 1..n => j \in (i + 1)..n)
        BY <1>1
      <4>2. CASE j \in 1..n
        BY <1>1, <3>1, <4>1, <4>2
      <4>3. CASE \E k \in 1..m : j = n + k
        BY <1>1, <1>3, <4>3
      <4> QED
        BY <1>2, <4>1, <4>2, <4>3
    <3> QED
      BY <3>1, <3>2, <3>3 DEF Results
  <2>2. CASE (\A i \in 1..n : ~Covers(cs[i], a)) /\ mem[a] = byte
    <3>1. ASSUME NEW j \in 1..Len(all)
          PROVE  ~Covers(all[j], a)
      <4>2. CASE j \in 1..n
        BY <1>1, <2>2, <4>2
      <4>3. CASE \E k \in 1..m : j = n + k
        BY <1>1, <1>3, <4>3
      <4> QED
        BY <1>2, <4>2, <4>3
    <3> QED
      BY <2>2, <3>1 DEF Results
  <2> QED
    BY <1>3, <2>1, <2>2 DEF Results
<1>4. ASSUME \E i \in 1..m : Covers(ds[i], a),
             \A i \in 1..m : Covers(ds[i], a) => ByteOf(ds[i], a) = byte
      PROVE  Results(mem, all, a, byte)
  <2> DEFINE S == {i \in 1..m : Covers(ds[i], a)}
  <2>1. S \in SUBSET (1..m) /\ S # {}
    BY <1>4
  <2>2. PICK l \in S : \A i \in S : l >= i
    <3> HIDE DEF S
    <3> QED
      BY <1>1, <2>1, LastOfSome
  <2>3. l \in 1..m /\ Covers(ds[l], a) /\ ByteOf(ds[l], a) = byte
        /\ all[n + l] = ds[l] /\ n + l \in 1..Len(all)
    BY <1>1, <1>4, <2>2
  <2>4. ASSUME NEW j \in (n + l + 1)..Len(all)
        PROVE  ~Covers(all[j], a)
    <3>1. j \in 1..Len(all) /\ j \notin 1..n
      BY <1>1, <2>3
    <3>2. PICK k \in 1..m : j = n + k
      BY <1>2, <3>1
    <3>3. ~(l >= k)
      BY <1>1, <2>3, <3>2
    <3>4. k \notin S
      BY <2>2, <3>3
    <3> QED
      BY <1>1, <3>2, <3>4
  <2> QED
    BY <2>3, <2>4 DEF Results
<1> QED
  BY <1>3, <1>4 DEF all, ResultsKept, ResultsNew

----------------------------------------------------------------------------
(* A step of the recording that ends no call. *)

LEMMA WritesFact ==
  ASSUME RecordingTypeOK, NEW at \in Nat, NEW bytes \in Seq(Byte),
         Writes(at, bytes)
  PROVE  /\ IsOverwritten(user', user, at, bytes)
         /\ IsOverwritten(effect', effect, at, bytes)
         /\ writes' = writes + 1 /\ writes' \in 0..MaxWrites
         /\ UNCHANGED <<recorded, after, printed>>
<1>1. /\ user \in [Mapped -> Byte] /\ effect \in [Mapped -> Byte]
      /\ writes \in 0..MaxWrites
  BY DEF RecordingTypeOK
<1>2. /\ user' = Overwrite(user, at, bytes)
      /\ effect' = Overwrite(effect, at, bytes)
      /\ writes < MaxWrites /\ writes' = writes + 1
      /\ UNCHANGED <<recorded, after, printed>>
  BY DEF Writes
<1>3. /\ IsOverwritten(user', user, at, bytes)
      /\ IsOverwritten(effect', effect, at, bytes)
  BY <1>1, <1>2, OverwriteFact
<1>4. MaxWrites \in Nat
  BY Numbers
<1> QED
  BY <1>1, <1>2, <1>3, <1>4

(* pre_copy: what the hook noted, the record will tell. *)
LEMMA PreCopyKeeps ==
  ASSUME RecordingTypeOK, Told, NEW to \in Unsigneds,
         NEW n \in 0..Len(Source), PreCopy(to, n)
  PROVE  RecordingTypeOK' /\ Told'
<1> DEFINE k == Reachable(to, n)
           bytes == SubSeq(Source, 1, k)
<1>1. /\ copying = None
      /\ Writes(to, bytes)
      /\ copying' = [kind |-> "copy", to |-> to, len |-> n, left |-> n - k]
      /\ source' = SubSeq(Source, 1, n)
      /\ UNCHANGED <<wrapped, current, spoiled>>
  BY DEF PreCopy
<1>2. to \in Nat /\ n \in Nat /\ Len(Source) \in Nat
  BY Numbers DEF Unsigneds
<1>3. k \in 0..n
  BY <1>2, ReachableFact
<1> HIDE DEF k
<1>4. k \in Nat /\ k \in 0..Len(Source) /\ n - k \in 0..Len(Source)
      /\ n - k <= n /\ n - (n - k) = k
  BY <1>2, <1>3
<1>5. /\ bytes \in Seq(Byte) /\ Len(bytes) = k
      /\ \A i \in 1..k : bytes[i] = Source[i]
  BY <1>4, SourceFact
<1>6. /\ source' \in Seq(Byte) /\ Len(source') = n
      /\ \A i \in 1..n : source'[i] = Source[i]
  BY <1>1, SourceFact
<1> HIDE DEF bytes
<1>7. /\ IsOverwritten(user', user, to, bytes)
      /\ IsOverwritten(effect', effect, to, bytes)
      /\ writes' = writes + 1 /\ writes' \in 0..MaxWrites
      /\ UNCHANGED <<recorded, after, printed>>
  BY <1>1, <1>2, <1>5, WritesFact
<1>8. copying' # None /\ copying'.to = to /\ copying'.len = n
      /\ copying'.left = n - k
  BY <1>1 DEF None
<1>9. RecordingTypeOK'
  <2>1. user' \in [Mapped -> Byte] /\ effect' \in [Mapped -> Byte]
    BY <1>7 DEF IsOverwritten
  <2>2. copying' \in CopyingType /\ copying'.left <= copying'.len
        /\ source' \in Seq(Byte) /\ Len(source') = copying'.len
    BY <1>1, <1>4, <1>6, <1>8 DEF CopyingType
  <2>3. /\ Pieces = Len(current.copies) /\ Pieces' = Len(current.copies) + 1
        /\ Len(current.copies) \in Nat
    <3>1. current.copies \in Seq(Copies)
      BY DEF RecordingTypeOK
    <3>2. Len(current.copies) \in Nat
      BY <3>1, LenProperties
    <3>3. current' = current /\ copying = None /\ copying' # None
      BY <1>1, <1>8
    <3> QED
      BY <3>2, <3>3 DEF Pieces
  <2>4. writes \in Nat /\ WrapSize \in Nat
    BY Numbers DEF RecordingTypeOK
  <2> QED
    BY <1>1, <1>7, <2>1, <2>2, <2>3, <2>4 DEF RecordingTypeOK
<1>10. Told'
  <2> SUFFICES ASSUME NEW a \in Mapped \ spoiled'
               PROVE  IsTold(a)'
    BY DEF Told
  <2>1. a \in Mapped /\ a \in Nat /\ IsTold(a)
    BY <1>1, Numbers DEF Told
  <2>2. Before(Len(recorded) + 1)' = Before(Len(recorded) + 1)
    BY <1>7 DEF Before
  <2>3. InWrap(a)' = InWrap(a) /\ SavedByte(a)' = SavedByte(a)
    BY <1>1 DEF InWrap, SavedByte
  <2>4. Pending(a)' <=> a \in Span(to, k)
    BY <1>4, <1>8 DEF Pending
  <2>5. ~Pending(a)
    BY <1>1 DEF Pending
  <2>6. CASE a \in Span(to, k)
    <3>1. a - to + 1 \in 1..k /\ a - to + 1 \in 1..n
      BY <1>2, <1>3, <2>1, <2>6 DEF Span
    <3>2. user'[a] = Source[a - to + 1] /\ effect'[a] = Source[a - to + 1]
      BY <1>5, <1>7, <2>1, <2>6, <3>1 DEF IsOverwritten
    <3>3. source'[a - copying'.to + 1] = Source[a - to + 1]
      BY <1>6, <1>8, <3>1
    <3> QED
      BY <2>1, <2>2, <2>3, <2>4, <2>6, <3>2, <3>3 DEF IsTold
  <2>7. CASE a \notin Span(to, k)
    <3>1. user'[a] = user[a] /\ effect'[a] = effect[a]
      BY <1>5, <1>7, <2>1, <2>7 DEF IsOverwritten
    <3> QED
      BY <1>1, <2>1, <2>2, <2>3, <2>4, <2>5, <2>7, <3>1 DEF IsTold
  <2> QED
    BY <2>6, <2>7
<1> QED
  BY <1>9, <1>10

(* A copy that is not recorded spoils its bytes, and no others. *)
LEMMA PreCopyFailsKeeps ==
  ASSUME RecordingTypeOK, Told, NEW to \in Unsigneds,
         NEW n \in 0..Len(Source), PreCopyFails(to, n)
  PROVE  RecordingTypeOK' /\ Told'
<1> DEFINE k == Reachable(to, n)
           bytes == SubSeq(Source, 1, k)
<1>1. /\ copying = None
      /\ Writes(to, bytes)
      /\ spoiled' = spoiled \cup (Span(to, n) \cap Mapped)
      /\ UNCHANGED <<copying, source, wrapped, current>>
  BY DEF PreCopyFails, Spoils
<1>2. to \in Nat /\ n \in Nat /\ Len(Source) \in Nat
  BY Numbers DEF Unsigneds
<1>3. k \in 0..n
  BY <1>2, ReachableFact
<1> HIDE DEF k
<1>4. k \in Nat /\ k \in 0..Len(Source)
  BY <1>2, <1>3
<1>5. bytes \in Seq(Byte) /\ Len(bytes) = k
  BY <1>4, SourceFact
<1> HIDE DEF bytes
<1>6. /\ IsOverwritten(user', user, to, bytes)
      /\ IsOverwritten(effect', effect, to, bytes)
      /\ writes' = writes + 1 /\ writes' \in 0..MaxWrites
      /\ UNCHANGED <<recorded, after, printed>>
  BY <1>1, <1>2, <1>5, WritesFact
<1>7. RecordingTypeOK'
  <2>1. user' \in [Mapped -> Byte] /\ effect' \in [Mapped -> Byte]
    BY <1>6 DEF IsOverwritten
  <2>2. Pieces' = Pieces /\ Pieces \in Nat
    <3>1. current.copies \in Seq(Copies)
      BY DEF RecordingTypeOK
    <3> QED
      BY <1>1, <3>1, LenProperties DEF Pieces
  <2>3. writes \in Nat /\ WrapSize \in Nat
    BY Numbers DEF RecordingTypeOK
  <2> QED
    BY <1>1, <1>6, <2>1, <2>2, <2>3 DEF RecordingTypeOK
<1>8. Told'
  <2> SUFFICES ASSUME NEW a \in Mapped \ spoiled'
               PROVE  IsTold(a)'
    BY DEF Told
  <2>1. a \in Mapped /\ a \in Nat /\ IsTold(a) /\ a \notin Span(to, n)
    BY <1>1, Numbers DEF Told
  <2>2. a \notin Span(to, k)
    BY <1>2, <1>3, <2>1 DEF Span
  <2>3. user'[a] = user[a] /\ effect'[a] = effect[a]
    BY <1>5, <1>6, <2>1, <2>2 DEF IsOverwritten
  <2>4. Before(Len(recorded) + 1)' = Before(Len(recorded) + 1)
    BY <1>6 DEF Before
  <2>5. InWrap(a)' = InWrap(a) /\ SavedByte(a)' = SavedByte(a)
        /\ Pending(a)' = Pending(a)
    BY <1>1 DEF InWrap, SavedByte, Pending
  <2> QED
    BY <1>1, <2>1, <2>3, <2>4, <2>5 DEF IsTold
<1> QED
  BY <1>7, <1>8

----------------------------------------------------------------------------
(* The count of the copies is the number of them. *)
LEMMA AddCopiesFact ==
  ASSUME RecordingTypeOK, NEW cs \in Seq(Copies), AddCopies(cs)
  PROVE  /\ current' \in [amount : Nat, copies : Seq(Copies)]
         /\ current'.amount = Len(current'.copies)
         /\ current'.copies = current.copies \o cs
         /\ Len(current'.copies) = Len(current.copies) + Len(cs)
         /\ Len(current.copies) \in Nat /\ Len(cs) \in Nat
         /\ current.copies \in Seq(Copies)
<1>1. /\ current.copies \in Seq(Copies) /\ current.amount \in Nat
      /\ current.amount = Len(current.copies)
  BY DEF RecordingTypeOK
<1>2. Len(current.copies) \in Nat /\ Len(cs) \in Nat
  BY <1>1, LenProperties
<1>3. /\ current.copies \o cs \in Seq(Copies)
      /\ Len(current.copies \o cs) = Len(current.copies) + Len(cs)
  BY <1>1, ConcatProperties
<1>4. current' = [amount |-> current.amount + Len(cs),
                  copies |-> current.copies \o cs]
  BY DEF AddCopies
<1> QED
  BY <1>1, <1>2, <1>3, <1>4

LEMMA Singleton ==
  ASSUME NEW T, NEW e \in T
  PROVE  <<e>> \in Seq(T) /\ Len(<<e>>) = 1
         /\ \A i \in 1..1 : <<e>>[i] = e
<1>1. <<e>> \in Seq(T)
  OBVIOUS
<1>2. Len(<<e>>) = 1 /\ <<e>>[1] = e
  OBVIOUS
<1>3. \A i \in 1..1 : i = 1
  OBVIOUS
<1> QED
  BY <1>1, <1>2, <1>3

(* The source of a copy changes: its bytes are spoiled. *)
LEMMA SourceChangesKeeps ==
  ASSUME RecordingTypeOK, Told, SourceChanges
  PROVE  RecordingTypeOK' /\ Told'
<1>1. /\ copying # None
      /\ source' = SubSeq(NewSource, 1, copying.len)
      /\ spoiled' = spoiled \cup (Span(copying.to, copying.len) \cap Mapped)
      /\ UNCHANGED <<user, copying, wrapped, current, recorded, effect, after,
                     printed, writes>>
  BY DEF SourceChanges, Spoils
<1>2. copying \in CopyingType
  BY <1>1 DEF RecordingTypeOK
<1>3. /\ copying.len \in 0..Len(Source) /\ copying.left \in 0..Len(Source)
      /\ copying.to \in Unsigneds
  BY <1>2 DEF CopyingType
<1>4. source' \in Seq(Byte) /\ Len(source') = copying.len
  BY <1>1, <1>3, SourceFact
<1>5. RecordingTypeOK'
  BY <1>1, <1>4 DEF RecordingTypeOK, Pieces
<1>6. Told'
  <2> SUFFICES ASSUME NEW a \in Mapped \ spoiled'
               PROVE  IsTold(a)'
    BY DEF Told
  <2>1. a \in Mapped /\ IsTold(a) /\ a \notin Span(copying.to, copying.len)
    BY <1>1 DEF Told
  <2>2. ~Pending(a) /\ ~Pending(a)'
    <3>1. copying.to \in Nat /\ copying.len \in Nat /\ copying.left \in Nat
      BY <1>3, Numbers DEF Unsigneds
    <3>2. a \notin Span(copying.to, copying.len - copying.left)
      BY <2>1, <3>1 DEF Span
    <3> QED
      BY <1>1, <3>2 DEF Pending
  <2>3. InWrap(a)' = InWrap(a) /\ SavedByte(a)' = SavedByte(a)
        /\ Before(Len(recorded) + 1)' = Before(Len(recorded) + 1)
    BY <1>1 DEF InWrap, SavedByte, Before
  <2> QED
    BY <1>1, <2>1, <2>2, <2>3 DEF IsTold
<1> QED
  BY <1>5, <1>6

(* post_copy: the record tells what was copied. *)
LEMMA PostCopyKeeps ==
  ASSUME RecordingTypeOK, Told, PostCopy
  PROVE  RecordingTypeOK' /\ Told'
<1> DEFINE c == CopyRecord(KernelAddress, copying.to, CopiedBytes)
<1>1. /\ copying # None /\ copying.left = 0
      /\ AddCopies(<<c>>)
      /\ copying' = None
      /\ UNCHANGED <<user, wrapped, recorded, effect, after, printed, spoiled,
                     writes>>
  BY DEF PostCopy
<1>2. /\ copying \in CopyingType
      /\ source \in Seq(Byte) /\ Len(source) = copying.len
  BY <1>1 DEF RecordingTypeOK
<1>3. copying.to \in Unsigneds /\ copying.len \in 0..Len(Source)
      /\ copying.to \in Nat
  BY <1>2, Numbers DEF CopyingType, Unsigneds
<1>4. c.to = copying.to /\ c.bytes = source /\ c \in Copies
  <2>1. KernelAddress \in Unsigneds /\ copying.len \in Unsigneds
    BY <1>3, Numbers DEF KernelAddress
  <2>2. source \in Bytes
    BY <1>2, <2>1 DEF Bytes
  <2> QED
    BY <1>3, <2>1, <2>2 DEF Copies, CopyRecord, CopiedBytes
<1> HIDE DEF c
<1>5. <<c>> \in Seq(Copies) /\ Len(<<c>>) = 1 /\ \A i \in 1..1 : <<c>>[i] = c
  BY <1>4, Singleton
<1>6. /\ current' \in [amount : Nat, copies : Seq(Copies)]
      /\ current'.amount = Len(current'.copies)
      /\ current'.copies = current.copies \o <<c>>
      /\ Len(current'.copies) = Len(current.copies) + 1
      /\ Len(current.copies) \in Nat
      /\ current.copies \in Seq(Copies)
  BY <1>1, <1>5, AddCopiesFact
<1>7. RecordingTypeOK'
  <2>1. Pieces' = Pieces
    BY <1>1, <1>6 DEF Pieces
  <2> QED
    BY <1>1, <1>6, <2>1 DEF RecordingTypeOK
<1>8. Told'
  <2> SUFFICES ASSUME NEW a \in Mapped \ spoiled'
               PROVE  IsTold(a)'
    BY DEF Told
  <2> DEFINE mem == Before(Len(recorded) + 1)
             byte == effect[a]
  <2>1. a \in Mapped /\ IsTold(a) /\ a \in Nat
    BY <1>1, Numbers DEF Told
  <2>2. ~Pending(a)'
    BY <1>1 DEF Pending
  <2>3. InWrap(a)' = InWrap(a) /\ SavedByte(a)' = SavedByte(a)
        /\ mem' = mem /\ byte' = byte
    BY <1>1 DEF InWrap, SavedByte, Before
  <2>4. Pending(a) <=> Covers(c, a)
    <3>1. copying.len - 0 = copying.len
      BY <1>3
    <3> QED
      BY <1>1, <1>2, <1>4, <3>1 DEF Pending, Covers
  <2>5. Covers(c, a) => ByteOf(c, a) = byte
    BY <1>4, <2>1, <2>4 DEF IsTold, ByteOf
  <2>6. Covers(c, a) => Results(mem, current.copies \o <<c>>, a, byte)
    <3> HIDE DEF mem, byte
    <3>1. ResultsNew(mem, current.copies, <<c>>, a, byte)
      BY <1>5, <1>6, ResultsOfMore
    <3> QED
      BY <1>5, <2>5, <3>1 DEF ResultsNew
  <2>7. ~Covers(c, a) /\ Results(mem, current.copies, a, byte)
          => Results(mem, current.copies \o <<c>>, a, byte)
    <3> HIDE DEF mem, byte
    <3>1. ResultsKept(mem, current.copies, <<c>>, a, byte)
      BY <1>5, <1>6, ResultsOfMore
    <3> QED
      BY <1>5, <3>1 DEF ResultsKept
  <2>8. \/ InWrap(a) /\ effect[a] # SavedByte(a)
        \/ Results(mem, current.copies \o <<c>>, a, byte)
    BY <2>1, <2>4, <2>6, <2>7 DEF IsTold
  <2> QED
    BY <1>1, <1>6, <2>1, <2>2, <2>3, <2>8 DEF IsTold
<1> QED
  BY <1>7, <1>8

(* The copy failed, and the bytes that it wrote are spoiled. *)
LEMMA PostCopyFailedKeeps ==
  ASSUME RecordingTypeOK, Told, PostCopyFailed
  PROVE  RecordingTypeOK' /\ Told'
<1>1. /\ copying # None /\ copying' = None
      /\ spoiled' = spoiled \cup
           (Span(copying.to, copying.len - copying.left) \cap Mapped)
      /\ UNCHANGED <<user, wrapped, current, recorded, effect, after,
                     printed, writes>>
  BY DEF PostCopyFailed, Spoils
<1>2. RecordingTypeOK'
  <2>1. Pieces' <= Pieces /\ Pieces' \in Nat /\ Pieces \in Nat
    <3>1. current.copies \in Seq(Copies)
      BY DEF RecordingTypeOK
    <3>2. Len(current.copies) \in Nat
      BY <3>1, LenProperties
    <3> QED
      BY <1>1, <3>2 DEF Pieces
  <2>2. writes \in Nat /\ WrapSize \in Nat
    BY Numbers DEF RecordingTypeOK
  <2> QED
    BY <1>1, <2>1, <2>2 DEF RecordingTypeOK
<1>3. Told'
  <2> SUFFICES ASSUME NEW a \in Mapped \ spoiled'
               PROVE  IsTold(a)'
    BY DEF Told
  <2>1. a \in Mapped /\ IsTold(a) /\ ~Pending(a)
    BY <1>1 DEF Told, Pending
  <2>2. ~Pending(a)'
    BY <1>1 DEF Pending
  <2>3. InWrap(a)' = InWrap(a) /\ SavedByte(a)' = SavedByte(a)
        /\ Before(Len(recorded) + 1)' = Before(Len(recorded) + 1)
    BY <1>1 DEF InWrap, SavedByte, Before
  <2> QED
    BY <1>1, <2>1, <2>2, <2>3 DEF IsTold
<1> QED
  BY <1>2, <1>3

(* A put_user is recorded, or stored nothing. *)
LEMMA PutUserKeeps ==
  ASSUME RecordingTypeOK, Told, NEW to \in Unsigneds,
         NEW n \in 1..Len(Source), PutUser(to, n)
  PROVE  RecordingTypeOK' /\ Told'
<1> DEFINE value == SubSeq(Source, 1, n)
           stored == Span(to, n) \subseteq Mapped
           bytes == IF stored THEN value ELSE <<>>
           c == CopyRecord(NoAddress, to, value)
           cs == IF stored THEN <<c>> ELSE <<>>
<1>1. /\ copying = None
      /\ Writes(to, bytes)
      /\ IF stored THEN AddCopies(<<c>>) ELSE UNCHANGED current
      /\ UNCHANGED <<copying, source, wrapped, spoiled>>
  BY DEF PutUser
<1>2. to \in Nat /\ n \in 0..Len(Source)
  BY Numbers DEF Unsigneds
<1>3. value \in Seq(Byte) /\ Len(value) = n
  BY <1>2, SourceFact
<1>4. c.to = to /\ c.bytes = value /\ c \in Copies
  <2>1. NoAddress \in Unsigneds /\ n \in Unsigneds
    BY <1>2, Numbers DEF NoAddress
  <2>2. value \in Bytes
    BY <1>3, <2>1 DEF Bytes
  <2> HIDE DEF value
  <2> QED
    BY <2>1, <2>2 DEF Copies, CopyRecord
<1> HIDE DEF value, c
<1>5. bytes \in Seq(Byte)
  BY <1>3, EmptySeq
<1>6. <<c>> \in Seq(Copies) /\ Len(<<c>>) = 1 /\ \A i \in 1..1 : <<c>>[i] = c
  BY <1>4, Singleton
<1> HIDE DEF bytes
<1>7. /\ IsOverwritten(user', user, to, bytes)
      /\ IsOverwritten(effect', effect, to, bytes)
      /\ writes' = writes + 1 /\ writes' \in 0..MaxWrites
      /\ UNCHANGED <<recorded, after, printed>>
  BY <1>1, <1>2, <1>5, WritesFact
<1>8. /\ current.copies \in Seq(Copies) /\ Len(current.copies) \in Nat
  <2>1. current.copies \in Seq(Copies)
    BY DEF RecordingTypeOK
  <2> QED
    BY <2>1, LenProperties
<1>9. /\ current' \in [amount : Nat, copies : Seq(Copies)]
      /\ current'.amount = Len(current'.copies)
      /\ Len(current'.copies) \in Nat
      /\ Len(current'.copies) <= Len(current.copies) + 1
  <2>1. CASE stored
    <3>1. AddCopies(<<c>>)
      BY <1>1, <2>1
    <3>2. /\ current' \in [amount : Nat, copies : Seq(Copies)]
          /\ current'.amount = Len(current'.copies)
          /\ Len(current'.copies) = Len(current.copies) + Len(<<c>>)
      BY <1>6, <3>1, AddCopiesFact
    <3> HIDE DEF c
    <3> QED
      BY <1>6, <1>8, <3>2
  <2>2. CASE ~stored
    BY <1>1, <1>8, <2>2 DEF RecordingTypeOK
  <2> QED
    BY <2>1, <2>2
<1>10. RecordingTypeOK'
  <2>1. user' \in [Mapped -> Byte] /\ effect' \in [Mapped -> Byte]
    BY <1>7 DEF IsOverwritten
  <2>2. Pieces' <= Pieces + 1 /\ Pieces' \in Nat /\ Pieces \in Nat
    BY <1>1, <1>8, <1>9 DEF Pieces
  <2>3. writes \in Nat /\ WrapSize \in Nat
    BY Numbers DEF RecordingTypeOK
  <2> QED
    BY <1>1, <1>7, <1>9, <2>1, <2>2, <2>3 DEF RecordingTypeOK
<1>11. Told'
  <2> SUFFICES ASSUME NEW a \in Mapped \ spoiled'
               PROVE  IsTold(a)'
    BY DEF Told
  <2> DEFINE mem == Before(Len(recorded) + 1)
  <2>1. a \in Mapped /\ IsTold(a) /\ a \in Nat
    BY <1>1, Numbers DEF Told
  <2>2. ~Pending(a) /\ ~Pending(a)'
    BY <1>1 DEF Pending
  <2>3. InWrap(a)' = InWrap(a) /\ SavedByte(a)' = SavedByte(a) /\ mem' = mem
    BY <1>1, <1>7 DEF InWrap, SavedByte, Before
  <2>4. CASE stored /\ a \in Span(to, n)
    <3>1. a - to + 1 \in 1..n
      BY <1>2, <2>1, <2>4 DEF Span
    <3>2. user'[a] = value[a - to + 1] /\ effect'[a] = value[a - to + 1]
      BY <1>3, <1>7, <2>1, <2>4, <3>1 DEF IsOverwritten, bytes
    <3>3. Covers(c, a) /\ ByteOf(c, a) = effect'[a]
      BY <1>3, <1>4, <2>4, <3>2 DEF Covers, ByteOf
    <3>4. current'.copies = current.copies \o <<c>>
      BY <1>1, <1>6, <2>4, AddCopiesFact
    <3>5. Results(mem, current.copies \o <<c>>, a, effect'[a])
      <4> HIDE DEF mem
      <4>1. ASSUME NEW byte, byte = effect'[a]
            PROVE  Results(mem, current.copies \o <<c>>, a, byte)
        <5>1. ResultsNew(mem, current.copies, <<c>>, a, byte)
          BY <1>6, <1>8, ResultsOfMore
        <5> QED
          BY <1>6, <3>3, <4>1, <5>1 DEF ResultsNew
      <4> QED
        BY <4>1
    <3> QED
      BY <2>1, <2>2, <2>3, <3>2, <3>4, <3>5 DEF IsTold
  <2>5. CASE stored /\ a \notin Span(to, n)
    <3>1. user'[a] = user[a] /\ effect'[a] = effect[a]
      BY <1>3, <1>7, <2>1, <2>5 DEF IsOverwritten, bytes
    <3>2. ~Covers(c, a)
      BY <1>3, <1>4, <2>5 DEF Covers
    <3>3. current'.copies = current.copies \o <<c>>
      BY <1>1, <1>6, <2>5, AddCopiesFact
    <3>4. Results(mem, current.copies, a, effect[a])
            => Results(mem, current.copies \o <<c>>, a, effect[a])
      <4> HIDE DEF mem
      <4>1. ASSUME NEW byte, byte = effect[a],
                   Results(mem, current.copies, a, byte)
            PROVE  Results(mem, current.copies \o <<c>>, a, byte)
        <5>1. ResultsKept(mem, current.copies, <<c>>, a, byte)
          BY <1>6, <1>8, ResultsOfMore
        <5> QED
          BY <1>6, <3>2, <4>1, <5>1 DEF ResultsKept
      <4> QED
        BY <4>1
    <3> QED
      BY <2>1, <2>2, <2>3, <3>1, <3>3, <3>4 DEF IsTold
  <2>6. CASE ~stored
    <3>1. bytes = <<>> /\ Len(<<>>) = 0
      BY <2>6 DEF bytes
    <3>2. a \notin Span(to, Len(bytes))
      BY <1>2, <2>1, <3>1 DEF Span
    <3>3. user'[a] = user[a] /\ effect'[a] = effect[a]
      BY <1>7, <2>1, <3>2 DEF IsOverwritten
    <3>4. current' = current
      BY <1>1, <2>6
    <3> QED
      BY <2>1, <2>2, <2>3, <3>3, <3>4 DEF IsTold
  <2> QED
    BY <2>4, <2>5, <2>6
<1> QED
  BY <1>10, <1>11

----------------------------------------------------------------------------
LEMMA SavedFact ==
  ASSUME RecordingTypeOK, wrapped.kind = "saved"
  PROVE  /\ wrapped \in SavedType /\ Span(wrapped.ptr, WrapSize) \subseteq Mapped
         /\ wrapped.ptr \in Mapped /\ wrapped.ptr \in Nat
         /\ wrapped.mem \in [1..WrapSize -> Byte]
<1>1. wrapped # None
  BY DEF None
<1>2. wrapped \notin FailedType
  BY DEF FailedType
<1>3. wrapped \in SavedType /\ Span(wrapped.ptr, WrapSize) \subseteq Mapped
  BY <1>1, <1>2 DEF RecordingTypeOK
<1>4. wrapped.ptr \in Mapped /\ wrapped.mem \in [1..WrapSize -> Byte]
  BY <1>3 DEF SavedType
<1> QED
  BY <1>3, <1>4, MemoryAssumption

(***************************************************************************)
(* At the end of a call, and before the first copy, nothing is to be told. *)
(***************************************************************************)
LEMMA NewRecordTells ==
  ASSUME NEW a, IsTold(a), current = NewRecord, copying = None,
         wrapped.kind # "saved"
  PROVE  Before(Len(recorded) + 1)[a] = effect[a]
<1>1. ~Pending(a) /\ ~InWrap(a)
  BY DEF Pending, InWrap
<1>2. current.copies = <<>> /\ Len(<<>>) = 0
  BY DEF NewRecord
<1>3. Results(Before(Len(recorded) + 1), <<>>, a, effect[a])
  BY <1>1, <1>2 DEF IsTold
<1>4. \A i \in 1..Len(<<>>) : FALSE
  BY <1>2
<1> QED
  BY <1>3, <1>4 DEF Results

(* pre_wrap_syscall: what was saved is the memory before the call. *)
LEMMA PreWrapKeeps ==
  ASSUME RecordingTypeOK, Told, NEW ptr \in Mapped, PreWrap(ptr)
  PROVE  RecordingTypeOK' /\ Told'
<1>1. /\ copying = None /\ wrapped = None /\ current = NewRecord
      /\ wrapped' = IF Span(ptr, WrapSize) \subseteq Mapped
                    THEN [kind |-> "saved", ptr |-> ptr,
                          mem |-> BytesAt(user, ptr, WrapSize)]
                    ELSE [kind |-> "failed", ptr |-> ptr]
      /\ UNCHANGED <<user, copying, source, current, recorded, effect, after,
                     printed, spoiled, writes>>
  BY DEF PreWrap
<1>2. ptr \in Nat /\ WrapSize \in Nat /\ Mapped \subseteq Nat
  BY MemoryAssumption
<1>3. wrapped.kind # "saved"
  BY <1>1 DEF None
<1>4. \/ wrapped' \in FailedType
      \/ wrapped' \in SavedType /\ Span(wrapped'.ptr, WrapSize) \subseteq Mapped
  <2>1. CASE Span(ptr, WrapSize) \subseteq Mapped
    <3>1. ASSUME NEW i \in 1..WrapSize
          PROVE  user[ptr + i - 1] \in Byte
      <4>1. ptr + i - 1 \in Span(ptr, WrapSize)
        BY <1>2 DEF Span
      <4> QED
        BY <2>1, <4>1 DEF RecordingTypeOK
    <3>2. BytesAt(user, ptr, WrapSize) \in [1..WrapSize -> Byte]
      BY <3>1 DEF BytesAt
    <3> QED
      BY <1>1, <2>1, <3>2 DEF SavedType
  <2>2. CASE ~(Span(ptr, WrapSize) \subseteq Mapped)
    BY <1>1, <2>2 DEF FailedType
  <2> QED
    BY <2>1, <2>2
<1>5. RecordingTypeOK'
  <2>1. Pieces' = 0
    <3>1. Len(current'.copies) = 0
      BY <1>1 DEF NewRecord
    <3> QED
      BY <1>1, <3>1 DEF Pieces
  <2>2. writes \in Nat
    BY Numbers DEF RecordingTypeOK
  <2> QED
    BY <1>1, <1>2, <1>4, <2>1, <2>2 DEF RecordingTypeOK
<1>6. Told'
  <2> SUFFICES ASSUME NEW a \in Mapped \ spoiled'
               PROVE  IsTold(a)'
    BY DEF Told
  <2>1. a \in Mapped /\ IsTold(a) /\ a \in Nat
    BY <1>1, <1>2 DEF Told
  <2>2. ~Pending(a)' /\ ~Pending(a) /\ ~InWrap(a)
    BY <1>1, <1>3 DEF Pending, InWrap
  <2>3. Before(Len(recorded) + 1)' = Before(Len(recorded) + 1)
    BY <1>1 DEF Before
  <2>4. Before(Len(recorded) + 1)[a] = effect[a]
    BY <1>1, <1>3, <2>1, NewRecordTells
  <2>5. InWrap(a)' => SavedByte(a)' = user[a]
    <3>1. SUFFICES ASSUME InWrap(a)'
                   PROVE  SavedByte(a)' = user[a]
      OBVIOUS
    <3>2. wrapped'.kind = "saved" /\ a \in Span(wrapped'.ptr, WrapSize)
      BY <3>1 DEF InWrap
    <3>3. wrapped' = [kind |-> "saved", ptr |-> ptr,
                      mem |-> BytesAt(user, ptr, WrapSize)]
      BY <1>1, <3>2
    <3>4. a - ptr + 1 \in 1..WrapSize /\ ptr + (a - ptr + 1) - 1 = a
      BY <1>2, <2>1, <3>2, <3>3 DEF Span
    <3> QED
      BY <3>3, <3>4 DEF SavedByte, BytesAt
  <2> QED
    BY <1>1, <2>1, <2>2, <2>3, <2>4, <2>5 DEF IsTold
<1> QED
  BY <1>5, <1>6

(***************************************************************************)
(* A write without a hook: post_wrap_syscall will see it, or it undoes a   *)
(* copy.                                                                   *)
(***************************************************************************)
LEMMA KernelWritesKeeps ==
  ASSUME RecordingTypeOK, Told, NEW to \in Mapped, NEW byte \in Byte,
         KernelWrites(to, byte)
  PROVE  RecordingTypeOK' /\ Told'
<1> DEFINE lost == IF wrapped.kind = "saved" /\ ~Undoes(to, byte)
                   THEN {} ELSE {to}
<1>1. /\ copying = None /\ to \in Span(wrapped.ptr, WrapSize)
      /\ Writes(to, <<byte>>)
      /\ spoiled' = spoiled \cup (lost \cap Mapped)
      /\ UNCHANGED <<copying, source, wrapped, current>>
  BY DEF KernelWrites, Spoils
<1>2. to \in Nat /\ Mapped \subseteq Nat
  BY MemoryAssumption
<1>3. <<byte>> \in Seq(Byte) /\ Len(<<byte>>) = 1 /\ <<byte>>[1] = byte
  OBVIOUS
<1>4. /\ IsOverwritten(user', user, to, <<byte>>)
      /\ IsOverwritten(effect', effect, to, <<byte>>)
      /\ writes' = writes + 1 /\ writes' \in 0..MaxWrites
      /\ UNCHANGED <<recorded, after, printed>>
  BY <1>1, <1>2, <1>3, WritesFact
<1>5. RecordingTypeOK'
  <2>1. user' \in [Mapped -> Byte] /\ effect' \in [Mapped -> Byte]
    BY <1>4 DEF IsOverwritten
  <2>2. Pieces' = Pieces /\ Pieces \in Nat
    <3>1. current.copies \in Seq(Copies)
      BY DEF RecordingTypeOK
    <3>2. Len(current.copies) \in Nat
      BY <3>1, LenProperties
    <3> QED
      BY <1>1, <3>2 DEF Pieces
  <2>3. writes \in Nat /\ WrapSize \in Nat
    BY Numbers DEF RecordingTypeOK
  <2>4. spoiled' \subseteq Mapped
    BY <1>1 DEF RecordingTypeOK
  <2> QED
    BY <1>1, <1>4, <2>1, <2>2, <2>3, <2>4 DEF RecordingTypeOK
<1>6. Told'
  <2> SUFFICES ASSUME NEW a \in Mapped \ spoiled'
               PROVE  IsTold(a)'
    BY DEF Told
  <2> DEFINE mem == Before(Len(recorded) + 1)
  <2>1. a \in Mapped /\ IsTold(a) /\ a \in Nat /\ a \notin lost
    BY <1>1, <1>2 DEF Told
  <2>2. ~Pending(a) /\ ~Pending(a)'
    BY <1>1 DEF Pending
  <2>3. InWrap(a)' = InWrap(a) /\ SavedByte(a)' = SavedByte(a) /\ mem' = mem
    BY <1>1, <1>4 DEF InWrap, SavedByte, Before
  <2>4. a \in Span(to, 1) <=> a = to
    BY <1>2, <2>1 DEF Span
  <2>5. CASE a # to
    <3>1. user'[a] = user[a] /\ effect'[a] = effect[a]
      BY <1>3, <1>4, <2>1, <2>4, <2>5 DEF IsOverwritten
    <3> QED
      BY <1>1, <2>1, <2>2, <2>3, <3>1 DEF IsTold
  <2>6. CASE a = to
    <3>1. wrapped.kind = "saved" /\ ~Undoes(a, byte) /\ InWrap(a)
      BY <1>1, <2>1, <2>6 DEF InWrap
    <3>2. a - to + 1 = 1
      BY <1>2, <2>6
    <3>3. user'[a] = byte /\ effect'[a] = byte
      BY <1>3, <1>4, <2>1, <2>4, <2>6, <3>2 DEF IsOverwritten
    <3>4. SavedByte(a) = mem[a]
      BY <2>1, <3>1 DEF IsTold
    <3>5. CASE byte # SavedByte(a)
      BY <2>2, <2>3, <3>1, <3>3, <3>4, <3>5 DEF IsTold
    <3>6. CASE byte = SavedByte(a)
      <4>1. DOMAIN current.copies = 1..Len(current.copies)
        <5>1. current.copies \in Seq(Copies)
          BY DEF RecordingTypeOK
        <5> QED
          BY <5>1, LenProperties
      <4>2. \A i \in 1..Len(current.copies) : ~Covers(current.copies[i], a)
        BY <3>1, <3>6, <4>1 DEF Undoes, SavedByte, Covers
      <4>3. Results(mem, current.copies, a, byte)
        <5> HIDE DEF mem
        <5> QED
          BY <3>4, <3>6, <4>2 DEF Results
      <4> QED
        BY <1>1, <2>2, <2>3, <3>3, <3>4, <4>3 DEF IsTold
    <3> QED
      BY <3>5, <3>6
  <2> QED
    BY <2>5, <2>6
<1> QED
  BY <1>5, <1>6

(* Another thread spoils the byte it writes. *)
LEMMA OtherThreadWritesKeeps ==
  ASSUME RecordingTypeOK, Told, NEW to \in Mapped, OtherThreadWrites(to)
  PROVE  RecordingTypeOK' /\ Told'
<1>1. /\ copying = None /\ writes < MaxWrites /\ writes' = writes + 1
      /\ user' = [user EXCEPT ![to] = Foreign]
      /\ spoiled' = spoiled \cup ({to} \cap Mapped)
      /\ UNCHANGED <<copying, source, wrapped, current, recorded, effect,
                     after, printed>>
  BY DEF OtherThreadWrites, Spoils
<1>2. RecordingTypeOK'
  <2>1. user' \in [Mapped -> Byte]
    BY <1>1, Numbers DEF RecordingTypeOK
  <2>2. Pieces' = Pieces /\ Pieces \in Nat
    <3>1. current.copies \in Seq(Copies)
      BY DEF RecordingTypeOK
    <3>2. Len(current.copies) \in Nat
      BY <3>1, LenProperties
    <3> QED
      BY <1>1, <3>2 DEF Pieces
  <2>3. writes \in Nat /\ WrapSize \in Nat /\ writes' \in 0..MaxWrites
    BY <1>1, Numbers DEF RecordingTypeOK
  <2>4. spoiled' \subseteq Mapped
    BY <1>1 DEF RecordingTypeOK
  <2> QED
    BY <1>1, <2>1, <2>2, <2>3, <2>4 DEF RecordingTypeOK
<1>3. Told'
  <2> SUFFICES ASSUME NEW a \in Mapped \ spoiled'
               PROVE  IsTold(a)'
    BY DEF Told
  <2>1. a \in Mapped /\ IsTold(a) /\ a # to
    BY <1>1 DEF Told
  <2>2. user'[a] = user[a]
    BY <1>1, <2>1 DEF RecordingTypeOK
  <2>3. InWrap(a)' = InWrap(a) /\ SavedByte(a)' = SavedByte(a)
        /\ Pending(a)' = Pending(a)
        /\ Before(Len(recorded) + 1)' = Before(Len(recorded) + 1)
    BY <1>1 DEF InWrap, SavedByte, Before, Pending
  <2> QED
    BY <1>1, <2>1, <2>2, <2>3 DEF IsTold
<1> QED
  BY <1>2, <1>3

(***************************************************************************)
(* post_wrap_syscall records what differs, as far as it has memory for it. *)
(***************************************************************************)
LEMMA PostWrapKeeps ==
  ASSUME RecordingTypeOK, Told, NEW k \in Nat, PostWrap(k)
  PROVE  RecordingTypeOK' /\ Told'
<1> DEFINE changed == Changed
           cs == [i \in 1..k |->
                    CopyRecord(NoAddress, changed[i], <<user[changed[i]]>>)]
<1>1. /\ wrapped.kind = "saved" /\ copying = None
      /\ k <= Len(changed)
      /\ AddCopies(cs)
      /\ spoiled' = spoiled \cup
           ({changed[i] : i \in (k + 1)..Len(changed)} \cap Mapped)
      /\ wrapped' = None
      /\ UNCHANGED <<user, copying, source, recorded, effect, after, printed,
                     writes>>
  BY DEF PostWrap, Spoils
<1>2. /\ wrapped \in SavedType /\ Span(wrapped.ptr, WrapSize) \subseteq Mapped
      /\ wrapped.ptr \in Nat
  BY <1>1, SavedFact
<1>3. AreChanged(changed)
  BY <1>2, MemoryAssumption, ChangedFact
<1> HIDE DEF changed
<1>4. Len(changed) \in Nat /\ Len(changed) <= WrapSize /\ WrapSize \in Nat
  BY <1>3, LenProperties, Numbers DEF AreChanged
<1>5. /\ cs \in Seq(Copies) /\ Len(cs) = k
      /\ \A i \in 1..k : /\ cs[i].to = changed[i]
                         /\ cs[i].bytes = <<user[changed[i]]>>
                         /\ Len(cs[i].bytes) = 1
  <2>1. ASSUME NEW i \in 1..k
        PROVE  /\ CopyRecord(NoAddress, changed[i], <<user[changed[i]]>>)
                    \in Copies
               /\ Len(<<user[changed[i]]>>) = 1
    <3>1. i \in 1..Len(changed)
      BY <1>1, <1>4
    <3>2. changed[i] \in Mapped
      BY <1>2, <1>3, <3>1 DEF AreChanged
    <3>3. user[changed[i]] \in Byte
      BY <3>2 DEF RecordingTypeOK
    <3>4. <<user[changed[i]]>> \in Bytes
      <4>1. ASSUME NEW b \in Byte
            PROVE  <<b>> \in Seq(Byte) /\ Len(<<b>>) = 1
        OBVIOUS
      <4>2. 1 \in Unsigneds
        BY Numbers
      <4> QED
        BY <3>3, <4>1, <4>2 DEF Bytes
    <3>5. changed[i] \in Unsigneds /\ NoAddress \in Unsigneds
      BY <3>2, Numbers DEF NoAddress
    <3> QED
      BY <3>4, <3>5 DEF CopyRecord, Copies
  <2>2. cs \in [1..k -> Copies]
    BY <2>1
  <2>3. \A i \in 1..k : /\ cs[i].to = changed[i]
                        /\ cs[i].bytes = <<user[changed[i]]>>
                        /\ Len(cs[i].bytes) = 1
    BY <2>1 DEF CopyRecord
  <2> HIDE DEF cs
  <2> QED
    BY <2>2, <2>3, FunctionIsSeq
<1> HIDE DEF cs
<1>6. /\ current' \in [amount : Nat, copies : Seq(Copies)]
      /\ current'.amount = Len(current'.copies)
      /\ current'.copies = current.copies \o cs
      /\ Len(current'.copies) = Len(current.copies) + k
      /\ Len(current.copies) \in Nat
      /\ current.copies \in Seq(Copies)
  BY <1>1, <1>5, AddCopiesFact
<1>7. RecordingTypeOK'
  <2>1. Pieces' = Pieces + k /\ Pieces \in Nat
    BY <1>1, <1>6 DEF Pieces
  <2>2. Pieces <= writes /\ writes \in Nat /\ k <= WrapSize
    BY <1>1, <1>4, Numbers DEF RecordingTypeOK
  <2>3. spoiled' \subseteq Mapped
    BY <1>1 DEF RecordingTypeOK
  <2>4. wrapped'.kind # "saved"
    BY <1>1 DEF None
  <2>5. Pieces' <= writes + WrapSize
    BY <1>4, <2>1, <2>2
  <2> QED
    BY <1>1, <1>6, <2>3, <2>4, <2>5 DEF RecordingTypeOK
<1>8. Told'
  <2> SUFFICES ASSUME NEW a \in Mapped \ spoiled'
               PROVE  IsTold(a)'
    BY DEF Told
  <2> DEFINE mem == Before(Len(recorded) + 1)
             byte == effect[a]
  <2>1. a \in Mapped /\ IsTold(a) /\ a \in Nat
        /\ \A i \in (k + 1)..Len(changed) : changed[i] # a
    BY <1>1, MemoryAssumption DEF Told
  <2>2. ~Pending(a) /\ ~Pending(a)'
    BY <1>1 DEF Pending
  <2>3. mem' = mem /\ byte' = byte
    BY <1>1 DEF Before
  <2>4. ~InWrap(a)'
    BY <1>1 DEF InWrap, None
  <2>5. user[a] = byte
    BY <2>1 DEF IsTold
  <2>6. \A i \in 1..k : Covers(cs[i], a) <=> changed[i] = a
    <3>1. ASSUME NEW i \in 1..k
          PROVE  Covers(cs[i], a) <=> changed[i] = a
      <4>1. i \in 1..Len(changed)
        BY <1>1, <1>4
      <4>2. changed[i] \in Int
        BY <1>3, <4>1, ElementOfSeq DEF AreChanged
      <4>3. a \in Span(changed[i], 1) <=> changed[i] = a
        BY <2>1, <4>2 DEF Span
      <4> QED
        BY <1>5, <4>3 DEF Covers
    <3> QED
      BY <3>1
  <2>7. CASE InWrap(a) /\ byte # SavedByte(a)
    <3>1. a \in Span(wrapped.ptr, WrapSize)
          /\ wrapped.mem[a - wrapped.ptr + 1] # user[a]
      BY <2>5, <2>7 DEF InWrap, SavedByte
    <3>2. PICK i \in 1..Len(changed) : changed[i] = a
      BY <1>3, <3>1 DEF AreChanged
    <3>3. i \in 1..k
      BY <1>4, <2>1, <3>2
    <3>4. \E j \in 1..Len(cs) : Covers(cs[j], a)
      BY <1>5, <2>6, <3>2, <3>3
    <3>5. \A j \in 1..Len(cs) : Covers(cs[j], a) => ByteOf(cs[j], a) = byte
      <4>1. ASSUME NEW j \in 1..Len(cs), Covers(cs[j], a)
            PROVE  ByteOf(cs[j], a) = byte
        <5>1. changed[j] = a /\ cs[j].to = a /\ cs[j].bytes = <<user[a]>>
          BY <1>5, <2>6, <4>1
        <5>2. a - a + 1 = 1 /\ <<user[a]>>[1] = user[a]
          BY <2>1
        <5> QED
          BY <2>5, <5>1, <5>2 DEF ByteOf
      <4> QED
        BY <4>1
    <3>6. Results(mem, current.copies \o cs, a, byte)
      <4> HIDE DEF mem, byte
      <4>1. ResultsNew(mem, current.copies, cs, a, byte)
        BY <1>5, <1>6, ResultsOfMore
      <4> QED
        BY <3>4, <3>5, <4>1 DEF ResultsNew
    <3> QED
      BY <1>1, <1>6, <2>2, <2>3, <2>4, <2>5, <3>6 DEF IsTold
  <2>8. CASE ~(InWrap(a) /\ byte # SavedByte(a))
    <3>1. Results(mem, current.copies, a, byte)
      BY <2>1, <2>2, <2>8 DEF IsTold
    <3>2. ASSUME NEW j \in 1..Len(cs)
          PROVE  ~Covers(cs[j], a)
      <4>1. SUFFICES ASSUME changed[j] = a
                     PROVE  FALSE
        BY <1>5, <2>6, <3>2
      <4>2. j \in 1..Len(changed)
        BY <1>1, <1>4, <1>5, <3>2
      <4>3. a \in Span(wrapped.ptr, WrapSize)
            /\ wrapped.mem[a - wrapped.ptr + 1] # user[a]
        BY <1>3, <4>1, <4>2 DEF AreChanged
      <4> QED
        BY <1>1, <2>5, <2>8, <4>3 DEF InWrap, SavedByte
    <3>3. Results(mem, current.copies \o cs, a, byte)
      <4> HIDE DEF mem, byte
      <4>1. ResultsKept(mem, current.copies, cs, a, byte)
        BY <1>5, <1>6, ResultsOfMore
      <4> QED
        BY <3>1, <3>2, <4>1 DEF ResultsKept
    <3> QED
      BY <1>1, <1>6, <2>2, <2>3, <2>4, <2>5, <3>3 DEF IsTold
  <2> QED
    BY <2>7, <2>8
<1> QED
  BY <1>7, <1>8

----------------------------------------------------------------------------
(* The history. *)

(* A step that finishes no call; it may spoil more. *)
LEMMA HistoryKept ==
  ASSUME HistoryTypeOK, AllRecorded, AllPrinted, spoiled \subseteq spoiled',
         UNCHANGED <<recorded, after, printed>>
  PROVE  HistoryTypeOK' /\ AllRecorded' /\ AllPrinted'
<1>1. HistoryTypeOK'
  BY DEF HistoryTypeOK
<1>2. \A k : Before(k)' = Before(k)
  BY DEF Before
<1>3. AllRecorded'
  <2>1. SUFFICES ASSUME NEW a \in Mapped \ spoiled', NEW k \in 1..Len(recorded)
                 PROVE  IsRecorded(k, a)'
    BY DEF AllRecorded
  <2>2. IsRecorded(k, a)
    BY DEF AllRecorded
  <2> QED
    BY <1>2, <2>2 DEF IsRecorded
<1>4. ASSUME NEW k, NEW p, IsPrinted(k, p)
      PROVE  IsPrinted(k, p)'
  BY <1>2, <1>4 DEF IsPrinted
<1>5. AllPrinted'
  BY <1>4 DEF AllPrinted
<1> QED
  BY <1>1, <1>3, <1>5

(* The writes to stdout among the first n calls are finitely many. *)
LEMMA WritesInFact ==
  ASSUME NEW rs, NEW n \in Nat
  PROVE  /\ IsFiniteSet(WritesIn(rs, n)) /\ Cardinality(WritesIn(rs, n)) \in Nat
         /\ \A k \in WritesIn(rs, n) :
              /\ k \in 1..n
              /\ Cardinality(WritesIn(rs, k)) \in 1..Cardinality(WritesIn(rs, n))
<1>1. \A k \in 0..n : IsFiniteSet(WritesIn(rs, k))
                      /\ Cardinality(WritesIn(rs, k)) \in Nat
  <2>1. ASSUME NEW k \in 0..n
        PROVE  IsFiniteSet(WritesIn(rs, k))
               /\ Cardinality(WritesIn(rs, k)) \in Nat
    <3>1. IsFiniteSet(1..k)
      BY FS_Interval
    <3>2. WritesIn(rs, k) \in SUBSET (1..k)
      BY DEF WritesIn
    <3> QED
      BY <3>1, <3>2, FS_Subset, FS_CardinalityType
  <2> QED
    BY <2>1
<1>2. ASSUME NEW k \in WritesIn(rs, n)
      PROVE  /\ k \in 1..n
             /\ Cardinality(WritesIn(rs, k)) \in 1..Cardinality(WritesIn(rs, n))
  <2>1. k \in 1..n /\ k \in WritesIn(rs, k) /\ k \in 0..n
    BY <1>2 DEF WritesIn
  <2>2. WritesIn(rs, k) \in SUBSET WritesIn(rs, n)
    BY <2>1 DEF WritesIn
  <2>3. n \in 0..n
    OBVIOUS
  <2>4. Cardinality(WritesIn(rs, k)) <= Cardinality(WritesIn(rs, n))
    BY <1>1, <2>2, <2>3, FS_Subset
  <2>5. Cardinality(WritesIn(rs, k)) # 0
    BY <1>1, <2>1, FS_EmptySet
  <2> QED
    BY <1>1, <2>1, <2>3, <2>4, <2>5
<1>3. n \in 0..n
  OBVIOUS
<1> QED
  BY <1>1, <1>2, <1>3

LEMMA WritesInNext ==
  ASSUME NEW rs, NEW n \in Nat
  PROVE  Cardinality(WritesIn(rs, n + 1)) =
           IF rs[n + 1].regs[1] = WriteSysCall /\ rs[n + 1].regs[2] = Stdout
           THEN Cardinality(WritesIn(rs, n)) + 1
           ELSE Cardinality(WritesIn(rs, n))
<1>1. IsFiniteSet(WritesIn(rs, n)) /\ n + 1 \notin WritesIn(rs, n)
  BY WritesInFact DEF WritesIn
<1>2. \A k : k \in 1..(n + 1) <=> k \in 1..n \/ k = n + 1
  OBVIOUS
<1>3. CASE rs[n + 1].regs[1] = WriteSysCall /\ rs[n + 1].regs[2] = Stdout
  <2>1. WritesIn(rs, n + 1) = WritesIn(rs, n) \cup {n + 1}
    BY <1>2, <1>3 DEF WritesIn
  <2> QED
    BY <1>1, <1>3, <2>1, FS_AddElement
<1>4. CASE ~(rs[n + 1].regs[1] = WriteSysCall /\ rs[n + 1].regs[2] = Stdout)
  <2>1. WritesIn(rs, n + 1) = WritesIn(rs, n)
    BY <1>2, <1>4 DEF WritesIn
  <2> QED
    BY <1>4, <2>1
<1> QED
  BY <1>3, <1>4

LEMMA WritesInAppended ==
  ASSUME NEW T, NEW rs \in Seq(T), NEW r \in T
  PROVE  \A k \in 0..Len(rs) : WritesIn(Append(rs, r), k) = WritesIn(rs, k)
<1>1. Len(rs) \in Nat /\ \A i \in 1..Len(rs) : Append(rs, r)[i] = rs[i]
  BY AppendProperties, LenProperties
<1>2. ASSUME NEW k \in 0..Len(rs), NEW i \in 1..k
      PROVE  Append(rs, r)[i] = rs[i]
  <2>1. i \in 1..Len(rs)
    BY <1>1
  <2> QED
    BY <1>1, <2>1
<1> QED
  BY <1>2 DEF WritesIn

(* A call is over. *)
LEMMA FinishesKeeps ==
  ASSUME RecordingTypeOK, Told, HistoryTypeOK, AllRecorded,
         NEW regs \in Seq(Unsigneds), Len(regs) = NumRegisters,
         NEW ret \in Signeds, Finishes(regs, ret)
  PROVE  /\ RecordingTypeOK' /\ Told' /\ HistoryTypeOK' /\ AllRecorded'
         /\ Len(recorded') = Len(recorded) + 1
         /\ recorded'[Len(recorded) + 1].regs = regs
         /\ \A k \in 1..Len(recorded) : recorded'[k] = recorded[k]
         /\ \A k \in 1..(Len(recorded) + 1) : Before(k)' = Before(k)
<1> DEFINE n == Len(recorded)
           r == SyscallRecord(regs, ret, current)
<1>1. /\ copying = None /\ wrapped.kind # "saved" /\ n < MaxRecords
      /\ recorded' = Append(recorded, r)
      /\ current' = NewRecord /\ wrapped' = None
      /\ after' = Append(after, effect)
      /\ UNCHANGED <<user, copying, source, effect, spoiled, writes>>
  BY DEF Finishes
<1>2. /\ recorded \in Seq(Records) /\ after \in Seq([Mapped -> Byte])
      /\ Len(after) = n /\ n \in Nat
  BY LenProperties DEF HistoryTypeOK
<1>3. effect \in [Mapped -> Byte] /\ writes \in Nat /\ writes <= MaxWrites
      /\ MaxWrites \in Nat /\ WrapSize \in Nat /\ MaxRecords \in Nat
  BY Numbers DEF RecordingTypeOK
<1>4. /\ r.regs = regs /\ r.ret = ret /\ r.amount = current.amount
      /\ r.copies = current.copies /\ r.amount = Len(r.copies)
  BY DEF SyscallRecord, RecordingTypeOK
<1>5. r \in Records
  <2>1. current.copies \in Seq(Copies)
    BY DEF RecordingTypeOK
  <2>2. Len(current.copies) \in Nat
    BY <2>1, LenProperties
  <2>3. Len(current.copies) <= writes + WrapSize
    BY <1>1, <2>2 DEF RecordingTypeOK, Pieces
  <2>4. Len(current.copies) \in 0..(MaxWrites + WrapSize)
    BY <1>3, <2>2, <2>3
  <2>5. current.amount \in Unsigneds
    BY <2>4, Numbers DEF RecordingTypeOK
  <2> QED
    BY <2>1, <2>5 DEF Records, SyscallRecord
<1> HIDE DEF r
<1>6. /\ recorded' \in Seq(Records) /\ Len(recorded') = n + 1
      /\ recorded'[n + 1] = r
      /\ \A k \in 1..n : recorded'[k] = recorded[k]
  BY <1>1, <1>2, <1>5, AppendProperties
<1>7. /\ after' \in Seq([Mapped -> Byte]) /\ Len(after') = n + 1
      /\ after'[n + 1] = effect
      /\ \A k \in 1..n : after'[k] = after[k]
  BY <1>1, <1>2, <1>3, AppendProperties
<1>8. \A k \in 1..(n + 1) : Before(k)' = Before(k)
  <2>1. ASSUME NEW k \in 1..(n + 1), k # 1
        PROVE  k - 1 \in 1..n
    BY <1>2, <2>1
  <2> QED
    BY <1>7, <2>1 DEF Before
<1>9. RecordingTypeOK'
  <2>1. /\ current'.copies = <<>> /\ current'.amount = 0
        /\ current' = [amount |-> 0, copies |-> <<>>]
    BY <1>1 DEF NewRecord
  <2>2. /\ current' \in [amount : Nat, copies : Seq(Copies)]
        /\ current'.amount = Len(current'.copies) /\ Len(current'.copies) = 0
    BY <2>1, EmptySeq
  <2>3. Pieces' = 0 /\ wrapped'.kind # "saved"
    BY <1>1, <2>2 DEF Pieces, None
  <2> QED
    BY <1>1, <1>3, <2>2, <2>3 DEF RecordingTypeOK
<1>10. \A k \in 1..(n + 1) : recorded'[k].amount = Len(recorded'[k].copies)
  <2>1. \A k \in 1..(n + 1) : k \in 1..n \/ k = n + 1
    BY <1>2
  <2> QED
    BY <1>4, <1>6, <2>1 DEF HistoryTypeOK
<1>11. HistoryTypeOK'
  BY <1>1, <1>2, <1>3, <1>6, <1>7, <1>10 DEF HistoryTypeOK
<1>12. \A a \in Mapped \ spoiled :
         Results(Before(n + 1), current.copies, a, effect[a])
  <2>1. ASSUME NEW a \in Mapped \ spoiled
        PROVE  Results(Before(n + 1), current.copies, a, effect[a])
    <3>1. ~Pending(a) /\ ~InWrap(a)
      BY <1>1 DEF Pending, InWrap
    <3>2. IsTold(a)
      BY DEF Told
    <3> QED
      BY <3>1, <3>2 DEF IsTold
  <2> QED
    BY <2>1
<1>13. AllRecorded'
  <2> SUFFICES ASSUME NEW a \in Mapped \ spoiled', NEW k \in 1..Len(recorded')
               PROVE  IsRecorded(k, a)'
    BY DEF AllRecorded
  <2>1. a \in Mapped \ spoiled
    BY <1>1
  <2>2. CASE k = n + 1
    <3>1. Results(Before(n + 1), r.copies, a, effect[a])
      BY <1>4, <1>12, <2>1
    <3>2. k \in 1..(n + 1)
      BY <1>2, <2>2
    <3>3. Before(k)' = Before(n + 1) /\ recorded'[k] = r /\ after'[k] = effect
      BY <1>6, <1>7, <1>8, <2>2, <3>2
    <3> QED
      BY <3>1, <3>3 DEF IsRecorded
  <2>3. CASE k # n + 1
    <3>1. k \in 1..n /\ k \in 1..(n + 1)
      BY <1>2, <1>6, <2>3
    <3>2. IsRecorded(k, a)
      BY <2>1, <3>1 DEF AllRecorded
    <3>3. Before(k)' = Before(k) /\ recorded'[k] = recorded[k]
          /\ after'[k] = after[k]
      BY <1>6, <1>7, <1>8, <3>1
    <3> QED
      BY <3>2, <3>3 DEF IsRecorded
  <2> QED
    BY <2>2, <2>3
<1>14. Told'
  <2> SUFFICES ASSUME NEW a \in Mapped \ spoiled'
               PROVE  IsTold(a)'
    BY DEF Told
  <2>1. a \in Mapped \ spoiled /\ IsTold(a)
    BY <1>1 DEF Told
  <2>2. ~Pending(a)' /\ ~InWrap(a)'
    BY <1>1 DEF Pending, InWrap, None
  <2>3. Before(Len(recorded) + 1)' = effect
    <3>1. Len(recorded') + 1 # 1 /\ (Len(recorded') + 1) - 1 = n + 1
      BY <1>2, <1>6
    <3> QED
      BY <1>7, <3>1 DEF Before
  <2>4. user'[a] = effect'[a] /\ effect' = effect
    BY <1>1, <2>1 DEF IsTold
  <2>5. Results(effect, <<>>, a, effect[a])
    BY ResultsOfNone
  <2>6. current'.copies = <<>>
    BY <1>1 DEF NewRecord
  <2> QED
    BY <2>2, <2>3, <2>4, <2>5, <2>6 DEF IsTold
<1> QED
  BY <1>4, <1>6, <1>8, <1>9, <1>11, <1>13, <1>14

LEMMA RegistersType ==
  ASSUME NEW num \in Unsigneds, NEW rdi \in Unsigneds,
         NEW rsi \in Unsigneds, NEW rdx \in Unsigneds
  PROVE  /\ Registers(num, rdi, rsi, rdx) \in Seq(Unsigneds)
         /\ Len(Registers(num, rdi, rsi, rdx)) = NumRegisters
         /\ Registers(num, rdi, rsi, rdx)[1] = num
         /\ Registers(num, rdi, rsi, rdx)[2] = rdi
         /\ Registers(num, rdi, rsi, rdx)[3] = rsi
         /\ Registers(num, rdi, rsi, rdx)[4] = rdx
<1>1. NumRegisters = 4
  BY PathAssumption
<1> QED
  BY <1>1 DEF Registers

(* A call that is no write to stdout is finished. *)
LEMMA QuietCallKeeps ==
  ASSUME RecordingInv, NEW ret \in Signeds,
         NEW regs \in Seq(Unsigneds), Len(regs) = NumRegisters,
         ~(regs[1] = WriteSysCall /\ regs[2] = Stdout),
         Finishes(regs, ret), printed' = printed
  PROVE  RecordingInv'
<1> DEFINE n == Len(recorded)
<1>1. /\ RecordingTypeOK' /\ Told' /\ HistoryTypeOK' /\ AllRecorded'
      /\ Len(recorded') = n + 1
      /\ recorded'[n + 1].regs = regs
      /\ \A k \in 1..n : recorded'[k] = recorded[k]
      /\ \A k \in 1..(n + 1) : Before(k)' = Before(k)
  BY FinishesKeeps DEF RecordingInv
<1>2. n \in Nat /\ AllPrinted
  BY LenProperties DEF RecordingInv, HistoryTypeOK
<1>3. \A k \in 0..n : WritesIn(recorded', k) = WritesIn(recorded, k)
  <2>1. ASSUME NEW k \in 0..n, NEW i \in 1..k
        PROVE  recorded'[i] = recorded[i]
    BY <1>1, <1>2
  <2> QED
    BY <2>1 DEF WritesIn
<1>4. WritesIn(recorded', n + 1) = WritesIn(recorded, n)
  <2>1. \A k : k \in 1..(n + 1) <=> k \in 1..n \/ k = n + 1
    BY <1>2
  <2>2. \A k \in 1..n : recorded'[k].regs = recorded[k].regs
    BY <1>1
  <2> QED
    BY <1>1, <2>1, <2>2 DEF WritesIn
<1>5. AllPrinted'
  <2>1. ASSUME NEW k \in WritesIn(recorded, n)
        PROVE  IsPrinted(k, printed[Cardinality(WritesIn(recorded, k))])'
    <3>1. k \in 1..n /\ k \in 0..n /\ k \in 1..(n + 1)
      BY <1>2, <2>1 DEF WritesIn
    <3>2. IsPrinted(k, printed[Cardinality(WritesIn(recorded, k))])
      BY <1>2, <2>1 DEF AllPrinted
    <3>3. WritesIn(recorded', k) = WritesIn(recorded, k)
      BY <1>3, <3>1
    <3>4. /\ Before(k)' = Before(k) /\ recorded'[k] = recorded[k]
          /\ spoiled' = spoiled
      BY <1>1, <3>1 DEF Finishes
    <3> QED
      BY <3>2, <3>3, <3>4 DEF IsPrinted
  <2>2. /\ printed \in Seq(Outputs)
        /\ Len(printed) = Cardinality(WritesIn(recorded, n))
    BY <1>2 DEF AllPrinted
  <2>3. WritesIn(recorded, Len(recorded))' = WritesIn(recorded, n)
    BY <1>1, <1>4
  <2> QED
    BY <2>1, <2>2, <2>3 DEF AllPrinted
<1> QED
  BY <1>1, <1>5 DEF RecordingInv

LEMMA PostSyscallKeeps ==
  ASSUME RecordingInv, NEW ret \in Signeds, PostSyscall(ret)
  PROVE  RecordingInv'
<1> DEFINE regs == Registers(OtherSysCall, 0, 0, 0)
<1>1. Finishes(regs, ret) /\ printed' = printed
  BY DEF PostSyscall
<1>2. OtherSysCall \in Unsigneds /\ 0 \in Unsigneds
  BY Numbers DEF OtherSysCall
<1>3. /\ regs \in Seq(Unsigneds) /\ Len(regs) = NumRegisters
      /\ regs[1] # WriteSysCall
  BY <1>2, RegistersType DEF OtherSysCall, WriteSysCall
<1> HIDE DEF regs
<1> QED
  BY <1>1, <1>3, QuietCallKeeps

(* A write to stdout is finished, and what it wrote is noted. *)
LEMMA OutputKeeps ==
  ASSUME RecordingInv, NEW buf \in Unsigneds, NEW len \in Unsigneds,
         NEW ret \in Signeds, PostWrite(Stdout, buf, len, ret)
  PROVE  RecordingInv'
<1> DEFINE n == Len(recorded)
           regs == Registers(WriteSysCall, Stdout, buf, len)
           m == IF ret < 0 THEN 0 ELSE ret
           p == [at |-> buf, len |-> len, bytes |-> Written(buf, ret)]
<1>1. /\ current = NewRecord /\ wrapped = None
      /\ ret <= Reachable(buf, len)
      /\ Finishes(regs, ret)
      /\ printed' = Append(printed, p)
  BY DEF PostWrite
<1>2. /\ WriteSysCall \in Unsigneds /\ Stdout \in Unsigneds
      /\ buf \in Nat /\ len \in Nat /\ ret \in Int
  BY Numbers DEF WriteSysCall, Stdout, Unsigneds, Signeds
<1>3. /\ regs \in Seq(Unsigneds) /\ Len(regs) = NumRegisters
      /\ regs[1] = WriteSysCall /\ regs[2] = Stdout
      /\ regs[3] = buf /\ regs[4] = len
  BY <1>2, RegistersType
<1> HIDE DEF regs
<1>4. /\ RecordingTypeOK' /\ Told' /\ HistoryTypeOK' /\ AllRecorded'
      /\ Len(recorded') = n + 1
      /\ recorded'[n + 1].regs = regs
      /\ \A k \in 1..n : recorded'[k] = recorded[k]
      /\ \A k \in 1..(n + 1) : Before(k)' = Before(k)
  BY <1>1, <1>3, FinishesKeeps DEF RecordingInv
<1>5. n \in Nat /\ AllPrinted /\ RecordingTypeOK /\ Told
  BY LenProperties DEF RecordingInv, HistoryTypeOK
<1>6. copying = None /\ wrapped.kind # "saved" /\ spoiled' = spoiled
  BY <1>1 DEF Finishes
<1>7. /\ p.at = buf /\ p.len = len /\ p.bytes \in Seq(Byte)
      /\ Len(p.bytes) = m /\ m \in 0..len /\ Span(buf, m) \subseteq Mapped
      /\ \A i \in 1..m : p.bytes[i] = user[buf + i - 1]
  <2>1. /\ Reachable(buf, len) \in 0..len
        /\ Span(buf, Reachable(buf, len)) \subseteq Mapped
    BY <1>2, ReachableFact
  <2>2. m \in 0..len /\ m <= Reachable(buf, len)
    BY <1>1, <1>2, <2>1
  <2>3. Span(buf, m) \subseteq Mapped
    BY <1>2, <2>1, <2>2 DEF Span
  <2>4. ASSUME NEW i \in 1..m
        PROVE  user[buf + i - 1] \in Byte
    <3>1. buf + i - 1 \in Span(buf, m)
      BY <1>2, <2>2 DEF Span
    <3> QED
      BY <1>5, <2>3, <3>1 DEF RecordingTypeOK
  <2>5. /\ p.bytes \in Seq(Byte) /\ Len(p.bytes) = m
        /\ \A i \in 1..m : p.bytes[i] = user[buf + i - 1]
    <3>1. CASE ret < 0
      <4>1. p.bytes = <<>> /\ m = 0
        BY <3>1 DEF Written
      <4> QED
        BY <4>1, EmptySeq
    <3>2. CASE ~(ret < 0)
      <4>1. /\ p.bytes = [i \in 1..m |-> user[buf + i - 1]]
            /\ p.bytes \in [1..m -> Byte]
        BY <2>4, <3>2 DEF Written, BytesAt
      <4> HIDE DEF p, m
      <4> QED
        BY <2>2, <4>1, FunctionIsSeq
    <3> QED
      BY <3>1, <3>2
  <2> QED
    BY <2>2, <2>3, <2>5
<1>8. p \in Outputs
  BY <1>2, <1>7 DEF Outputs
<1> HIDE DEF p, m
<1>9. /\ printed \in Seq(Outputs)
      /\ Len(printed) = Cardinality(WritesIn(recorded, n))
      /\ \A k \in WritesIn(recorded, n) :
           IsPrinted(k, printed[Cardinality(WritesIn(recorded, k))])
  BY <1>5 DEF AllPrinted
<1>10. /\ printed' \in Seq(Outputs)
       /\ Len(printed') = Len(printed) + 1
       /\ printed'[Len(printed) + 1] = p
       /\ \A i \in 1..Len(printed) : printed'[i] = printed[i]
       /\ Len(printed) \in Nat
  BY <1>1, <1>8, <1>9, AppendProperties, LenProperties
<1>11. \A k \in 0..n : WritesIn(recorded', k) = WritesIn(recorded, k)
  <2>1. ASSUME NEW k \in 0..n, NEW i \in 1..k
        PROVE  recorded'[i] = recorded[i]
    BY <1>4, <1>5
  <2> QED
    BY <2>1 DEF WritesIn
<1>12. Cardinality(WritesIn(recorded', n + 1)) = Len(printed) + 1
  <2>1. Cardinality(WritesIn(recorded', n + 1)) =
          Cardinality(WritesIn(recorded', n)) + 1
    BY <1>3, <1>4, <1>5, WritesInNext
  <2>2. WritesIn(recorded', n) = WritesIn(recorded, n)
    BY <1>5, <1>11
  <2> QED
    BY <1>9, <2>1, <2>2
<1>13. ASSUME NEW k, NEW q, k = n + 1, q = p
       PROVE  IsPrinted(k, q)'
  <2>1. ASSUME NEW a \in Span(buf, m) \ spoiled
        PROVE  p.bytes[a - buf + 1] = Before(n + 1)[a]
    <3>1. a \in Mapped /\ IsTold(a)
      BY <1>5, <1>7 DEF Told
    <3>2. Before(n + 1)[a] = effect[a] /\ user[a] = effect[a]
      BY <1>1, <1>6, <3>1, NewRecordTells DEF IsTold
    <3>3. a \in Nat
      BY <3>1, MemoryAssumption
    <3>4. a - buf + 1 \in 1..m /\ buf + (a - buf + 1) - 1 = a
      BY <1>2, <1>7, <3>3 DEF Span
    <3> QED
      BY <1>7, <3>2, <3>4
  <2>2. n + 1 \in 1..(n + 1)
    BY <1>5
  <2>3. Before(k)' = Before(k) /\ recorded'[k].regs = regs
    BY <1>4, <1>13, <2>2
  <2> QED
    BY <1>3, <1>6, <1>7, <1>13, <2>1, <2>3 DEF IsPrinted
<1>14. AllPrinted'
  <2>1. ASSUME NEW k \in WritesIn(recorded', n + 1)
        PROVE  IsPrinted(k, printed[Cardinality(WritesIn(recorded, k))])'
    <3>1. CASE k = n + 1
      <4>1. printed'[Cardinality(WritesIn(recorded', k))] = p
        BY <1>10, <1>12, <3>1
      <4>2. ASSUME NEW q, q = p
            PROVE  IsPrinted(k, q)'
        BY <1>13, <3>1, <4>2
      <4> QED
        BY <4>1, <4>2 DEF IsPrinted
    <3>2. CASE k # n + 1
      <4>1. k \in 1..n /\ k \in 0..n /\ k \in 1..(n + 1)
        BY <1>5, <2>1, <3>2 DEF WritesIn
      <4>2. recorded'[k] = recorded[k]
        BY <1>4, <4>1
      <4>3. k \in WritesIn(recorded, n)
        BY <2>1, <4>1, <4>2 DEF WritesIn
      <4>4. IsPrinted(k, printed[Cardinality(WritesIn(recorded, k))])
        BY <1>9, <4>3
      <4>5. Cardinality(WritesIn(recorded, k)) \in 1..Len(printed)
        BY <1>5, <1>9, <4>3, WritesInFact
      <4>6. printed'[Cardinality(WritesIn(recorded', k))]
              = printed[Cardinality(WritesIn(recorded, k))]
        BY <1>10, <1>11, <4>1, <4>5
      <4>7. Before(k)' = Before(k)
        BY <1>4, <4>1
      <4> QED
        BY <1>6, <4>2, <4>4, <4>6, <4>7 DEF IsPrinted
    <3> QED
      BY <3>1, <3>2
  <2> QED
    BY <1>4, <1>10, <1>12, <2>1 DEF AllPrinted
<1> QED
  BY <1>4, <1>14 DEF RecordingInv

(* A write is finished. *)
LEMMA PostWriteKeeps ==
  ASSUME RecordingInv, NEW fd \in Unsigneds, NEW buf \in Unsigneds,
         NEW len \in Unsigneds, NEW ret \in Signeds,
         PostWrite(fd, buf, len, ret)
  PROVE  RecordingInv'
<1> DEFINE regs == Registers(WriteSysCall, fd, buf, len)
<1>1. CASE fd = Stdout
  BY <1>1, OutputKeeps
<1>2. CASE fd # Stdout
  <2>1. Finishes(regs, ret) /\ printed' = printed
    BY <1>2 DEF PostWrite
  <2>2. WriteSysCall \in Unsigneds
    BY Numbers DEF WriteSysCall
  <2>3. regs \in Seq(Unsigneds) /\ Len(regs) = NumRegisters /\ regs[2] = fd
    BY <2>2, RegistersType
  <2> HIDE DEF regs
  <2> QED
    BY <1>2, <2>1, <2>3, QuietCallKeeps
<1> QED
  BY <1>1, <1>2

----------------------------------------------------------------------------
LEMMA RecordingInit ==
  ASSUME MemoryInit
  PROVE  RecordingInv
<1>1. /\ user = [a \in Mapped |-> 0] /\ effect = user
      /\ copying = None /\ wrapped = None /\ current = NewRecord
      /\ recorded = <<>> /\ after = <<>> /\ printed = <<>>
      /\ spoiled = {} /\ writes = 0
  BY DEF MemoryInit
<1>2. 0 \in Byte /\ MaxWrites \in Nat /\ MaxRecords \in Nat /\ WrapSize \in Nat
  BY Numbers
<1>3. /\ current.copies = <<>> /\ current.amount = 0 /\ Len(<<>>) = 0
      /\ <<>> \in Seq(Copies)
      /\ current \in [amount : Nat, copies : Seq(Copies)]
  BY <1>1, EmptySeq DEF NewRecord
<1>4. RecordingTypeOK
  <2>1. Pieces = 0
    BY <1>1, <1>3 DEF Pieces
  <2> QED
    BY <1>1, <1>2, <1>3, <2>1 DEF RecordingTypeOK
<1>5. HistoryTypeOK /\ AllRecorded
  <2>1. <<>> \in Seq(Records) /\ <<>> \in Seq([Mapped -> Byte]) /\ Len(<<>>) = 0
        /\ \A k \in 1..0 : FALSE
    BY EmptySeq
  <2> QED
    BY <1>1, <1>2, <2>1 DEF HistoryTypeOK, AllRecorded
<1>6. AllPrinted
  <2>1. WritesIn(<<>>, 0) = {}
    BY DEF WritesIn
  <2>2. Cardinality({}) = 0 /\ Len(<<>>) = 0
    BY FS_EmptySet
  <2>3. <<>> \in Seq(Outputs)
    BY EmptySeq
  <2> QED
    BY <1>1, <2>1, <2>2, <2>3 DEF AllPrinted
<1>7. Told
  <2> SUFFICES ASSUME NEW a \in Mapped
               PROVE  IsTold(a)
    BY DEF Told
  <2>1. ~Pending(a) /\ ~InWrap(a)
    BY <1>1 DEF Pending, InWrap, None
  <2>2. Before(Len(recorded) + 1) = [b \in Mapped |-> 0]
    BY <1>1, <1>3 DEF Before
  <2>3. Results([b \in Mapped |-> 0], <<>>, a, 0)
    BY ResultsOfNone
  <2> QED
    BY <1>1, <1>3, <2>1, <2>2, <2>3 DEF IsTold
<1> QED
  BY <1>4, <1>5, <1>6, <1>7 DEF RecordingInv

(* Every step of the recording keeps the invariant. *)
LEMMA RecordingStep ==
  ASSUME RecordingInv, MemoryNext
  PROVE  RecordingInv'
<1>1. /\ RecordingTypeOK /\ Told /\ HistoryTypeOK /\ AllRecorded /\ AllPrinted
  BY DEF RecordingInv
<1>2. /\ \A a \in CopyArgs : a[1] \in Unsigneds /\ a[2] \in 0..Len(Source)
      /\ \A n \in PutSizes : n \in 1..Len(Source)
      /\ Returns \subseteq Signeds
      /\ Source \in Seq(Byte)
      /\ \A w \in WriteCalls : /\ w[1] \in Unsigneds /\ w[2] \in Unsigneds
                               /\ w[3] \in Unsigneds /\ w[4] \in Signeds
  BY Numbers
<1>3. ASSUME RecordingTypeOK', Told', spoiled \subseteq spoiled',
             UNCHANGED <<recorded, after, printed>>
      PROVE  RecordingInv'
  BY <1>1, <1>3, HistoryKept DEF RecordingInv
<1>4. ASSUME NEW a \in CopyArgs, PreCopy(a[1], a[2])
      PROVE  RecordingInv'
  BY <1>1, <1>2, <1>3, <1>4, PreCopyKeeps DEF PreCopy, Writes
<1>5. ASSUME NEW a \in CopyArgs, PreCopyFails(a[1], a[2])
      PROVE  RecordingInv'
  BY <1>1, <1>2, <1>3, <1>5, PreCopyFailsKeeps DEF PreCopyFails, Writes, Spoils
<1>6. ASSUME SourceChanges
      PROVE  RecordingInv'
  BY <1>1, <1>3, <1>6, SourceChangesKeeps DEF SourceChanges, Spoils
<1>7. ASSUME PostCopy
      PROVE  RecordingInv'
  BY <1>1, <1>3, <1>7, PostCopyKeeps DEF PostCopy
<1>8. ASSUME PostCopyFailed
      PROVE  RecordingInv'
  BY <1>1, <1>3, <1>8, PostCopyFailedKeeps DEF PostCopyFailed, Spoils
<1>9. ASSUME NEW a \in CopyArgs, NEW n \in PutSizes, PutUser(a[1], n)
      PROVE  RecordingInv'
  BY <1>1, <1>2, <1>3, <1>9, PutUserKeeps DEF PutUser, Writes
<1>10. ASSUME NEW ptr \in Mapped, PreWrap(ptr)
       PROVE  RecordingInv'
  BY <1>1, <1>3, <1>10, PreWrapKeeps DEF PreWrap
<1>11. ASSUME NEW a \in Mapped, NEW i \in DOMAIN Source,
              KernelWrites(a, Source[i])
       PROVE  RecordingInv'
  <2>1. Source[i] \in Byte
    BY <1>2, LenProperties
  <2> QED
    BY <1>1, <1>3, <1>11, <2>1, KernelWritesKeeps
       DEF KernelWrites, Writes, Spoils
<1>12. ASSUME NEW a \in Mapped, OtherThreadWrites(a)
       PROVE  RecordingInv'
  BY <1>1, <1>3, <1>12, OtherThreadWritesKeeps DEF OtherThreadWrites, Spoils
<1>13. ASSUME NEW k \in 0..WrapSize, PostWrap(k)
       PROVE  RecordingInv'
  <2>1. k \in Nat
    OBVIOUS
  <2>2. spoiled \subseteq spoiled' /\ UNCHANGED <<recorded, after, printed>>
    BY <1>13 DEF PostWrap, Spoils
  <2> QED
    BY <1>1, <1>3, <1>13, <2>1, <2>2, PostWrapKeeps
<1>14. ASSUME NEW ret \in Returns, PostSyscall(ret)
       PROVE  RecordingInv'
  BY <1>2, <1>14, PostSyscallKeeps
<1>15. ASSUME NEW w \in WriteCalls, PostWrite(w[1], w[2], w[3], w[4])
       PROVE  RecordingInv'
  BY <1>2, <1>15, PostWriteKeeps
<1> HIDE DEF RecordingInv
<1> QED
  BY <1>4, <1>5, <1>6, <1>7, <1>8, <1>9, <1>10, <1>11, <1>12, <1>13, <1>14,
     <1>15 DEF MemoryNext

----------------------------------------------------------------------------
LEMMA DumpOfNothing == DumpRecords(<<>>) = <<>> /\ DumpCopyRecords(<<>>) = <<>>
<1>1. Len(<<>>) = 0 /\ 1..0 = {}
  OBVIOUS
<1>2. [i \in 1..Len(<<>>) |-> DumpSingleRecord(<<>>[i])] = <<>>
      /\ [i \in 1..Len(<<>>) |-> DumpCopyRecord(<<>>[i])] = <<>>
  BY <1>1
<1> QED
  BY <1>2, FlattenEmpty DEF DumpRecords, DumpCopyRecords

(* What is left of the dump begins with the next record. *)
LEMMA LeftFact ==
  ASSUME recorded \in Seq(Records), NEW n, n \in 0..Len(recorded)
  PROVE  /\ Len(recorded) \in Nat
         /\ Left(n) \in Seq(Byte)
         /\ n = Len(recorded) => Left(n) = <<>>
         /\ n # Len(recorded) =>
              /\ n + 1 \in 1..Len(recorded)
              /\ recorded[n + 1] \in Records
              /\ Left(n) = DumpSingleRecord(recorded[n + 1]) \o Left(n + 1)
              /\ Left(n + 1) \in Seq(Byte)
<1>1. Len(recorded) \in Nat
  BY LenProperties
<1>2. ASSUME NEW k \in 0..Len(recorded)
      PROVE  Left(k) \in Seq(Byte)
  <2>1. SubSeq(recorded, k + 1, Len(recorded)) \in Seq(Records)
    BY EndOfSeq
  <2>2. ASSUME NEW s \in Seq(Records)
        PROVE  DumpRecords(s) \in Seq(Byte)
    BY DumpOfRecords
  <2> QED
    BY <2>1, <2>2 DEF Left
<1>3. ASSUME n = Len(recorded)
      PROVE  Left(n) = <<>>
  <2>1. SubSeq(recorded, n + 1, Len(recorded)) = <<>>
    <3>1. Len(recorded) < Len(recorded) + 1
      BY <1>1
    <3>2. SubSeq(recorded, Len(recorded) + 1, Len(recorded)) = <<>>
      BY <1>1, <3>1, SubSeqEmpty
    <3> QED
      BY <1>3, <3>2
  <2> QED
    BY <2>1, DumpOfNothing DEF Left
<1>4. ASSUME n # Len(recorded)
      PROVE  /\ n + 1 \in 1..Len(recorded)
             /\ recorded[n + 1] \in Records
             /\ Left(n) = DumpSingleRecord(recorded[n + 1]) \o Left(n + 1)
             /\ Left(n + 1) \in Seq(Byte)
  <2>1. n + 1 \in 1..Len(recorded) /\ n + 1 \in 0..Len(recorded)
    BY <1>1, <1>4
  <2>2. recorded[n + 1] \in Records
    BY <2>1, ElementOfSeq
  <2>3. \A k \in 1..Len(recorded) :
          DumpRecords(SubSeq(recorded, k, Len(recorded))) =
            DumpSingleRecord(recorded[k])
            \o DumpRecords(SubSeq(recorded, k + 1, Len(recorded)))
    BY DumpOfFirstRecord
  <2> QED
    BY <1>2, <2>1, <2>2, <2>3 DEF Left
<1> QED
  BY <1>1, <1>2, <1>3, <1>4

LEMMA MissingFact ==
  ASSUME recorded \in Seq(Records), cut \in 0..Len(DumpRecords(recorded))
  PROVE  /\ Missing \in Seq(Byte)
         /\ Len(Missing) = Len(DumpRecords(recorded)) - cut
         /\ Len(DumpRecords(recorded)) \in Nat
<1>1. DumpRecords(recorded) \in Seq(Byte)
  BY DumpOfRecords
<1>2. Len(DumpRecords(recorded)) \in Nat
  BY <1>1, LenProperties
<1> QED
  BY <1>1, <1>2, EndOfSeq DEF Missing

LEMMA LoaderInitially ==
  ASSUME LoaderInit, cut = 0, recorded = <<>>
  PROVE  LoaderInv
<1>1. /\ buffer = <<>> /\ loading = Nothing /\ system_calls = <<>>
      /\ loader = "waiting" /\ loading.left = 0
  BY DEF LoaderInit, Nothing
<1>2. /\ <<>> \in Seq(Byte) /\ <<>> \in Seq(Calls) /\ Len(<<>>) = 0
      /\ DumpRecords(<<>>) = <<>>
  BY EmptySeq, DumpOfNothing
<1>3. LoaderTypeOK
  BY <1>1, <1>2 DEF LoaderTypeOK
<1> QED
  BY <1>1, <1>3 DEF LoaderInv

(* The recording goes on, and nothing is loaded. *)
LEMMA RecordKeepsLoader ==
  ASSUME LoaderInv, loader = "waiting", HistoryTypeOK',
         UNCHANGED <<loaderVars, cut>>
  PROVE  LoaderInv'
<1>1. /\ buffer = <<>> /\ loading = Nothing /\ system_calls = <<>>
      /\ cut = 0 /\ loading.left \in Nat
  BY DEF LoaderInv, LoaderTypeOK
<1>2. UNCHANGED <<buffer, loading, system_calls, loader, cut>>
  BY DEF loaderVars
<1>3. recorded' \in Seq(Records) /\ Len(recorded') \in Nat
  BY LenProperties DEF HistoryTypeOK
<1>4. Len(DumpRecords(recorded')) \in Nat
  <2>1. DumpRecords(recorded') \in Seq(Byte)
    BY <1>3, DumpOfRecords
  <2> QED
    BY <2>1, LenProperties
<1>5. <<>> \in Seq(Byte) /\ <<>> \in Seq(Calls) /\ Len(<<>>) = 0
  BY EmptySeq
<1>6. LoaderTypeOK'
  BY <1>1, <1>2, <1>3, <1>4, <1>5 DEF LoaderTypeOK
<1> QED
  BY <1>1, <1>2, <1>6 DEF LoaderInv

(* The file is opened: what it has, and what is missing, is the dump. *)
LEMMA LoadKeepsLoader ==
  ASSUME LoaderInv, HistoryTypeOK, Load
  PROVE  LoaderInv'
<1> DEFINE file == DumpRecords(recorded)
<1>1. PICK n \in 0..Len(file) : FromPath(SubSeq(file, 1, n)) /\ cut' = n
  <2>1. recorded \in Seq(Records)
    BY DEF HistoryTypeOK
  <2>2. Len(file) \in Nat
    BY <2>1, DumpOfRecords, LenProperties
  <2>3. Len(file) \in 0..Len(file)
    BY <2>2
  <2> HIDE DEF file
  <2> QED
    BY <2>3 DEF Load, file
<1>2. /\ loader = "waiting" /\ loader' = "loading"
      /\ buffer' = SubSeq(file, 1, n)
      /\ UNCHANGED <<loading, system_calls, recorded>>
  BY <1>1 DEF FromPath, Load, memoryVars
<1>3. loading = Nothing /\ system_calls = <<>> /\ loading.left = 0
  BY <1>2 DEF LoaderInv, Nothing
<1>4. recorded \in Seq(Records) /\ Len(recorded) \in Nat
  BY LenProperties DEF HistoryTypeOK
<1>5. file \in Seq(Byte) /\ Len(file) \in Nat
  BY <1>4, DumpOfRecords, LenProperties
<1> HIDE DEF file
<1>6. SubSeq(file, 1, n) \in Seq(Byte)
  BY <1>5, BeginningOfSeq
<1>7. SubSeq(file, 1, n) \o SubSeq(file, n + 1, Len(file)) = file
  <2>1. 1 \in 1..(Len(file) + 1) /\ n \in 0..Len(file) /\ 1 - 1 = 0
        /\ Len(file) \in n..Len(file)
    BY <1>5
  <2>2. SubSeq(file, 1, n) \o SubSeq(file, n + 1, Len(file))
          = SubSeq(file, 1, Len(file))
    BY <1>5, <2>1, ConcatAdjacentSubSeq
  <2> QED
    BY <1>5, <2>2, SubSeqFull
<1>8. Left(0)' = file
  <2>1. SubSeq(recorded, 0 + 1, Len(recorded)) = recorded
    BY <1>4, SubSeqFull
  <2> QED
    BY <1>2, <2>1 DEF Left, file
<1>9. Missing' = SubSeq(file, n + 1, Len(file))
  BY <1>1, <1>2 DEF Missing, file
<1>10. Len(system_calls') = 0
  BY <1>2, <1>3
<1>11. Between'
  <2>1. AreWhole(Len(system_calls))'
    BY <1>10 DEF AreWhole
  <2>2. Left(Len(system_calls))' = file
    BY <1>8, <1>10 DEF Left
  <2> QED
    BY <1>2, <1>3, <1>7, <1>9, <2>1, <2>2 DEF Between
<1>12. LoaderTypeOK'
  <2>1. cut' \in 0..Len(DumpRecords(recorded'))
    BY <1>1, <1>2 DEF file
  <2>2. system_calls' \in Seq(Calls) /\ Len(system_calls') <= Len(recorded')
    BY <1>2, <1>3, <1>4, <1>10, EmptySeq
  <2> QED
    BY <1>2, <1>3, <1>6, <2>1, <2>2 DEF LoaderTypeOK
<1> QED
  BY <1>2, <1>11, <1>12 DEF LoaderInv

(* A record, loaded, is a call. *)
LEMMA LoadedFact ==
  ASSUME NEW r \in Records
  PROVE  Loaded(r) \in Calls
<1>1. r.regs \in {s \in Seq(Unsigneds) : Len(s) = NumRegisters}
      /\ r.ret \in Signeds /\ r.copies \in Seq(Copies)
  BY DEF Records
<1>2. Copies \subseteq [from : Unsigneds, to : Unsigneds, bytes : Seq(Byte)]
  BY DEF Copies, Bytes
<1>3. r.copies \in Seq([from : Unsigneds, to : Unsigneds, bytes : Seq(Byte)])
  BY <1>1, <1>2, SeqMonotonic
<1> QED
  BY <1>1, <1>3 DEF Loaded, Calls

(* One more call, whole or without its end. *)
LEMMA CallLoaded ==
  ASSUME HistoryTypeOK, LoaderTypeOK, AreWhole(Len(system_calls)),
         Len(system_calls) < Len(recorded), NEW call \in Calls,
         system_calls' = Append(system_calls, call),
         loading' = Nothing, buffer' \in Seq(Byte),
         UNCHANGED <<recorded, cut, loader>>
  PROVE  /\ LoaderTypeOK'
         /\ Len(system_calls') = Len(system_calls) + 1
         /\ system_calls'[Len(system_calls) + 1] = call
         /\ AreWhole(Len(system_calls) - 1)'
         /\ call = Loaded(recorded[Len(system_calls) + 1]) =>
              AreWhole(Len(system_calls))'
<1> DEFINE n == Len(system_calls)
<1>1. /\ system_calls \in Seq(Calls) /\ n \in Nat /\ Len(recorded) \in Nat
  BY LenProperties DEF LoaderTypeOK, HistoryTypeOK
<1>2. /\ system_calls' \in Seq(Calls) /\ Len(system_calls') = n + 1
      /\ system_calls'[n + 1] = call
      /\ \A i \in 1..n : system_calls'[i] = system_calls[i]
  BY <1>1, AppendProperties
<1>3. LoaderTypeOK'
  <2>1. Len(system_calls') <= Len(recorded')
    BY <1>1, <1>2
  <2>2. loading'.left \in Nat
    BY DEF Nothing
  <2> QED
    BY <1>2, <2>1, <2>2 DEF LoaderTypeOK
<1>4. \A i \in 1..n : system_calls'[i] = Loaded(recorded'[i])
  BY <1>2 DEF AreWhole, IsWhole, Loaded
<1>5. Len(system_calls') - 1 = n
  BY <1>1, <1>2
<1>6. AreWhole(Len(system_calls) - 1)'
  <2>1. \A i \in 1..(Len(system_calls') - 1) :
          system_calls'[i] = Loaded(recorded'[i])
    BY <1>4, <1>5
  <2> QED
    BY <2>1 DEF AreWhole, IsWhole, Loaded
<1>7. ASSUME call = Loaded(recorded[n + 1])
      PROVE  AreWhole(Len(system_calls))'
  <2>1. \A i \in 1..(n + 1) : i \in 1..n \/ i = n + 1
    BY <1>1
  <2>2. \A i \in 1..Len(system_calls') :
          system_calls'[i] = Loaded(recorded'[i])
    BY <1>2, <1>4, <1>7, <2>1
  <2> QED
    BY <2>2 DEF AreWhole, IsWhole, Loaded
<1> QED
  BY <1>2, <1>3, <1>6, <1>7

----------------------------------------------------------------------------
(* One step of the loader does not change what has been recorded. *)
LEMMA LeftKept ==
  ASSUME UNCHANGED <<recorded, cut>>
  PROVE  Missing' = Missing /\ \A n : Left(n)' = Left(n)
BY DEF Missing, Left

(* All copies of a call are loaded; and there is more in the buffer. *)
LEMMA BetweenCallsAlso ==
  ASSUME HistoryTypeOK, LoaderInv, loader = "loading", loading.left = 0
  PROVE  Between \/ LostAtEnd
<1>1. \/ Between
      \/ /\ Len(system_calls) < Len(recorded)
         /\ Within(recorded[Len(system_calls) + 1]) \/ LostWithin
      \/ LostAtEnd
  BY DEF LoaderInv
<1>3. ~LostWithin
  BY DEF LostWithin
<1>4. ASSUME Len(system_calls) < Len(recorded),
             Within(recorded[Len(system_calls) + 1])
      PROVE  FALSE
  <2> DEFINE r == recorded[Len(system_calls) + 1]
             j == Len(loading.copies)
  <2>1. Len(system_calls) \in Nat /\ recorded \in Seq(Records)
    BY LenProperties DEF LoaderInv, LoaderTypeOK, HistoryTypeOK
  <2>2. Len(system_calls) + 1 \in 1..Len(recorded) /\ Len(recorded) \in Nat
    <3>1. Len(recorded) \in Nat
      BY <2>1, LenProperties
    <3> QED
      BY <1>4, <2>1, <3>1
  <2>3. r \in Records
    BY <2>1, <2>2, ElementOfSeq
  <2>4. r.copies \in Seq(Copies)
    BY <2>3 DEF Records
  <2>5. Len(r.copies) \in Nat
    BY <2>4, LenProperties
  <2>6. j \in 0..(Len(r.copies) - 1)
        /\ loading.left = Len(r.copies) - j
    BY <1>4 DEF Within
  <2>7. loading.left = 0
    OBVIOUS
  <2> HIDE DEF r, j
  <2> QED
    BY <2>5, <2>6, <2>7
<1> QED
  BY <1>1, <1>3, <1>4

LEMMA BetweenCalls ==
  ASSUME HistoryTypeOK, LoaderInv, loader = "loading", loading.left = 0,
         Len(buffer) # 0
  PROVE  Between
<1>1. Len(<<>>) = 0
  OBVIOUS
<1>2. ~LostAtEnd
  BY <1>1 DEF LostAtEnd
<1> QED
  BY <1>2, BetweenCallsAlso

(* A call is begun; it is loaded when it has no copies. *)
LEMMA LoadRegistersKeeps ==
  ASSUME HistoryTypeOK, LoaderInv, LoadRegisters, UNCHANGED <<recorded, cut>>
  PROVE  LoaderInv'
<1> DEFINE n == Len(system_calls)
           r == recorded[n + 1]
           rest == DumpCopyRecords(r.copies) \o Left(n + 1)
           call == [regs |-> [i \in 1..NumRegisters |-> Unsigned(LongAt(i))],
                    ret |-> Signed(LongAt(NumRegisters + 1)),
                    left |-> Unsigned(LongAt(NumRegisters + 2)),
                    copies |-> <<>>]
<1>1. /\ loader = "loading" /\ loader' = "loading" /\ loading.left = 0
      /\ Len(buffer) >= SizeOfSyscallDump
      /\ buffer' = Rest(SizeOfSyscallDump)
      /\ Loads(call)
  BY DEF LoadRegisters, Loading
<1>2. /\ LoaderTypeOK /\ recorded \in Seq(Records)
      /\ buffer \in Seq(Byte) /\ n \in Nat /\ n <= Len(recorded)
      /\ n \in 0..Len(recorded) /\ Len(buffer) \in Nat
      /\ cut \in 0..Len(DumpRecords(recorded))
      /\ SizeOfSyscallDump \in Nat \ {0}
      /\ \A k \in 1..Len(recorded) :
           recorded[k].amount = Len(recorded[k].copies)
  BY LenProperties, Sizes DEF LoaderInv, LoaderTypeOK, HistoryTypeOK
<1>3. Between
  BY <1>1, <1>2, BetweenCalls
<1>4. /\ AreWhole(n) /\ loading = Nothing /\ buffer \o Missing = Left(n)
  BY <1>3 DEF Between
<1>5. Missing \in Seq(Byte)
  BY <1>2, MissingFact
<1>6. n # Len(recorded)
  <2>1. SUFFICES ASSUME n = Len(recorded)
                 PROVE  FALSE
    OBVIOUS
  <2>2. buffer \o Missing = <<>>
    BY <1>2, <1>4, <2>1, LeftFact
  <2>3. Len(buffer \o Missing) = Len(buffer) + Len(Missing)
        /\ Len(Missing) \in Nat
    BY <1>2, <1>5, ConcatProperties, LenProperties
  <2>4. Len(<<>>) = 0
    OBVIOUS
  <2> HIDE DEF n
  <2> QED
    BY <1>1, <1>2, <2>2, <2>3, <2>4
<1>7. /\ n + 1 \in 1..Len(recorded) /\ r \in Records
      /\ Left(n) = DumpSingleRecord(r) \o Left(n + 1)
      /\ Left(n + 1) \in Seq(Byte) /\ Len(recorded) \in Nat
  BY <1>2, <1>6, LeftFact
<1>8. /\ r.copies \in Seq(Copies) /\ r.amount = Len(r.copies)
      /\ Len(r.copies) \in Nat
  BY <1>2, <1>7, LenProperties DEF Records
<1>9. DumpCopyRecords(r.copies) \in Seq(Byte)
  BY <1>8, DumpOfCopies
<1>10. buffer \o Missing = DumpSyscallRecord(r) \o rest /\ rest \in Seq(Byte)
  <2>1. DumpSyscallRecord(r) \in Seq(Byte)
    BY <1>7, DumpSyscallRecordFact
  <2>2. ASSUME NEW u \in Seq(Byte), NEW v \in Seq(Byte), NEW w \in Seq(Byte)
        PROVE  (u \o v) \o w = u \o (v \o w) /\ v \o w \in Seq(Byte)
    BY ConcatAssociative, ConcatProperties, SMTT(30)
  <2> HIDE DEF r
  <2> QED
    BY <1>4, <1>7, <1>9, <2>1, <2>2 DEF DumpSingleRecord
<1> HIDE DEF r
<1>11. IsUnpackedCall(r, Missing, rest)
  <2> HIDE DEF rest
  <2> QED
    BY <1>1, <1>2, <1>5, <1>7, <1>10, UnpackedCall
<1>12. /\ call = [regs |-> r.regs, ret |-> r.ret, left |-> Len(r.copies),
                  copies |-> <<>>]
       /\ buffer' \in Seq(Byte) /\ buffer' \o Missing = rest
  BY <1>1, <1>8, <1>11 DEF IsUnpackedCall
<1> HIDE DEF call
<1>13. /\ Missing' = Missing /\ \A k : Left(k)' = Left(k)
  BY LeftKept
<1>14. CASE Len(r.copies) = 0
  <2> DEFINE whole == [regs |-> call.regs, ret |-> call.ret,
                       copies |-> call.copies]
  <2>1. r.copies = <<>>
    BY <1>8, <1>14, EmptySeq
  <2>2. whole = Loaded(r) /\ call.left = 0
    BY <1>12, <1>14, <2>1 DEF Loaded
  <2>3. /\ system_calls' = Append(system_calls, whole)
        /\ loading' = Nothing
    BY <1>1, <2>2 DEF Loads
  <2>4. whole \in Calls
    BY <1>7, <2>2, LoadedFact
  <2> HIDE DEF whole
  <2>5. /\ LoaderTypeOK' /\ Len(system_calls') = n + 1
        /\ AreWhole(Len(system_calls))'
    <3>1. n < Len(recorded)
      BY <1>7
    <3>2. AreWhole(Len(system_calls)) /\ Len(system_calls) < Len(recorded)
          /\ whole = Loaded(recorded[Len(system_calls) + 1])
      BY <1>4, <2>2, <3>1 DEF r
    <3>3. UNCHANGED <<recorded, cut, loader>>
      BY <1>1
    <3> QED
      BY <1>2, <1>12, <2>3, <2>4, <3>2, <3>3, CallLoaded
  <2>6. buffer' \o Missing' = Left(n + 1)
    <3>1. rest = <<>> \o Left(n + 1)
      BY <2>1, DumpOfNothing
    <3> QED
      BY <1>7, <1>12, <1>13, <3>1, ConcatEmptySeq
  <2>7. Left(Len(system_calls))' = Left(n + 1)
    <3>1. ASSUME NEW k, k = n + 1
          PROVE  Left(k)' = Left(n + 1)
      BY <1>13, <3>1
    <3> QED
      BY <2>5, <3>1 DEF Left
  <2>8. Between'
    BY <2>3, <2>5, <2>6, <2>7 DEF Between
  <2> QED
    BY <1>1, <2>5, <2>8 DEF LoaderInv
<1>15. CASE Len(r.copies) # 0
  <2>1. loading' = call /\ system_calls' = system_calls
    BY <1>1, <1>12, <1>15 DEF Loads
  <2>2. LoaderTypeOK'
    <3>1. loading'.left \in Nat
      BY <1>8, <1>12, <2>1
    <3> QED
      BY <1>1, <1>2, <1>12, <2>1, <3>1 DEF LoaderTypeOK
  <2>3. Within(r)'
    <3>1. loading'.copies = <<>> /\ Len(<<>>) = 0
      BY <1>12, <2>1
    <3>2. 0 \in 0..(Len(r.copies) - 1) /\ Len(r.copies) - 0 = Len(r.copies)
      BY <1>8, <1>15
    <3>3. SubSeq(r.copies, 1, 0) = <<>>
      BY SubSeqEmpty
    <3>4. SubSeq(r.copies, 0 + 1, Len(r.copies)) = r.copies
      BY <1>8, SubSeqFull
    <3>5. Left(Len(system_calls) + 1)' = Left(n + 1)
      BY <1>13, <2>1 DEF Left
    <3>6. r' = r
      BY <2>1 DEF r
    <3>7. buffer' \o Missing' = DumpCopyRecords(SubSeq(r.copies, 0 + 1,
                                                       Len(r.copies)))
                                \o Left(n + 1)
      BY <1>12, <1>13, <3>4
    <3> QED
      BY <1>12, <2>1, <3>1, <3>2, <3>3, <3>5, <3>6, <3>7 DEF Within
  <2>4. AreWhole(Len(system_calls))'
    BY <1>4, <2>1 DEF AreWhole, IsWhole, Loaded
  <2>5. Within(recorded[Len(system_calls) + 1])'
    BY <2>3 DEF r
  <2>6. Len(system_calls') < Len(recorded')
    BY <1>2, <1>6, <1>7, <2>1
  <2> QED
    BY <1>1, <2>2, <2>4, <2>5, <2>6 DEF LoaderInv
<1> QED
  BY <1>14, <1>15

LEMMA UnpackRaisesKeeps ==
  ASSUME LoaderInv, UnpackRaises, UNCHANGED <<recorded, cut>>
  PROVE  LoaderInv'
<1>1. /\ loader = "loading" /\ loader' = "raised"
      /\ UNCHANGED <<buffer, loading, system_calls>>
  BY DEF UnpackRaises, Loading
<1>2. LoaderTypeOK'
  BY <1>1 DEF LoaderInv, LoaderTypeOK
<1>3. Missing' = Missing /\ Left(Len(system_calls))' = Left(Len(system_calls))
      /\ Left(Len(system_calls) + 1)' = Left(Len(system_calls) + 1)
      /\ AreWhole(Len(system_calls))' = AreWhole(Len(system_calls))
  BY <1>1 DEF Missing, Left, AreWhole, IsWhole, Loaded
<1>4. Between => Between'
  BY <1>1, <1>3 DEF Between
<1>5. Within(recorded[Len(system_calls) + 1])
        => Within(recorded[Len(system_calls) + 1])'
  BY <1>1, <1>3 DEF Within
<1>6. LostWithin => LostWithin'
  BY <1>1 DEF LostWithin
<1>7. LostAtEnd => LostAtEnd'
  BY <1>1 DEF LostAtEnd, AreWhole, IsWhole, Loaded, LosesItsEnd, InFile
<1> QED
  BY <1>1, <1>2, <1>3, <1>4, <1>5, <1>6, <1>7 DEF LoaderInv

LEMMA LoadingEndsKeeps ==
  ASSUME HistoryTypeOK, LoaderInv, LoadingEnds, UNCHANGED <<recorded, cut>>
  PROVE  LoaderInv'
<1>1. /\ loader = "loading" /\ loader' = "loaded" /\ loading.left = 0
      /\ UNCHANGED <<buffer, loading, system_calls>>
  BY DEF LoadingEnds, Loading
<1>2. LoaderTypeOK'
  BY <1>1 DEF LoaderInv, LoaderTypeOK
<1>3. Between \/ LostAtEnd
  BY <1>1, BetweenCallsAlso
<1>4. Missing' = Missing /\ Left(Len(system_calls))' = Left(Len(system_calls))
      /\ AreWhole(Len(system_calls))' = AreWhole(Len(system_calls))
  BY <1>1 DEF Missing, Left, AreWhole, IsWhole, Loaded
<1>5. Between => Between'
  BY <1>1, <1>4 DEF Between
<1>6. LostAtEnd => LostAtEnd'
  BY <1>1 DEF LostAtEnd, AreWhole, IsWhole, Loaded, LosesItsEnd, InFile
<1> QED
  BY <1>1, <1>2, <1>3, <1>5, <1>6 DEF LoaderInv

----------------------------------------------------------------------------
(* The first copies of a record, and one more. *)
LEMMA OneMoreOf ==
  ASSUME NEW T, NEW s, s \in Seq(T), NEW j, j \in 0..(Len(s) - 1), NEW e \in T
  PROVE  /\ Append(SubSeq(s, 1, j), e) \in Seq(T)
         /\ Len(Append(SubSeq(s, 1, j), e)) = j + 1
         /\ \A i \in 1..j : Append(SubSeq(s, 1, j), e)[i] = s[i]
         /\ Append(SubSeq(s, 1, j), e)[j + 1] = e
         /\ e = s[j + 1] => Append(SubSeq(s, 1, j), e) = SubSeq(s, 1, j + 1)
<1>1. Len(s) \in Nat
  BY LenProperties
<1>2. j \in 0..Len(s) /\ j + 1 \in 0..Len(s) /\ j \in Nat
  BY <1>1
<1>3. ASSUME NEW u, u = SubSeq(s, 1, j)
      PROVE  /\ Append(u, e) \in Seq(T)
             /\ Len(Append(u, e)) = j + 1
             /\ \A i \in 1..j : Append(u, e)[i] = s[i]
             /\ Append(u, e)[j + 1] = e
  <2>1. u \in Seq(T) /\ Len(u) = j /\ \A i \in 1..j : u[i] = s[i]
    BY <1>2, <1>3, BeginningOfSeq
  <2> QED
    BY <2>1, AppendProperties
<1>4. ASSUME NEW u, u = Append(SubSeq(s, 1, j), e),
             NEW v, v = SubSeq(s, 1, j + 1), e = s[j + 1]
      PROVE  u = v
  <2>1. u \in Seq(T) /\ Len(u) = j + 1 /\ u[j + 1] = e
        /\ \A i \in 1..j : u[i] = s[i]
    BY <1>3, <1>4
  <2>2. v \in Seq(T) /\ Len(v) = j + 1 /\ \A i \in 1..(j + 1) : v[i] = s[i]
    <3>1. ASSUME NEW k, k \in 0..Len(s)
          PROVE  /\ SubSeq(s, 1, k) \in Seq(T) /\ Len(SubSeq(s, 1, k)) = k
                 /\ \A i \in 1..k : SubSeq(s, 1, k)[i] = s[i]
      BY <3>1, BeginningOfSeq
    <3> QED
      BY <1>2, <1>4, <3>1
  <2>3. \A i \in 1..(j + 1) : i \in 1..j \/ i = j + 1
    BY <1>2
  <2>4. \A i \in 1..Len(u) : u[i] = v[i]
    BY <1>4, <2>1, <2>2, <2>3
  <2> QED
    BY <2>1, <2>2, <2>4, SeqEqual
<1> QED
  BY <1>3, <1>4

LoadedCopy == [from : Unsigneds, to : Unsigneds, bytes : Seq(Byte)]

(* A record without the end of its last copy. *)
LEMMA LosesItsEndFact ==
  ASSUME NEW r \in Records, NEW j, j \in 0..(Len(r.copies) - 1),
         j + 1 = Len(r.copies), NEW bytes \in Seq(Byte),
         IsPrefix(bytes, r.copies[j + 1].bytes),
         NEW copy, copy = [from |-> r.copies[j + 1].from,
                           to |-> r.copies[j + 1].to, bytes |-> bytes],
         NEW call, call = [regs |-> r.regs, ret |-> r.ret,
                           copies |-> Append(SubSeq(r.copies, 1, j), copy)]
  PROVE  call \in Calls /\ LosesItsEnd(call, r)
<1> DEFINE cs == r.copies
           n == Len(r.copies)
           lost == Append(SubSeq(cs, 1, j), copy)
           cut0 == [Loaded(r) EXCEPT !.copies[n].bytes = bytes]
<1>1. /\ cs \in Seq(Copies) /\ r.ret \in Signeds
      /\ r.regs \in {s \in Seq(Unsigneds) : Len(s) = NumRegisters}
  BY DEF Records
<1>2. cs \in Seq(LoadedCopy)
  <2>1. Copies \subseteq LoadedCopy
    BY DEF Copies, Bytes, LoadedCopy
  <2> QED
    BY <1>1, <2>1, SeqMonotonic
<1>3. n \in Nat /\ n \in 1..n /\ j \in Nat
  BY <1>1, LenProperties
<1>4. cs[n] \in LoadedCopy
  BY <1>2, <1>3, ElementOfSeq
<1>5. copy \in LoadedCopy /\ copy = [cs[n] EXCEPT !.bytes = bytes]
      /\ copy.bytes = bytes
  <2>1. ASSUME NEW k, k = n
        PROVE  r.copies[k] = cs[n]
    BY <2>1
  <2>2. copy = [from |-> cs[n].from, to |-> cs[n].to, bytes |-> bytes]
    BY <2>1
  <2>3. ASSUME NEW c \in LoadedCopy,
               copy = [from |-> c.from, to |-> c.to, bytes |-> bytes]
        PROVE  copy \in LoadedCopy /\ copy = [c EXCEPT !.bytes = bytes]
               /\ copy.bytes = bytes
    <3>1. c.from \in Unsigneds /\ c.to \in Unsigneds
      BY DEF LoadedCopy
    <3>2. c = [from |-> c.from, to |-> c.to, bytes |-> c.bytes]
      BY DEF LoadedCopy
    <3>3. ASSUME NEW x, NEW y, NEW z, NEW b
          PROVE  [[from |-> x, to |-> y, bytes |-> z] EXCEPT !.bytes = b] =
                 [from |-> x, to |-> y, bytes |-> b]
      OBVIOUS
    <3>4. [[from |-> c.from, to |-> c.to, bytes |-> c.bytes]
             EXCEPT !.bytes = bytes] =
          [from |-> c.from, to |-> c.to, bytes |-> bytes]
      BY <3>3
    <3>5. [c EXCEPT !.bytes = bytes] = copy
      BY <2>3, <3>2, <3>4, Zenon
    <3>6. copy \in LoadedCopy /\ copy.bytes = bytes
      BY <2>3, <3>1 DEF LoadedCopy
    <3> QED
      BY <3>5, <3>6
  <2> HIDE DEF n, cs
  <2> QED
    BY <1>4, <2>2, <2>3
<1>6. /\ lost \in Seq(LoadedCopy) /\ Len(lost) = n /\ lost[n] = copy
      /\ \A i \in 1..j : lost[i] = cs[i]
  <2>1. ASSUME NEW s \in Seq(LoadedCopy), j \in 0..(Len(s) - 1)
        PROVE  /\ Append(SubSeq(s, 1, j), copy) \in Seq(LoadedCopy)
               /\ Len(Append(SubSeq(s, 1, j), copy)) = j + 1
               /\ \A i \in 1..j : Append(SubSeq(s, 1, j), copy)[i] = s[i]
               /\ Append(SubSeq(s, 1, j), copy)[j + 1] = copy
    BY <1>5, <2>1, OneMoreOf
  <2> QED
    BY <1>2, <2>1
<1> HIDE DEF lost
<1>7. call \in Calls
  BY <1>1, <1>6 DEF Calls, LoadedCopy, lost
<1>8. lost = [cs EXCEPT ![n] = copy]
  <2> DEFINE other == [cs EXCEPT ![n] = copy]
  <2>1. /\ other \in Seq(LoadedCopy) /\ Len(other) = n
        /\ \A i \in 1..n : other[i] = IF i = n THEN copy ELSE cs[i]
    BY <1>2, <1>3, <1>5, ExceptSeq
  <2> HIDE DEF other
  <2>2. \A i \in 1..n : i \in 1..j \/ i = n
    BY <1>3
  <2>3. \A i \in 1..Len(lost) : lost[i] = other[i]
    BY <1>3, <1>6, <2>1, <2>2
  <2>4. lost = other
    BY <1>6, <2>1, <2>3, SeqEqual
  <2> QED
    BY <2>4 DEF other
<1>9. call.copies = lost /\ call.copies[n].bytes = bytes
  BY <1>5, <1>6 DEF lost
<1>10. call = cut0
  <2>1. Loaded(r) = [regs |-> r.regs, ret |-> r.ret, copies |-> cs]
    BY DEF Loaded
  <2>2. cut0 = [regs |-> r.regs, ret |-> r.ret,
                copies |-> [cs EXCEPT ![n] = [cs[n] EXCEPT !.bytes = bytes]]]
    <3> HIDE DEF n, cs
    <3>1. ASSUME NEW q, q.copies = cs
          PROVE  [q EXCEPT !.copies[n].bytes = bytes] =
                 [q EXCEPT !.copies =
                             [cs EXCEPT ![n] = [cs[n] EXCEPT !.bytes = bytes]]]
      BY <3>1
    <3>2. ASSUME NEW t
          PROVE  [[regs |-> r.regs, ret |-> r.ret, copies |-> cs]
                    EXCEPT !.copies = t] =
                 [regs |-> r.regs, ret |-> r.ret, copies |-> t]
      OBVIOUS
    <3>3. ASSUME NEW t
          PROVE  [Loaded(r) EXCEPT !.copies = t] =
                 [regs |-> r.regs, ret |-> r.ret, copies |-> t]
      BY <2>1, <3>2, Zenon
    <3>4. Loaded(r).copies = cs
      BY <2>1
    <3>5. [Loaded(r) EXCEPT !.copies[n].bytes = bytes] =
          [Loaded(r) EXCEPT !.copies =
                              [cs EXCEPT ![n] = [cs[n] EXCEPT !.bytes = bytes]]]
      BY <3>1, <3>4, Zenon
    <3> QED
      BY <3>3, <3>5, Zenon
  <2> QED
    BY <1>5, <1>8, <2>2 DEF lost
<1>11. Len(call.copies) = n /\ n > 0
  BY <1>3, <1>6, <1>9
<1> QED
  BY <1>7, <1>9, <1>10, <1>11 DEF LosesItsEnd

(* A copy is loaded: whole, or without the bytes that the file has lost. *)
LEMMA LoadMemoryCopyKeeps ==
  ASSUME HistoryTypeOK, LoaderInv, LoadMemoryCopy, UNCHANGED <<recorded, cut>>
  PROVE  LoaderInv'
<1> DEFINE n == Len(system_calls)
           r == recorded[n + 1]
           j == Len(loading.copies)
           l == Len(r.copies)
           c == r.copies[j + 1]
           rest == DumpCopyRecords(SubSeq(r.copies, j + 2, l)) \o Left(n + 1)
           bytes == UnpackStr(Unsigned(LongAt(3)))
           copy == [from |-> Unsigned(LongAt(1)), to |-> Unsigned(LongAt(2)),
                    bytes |-> bytes]
           call == [loading EXCEPT !.left = @ - 1, !.copies = Append(@, copy)]
<1>1. /\ loader = "loading" /\ loader' = "loading" /\ loading.left > 0
      /\ Len(buffer) >= SizeOfCopyRecord
      /\ buffer' = Rest(SizeOfCopyRecord + Len(bytes))
      /\ Loads(call)
  BY DEF LoadMemoryCopy, Loading
<1>2. /\ LoaderTypeOK /\ recorded \in Seq(Records)
      /\ buffer \in Seq(Byte) /\ n \in Nat /\ n \in 0..Len(recorded)
      /\ Len(buffer) \in Nat /\ Len(recorded) \in Nat
      /\ cut \in 0..Len(DumpRecords(recorded))
      /\ SizeOfCopyRecord \in Nat \ {0}
  BY LenProperties, Sizes DEF LoaderInv, LoaderTypeOK, HistoryTypeOK
<1>3. n < Len(recorded) /\ AreWhole(n) /\ Within(r)
  <2>1. Len(<<>>) = 0
    OBVIOUS
  <2>2. ~LostWithin /\ ~LostAtEnd
    BY <1>1, <1>2, <2>1 DEF LostWithin, LostAtEnd
  <2>3. ~Between
    BY <1>1 DEF Between, Nothing
  <2> QED
    BY <1>1, <2>2, <2>3 DEF LoaderInv
<1>4. /\ n + 1 \in 1..Len(recorded) /\ n + 1 \in 0..Len(recorded)
      /\ r \in Records /\ Left(n + 1) \in Seq(Byte)
  BY <1>2, <1>3, LeftFact
<1> HIDE DEF r
<1>5. /\ r.copies \in Seq(Copies) /\ l \in Nat
  BY <1>4, LenProperties DEF Records
<1>6. /\ j \in 0..(l - 1)
      /\ loading = [regs |-> r.regs, ret |-> r.ret, left |-> l - j,
                    copies |-> SubSeq(r.copies, 1, j)]
      /\ buffer \o Missing =
           DumpCopyRecords(SubSeq(r.copies, j + 1, l)) \o Left(n + 1)
  BY <1>3 DEF Within
<1> HIDE DEF j
<1>7. j \in Nat /\ j + 1 \in 1..l /\ j + 1 \in 0..l /\ j + 1 + 1 = j + 2
  BY <1>5, <1>6
<1>8. c \in Copies
  BY <1>5, <1>7, ElementOfSeq
<1>9. Missing \in Seq(Byte)
      /\ Len(Missing) = Len(DumpRecords(recorded)) - cut
      /\ Len(DumpRecords(recorded)) \in Nat
  BY <1>2, MissingFact
<1>10. buffer \o Missing = DumpCopyRecord(c) \o rest /\ rest \in Seq(Byte)
  <2>1. DumpCopyRecords(SubSeq(r.copies, j + 1, l)) =
          DumpCopyRecord(c) \o DumpCopyRecords(SubSeq(r.copies, j + 2, l))
    <3>1. ASSUME NEW k \in 1..l
          PROVE  DumpCopyRecords(SubSeq(r.copies, k, l)) =
                   DumpCopyRecord(r.copies[k])
                   \o DumpCopyRecords(SubSeq(r.copies, k + 1, l))
      BY <1>5, DumpOfFirstCopy
    <3> QED
      BY <1>7, <3>1
  <2>2. DumpCopyRecord(c) \in Seq(Byte)
    BY <1>8, DumpCopyRecordFact
  <2>3. DumpCopyRecords(SubSeq(r.copies, j + 2, l)) \in Seq(Byte)
    <3>1. ASSUME NEW k \in 0..l
          PROVE  SubSeq(r.copies, k + 1, l) \in Seq(Copies)
      BY <1>5, EndOfSeq
    <3>2. SubSeq(r.copies, j + 2, l) \in Seq(Copies)
      BY <1>7, <3>1
    <3>3. ASSUME NEW s \in Seq(Copies)
          PROVE  DumpCopyRecords(s) \in Seq(Byte)
      BY DumpOfCopies
    <3> QED
      BY <3>2, <3>3
  <2>4. ASSUME NEW u \in Seq(Byte), NEW v \in Seq(Byte), NEW w \in Seq(Byte)
        PROVE  (u \o v) \o w = u \o (v \o w) /\ v \o w \in Seq(Byte)
    BY ConcatAssociative, ConcatProperties, SMTT(30)
  <2>5. ASSUME NEW u, u = DumpCopyRecord(c),
               NEW v, v = DumpCopyRecords(SubSeq(r.copies, j + 2, l)),
               NEW w, w = Left(n + 1)
        PROVE  buffer \o Missing = u \o (v \o w) /\ v \o w \in Seq(Byte)
    <3>1. u \in Seq(Byte) /\ v \in Seq(Byte) /\ w \in Seq(Byte)
      BY <1>4, <2>2, <2>3, <2>5
    <3>2. buffer \o Missing = (u \o v) \o w
      BY <1>6, <2>1, <2>5
    <3> QED
      BY <2>4, <3>1, <3>2
  <2> HIDE DEF c
  <2> QED
    BY <2>5
<1>11. IsUnpackedCopy(c, bytes, Missing, rest)
  <2> HIDE DEF rest, c
  <2> QED
    BY <1>1, <1>2, <1>8, <1>9, <1>10, UnpackedCopy
<1> HIDE DEF bytes
<1>12. /\ copy = [from |-> c.from, to |-> c.to, bytes |-> bytes]
       /\ bytes \in Seq(Byte) /\ buffer' \in Seq(Byte)
       /\ \/ bytes = c.bytes /\ buffer' \o Missing = rest
          \/ /\ IsPrefix(bytes, c.bytes) /\ buffer' = <<>>
             /\ Len(rest) < Len(Missing)
  <2> HIDE DEF c, rest
  <2> QED
    BY <1>1, <1>11 DEF IsUnpackedCopy
<1> HIDE DEF copy
<1>13. call = [regs |-> r.regs, ret |-> r.ret, left |-> l - j - 1,
               copies |-> Append(SubSeq(r.copies, 1, j), copy)]
  <2>1. ASSUME NEW x, NEW y, NEW k, NEW s,
               loading = [regs |-> x, ret |-> y, left |-> k, copies |-> s]
        PROVE  call = [regs |-> x, ret |-> y, left |-> k - 1,
                       copies |-> Append(s, copy)]
    <3>1. ASSUME NEW q
          PROVE  [q EXCEPT !.left = @ - 1, !.copies = Append(@, copy)] =
                 [[q EXCEPT !.left = q.left - 1]
                   EXCEPT !.copies = Append(q.copies, copy)]
      OBVIOUS
    <3>2. loading.left = k /\ loading.copies = s
      BY <2>1
    <3>3. ASSUME NEW t
          PROVE  [[regs |-> x, ret |-> y, left |-> k, copies |-> s]
                   EXCEPT !.left = t] =
                 [regs |-> x, ret |-> y, left |-> t, copies |-> s]
      OBVIOUS
    <3>4. ASSUME NEW t
          PROVE  [[regs |-> x, ret |-> y, left |-> k - 1, copies |-> s]
                   EXCEPT !.copies = t] =
                 [regs |-> x, ret |-> y, left |-> k - 1, copies |-> t]
      OBVIOUS
    <3> QED
      BY <2>1, <3>1, <3>2, <3>3, <3>4, Zenon
  <2> QED
    BY <1>6, <2>1, ZenonT(30)
<1> HIDE DEF call
<1>14. l - j - 1 \in Nat /\ (l - j - 1 = 0 <=> j + 1 = l)
  BY <1>5, <1>6
<1>15. Missing' = Missing /\ \A k : Left(k)' = Left(k)
  BY LeftKept
<1>16. UNCHANGED <<recorded, cut, loader>>
  BY <1>1
<1> DEFINE whole == [regs |-> call.regs, ret |-> call.ret,
                     copies |-> call.copies]
<1>17. CASE j + 1 = l
  <2>0. call.left = 0
    BY <1>13, <1>14, <1>17
  <2>1. system_calls' = Append(system_calls, whole) /\ loading' = Nothing
    BY <1>1, <2>0 DEF Loads
  <2>2. whole = [regs |-> r.regs, ret |-> r.ret,
                 copies |-> Append(SubSeq(r.copies, 1, j), copy)]
    BY <1>13
  <2>3. rest = Left(n + 1)
    <3>1. SubSeq(r.copies, j + 2, l) = <<>>
      <4>1. ASSUME NEW k, k = l + 1
            PROVE  SubSeq(r.copies, k, l) = <<>>
        <5>1. k \in Int /\ l \in Int /\ l < k
          BY <1>5, <4>1
        <5> QED
          BY <5>1, SubSeqEmpty
      <4>2. j + 2 = l + 1
        BY <1>7, <1>17
      <4> QED
        BY <4>1, <4>2
    <3>2. rest = <<>> \o Left(n + 1)
      BY <3>1, DumpOfNothing
    <3> QED
      BY <1>4, <3>2, ConcatEmptySeq
  <2>4. AreWhole(Len(system_calls)) /\ Len(system_calls) < Len(recorded)
    BY <1>3
  <2>5. ASSUME whole \in Calls
        PROVE  /\ LoaderTypeOK' /\ Len(system_calls') = n + 1
               /\ system_calls'[n + 1] = whole
               /\ AreWhole(Len(system_calls) - 1)'
               /\ whole = Loaded(r) => AreWhole(Len(system_calls))'
    <3> HIDE DEF whole
    <3>1. /\ LoaderTypeOK'
          /\ Len(system_calls') = Len(system_calls) + 1
          /\ system_calls'[Len(system_calls) + 1] = whole
          /\ AreWhole(Len(system_calls) - 1)'
          /\ whole = Loaded(recorded[Len(system_calls) + 1]) =>
               AreWhole(Len(system_calls))'
      BY <1>2, <1>12, <1>16, <2>1, <2>4, <2>5, CallLoaded
    <3> QED
      BY <3>1 DEF r
  <2>6. CASE bytes = c.bytes /\ buffer' \o Missing = rest
    <3>1. copy = c
      BY <1>8, <1>12, <2>6 DEF Copies
    <3>2. Append(SubSeq(r.copies, 1, j), copy) = r.copies
      <4>1. Append(SubSeq(r.copies, 1, j), c) = SubSeq(r.copies, 1, j + 1)
        BY <1>5, <1>6, <1>8, OneMoreOf, SMTT(30)
      <4>2. SubSeq(r.copies, 1, l) = r.copies
        BY <1>5, SubSeqFull
      <4> QED
        BY <1>17, <3>1, <4>1, <4>2
    <3>3. whole = Loaded(r)
      BY <2>2, <3>2 DEF Loaded
    <3>4. whole \in Calls
      BY <1>4, <3>3, LoadedFact
    <3>5. Left(Len(system_calls))' = Left(n + 1)
      <4>1. ASSUME NEW k, k = n + 1
            PROVE  Left(k)' = Left(n + 1)
        BY <1>15, <4>1
      <4> QED
        BY <2>5, <3>4, <4>1 DEF Left
    <3>6. Between'
      BY <1>15, <2>1, <2>3, <2>5, <2>6, <3>3, <3>4, <3>5 DEF Between
    <3> QED
      BY <1>1, <2>5, <3>4, <3>6 DEF LoaderInv
  <2>7. CASE /\ IsPrefix(bytes, c.bytes) /\ buffer' = <<>>
             /\ Len(rest) < Len(Missing)
    <3>1. whole \in Calls /\ LosesItsEnd(whole, r)
      BY <1>4, <1>6, <1>12, <1>17, <2>2, <2>7, LosesItsEndFact
    <3>2. cut < Len(DumpRecords(SubSeq(recorded, 1, n + 1)))
      <4>1. /\ Len(DumpRecords(recorded)) =
                 Len(DumpRecords(SubSeq(recorded, 1, n + 1))) + Len(Left(n + 1))
            /\ Len(DumpRecords(SubSeq(recorded, 1, n + 1))) \in Nat
            /\ Len(Left(n + 1)) \in Nat
        <5>1. ASSUME NEW k \in 0..Len(recorded)
              PROVE  /\ Len(DumpRecords(recorded)) =
                          Len(DumpRecords(SubSeq(recorded, 1, k)))
                          + Len(DumpRecords(SubSeq(recorded, k + 1,
                                                   Len(recorded))))
                     /\ Len(DumpRecords(SubSeq(recorded, 1, k))) \in Nat
                     /\ Len(DumpRecords(SubSeq(recorded, k + 1,
                                               Len(recorded)))) \in Nat
          BY <1>2, LengthOfFirstRecords
        <5> QED
          BY <1>4, <5>1 DEF Left
      <4>2. Len(Left(n + 1)) < Len(Missing)
        BY <2>3, <2>7
      <4>3. cut \in Nat
        BY <1>2, <1>9
      <4> QED
        BY <1>9, <4>1, <4>2, <4>3
    <3>3. ~InFile(Len(system_calls))'
      <4>1. Len(system_calls') = n + 1
        BY <2>5, <3>1
      <4>2. Len(DumpRecords(SubSeq(recorded, 1, n + 1))) \in Nat
        <5>1. ASSUME NEW k \in 0..Len(recorded)
              PROVE  Len(DumpRecords(SubSeq(recorded, 1, k))) \in Nat
          BY <1>2, LengthOfFirstRecords
        <5> QED
          BY <1>4, <5>1
      <4>3. cut \in Nat
        BY <1>2, <1>9
      <4>4. ~(Len(DumpRecords(SubSeq(recorded, 1, n + 1))) <= cut)
        BY <3>2, <4>2, <4>3
      <4> QED
        BY <4>1, <4>4 DEF InFile
    <3>4. LosesItsEnd(system_calls[Len(system_calls)],
                      recorded[Len(system_calls)])'
      <4>1. system_calls'[Len(system_calls')] = whole
            /\ recorded'[Len(system_calls')] = r
        BY <2>5, <3>1 DEF r
      <4> QED
        BY <3>1, <4>1 DEF LosesItsEnd, Loaded
    <3>5. LostAtEnd'
      <4>1. Len(system_calls') > 0
        BY <1>2, <2>5, <3>1
      <4> QED
        BY <2>1, <2>5, <2>7, <3>1, <3>3, <3>4, <4>1 DEF LostAtEnd
    <3> QED
      BY <1>1, <2>5, <3>1, <3>5 DEF LoaderInv
  <2> QED
    BY <1>12, <2>6, <2>7
<1>18. CASE j + 1 # l
  <2>0. call.left # 0 /\ call.left = l - j - 1
    BY <1>13, <1>14, <1>18
  <2>1. loading' = call /\ system_calls' = system_calls
    BY <1>1, <2>0 DEF Loads
  <2>2. LoaderTypeOK'
    <3>1. loading'.left \in Nat
      BY <1>14, <2>0, <2>1
    <3> QED
      BY <1>1, <1>2, <1>12, <2>1, <3>1 DEF LoaderTypeOK
  <2>3. AreWhole(Len(system_calls))'
    BY <1>3, <2>1 DEF AreWhole, IsWhole, Loaded
  <2>4. Len(system_calls') < Len(recorded')
    BY <1>3, <2>1
  <2>5. CASE bytes = c.bytes /\ buffer' \o Missing = rest
    <3>1. copy = c
      BY <1>8, <1>12, <2>5 DEF Copies
    <3>2. /\ Append(SubSeq(r.copies, 1, j), copy) = SubSeq(r.copies, 1, j + 1)
          /\ Len(Append(SubSeq(r.copies, 1, j), copy)) = j + 1
      BY <1>5, <1>6, <1>8, <3>1, OneMoreOf
    <3>3. Len(loading'.copies) = j + 1
      BY <1>13, <2>1, <3>2
    <3>4. j + 1 \in 0..(l - 1) /\ l - (j + 1) = l - j - 1
      BY <1>5, <1>6, <1>18
    <3>5. loading' = [regs |-> r.regs, ret |-> r.ret, left |-> l - (j + 1),
                      copies |-> SubSeq(r.copies, 1, j + 1)]
      BY <1>13, <2>1, <3>2, <3>4
    <3>6. Left(Len(system_calls) + 1)' = Left(n + 1)
      BY <1>15, <2>1 DEF Left
    <3>7. buffer' \o Missing' =
            DumpCopyRecords(SubSeq(r.copies, (j + 1) + 1, l)) \o Left(n + 1)
      BY <1>7, <1>15, <2>5
    <3>8. ASSUME NEW q, q = r
          PROVE  Within(q)'
      <4>1. loading'.copies = SubSeq(r.copies, 1, j + 1)
        BY <3>5
      <4> QED
        BY <3>3, <3>4, <3>5, <3>6, <3>7, <3>8 DEF Within
    <3>9. Within(recorded[Len(system_calls) + 1])'
      <4>1. recorded'[Len(system_calls') + 1] = r
        BY <2>1 DEF r
      <4> QED
        BY <3>8, <4>1 DEF Within
    <3> QED
      BY <1>1, <2>2, <2>3, <2>4, <3>9 DEF LoaderInv
  <2>6. CASE /\ IsPrefix(bytes, c.bytes) /\ buffer' = <<>>
             /\ Len(rest) < Len(Missing)
    <3>1. loading'.left \in Nat \ {0}
      BY <1>14, <2>0, <2>1
    <3>2. LostWithin'
      BY <2>6, <3>1 DEF LostWithin
    <3> QED
      BY <1>1, <2>2, <2>3, <2>4, <3>2 DEF LoaderInv
  <2> QED
    BY <1>12, <2>5, <2>6
<1> QED
  BY <1>17, <1>18

LEMMA LoaderStepKeeps ==
  ASSUME HistoryTypeOK, LoaderInv, LoaderNext, UNCHANGED <<recorded, cut>>
  PROVE  LoaderInv'
BY LoadRegistersKeeps, LoadMemoryCopyKeeps, UnpackRaisesKeeps,
   LoadingEndsKeeps DEF LoaderNext

----------------------------------------------------------------------------
(* A call without the end of its last copy has the registers of its record. *)
LEMMA LostCall ==
  ASSUME NEW call, NEW r, LosesItsEnd(call, r)
  PROVE  call.regs = r.regs /\ call.ret = r.ret
<1> DEFINE n == Len(r.copies)
<1>1. call = [Loaded(r) EXCEPT !.copies[n].bytes = call.copies[n].bytes]
  BY DEF LosesItsEnd
<1>2. ASSUME NEW q, q = [regs |-> r.regs, ret |-> r.ret, copies |-> r.copies],
             NEW t
      PROVE  /\ [q EXCEPT !.copies[n].bytes = t].regs = r.regs
             /\ [q EXCEPT !.copies[n].bytes = t].ret = r.ret
  <2> HIDE DEF n
  <2> QED
    BY <1>2
<1>3. Loaded(r) = [regs |-> r.regs, ret |-> r.ret, copies |-> r.copies]
  BY DEF Loaded
<1> HIDE DEF n
<1> QED
  BY <1>1, <1>2, <1>3

(* What the loader returns; the calls that are in the file are whole. *)
LEMMA LoadedCalls ==
  ASSUME HistoryTypeOK, LoaderInv, loader = "loaded"
  PROVE  /\ AreWhole(Len(system_calls) - 1)
         /\ Len(system_calls) <= Len(recorded) /\ Len(system_calls) \in Nat
         /\ InFile(Len(system_calls)) /\ Len(system_calls) > 0 =>
              IsWhole(Len(system_calls))
         /\ \A i \in 1..Len(system_calls) :
              \/ IsWhole(i)
              \/ i = Len(system_calls) /\ LosesItsEnd(system_calls[i],
                                                      recorded[i])
<1> DEFINE n == Len(system_calls)
<1>1. n \in Nat /\ n <= Len(recorded)
  BY LenProperties DEF LoaderInv, LoaderTypeOK
<1>2. Between \/ LostAtEnd
  BY DEF LoaderInv
<1> HIDE DEF n
<1>3. CASE Between
  <2>1. AreWhole(n)
    BY <1>3 DEF Between, n
  <2>2. \A i \in 1..n : IsWhole(i)
    BY <2>1 DEF AreWhole
  <2>3. AreWhole(n - 1)
    <3>1. \A i \in 1..(n - 1) : i \in 1..n
      BY <1>1
    <3> QED
      BY <2>2, <3>1 DEF AreWhole
  <2>4. n > 0 => n \in 1..n
    BY <1>1
  <2> QED
    BY <1>1, <2>2, <2>3, <2>4 DEF n
<1>4. CASE LostAtEnd
  <2>1. /\ AreWhole(n - 1) /\ n > 0 /\ ~InFile(n)
        /\ LosesItsEnd(system_calls[n], recorded[n])
    BY <1>4 DEF LostAtEnd, n
  <2>2. \A i \in 1..n : i = n \/ i \in 1..(n - 1)
    BY <1>1
  <2>3. \A i \in 1..n : IsWhole(i) \/ i = n
    BY <2>1, <2>2 DEF AreWhole
  <2> QED
    BY <1>1, <2>1, <2>3 DEF n
<1> QED
  BY <1>2, <1>3, <1>4

(* The next call to be replayed, and the one before it. *)
LEMMA NextCall ==
  ASSUME HistoryTypeOK, LoaderInv, loader = "loaded",
         replayed \in 0..Len(system_calls), replayed < Len(system_calls)
  PROVE  /\ replayed + 1 \in 1..Len(recorded)
         /\ Call \in Calls /\ recorded[replayed + 1] \in Records
         /\ Call.regs = recorded[replayed + 1].regs
         /\ Call.ret = recorded[replayed + 1].ret
         /\ replayed = 0 \/ IsWhole(replayed)
<1> DEFINE n == Len(system_calls)
           k == replayed + 1
<1>1. /\ n \in Nat /\ n <= Len(recorded) /\ Len(recorded) \in Nat
      /\ AreWhole(n - 1)
      /\ \A i \in 1..n :
              \/ IsWhole(i)
              \/ i = n /\ LosesItsEnd(system_calls[i], recorded[i])
  <2>1. Len(recorded) \in Nat
    BY LenProperties DEF HistoryTypeOK
  <2> QED
    BY <2>1, LoadedCalls
<1>2. replayed \in 0..n /\ replayed < n
  OBVIOUS
<1>3. k \in 1..n /\ k \in 1..Len(recorded)
      /\ (replayed # 0 => replayed \in 1..(n - 1))
  <2> HIDE DEF n
  <2> QED
    BY <1>1, <1>2
<1>4. Call \in Calls
  BY <1>3, ElementOfSeq DEF LoaderInv, LoaderTypeOK, Call
<1>5. recorded[k] \in Records
  BY <1>3, ElementOfSeq DEF HistoryTypeOK
<1>6. system_calls[k].regs = recorded[k].regs
      /\ system_calls[k].ret = recorded[k].ret
  <2>1. CASE IsWhole(k)
    BY <2>1 DEF IsWhole, Loaded
  <2>2. CASE LosesItsEnd(system_calls[k], recorded[k])
    BY <2>2, LostCall
  <2> QED
    BY <1>1, <1>3, <2>1, <2>2
<1>7. replayed = 0 \/ IsWhole(replayed)
  BY <1>1, <1>3 DEF AreWhole
<1> QED
  BY <1>3, <1>4, <1>5, <1>6, <1>7 DEF Call

----------------------------------------------------------------------------
(* Nothing is replayed before everything is loaded. *)
LEMMA ReplayInitially ==
  ASSUME Init
  PROVE  ReplayInv
<1>1. /\ memory = user /\ user = [a \in Mapped |-> 0] /\ todo = <<>>
      /\ replayer = "waiting" /\ replayed = 0 /\ rax = 0 /\ stdout = <<>>
      /\ printed = <<>> /\ system_calls = <<>>
  BY DEF Init, MemoryInit, LoaderInit, TraceeInit, PathInit
<1>2. 0 \in Byte /\ 0 \in Unsigneds /\ Len(<<>>) = 0
  BY Numbers
<1>3. todo \in Seq([to : Nat, bytes : Seq(Byte)]) /\ stdout \in Seq(Seq(Byte))
  BY <1>1, EmptySeq
<1>4. replayed \in 0..Len(system_calls) /\ Len(stdout) <= Len(printed)
  BY <1>1, <1>2
<1>5. memory \in [Mapped -> Byte]
  BY <1>1, <1>2
<1>6. OutputReproduced
  <2>1. \A i \in 1..Len(stdout) : FALSE
    BY <1>1, <1>2
  <2> QED
    BY <2>1 DEF OutputReproduced
<1> QED
  BY <1>1, <1>2, <1>3, <1>4, <1>5, <1>6 DEF ReplayInv, ReplayTypeOK, AtStart

LEMMA BeforeReplay ==
  ASSUME ReplayInv, loader # "loaded", LoaderTypeOK', AllPrinted',
         UNCHANGED <<traceeVars, replayer, replayed, rax, stdout>>
  PROVE  ReplayInv'
<1>1. replayer = "waiting" /\ AtStart /\ ReplayTypeOK
  BY DEF ReplayInv
<1>2. /\ memory' = memory /\ todo' = todo /\ replayer' = replayer
      /\ replayed' = replayed /\ rax' = rax /\ stdout' = stdout
  BY DEF traceeVars
<1>3. AtStart'
  BY <1>1, <1>2 DEF AtStart
<1>4. stdout' = <<>> /\ replayed' = 0 /\ Len(<<>>) = 0
  BY <1>3 DEF AtStart
<1>5. Len(system_calls') \in Nat /\ Len(printed') \in Nat
  BY LenProperties DEF LoaderTypeOK, AllPrinted
<1>6. replayed' \in 0..Len(system_calls') /\ Len(stdout') <= Len(printed')
  BY <1>4, <1>5
<1>7. ReplayTypeOK'
  BY <1>1, <1>2, <1>6 DEF ReplayTypeOK
<1>8. OutputReproduced'
  <2>1. \A i \in 1..Len(stdout') : FALSE
    BY <1>4
  <2> QED
    BY <2>1 DEF OutputReproduced
<1> QED
  BY <1>1, <1>2, <1>3, <1>6, <1>7, <1>8 DEF ReplayInv

(* The tracee starts with the memory the recorded process started with. *)
LEMMA StartKeeps ==
  ASSUME ReplayInv, HistoryTypeOK, Start
  PROVE  ReplayInv'
<1>1. /\ loader = "loaded" /\ replayer = "waiting" /\ replayer' = "running"
      /\ UNCHANGED <<memoryVars, loaderVars, traceeVars, cut, replayed, rax,
                     stdout>>
  BY DEF Start
<1>2. /\ UNCHANGED <<memory, todo, stdout, replayed, rax, recorded, after,
                     printed, spoiled, system_calls, loader>>
  BY <1>1 DEF memoryVars, loaderVars, traceeVars
<1>3. AtStart /\ ReplayTypeOK /\ OutputReproduced /\ Len(stdout) <= Len(printed)
  BY <1>1 DEF ReplayInv
<1>4. AfterCall'
  <2>1. Len(<<>>) = 0 /\ Cardinality(WritesIn(recorded, 0)) = 0
    <3>1. WritesIn(recorded, 0) = {}
      BY DEF WritesIn
    <3> QED
      BY <3>1, FS_EmptySet
  <2>2. Reproduced'
    BY <1>2, <1>3 DEF AtStart, Reproduced, Before
  <2>3. /\ todo' = <<>> /\ stdout' = <<>> /\ replayed' = 0
        /\ ~(replayed' > 0)
    BY <1>2, <1>3 DEF AtStart
  <2> QED
    BY <1>2, <2>1, <2>2, <2>3 DEF AfterCall
<1>5. ReplayTypeOK'
  BY <1>1, <1>2, <1>3 DEF ReplayTypeOK
<1>6. OutputReproduced'
  BY <1>2, <1>3 DEF OutputReproduced
<1> QED
  BY <1>1, <1>2, <1>3, <1>4, <1>5, <1>6 DEF ReplayInv

(* The replay is over, and nothing changes. *)
LEMMA ReplayEnds ==
  ASSUME ReplayInv, replayer # "waiting", replayer' \in {"done", "raised"},
         UNCHANGED <<memoryVars, loaderVars, traceeVars, cut, replayed, rax,
                     stdout>>
  PROVE  ReplayInv'
<1>1. /\ UNCHANGED <<memory, todo, stdout, replayed, rax, recorded, after,
                     printed, spoiled, system_calls, loader>>
  BY DEF memoryVars, loaderVars, traceeVars
<1>2. ReplayTypeOK'
  BY <1>1 DEF ReplayInv, ReplayTypeOK
<1>3. OutputReproduced'
  BY <1>1 DEF ReplayInv, OutputReproduced
<1> QED
  BY <1>1, <1>2, <1>3 DEF ReplayInv

----------------------------------------------------------------------------
(* The return value goes to rax. *)
LEMMA AnswerKeeps ==
  ASSUME ReplayInv, HistoryTypeOK, LoaderInv, Answer
  PROVE  ReplayInv'
<1>1. /\ replayer = "simulating" /\ replayer' = "running" /\ todo = <<>>
      /\ rax' = LowBits(Call.ret) /\ replayed' = replayed + 1
      /\ UNCHANGED <<memoryVars, loaderVars, traceeVars, cut, stdout>>
  BY DEF Answer
<1>2. UNCHANGED <<memory, todo, recorded, after, printed, spoiled,
                  system_calls, loader, stdout>>
  BY <1>1 DEF memoryVars, loaderVars, traceeVars
<1>3. /\ ReplayTypeOK /\ loader = "loaded" /\ InCall
      /\ Len(stdout) <= Len(printed) /\ OutputReproduced
  BY <1>1 DEF ReplayInv
<1>4. replayed < Len(system_calls) /\ replayed \in 0..Len(system_calls)
      /\ Len(system_calls) \in Nat
  BY <1>3, LenProperties DEF InCall, ReplayTypeOK, LoaderInv, LoaderTypeOK
<1>5. /\ replayed + 1 \in 1..Len(recorded) /\ Call \in Calls
      /\ Call.ret = recorded[replayed + 1].ret
  BY <1>3, <1>4, NextCall
<1> DEFINE k == replayed + 1
<1>6. k \in 0..Len(system_calls) /\ k \in Nat /\ k > 0 /\ k # 0
      /\ k + 1 - 1 = k /\ k + 1 # 1
  BY <1>4
<1>7. LowBits(Call.ret) \in Unsigneds
  <2>1. Call.ret \in Int
    BY <1>5 DEF Calls, Signeds
  <2> QED
    BY <2>1, LongFact DEF Unsigneds
<1>8. ASSUME NEW m, m = k
      PROVE  /\ IsWhole(m)' = IsWhole(k)
             /\ Before(m + 1)' = after[k]
  BY <1>2, <1>6, <1>8 DEF IsWhole, Loaded, Before
<1>9. AfterCall'
  <2>1. Len(stdout') = Cardinality(WritesIn(recorded', replayed'))
    BY <1>1, <1>2, <1>3 DEF InCall
  <2>2. replayed' > 0 => rax' = LowBits(recorded'[replayed'].ret)
    BY <1>1, <1>2, <1>5
  <2>3. ASSUME IsWhole(replayed)'
        PROVE  Reproduced'
    <3>1. IsWhole(k)
      BY <1>1, <1>8, <2>3 DEF IsWhole
    <3>2. Reproduces
      BY <1>3, <3>1 DEF InCall
    <3>3. ASSUME NEW a \in Mapped \ spoiled
          PROVE  memory[a] = after[k][a]
      <4>1. Results(memory, <<>>, a, after[k][a])
        BY <1>1, <3>2 DEF Reproduces
      <4>2. \A i \in 1..Len(<<>>) : FALSE
        OBVIOUS
      <4> QED
        BY <4>1, <4>2 DEF Results
    <3>4. Before(replayed + 1)' = after[k]
      <4>1. replayed' = k /\ after' = after
        BY <1>1, <1>2
      <4> QED
        BY <1>6, <4>1 DEF Before
    <3> QED
      BY <1>2, <3>3, <3>4 DEF Reproduced
  <2>4. replayed' # 0 /\ todo' = <<>>
    BY <1>1, <1>2, <1>6
  <2> QED
    BY <2>1, <2>2, <2>3, <2>4 DEF AfterCall
<1>10. ReplayTypeOK'
  BY <1>1, <1>2, <1>3, <1>6, <1>7 DEF ReplayTypeOK
<1>11. OutputReproduced'
  BY <1>2, <1>3 DEF OutputReproduced
<1> QED
  BY <1>1, <1>2, <1>3, <1>9, <1>10, <1>11 DEF ReplayInv

----------------------------------------------------------------------------
(* Copies that are the same tell the same. *)
LEMMA SameResults ==
  ASSUME NEW mem, NEW cs, NEW ds, Len(cs) = Len(ds),
         \A i \in 1..Len(cs) : cs[i].to = ds[i].to /\ cs[i].bytes = ds[i].bytes,
         NEW other, NEW a, mem[a] = other[a], NEW byte,
         Results(mem, cs, a, byte)
  PROVE  Results(other, ds, a, byte)
<1>1. \A i \in 1..Len(cs) : /\ Covers(cs[i], a) <=> Covers(ds[i], a)
                            /\ ByteOf(cs[i], a) = ByteOf(ds[i], a)
  BY DEF Covers, ByteOf
<1>2. CASE (\A i \in 1..Len(cs) : ~Covers(cs[i], a)) /\ mem[a] = byte
  BY <1>1, <1>2 DEF Results
<1>3. CASE \E i \in 1..Len(cs) :
             /\ Covers(cs[i], a)
             /\ ByteOf(cs[i], a) = byte
             /\ \A j \in (i + 1)..Len(cs) : ~Covers(cs[j], a)
  <2>1. PICK i \in 1..Len(cs) :
               /\ Covers(cs[i], a)
               /\ ByteOf(cs[i], a) = byte
               /\ \A j \in (i + 1)..Len(cs) : ~Covers(cs[j], a)
    BY <1>3
  <2>2. \A j \in (i + 1)..Len(cs) : j \in 1..Len(cs)
    OBVIOUS
  <2>3. \A j \in (i + 1)..Len(ds) : ~Covers(ds[j], a)
    BY <1>1, <2>1, <2>2
  <2> QED
    BY <1>1, <2>1, <2>3 DEF Results
<1> QED
  BY <1>2, <1>3 DEF Results

(* What goes to the stdout callback starts with what the process wrote. *)
StartsWith(chunk, p) ==
  /\ Len(chunk) = p.len
  /\ \A b \in 1..Len(p.bytes) :
       p.at + b - 1 \notin spoiled => chunk[b] = p.bytes[b]

LEMMA ReadsTheOutput ==
  ASSUME NEW k, NEW p \in Outputs, IsPrinted(k, p),
         memory \in [Mapped -> Byte],
         \A a \in Mapped \ spoiled : memory[a] = Before(k)[a],
         CanRead(p.at, p.len)
  PROVE  StartsWith(ReadFromTracee(p.at, p.len), p)
<1> DEFINE n == p.len
           read == [i \in 1..n |-> memory[p.at + i - 1]]
<1>1. /\ n \in Nat /\ p.at \in Nat /\ p.bytes \in Seq(Byte)
      /\ Mapped \subseteq Nat /\ DOMAIN memory = Mapped
  BY Numbers DEF Outputs
<1>2. Len(p.bytes) \in 0..n
  BY <1>1, LenProperties DEF IsPrinted
<1>3. /\ ReadFromTracee(p.at, n) = read
      /\ \A i \in 1..n : p.at + i - 1 \in Mapped
  <2>1. /\ p.at \in Int /\ DOMAIN memory \subseteq Int
        /\ memory \in [DOMAIN memory -> Byte]
    BY <1>1
  <2> HIDE DEF n
  <2>2. CanRead(p.at, n)
    BY DEF n
  <2>3. /\ ReadFromTracee(p.at, n) = read
        /\ \A i \in 1..n : p.at + i - 1 \in DOMAIN memory
    BY <1>1, <2>1, <2>2, WordsReadTheBuffer
  <2> QED
    BY <1>1, <2>3
<1>4. Len(read) = n
  <2>1. read \in [1..n -> Byte]
    BY <1>1, <1>3
  <2> HIDE DEF read, n
  <2> QED
    BY <1>1, <2>1, FunctionIsSeq
<1>5. ASSUME NEW b \in 1..Len(p.bytes), p.at + b - 1 \notin spoiled
      PROVE  read[b] = p.bytes[b]
  <2>1. b \in 1..n
    BY <1>1, <1>2
  <2>2. /\ p.at + b - 1 \in Span(p.at, Len(p.bytes))
        /\ p.at + b - 1 \in Mapped
        /\ (p.at + b - 1) - p.at + 1 = b
    BY <1>1, <1>2, <1>3, <2>1 DEF Span
  <2>3. p.bytes[b] = Before(k)[p.at + b - 1]
    BY <1>5, <2>2 DEF IsPrinted
  <2> QED
    BY <1>5, <2>1, <2>2, <2>3
<1> QED
  BY <1>3, <1>4, <1>5 DEF StartsWith

LEMMA ReadType ==
  ASSUME NEW at \in Nat, NEW n \in Nat, CanRead(at, n),
         memory \in [Mapped -> Byte]
  PROVE  ReadFromTracee(at, n) \in Seq(Byte)
<1>1. /\ at \in Int /\ DOMAIN memory \subseteq Int
      /\ memory \in [DOMAIN memory -> Byte]
  BY Numbers
<1>2. /\ ReadFromTracee(at, n) = [i \in 1..n |-> memory[at + i - 1]]
      /\ \A i \in 1..n : at + i - 1 \in DOMAIN memory
  BY <1>1, WordsReadTheBuffer
<1>3. [i \in 1..n |-> memory[at + i - 1]] \in [1..n -> Byte]
  BY <1>1, <1>2
<1> QED
  BY <1>2, <1>3, FunctionIsSeq

(***************************************************************************)
(* A call is entered: its output starts with what the process wrote, and   *)
(* its copies make the memory after it.                                    *)
(***************************************************************************)
LEMMA EnterKeeps ==
  ASSUME ReplayInv, HistoryTypeOK, AllRecorded, AllPrinted, LoaderInv, Enter
  PROVE  ReplayInv'
<1> DEFINE k == replayed + 1
           r == recorded[k]
           w == Cardinality(WritesIn(recorded, k))
           p == printed[w]
           v == Cardinality(WritesIn(recorded, replayed))
           read == ReadFromTracee(Call.regs[3], Call.regs[4])
<1>1. /\ replayer = "running" /\ replayed < Len(system_calls)
      /\ IsWrite => CanRead(Call.regs[3], Call.regs[4])
      /\ stdout' = IF IsWrite THEN Append(stdout, read) ELSE stdout
      /\ WriteToTracee(Call.copies)
      /\ replayer' = "simulating"
      /\ UNCHANGED <<memoryVars, loaderVars, memory, cut, replayed, rax>>
  BY DEF Enter
<1>2. UNCHANGED <<memory, recorded, after, printed, spoiled, system_calls,
                  loader, replayed, rax>>
  BY <1>1 DEF memoryVars, loaderVars
<1>3. /\ ReplayTypeOK /\ loader = "loaded" /\ AfterCall
      /\ Len(stdout) <= Len(printed) /\ OutputReproduced
  BY <1>1 DEF ReplayInv
<1>4. replayed < Len(system_calls) /\ replayed \in 0..Len(system_calls)
      /\ Len(system_calls) \in Nat /\ replayed \in Nat
  BY <1>1, <1>3, LenProperties DEF ReplayTypeOK, LoaderInv, LoaderTypeOK
<1>5. /\ k \in 1..Len(recorded) /\ Call \in Calls /\ r \in Records
      /\ Call.regs = r.regs
      /\ replayed = 0 \/ IsWhole(replayed)
  BY <1>3, <1>4, NextCall
<1>6. Reproduced /\ Len(stdout) = v
  BY <1>3, <1>5 DEF AfterCall
<1>7. w = (IF IsWrite THEN v + 1 ELSE v) /\ v \in Nat
  BY <1>4, <1>5, WritesInNext, WritesInFact DEF IsWrite
<1>8. IsWrite => /\ w \in 1..Len(printed) /\ IsPrinted(k, p)
                 /\ p \in Outputs
  <2>1. SUFFICES ASSUME IsWrite
                 PROVE  /\ w \in 1..Len(printed) /\ IsPrinted(k, p)
                        /\ p \in Outputs
    OBVIOUS
  <2>2. k \in WritesIn(recorded, Len(recorded))
    BY <1>5, <2>1 DEF WritesIn, IsWrite
  <2>3. w \in 1..Len(printed)
    <3>1. Len(recorded) \in Nat
      BY LenProperties DEF HistoryTypeOK
    <3>2. w \in 1..Cardinality(WritesIn(recorded, Len(recorded)))
      BY <2>2, <3>1, WritesInFact
    <3> QED
      BY <3>2 DEF AllPrinted
  <2>4. IsPrinted(k, p)
    BY <2>2 DEF AllPrinted
  <2>5. p \in Outputs
    BY <2>3, ElementOfSeq DEF AllPrinted
  <2> QED
    BY <2>3, <2>4, <2>5
<1>9. IsWrite => StartsWith(read, p)
  <2>1. SUFFICES ASSUME IsWrite
                 PROVE  StartsWith(read, p)
    OBVIOUS
  <2>2. p.at = Call.regs[3] /\ p.len = Call.regs[4]
    BY <1>5, <1>8, <2>1 DEF IsPrinted
  <2>3. CanRead(p.at, p.len)
    BY <1>1, <2>1, <2>2
  <2>4. memory \in [Mapped -> Byte]
    BY <1>3 DEF ReplayTypeOK
  <2>5. \A a \in Mapped \ spoiled : memory[a] = Before(k)[a]
    BY <1>6 DEF Reproduced
  <2>6. ASSUME NEW q, q = p
        PROVE  StartsWith(ReadFromTracee(q.at, q.len), q)
    <3>1. IsPrinted(k, q) /\ q \in Outputs /\ CanRead(q.at, q.len)
      BY <1>8, <2>1, <2>3, <2>6
    <3> HIDE DEF p, k
    <3> QED
      BY <2>4, <2>5, <3>1, ReadsTheOutput
  <2> QED
    BY <2>2, <2>6
<1>10. IsWrite => read \in Seq(Byte)
  <2>1. SUFFICES ASSUME IsWrite
                 PROVE  read \in Seq(Byte)
    OBVIOUS
  <2>2. Call.regs[3] \in Nat /\ Call.regs[4] \in Nat
    <3>1. Call.regs \in Seq(Unsigneds) /\ Len(Call.regs) = 4
      BY <1>5, PathAssumption DEF Calls
    <3>2. 3 \in 1..Len(Call.regs) /\ 4 \in 1..Len(Call.regs)
      BY <3>1
    <3>3. Call.regs[3] \in Unsigneds /\ Call.regs[4] \in Unsigneds
      BY <3>1, <3>2, ElementOfSeq
    <3> QED
      BY <3>3 DEF Unsigneds
  <2>3. ASSUME NEW x, NEW y, x = Call.regs[3], y = Call.regs[4]
        PROVE  ReadFromTracee(x, y) \in Seq(Byte)
    BY <1>1, <1>3, <2>1, <2>2, <2>3, ReadType DEF ReplayTypeOK
  <2> QED
    BY <2>3
<1>11. /\ stdout' \in Seq(Seq(Byte)) /\ Len(stdout') = w
       /\ Len(stdout') <= Len(printed) /\ OutputReproduced'
  <2>1. stdout \in Seq(Seq(Byte)) /\ Len(printed) \in Nat
    BY <1>3, LenProperties DEF ReplayTypeOK, AllPrinted
  <2> HIDE DEF read, w, v
  <2>2. CASE IsWrite
    <3>1. stdout' = Append(stdout, read)
      BY <1>1, <2>2
    <3>2. /\ stdout' \in Seq(Seq(Byte)) /\ Len(stdout') = Len(stdout) + 1
          /\ \A i \in 1..Len(stdout) : stdout'[i] = stdout[i]
          /\ stdout'[Len(stdout) + 1] = read
      BY <1>10, <2>1, <2>2, <3>1, AppendProperties
    <3>3. Len(stdout') = w /\ w \in 1..Len(printed) /\ Len(stdout) + 1 = w
      BY <1>6, <1>7, <1>8, <2>2, <3>2
    <3>4. ASSUME NEW i \in 1..Len(stdout')
          PROVE  StartsWith(stdout'[i], printed[i])
      <4>1. CASE i = w
        BY <1>9, <2>2, <3>2, <3>3, <4>1
      <4>2. CASE i # w
        <5>1. i \in 1..Len(stdout)
          BY <1>6, <1>7, <3>3, <4>2
        <5> QED
          BY <1>3, <3>2, <5>1 DEF OutputReproduced, StartsWith
      <4> QED
        BY <4>1, <4>2
    <3> QED
      BY <1>2, <2>1, <3>2, <3>3, <3>4 DEF OutputReproduced, StartsWith
  <2>3. CASE ~IsWrite
    <3>1. stdout' = stdout
      BY <1>1, <2>3
    <3> QED
      BY <1>2, <1>3, <1>6, <1>7, <2>1, <2>3, <3>1 DEF OutputReproduced
  <2> QED
    BY <2>2, <2>3
<1>12. /\ Call.copies \in Seq([from : Unsigneds, to : Unsigneds,
                               bytes : Seq(Byte)])
       /\ todo' \in Seq([to : Nat, bytes : Seq(Byte)])
       /\ Len(todo') = Len(Call.copies)
       /\ \A i \in 1..Len(todo') : /\ todo'[i].to = Call.copies[i].to
                                   /\ todo'[i].bytes = Call.copies[i].bytes
  <2> DEFINE cs == Call.copies
             T == [from : Unsigneds, to : Unsigneds, bytes : Seq(Byte)]
  <2>1. cs \in Seq(T)
    BY <1>5 DEF Calls
  <2>2. Len(cs) \in Nat /\ \A i \in 1..Len(cs) : cs[i] \in T
    BY <2>1, LenProperties, ElementOfSeq
  <2>3. todo' = [i \in 1..Len(cs) |-> [to |-> cs[i].to, bytes |-> cs[i].bytes]]
    BY <1>1 DEF WriteToTracee
  <2> HIDE DEF cs
  <2>4. \A i \in 1..Len(cs) : /\ todo'[i].to = cs[i].to
                              /\ todo'[i].bytes = cs[i].bytes
    BY <2>3
  <2>5. Unsigneds \subseteq Nat
    BY DEF Unsigneds
  <2>6. todo' \in [1..Len(cs) -> [to : Nat, bytes : Seq(Byte)]]
    BY <2>2, <2>3, <2>5
  <2>7. todo' \in Seq([to : Nat, bytes : Seq(Byte)]) /\ Len(todo') = Len(cs)
    BY <2>2, <2>6, FunctionIsSeq
  <2> QED
    BY <2>1, <2>4, <2>7 DEF cs
<1>13. ASSUME IsWhole(k)
       PROVE  \A a \in Mapped \ spoiled : Results(memory, todo', a, after[k][a])
  <2>1. Call.copies = r.copies
    BY <1>13 DEF IsWhole, Call, Loaded
  <2> TAKE a \in Mapped \ spoiled
  <2>2. Results(Before(k), r.copies, a, after[k][a])
    BY <1>5 DEF AllRecorded, IsRecorded
  <2>3. Before(k)[a] = memory[a]
    BY <1>6 DEF Reproduced
  <2>4. /\ Len(r.copies) = Len(todo')
        /\ \A i \in 1..Len(r.copies) : /\ r.copies[i].to = todo'[i].to
                                       /\ r.copies[i].bytes = todo'[i].bytes
    BY <1>12, <2>1
  <2> HIDE DEF r, k
  <2> QED
    BY <2>2, <2>3, <2>4, SameResults
<1>14. InCall'
  <2>1. replayed' < Len(system_calls')
    BY <1>2, <1>4
  <2>2. Len(stdout') = Cardinality(WritesIn(recorded', replayed' + 1))
    BY <1>2, <1>11
  <2>3. IsWhole(replayed + 1)' => Reproduces'
    <3>1. IsWhole(replayed + 1)' = IsWhole(k)
      BY <1>2 DEF IsWhole, Loaded
    <3> QED
      BY <1>2, <1>13, <3>1 DEF Reproduces
  <2> QED
    BY <2>1, <2>2, <2>3 DEF InCall
<1>15. ReplayTypeOK'
  BY <1>1, <1>2, <1>3, <1>11, <1>12 DEF ReplayTypeOK
<1> QED
  BY <1>1, <1>2, <1>3, <1>11, <1>14, <1>15 DEF ReplayInv

----------------------------------------------------------------------------
(* Of the copies that are still to be written, the first and the others. *)
LaterTell(cs, a, byte) ==
  \E i \in 2..Len(cs) : /\ Covers(cs[i], a)
                        /\ ByteOf(cs[i], a) = byte
                        /\ \A j \in (i + 1)..Len(cs) : ~Covers(cs[j], a)
LaterCover(cs, a) == \E i \in 2..Len(cs) : Covers(cs[i], a)

LEMMA FirstOrLater ==
  ASSUME NEW mem, NEW cs, Len(cs) \in Nat \ {0}, NEW a, NEW byte
  PROVE  Results(mem, cs, a, byte) <=>
           \/ LaterTell(cs, a, byte)
           \/ /\ ~LaterCover(cs, a)
              /\ byte = IF Covers(cs[1], a) THEN ByteOf(cs[1], a) ELSE mem[a]
<1>1. \A i \in 1..Len(cs) : i = 1 \/ i \in 2..Len(cs)
  OBVIOUS
<1>2. 1 \in 1..Len(cs) /\ \A i \in 2..Len(cs) : i \in 1..Len(cs)
  OBVIOUS
<1>3. ASSUME Results(mem, cs, a, byte)
      PROVE  \/ LaterTell(cs, a, byte)
             \/ /\ ~LaterCover(cs, a)
                /\ byte = IF Covers(cs[1], a) THEN ByteOf(cs[1], a) ELSE mem[a]
  <2>1. CASE (\A i \in 1..Len(cs) : ~Covers(cs[i], a)) /\ mem[a] = byte
    BY <1>2, <2>1 DEF LaterCover
  <2>2. ASSUME NEW i \in 1..Len(cs), Covers(cs[i], a), ByteOf(cs[i], a) = byte,
               \A j \in (i + 1)..Len(cs) : ~Covers(cs[j], a)
        PROVE  \/ LaterTell(cs, a, byte)
               \/ /\ ~LaterCover(cs, a)
                  /\ byte = IF Covers(cs[1], a) THEN ByteOf(cs[1], a) ELSE mem[a]
    <3>1. CASE i = 1
      <4>1. \A j \in 2..Len(cs) : j \in (i + 1)..Len(cs)
        BY <3>1
      <4> QED
        BY <2>2, <3>1, <4>1 DEF LaterCover
    <3>2. CASE i \in 2..Len(cs)
      BY <2>2, <3>2 DEF LaterTell
    <3> QED
      BY <1>1, <3>1, <3>2
  <2> QED
    BY <1>3, <2>1, <2>2 DEF Results
<1>4. ASSUME LaterTell(cs, a, byte)
      PROVE  Results(mem, cs, a, byte)
  BY <1>2, <1>4 DEF LaterTell, Results
<1>5. ASSUME ~LaterCover(cs, a),
             byte = IF Covers(cs[1], a) THEN ByteOf(cs[1], a) ELSE mem[a]
      PROVE  Results(mem, cs, a, byte)
  <2>1. CASE Covers(cs[1], a)
    <3>1. \A j \in (1 + 1)..Len(cs) : ~Covers(cs[j], a)
      <4>1. 1 + 1 = 2
        OBVIOUS
      <4> QED
        BY <1>5, <4>1 DEF LaterCover
    <3>2. ByteOf(cs[1], a) = byte
      BY <1>5, <2>1
    <3> QED
      BY <1>2, <2>1, <3>1, <3>2 DEF Results
  <2>2. CASE ~Covers(cs[1], a)
    <3>1. \A j \in 1..Len(cs) : ~Covers(cs[j], a)
      BY <1>1, <1>5, <2>2 DEF LaterCover
    <3>2. mem[a] = byte
      BY <1>5, <2>2
    <3> QED
      BY <3>1, <3>2 DEF Results
  <2> QED
    BY <2>1, <2>2
<1> QED
  BY <1>3, <1>4, <1>5

(* Copies that agree from the second one on. *)
LEMMA SameLater ==
  ASSUME NEW cs, NEW ds, Len(ds) = Len(cs),
         \A i \in 2..Len(cs) : ds[i] = cs[i], NEW a, NEW byte,
         Len(cs) \in Nat
  PROVE  /\ LaterTell(cs, a, byte) <=> LaterTell(ds, a, byte)
         /\ LaterCover(cs, a) <=> LaterCover(ds, a)
<1>1. \A i \in 2..Len(cs) : \A j \in (i + 1)..Len(cs) : j \in 2..Len(cs)
  OBVIOUS
<1>2. \A i \in 2..Len(cs) : \A j \in (i + 1)..Len(cs) : ds[j] = cs[j]
  BY <1>1
<1> QED
  BY <1>2 DEF LaterTell, LaterCover

LEMMA TargetFact ==
  ASSUME memory \in [Mapped -> Byte], NEW a \in Mapped
  PROVE  Target[a] = IF Covers(todo[1], a) THEN ByteOf(todo[1], a)
                                           ELSE memory[a]
BY DEF Target, Covers, ByteOf, Span, To, Chars

LEMMA TodoTypes ==
  ASSUME ReplayTypeOK
  PROVE  TraceeTypeOK
<1>1. Byte \subseteq Int /\ Nat \subseteq Int /\ Mapped \subseteq Int
  BY Numbers DEF Byte
<1>2. Seq(Byte) \subseteq Seq(Int)
  BY <1>1, SeqMonotonic
<1>3. [to : Nat, bytes : Seq(Byte)] \subseteq [to : Int, bytes : Seq(Int)]
  BY <1>1, <1>2
<1>4. todo \in Seq([to : Int, bytes : Seq(Int)])
  BY <1>3, SeqMonotonic DEF ReplayTypeOK
<1> QED
  BY <1>1, <1>4 DEF ReplayTypeOK, TraceeTypeOK

(* A word is written: what is still to be done has the same result. *)
LEMMA PokeKeeps ==
  ASSUME ReplayTypeOK, PokeWord
  PROVE  /\ memory' \in [Mapped -> Byte]
         /\ todo' \in Seq([to : Nat, bytes : Seq(Byte)])
         /\ \A a \in Mapped : \A byte :
              Results(memory, todo, a, byte) => Results(memory, todo, a, byte)'
<1> DEFINE T == [to : Nat, bytes : Seq(Byte)]
           c == [to |-> To + WordSize,
                 bytes |-> SubSeq(Chars, WordSize + 1, Len(Chars))]
<1>1. /\ todo # <<>> /\ Chars # <<>> /\ CanReach(To) /\ Poke(To, Data)
      /\ todo' = [todo EXCEPT ![1] = c]
  BY DEF PokeWord
<1>2. /\ TraceeTypeOK /\ memory \in [Mapped -> Byte] /\ todo \in Seq(T)
      /\ WordSize \in Nat \ {0}
  BY TodoTypes, WordAssumption DEF ReplayTypeOK
<1>3. Len(todo) \in Nat \ {0} /\ 1 \in 1..Len(todo)
  BY <1>1, <1>2, LenProperties, EmptySeq
<1>4. To \in Nat /\ Chars \in Seq(Byte) /\ Len(Chars) \in Nat
  <2>1. todo[1] \in T
    BY <1>2, <1>3, ElementOfSeq
  <2> QED
    BY <2>1, LenProperties DEF To, Chars
<1>5. c \in T
  <2>1. SubSeq(Chars, WordSize + 1, Len(Chars)) \in Seq(Byte)
    BY <1>2, <1>4, SubSeqProperties
  <2> QED
    BY <1>2, <1>4, <2>1
<1> HIDE DEF c
<1>6. /\ todo' \in Seq(T) /\ Len(todo') = Len(todo)
      /\ \A i \in 1..Len(todo) : todo'[i] = IF i = 1 THEN c ELSE todo[i]
  BY <1>1, <1>2, <1>3, <1>5, ExceptSeq
<1>7. memory' \in [Mapped -> Byte]
  <2>1. DOMAIN memory = Mapped
    BY <1>2
  <2>2. memory' = [a \in Mapped |-> IF a \in Word(To) THEN Data[a - To + 1]
                                                      ELSE memory[a]]
    BY <1>1, <2>1 DEF Poke
  <2>3. ASSUME NEW a \in Mapped, a \in Word(To)
        PROVE  Data[a - To + 1] \in Byte
    <3>1. a - To + 1 \in 1..WordSize /\ To + (a - To + 1) - 1 = a
      BY <1>2, <1>4, <2>3, Numbers DEF Word
    <3>2. Data[a - To + 1] = IF a - To + 1 <= Len(Chars)
                             THEN Chars[a - To + 1] ELSE memory[a]
      BY <1>1, <1>2, <3>1, DataOfWord
    <3>3. a - To + 1 <= Len(Chars) => a - To + 1 \in 1..Len(Chars)
      BY <1>4, <3>1
    <3> QED
      BY <1>2, <1>4, <3>2, <3>3, ElementOfSeq
  <2> QED
    BY <1>2, <2>2, <2>3
<1>8. Target' = Target
  BY <1>2, WordsWriteTheBuffer
<1>9. ASSUME NEW a \in Mapped, NEW byte, Results(memory, todo, a, byte)
      PROVE  Results(memory, todo, a, byte)'
  <2>1. /\ Target[a] = IF Covers(todo[1], a) THEN ByteOf(todo[1], a)
                                             ELSE memory[a]
        /\ Target'[a] = IF Covers(todo'[1], a) THEN ByteOf(todo'[1], a)
                                               ELSE memory'[a]
    BY <1>2, <1>7, TargetFact DEF Target, Covers, ByteOf, Span, To, Chars
  <2>2. \A i \in 2..Len(todo) : todo'[i] = todo[i]
    BY <1>6
  <2>3. /\ LaterTell(todo, a, byte) <=> LaterTell(todo', a, byte)
        /\ LaterCover(todo, a) <=> LaterCover(todo', a)
    BY <1>3, <1>6, <2>2, SameLater
  <2>4. Results(memory, todo, a, byte) <=>
           \/ LaterTell(todo, a, byte)
           \/ /\ ~LaterCover(todo, a)
              /\ byte = Target[a]
    BY <1>3, <2>1, FirstOrLater
  <2>5. Len(todo') \in Nat \ {0}
    BY <1>3, <1>6
  <2>6. Results(memory', todo', a, byte) <=>
           \/ LaterTell(todo', a, byte)
           \/ /\ ~LaterCover(todo', a)
              /\ byte = Target'[a]
    BY <2>1, <2>5, FirstOrLater, ZenonT(30)
  <2>7. Results(memory', todo', a, byte)
    BY <1>8, <1>9, <2>3, <2>4, <2>6
  <2> QED
    BY <2>7 DEF Results, Covers, ByteOf, Span
<1> QED
  BY <1>6, <1>7, <1>9

(* A buffer is written: the others make the same memory. *)
LEMMA BufferKeeps ==
  ASSUME ReplayTypeOK, BufferWritten
  PROVE  /\ memory' \in [Mapped -> Byte]
         /\ todo' \in Seq([to : Nat, bytes : Seq(Byte)])
         /\ \A a \in Mapped : \A byte :
              Results(memory, todo, a, byte) => Results(memory, todo, a, byte)'
<1> DEFINE T == [to : Nat, bytes : Seq(Byte)]
           n == Len(todo)
<1>1. todo # <<>> /\ Chars = <<>> /\ todo' = Tail(todo) /\ memory' = memory
  BY DEF BufferWritten
<1>2. memory \in [Mapped -> Byte] /\ todo \in Seq(T) /\ Mapped \subseteq Nat
  BY Numbers DEF ReplayTypeOK
<1>3. n \in Nat \ {0} /\ 1 \in 1..n
  BY <1>1, <1>2, LenProperties, EmptySeq
<1>4. /\ todo' \in Seq(T) /\ Len(todo') = n - 1
      /\ \A i \in 1..(n - 1) : todo'[i] = todo[i + 1]
  BY <1>1, <1>2, <1>3, HeadTailProperties
<1>5. ASSUME NEW a \in Mapped
      PROVE  ~Covers(todo[1], a)
  <2>1. todo[1].to \in Nat /\ Len(todo[1].bytes) = 0
    <3>1. todo[1] \in T
      BY <1>2, <1>3, ElementOfSeq
    <3>2. Len(<<>>) = 0 /\ todo[1].bytes = <<>>
      BY <1>1 DEF Chars
    <3> QED
      BY <3>1, <3>2
  <2> QED
    BY <1>2, <2>1 DEF Covers, Span
<1> HIDE DEF n
<1>6. ASSUME NEW a \in Mapped, NEW byte, Results(memory, todo, a, byte)
      PROVE  Results(memory', todo', a, byte)
  <2>1. \/ LaterTell(todo, a, byte)
        \/ ~LaterCover(todo, a) /\ byte = memory[a]
    BY <1>3, <1>5, <1>6, FirstOrLater DEF n
  <2>2. CASE LaterTell(todo, a, byte)
    <3>1. PICK i \in 2..n : /\ Covers(todo[i], a)
                            /\ ByteOf(todo[i], a) = byte
                            /\ \A j \in (i + 1)..n : ~Covers(todo[j], a)
      BY <2>2 DEF LaterTell, n
    <3>2. i - 1 \in 1..(n - 1) /\ i - 1 + 1 = i
      BY <1>3
    <3>3. todo'[i - 1] = todo[i]
      BY <1>4, <3>2
    <3>4. ASSUME NEW j \in (i - 1 + 1)..(n - 1)
          PROVE  ~Covers(todo'[j], a)
      <4>1. j \in 1..(n - 1) /\ j + 1 \in (i + 1)..n
        BY <1>3
      <4> QED
        BY <1>4, <3>1, <4>1
    <3> QED
      BY <1>4, <3>1, <3>2, <3>3, <3>4 DEF Results
  <2>3. CASE ~LaterCover(todo, a) /\ byte = memory[a]
    <3>1. ASSUME NEW j \in 1..(n - 1)
          PROVE  ~Covers(todo'[j], a)
      <4>1. j + 1 \in 2..n
        BY <1>3
      <4> QED
        BY <1>4, <2>3, <4>1 DEF LaterCover, n
    <3> QED
      BY <1>1, <1>4, <2>3, <3>1 DEF Results
  <2> QED
    BY <2>1, <2>2, <2>3
<1>7. \A a \in Mapped : \A byte :
        Results(memory, todo, a, byte) => Results(memory, todo, a, byte)'
  BY <1>6 DEF Results, Covers, ByteOf, Span
<1> QED
  BY <1>1, <1>2, <1>4, <1>7

LEMMA CopyKeeps ==
  ASSUME ReplayInv, CopyMemory
  PROVE  ReplayInv'
<1>1. /\ replayer = "simulating"
      /\ PokeWord \/ BufferWritten
      /\ UNCHANGED <<memoryVars, loaderVars, pathVars>>
  BY DEF CopyMemory
<1>2. UNCHANGED <<recorded, after, printed, spoiled, system_calls, loader,
                  replayed, rax, replayer, stdout>>
  BY <1>1 DEF memoryVars, loaderVars, pathVars
<1>3. /\ ReplayTypeOK /\ loader = "loaded" /\ InCall
      /\ Len(stdout) <= Len(printed) /\ OutputReproduced
  BY <1>1 DEF ReplayInv
<1>4. /\ memory' \in [Mapped -> Byte]
      /\ todo' \in Seq([to : Nat, bytes : Seq(Byte)])
      /\ \A a \in Mapped : \A byte :
           Results(memory, todo, a, byte) => Results(memory, todo, a, byte)'
  BY <1>1, <1>3, PokeKeeps, BufferKeeps
<1>5. ReplayTypeOK'
  BY <1>2, <1>3, <1>4 DEF ReplayTypeOK
<1>6. Reproduces => Reproduces'
  <2>1. \A a \in Mapped : \A byte :
          Results(memory, todo, a, byte) => Results(memory', todo', a, byte)
    BY <1>4 DEF Results, Covers, ByteOf, Span
  <2>2. \A a \in Mapped \ spoiled :
          Results(memory, todo, a, after[replayed + 1][a])
            => Results(memory', todo', a, after'[replayed' + 1][a])
    BY <1>2, <2>1
  <2>3. Reproduces =>
          \A a \in Mapped \ spoiled' :
            Results(memory', todo', a, after'[replayed' + 1][a])
    BY <1>2, <2>2 DEF Reproduces
  <2> QED
    BY <2>3 DEF Reproduces, Results, Covers, ByteOf, Span
<1>7. InCall'
  BY <1>2, <1>3, <1>6 DEF InCall, IsWhole, Loaded
<1>8. OutputReproduced'
  BY <1>2, <1>3 DEF OutputReproduced
<1> QED
  BY <1>1, <1>2, <1>3, <1>5, <1>7, <1>8 DEF ReplayInv

----------------------------------------------------------------------------
(* The invariant, from the start and step by step. *)
LEMMA PathInitially ==
  ASSUME Init
  PROVE  PathInv
<1>1. RecordingInv
  BY RecordingInit DEF Init
<1>2. LoaderInv
  BY LoaderInitially DEF Init, PathInit, MemoryInit
<1> QED
  BY <1>1, <1>2, ReplayInitially DEF PathInv

(* The recording is over: its invariant is kept. *)
LEMMA RecordingOver ==
  ASSUME RecordingInv, UNCHANGED memoryVars
  PROVE  RecordingInv'
<1>1. UNCHANGED <<user, copying, source, wrapped, current, recorded, effect,
                  after, printed, spoiled, writes>>
  BY DEF memoryVars
<1>2. RecordingTypeOK'
  BY <1>1 DEF RecordingInv, RecordingTypeOK, Pieces
<1>3. Told'
  BY <1>1 DEF RecordingInv, Told, IsTold, Pending, InWrap, SavedByte, Before
<1>4. HistoryTypeOK' /\ AllRecorded' /\ AllPrinted'
  BY <1>1, HistoryKept DEF RecordingInv
<1> QED
  BY <1>2, <1>3, <1>4 DEF RecordingInv

(* The loading is over, or has not begun. *)
LEMMA LoaderOver ==
  ASSUME LoaderInv, UNCHANGED <<recorded, cut, loaderVars>>
  PROVE  LoaderInv'
<1>1. UNCHANGED <<recorded, cut, buffer, loading, system_calls, loader>>
  BY DEF loaderVars
<1>2. LoaderTypeOK'
  BY <1>1 DEF LoaderInv, LoaderTypeOK
<1>3. Missing' = Missing /\ Left(Len(system_calls))' = Left(Len(system_calls))
      /\ Left(Len(system_calls) + 1)' = Left(Len(system_calls) + 1)
      /\ AreWhole(Len(system_calls))' = AreWhole(Len(system_calls))
  BY <1>1 DEF Missing, Left, AreWhole, IsWhole, Loaded
<1>4. Between => Between'
  BY <1>1, <1>3 DEF Between
<1>5. Within(recorded[Len(system_calls) + 1])
        => Within(recorded[Len(system_calls) + 1])'
  BY <1>1, <1>3 DEF Within
<1>6. LostWithin => LostWithin'
  BY <1>1 DEF LostWithin
<1>7. LostAtEnd => LostAtEnd'
  BY <1>1 DEF LostAtEnd, AreWhole, IsWhole, Loaded, LosesItsEnd, InFile
<1> QED
  BY <1>1, <1>2, <1>3, <1>4, <1>5, <1>6, <1>7 DEF LoaderInv

(* One step of the way of the data. *)
LEMMA PathStep ==
  ASSUME PathInv, Next
  PROVE  PathInv'
<1>0. /\ RecordingInv /\ LoaderInv /\ ReplayInv
      /\ HistoryTypeOK /\ AllRecorded /\ AllPrinted
  BY DEF PathInv, RecordingInv
<1>1. CASE Record
  <2>1. /\ loader = "waiting" /\ MemoryNext
        /\ UNCHANGED <<loaderVars, traceeVars, pathVars>>
    BY <1>1 DEF Record
  <2>2. RecordingInv'
    BY <1>0, <2>1, RecordingStep
  <2>3. HistoryTypeOK' /\ AllPrinted'
    BY <2>2 DEF RecordingInv
  <2>4. UNCHANGED <<loaderVars, cut, traceeVars, replayer, replayed, rax,
                    stdout>>
    BY <2>1 DEF pathVars
  <2>5. LoaderInv'
    BY <1>0, <2>1, <2>3, <2>4, RecordKeepsLoader
  <2>6. LoaderTypeOK' /\ loader # "loaded"
    BY <2>1, <2>5 DEF LoaderInv
  <2>7. ReplayInv'
    BY <1>0, <2>3, <2>4, <2>6, BeforeReplay
  <2> QED
    BY <2>2, <2>5, <2>7 DEF PathInv
<1>2. CASE Load \/ LoaderStep
  <2>1. UNCHANGED <<memoryVars, traceeVars, replayer, replayed, rax, stdout>>
        /\ loader # "loaded"
    BY <1>2 DEF Load, LoaderStep, FromPath, pathVars, LoaderNext, LoadRegisters,
                LoadMemoryCopy, UnpackRaises, LoadingEnds, Loading
  <2>2. RecordingInv'
    BY <1>0, <2>1, RecordingOver
  <2>3. LoaderInv'
    <3>1. CASE Load
      BY <1>0, <3>1, LoadKeepsLoader
    <3>2. CASE LoaderStep
      <4>1. LoaderNext /\ UNCHANGED <<recorded, cut>>
        BY <3>2 DEF LoaderStep, memoryVars, pathVars
      <4> QED
        BY <1>0, <4>1, LoaderStepKeeps
    <3> QED
      BY <1>2, <3>1, <3>2
  <2>4. ReplayInv'
    <3>1. LoaderTypeOK' /\ AllPrinted'
      BY <2>2, <2>3 DEF LoaderInv, RecordingInv
    <3> QED
      BY <1>0, <2>1, <3>1, BeforeReplay
  <2> QED
    BY <2>2, <2>3, <2>4 DEF PathInv
<1>3. CASE \/ Start \/ Enter \/ ReadRaises \/ CopyMemory \/ CopyRaises
           \/ Answer \/ Finish
  <2>1. UNCHANGED <<memoryVars, loaderVars, cut>>
    BY <1>3 DEF Start, Enter, ReadRaises, CopyMemory, CopyRaises, Answer,
                Finish, pathVars
  <2>2. RecordingInv'
    BY <1>0, <2>1, RecordingOver
  <2>3. LoaderInv'
    <3>1. UNCHANGED <<recorded, cut, loaderVars>>
      BY <2>1 DEF memoryVars
    <3> QED
      BY <1>0, <3>1, LoaderOver
  <2>4. ReplayInv'
    <3>1. CASE Start
      BY <1>0, <3>1, StartKeeps
    <3>2. CASE Enter
      BY <1>0, <3>2, EnterKeeps
    <3>3. CASE ReadRaises \/ CopyRaises \/ Finish
      <4>1. /\ replayer # "waiting" /\ replayer' \in {"done", "raised"}
            /\ UNCHANGED <<memoryVars, loaderVars, traceeVars, cut, replayed,
                           rax, stdout>>
        BY <3>3 DEF ReadRaises, CopyRaises, Finish
      <4> QED
        BY <1>0, <4>1, ReplayEnds
    <3>4. CASE CopyMemory
      BY <1>0, <3>4, CopyKeeps
    <3>5. CASE Answer
      BY <1>0, <3>5, AnswerKeeps
    <3> QED
      BY <1>3, <3>1, <3>2, <3>3, <3>4, <3>5
  <2> QED
    BY <2>2, <2>3, <2>4 DEF PathInv
<1> QED
  BY <1>1, <1>2, <1>3 DEF Next

LEMMA PathStutter ==
  ASSUME PathInv, UNCHANGED vars
  PROVE  PathInv'
<1>1. UNCHANGED <<memoryVars, loaderVars, traceeVars, pathVars>>
  BY DEF vars
<1>2. UNCHANGED <<recorded, cut, memory, todo, replayer, replayed, rax, stdout,
                  after, printed, spoiled, system_calls, loader>>
  BY <1>1 DEF memoryVars, loaderVars, traceeVars, pathVars
<1>3. RecordingInv'
  BY <1>1, RecordingOver DEF PathInv
<1>4. LoaderInv'
  BY <1>1, <1>2, LoaderOver DEF PathInv
<1>5. ReplayInv /\ ReplayTypeOK
  BY DEF PathInv, ReplayInv
<1>6. ReplayTypeOK'
  BY <1>2, <1>5 DEF ReplayTypeOK
<1>7. AtStart => AtStart'
  BY <1>2 DEF AtStart
<1>8. AfterCall => AfterCall'
  BY <1>2 DEF AfterCall, IsWhole, Loaded, Reproduced, Before
<1>9. InCall => InCall'
  BY <1>2 DEF InCall, IsWhole, Loaded, Reproduces, Results, Covers, ByteOf, Span
<1>10. OutputReproduced => OutputReproduced'
  BY <1>2 DEF OutputReproduced
<1>11. ReplayInv'
  BY <1>2, <1>5, <1>6, <1>7, <1>8, <1>9, <1>10 DEF ReplayInv
<1> QED
  BY <1>3, <1>4, <1>11 DEF PathInv

(***************************************************************************)
(* The way of the data, as a whole: at every moment the record in progress *)
(* tells what the calls have written, the finished records tell the memory *)
(* after each call, what is loaded is what was recorded, and what is still *)
(* to be written to the tracee makes its memory the recorded one.          *)
(***************************************************************************)
THEOREM PathInvariant == Spec => []PathInv
<1>1. Init => PathInv
  BY PathInitially
<1>2. PathInv /\ [Next]_vars => PathInv'
  BY PathStep, PathStutter
<1> QED
  BY <1>1, <1>2, PTL DEF Spec

----------------------------------------------------------------------------
LEMMA PathDataTypes == PathInv => DataTypeOK
<1> SUFFICES ASSUME PathInv
             PROVE  DataTypeOK
  OBVIOUS
<1>1. RecordingTypeOK /\ HistoryTypeOK /\ LoaderTypeOK /\ ReplayTypeOK
  BY DEF PathInv, RecordingInv, LoaderInv, ReplayInv
<1>2. user \in [Mapped -> Nat] /\ effect \in [Mapped -> Nat]
  <2>1. Byte \subseteq Nat
    BY Numbers DEF Byte
  <2> QED
    BY <1>1, <2>1 DEF RecordingTypeOK
<1>3. replayed \in 0..MaxRecords
  <2>1. Len(system_calls) \in Nat /\ Len(recorded) \in Nat /\ MaxRecords \in Nat
    BY <1>1, LenProperties, Numbers DEF LoaderTypeOK, HistoryTypeOK
  <2>2. /\ Len(system_calls) <= Len(recorded) /\ Len(recorded) <= MaxRecords
        /\ replayed \in 0..Len(system_calls)
    BY <1>1 DEF LoaderTypeOK, HistoryTypeOK, ReplayTypeOK
  <2> QED
    BY <2>1, <2>2
<1>4. memory \in [Mapped -> 0..(ByteValues - 1)]
      /\ rax \in 0..(Power[LongSize] - 1)
  BY <1>1 DEF ReplayTypeOK, Byte, Unsigneds
<1>5. loading.left \in Nat
  BY <1>1 DEF LoaderTypeOK
<1> QED
  BY <1>1, <1>2, <1>3, <1>4, <1>5
     DEF DataTypeOK, RecordingTypeOK, LoaderTypeOK, ReplayTypeOK

(***************************************************************************)
(* The values of the variables have their types, and the bytes and rax     *)
(* fit.                                                                    *)
(***************************************************************************)
THEOREM DataTypesHold == Spec => []DataTypeOK
BY PathInvariant, PathDataTypes, PTL

LEMMA PathLengths == PathInv => LengthIsExact
<1> SUFFICES ASSUME PathInv, NEW i \in 1..Len(recorded)
             PROVE  GetRecordLen(recorded[i]) = Len(DumpSingleRecord(recorded[i]))
  BY DEF LengthIsExact
<1>1. recorded \in Seq(Records)
  BY DEF PathInv, RecordingInv, HistoryTypeOK
<1>2. recorded[i] \in Records
  BY <1>1, ElementOfSeq
<1> QED
  BY <1>2, RecordLength

(***************************************************************************)
(* get_record_len gives the number of bytes that dump_single_record        *)
(* writes.                                                                 *)
(***************************************************************************)
THEOREM LengthIsAlwaysExact == Spec => []LengthIsExact
BY PathInvariant, PathLengths, PTL

LEMMA PathCuts == PathInv => CutIsNoticed
<1> SUFFICES ASSUME PathInv, loader = "loaded"
             PROVE  /\ Len(system_calls) <= Len(recorded)
                    /\ \A i \in 1..Len(system_calls) :
                         \/ system_calls[i] = Loaded(recorded[i])
                         \/ /\ i = Len(system_calls)
                            /\ LosesItsEnd(system_calls[i], recorded[i])
  BY DEF CutIsNoticed
<1>1. HistoryTypeOK /\ LoaderInv
  BY DEF PathInv, RecordingInv
<1> QED
  BY <1>1, LoadedCalls DEF IsWhole

(***************************************************************************)
(* What load_system_calls returns of a file that was cut anywhere are the  *)
(* first calls of the recording; only the end of the last copy can be lost *)
(* unnoticed.                                                              *)
(***************************************************************************)
THEOREM CutIsAlwaysNoticed == Spec => []CutIsNoticed
BY PathInvariant, PathCuts, PTL

LEMMA PathReproduces == PathInv => RecordReproduces
<1> SUFFICES ASSUME PathInv, replayer = "running", replayed > 0,
                    InFile(replayed)
             PROVE  /\ \A a \in Mapped \ spoiled :
                         memory[a] = after[replayed][a]
                    /\ rax = LowBits(recorded[replayed].ret)
  BY DEF RecordReproduces
<1>1. /\ HistoryTypeOK /\ LoaderInv /\ loader = "loaded" /\ AfterCall
      /\ ReplayTypeOK
  BY DEF PathInv, RecordingInv, ReplayInv
<1>2. /\ Len(system_calls) \in Nat /\ AreWhole(Len(system_calls) - 1)
      /\ InFile(Len(system_calls)) /\ Len(system_calls) > 0 =>
              IsWhole(Len(system_calls))
  BY <1>1, LoadedCalls
<1>3. replayed \in 0..Len(system_calls)
  BY <1>1 DEF ReplayTypeOK
<1>4. IsWhole(replayed)
  <2>1. CASE replayed = Len(system_calls)
    BY <1>2, <2>1
  <2>2. CASE replayed # Len(system_calls)
    <3>1. replayed \in 1..(Len(system_calls) - 1)
      BY <1>2, <1>3, <2>2
    <3> QED
      BY <1>2, <3>1 DEF AreWhole
  <2> QED
    BY <2>1, <2>2
<1>5. Reproduced /\ rax = LowBits(recorded[replayed].ret)
  BY <1>1, <1>4 DEF AfterCall
<1>6. Before(replayed + 1) = after[replayed]
  BY <1>2, <1>3 DEF Before
<1> QED
  BY <1>5, <1>6 DEF Reproduced

(***************************************************************************)
(* After each replayed call that is in the file, the memory of the tracee  *)
(* is what the recorded process had then, but for the bytes that are known *)
(* to be spoiled; and so is the return value.                              *)
(***************************************************************************)
THEOREM RecordsAreReproduced == Spec => []RecordReproduces
BY PathInvariant, PathReproduces, PTL

LEMMA PathOutputs == PathInv => OutputReproduced
BY DEF PathInv, ReplayInv

(***************************************************************************)
(* For each write to stdout, full, short or failed, stdout_callback gets   *)
(* the rdx bytes of its buffer, which start with those that were written;  *)
(* bytes whose recording went wrong excepted, and no others.               *)
(***************************************************************************)
THEOREM OutputIsReproduced == Spec => []OutputReproduced
BY PathInvariant, PathOutputs, PTL
=============================================================================
