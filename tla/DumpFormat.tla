----------------------------- MODULE DumpFormat -----------------------------
(***************************************************************************)
(* The bytes of /proc/syscall_dumper, as syscall_dumper.c writes them and  *)
(* loader/unpacker.py unpacks them: a struct syscall_dump for each call,   *)
(* its registers, return value and number of copies, then its copies, each *)
(* the from, to and len of struct copy_record and len bytes.               *)
(***************************************************************************)
EXTENDS Integers, Sequences, SequencesExt

CONSTANTS
  ByteValues,    \* values of a byte: 256 in the code
  LongSize,      \* bytes of an unsigned long: 8
  NumRegisters   \* registers of a struct pt_regs: 21

ASSUME FormatAssumption ==
  /\ ByteValues \in Nat \ {0, 1}
  /\ LongSize \in Nat \ {0}
  /\ NumRegisters \in Nat

Power[n \in Nat] == IF n = 0 THEN 1 ELSE ByteValues * Power[n - 1]

(* Mutant: a register holds any integer. *)
AllBits(value) == value

(* The bits of an integer that a register holds. *)
LowBits(value) == value % Power[LongSize]

(* An unsigned long in memory: two's complement, the low byte first. *)
Long(value) ==
  [i \in 1..LongSize |-> (LowBits(value) \div Power[i - 1]) % ByteValues]

(* struct.unpack("<Q", bytes) and struct.unpack("<q", bytes) *)
Unsigned(bytes) ==
  FoldLeftDomain(LAMBDA sum, i : sum + bytes[i] * Power[i - 1], 0, bytes)

Signed(bytes) ==
  IF 2 * Unsigned(bytes) < Power[LongSize]
  THEN Unsigned(bytes)
  ELSE Unsigned(bytes) - Power[LongSize]

Longs(values) == FlattenSeq([i \in 1..Len(values) |-> Long(values[i])])

DumpCopyRecord(copy) ==
  Longs(<<copy.from, copy.to, Len(copy.bytes)>>) \o copy.bytes

DumpCopyRecords(copies) ==
  FlattenSeq([i \in 1..Len(copies) |-> DumpCopyRecord(copies[i])])

(* The struct syscall_dump, without its copies. *)
DumpSyscallRecord(record) ==
  Longs(record.regs \o <<record.ret, record.amount>>)

DumpSingleRecord(record) ==
  DumpSyscallRecord(record) \o DumpCopyRecords(record.copies)

DumpRecords(records) ==
  FlattenSeq([i \in 1..Len(records) |-> DumpSingleRecord(records[i])])

SizeOfCopyRecord == 3 * LongSize
SizeOfSyscallDump == (NumRegisters + 2) * LongSize

(* Mutant: struct copy_record is not counted. *)
GetRecordLenOfBytes(record) ==
  FoldLeft(LAMBDA total, copy : total + Len(copy.bytes),
           SizeOfSyscallDump, record.copies)

GetRecordLen(record) ==
  FoldLeft(LAMBDA total, copy : total + (SizeOfCopyRecord + Len(copy.bytes)),
           SizeOfSyscallDump, record.copies)
=============================================================================
