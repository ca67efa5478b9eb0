---------------------------- MODULE TraceeMemory ----------------------------
(***************************************************************************)
(* creplayer.c: the replayer reaches the memory of the tracee by ptrace,   *)
(* one word of WORD_SIZE = sizeof(long) bytes at a time.  A ptrace request *)
(* fails with EIO unless all the bytes of its word are mapped.             *)
(***************************************************************************)
EXTENDS Integers, Sequences, SequencesExt

CONSTANT WordSize  \* WORD_SIZE

ASSUME WordAssumption == WordSize \in Nat \ {0}

VARIABLES
  memory,  \* the memory of the tracee: what is mapped, and its bytes
  todo     \* the buffers still to be written to it: each at an address

traceeVars == <<memory, todo>>

TraceeInit(snapshot) ==
  /\ memory = snapshot
  /\ todo = <<>>

Word(addr) == addr..(addr + WordSize - 1)
CanReach(addr) == Word(addr) \subseteq DOMAIN memory

(* PTRACE_PEEKTEXT and PTRACE_POKEDATA *)
Peek(addr) == [i \in 1..WordSize |-> memory[addr + i - 1]]
Poke(addr, word) ==
  memory' = [a \in DOMAIN memory |->
               IF a \in Word(addr) THEN word[a - addr + 1] ELSE memory[a]]

(***************************************************************************)
(* read_from_tracee: the words that cover length bytes are read, and the   *)
(* bytes of the last one that are too many are left out.                   *)
(***************************************************************************)
WordsOf(addr, length) ==
  [i \in 1..((length + WordSize - 1) \div WordSize) |->
     addr + (i - 1) * WordSize]

CanRead(addr, length) ==
  \A i \in 1..Len(WordsOf(addr, length)) : CanReach(WordsOf(addr, length)[i])

(* Mutant: the last word is given out whole. *)
ReadWholeWords(addr, length) ==
  LET words == WordsOf(addr, length)
  IN  FlattenSeq([i \in 1..Len(words) |-> Peek(words[i])])

ReadFromTracee(addr, length) ==
  LET words == WordsOf(addr, length)
  IN  SubSeq(FlattenSeq([i \in 1..Len(words) |-> Peek(words[i])]), 1, length)

----------------------------------------------------------------------------
(* write_buffer_to_tracee, of the first buffer to be written *)
To == todo[1].to
Chars == todo[1].bytes

(* Mutant: the rest of the last word is cleared. *)
DataCleared ==
  SubSeq(Chars \o [i \in 1..WordSize |-> 0], 1, WordSize)

(* What the next word becomes: the tail of the buffer keeps what is there. *)
Data ==
  IF Len(Chars) >= WordSize
  THEN SubSeq(Chars, 1, WordSize)
  ELSE Chars \o SubSeq(Peek(To), Len(Chars) + 1, WordSize)

PokeWord ==
  /\ todo # <<>>
  /\ Chars # <<>>
  /\ CanReach(To)
  /\ Poke(To, Data)
  /\ todo' = [todo EXCEPT ![1] = [to |-> To + WordSize,
                                  bytes |-> SubSeq(Chars, WordSize + 1,
                                                   Len(Chars))]]

PokeRaises == todo # <<>> /\ Chars # <<>> /\ ~CanReach(To)

BufferWritten ==
  /\ todo # <<>>
  /\ Chars = <<>>
  /\ todo' = Tail(todo)
  /\ UNCHANGED memory

WriteToTracee(copies) ==
  todo' = [i \in 1..Len(copies) |-> [to |-> copies[i].to,
                                     bytes |-> copies[i].bytes]]
=============================================================================
