------------------------------- MODULE Sha256 -------------------------------
(***************************************************************************)
(* lib/sha256/src/sha256.cpp: hash cuts the message into blocks of 16      *)
(* words, padding the last ones, and compresses each into the registers.   *)
(* One call is followed; every iteration of a loop is a step.              *)
(*                                                                         *)
(* A byte is a number; a uint32_t of the block under construction is its   *)
(* four bytes, the highest first.  The machine is little endian: a word    *)
(* read from memory has its bytes the other way round.                     *)
(***************************************************************************)
EXTENDS Sha256Words, SequencesExt

CONSTANTS Messages,  \* what callers hash, sequences of bytes
          Garbage    \* what an uninitialised word holds

ASSUME MessagesAssumption == Messages \subseteq Seq(0..255)

WORDS_IN_MESSAGE == 16
SIZE_SPANS_WORDS == 2

VARIABLES data,             \* the caller's bytes
          bytes_read,
          stage,
          message,          \* the schedule: the block and what is made of it
          registers,
          starting_values,
          i,                \* the loop counter
          pc,               \* "next_block", "schedule", "compress", "returned"
                            \* or "aborted", by an assert
          blocks            \* history: the blocks compressed, as bytes

vars == <<data, bytes_read, stage, message, registers, starting_values, i, pc, blocks>>

Init == /\ data \in Messages
        /\ bytes_read = 0
        /\ stage = "WRITE_COMPLETED_WORDS"
        /\ message = [t \in 0..63 |-> Garbage]
        /\ registers = H
        /\ starting_values = H
        /\ i = 0
        /\ pc = "next_block"
        /\ blocks = <<>>
-----------------------------------------------------------------------------
\* The four bytes of memory behind the first n, as the machine loads them.
Load(memory, n) == Reverse(SubSeq(memory, n + 1, n + 4))

CompletedWords == (Len(data) - bytes_read) \div 4

\* message_write_completed_words
WriteCompletedWords(count) == [w \in 1..count |-> Load(data, bytes_read + 4 * (w - 1))]

\* The bytes after the whole words, if the data does not end with one.
Left(read) == IF Len(data) % 4 # 0 THEN SubSeq(data, read + 1, Len(data)) ELSE <<>>

\* The 1 that separates data and padding, with these bytes shifted in below it, the
\* last one first.
ShiftedIn(bytes) ==
    LET word[n \in 0..Len(bytes)] ==
            IF n = 0 THEN <<0, 0, 0, 128>>
            ELSE Append(Tail(word[n - 1]), bytes[Len(bytes) - n + 1])
    IN word[Len(bytes)]

\* The bytes shifted in from the wrong end.
LastWordReversed(read) == ShiftedIn(Reverse(Left(read)))

\* The last word of the data, and the 1.
LastWord(read) == ShiftedIn(Left(read))

\* One zero too few.
PadZerosShort(written) ==
    LET space_for_size == IF WORDS_IN_MESSAGE - Len(written) >= SIZE_SPANS_WORDS
                          THEN SIZE_SPANS_WORDS ELSE 0
        zeros == WORDS_IN_MESSAGE - 1 - space_for_size - Len(written)
    IN written \o [w \in 1..zeros |-> <<0, 0, 0, 0>>]

\* The block with zeros up to the place of the size, if there is one.
PadZeros(written) ==
    LET space_for_size == IF WORDS_IN_MESSAGE - Len(written) >= SIZE_SPANS_WORDS
                          THEN SIZE_SPANS_WORDS ELSE 0
        zeros == WORDS_IN_MESSAGE - space_for_size - Len(written)
    IN written \o [w \in 1..zeros |-> <<0, 0, 0, 0>>]

\* A number as eight bytes, the highest first.
EightBytes(n) == [b \in 1..8 |-> IF b < 5 THEN 0 ELSE (n \div 256^(8 - b)) % 256]

\* Swapped as a whole, the size lies in memory with its highest byte first.
SizeWords == LET memory == EightBytes(Len(data) * 8)
             IN <<Load(memory, 0), Load(memory, 4)>>

\* A word by its bytes: bit 31 is the highest of the first.
WordOf(bytes) == {b \in Bits : (bytes[4 - b \div 8] \div 2^(b % 8)) % 2 = 1}

\* The bytes of a block of words.
BytesOf(words) == [b \in 1..4 * Len(words) |-> words[(b - 1) \div 4 + 1][((b - 1) % 4) + 1]]

\* swap_words_endian over the whole block, which then goes to the schedule.
Finish(words) ==
    LET swapped == [w \in 1..Len(words) |-> Reverse(words[w])]
    IN /\ message' = [t \in 0..63 |-> IF t < Len(words) THEN WordOf(swapped[t + 1])
                                                        ELSE message[t]]
       /\ blocks' = Append(blocks, BytesOf(swapped))
       /\ pc' = "schedule"
       /\ i' = 16
       /\ UNCHANGED <<data, registers, starting_values>>
-----------------------------------------------------------------------------
\* get_next_message_block while there are sixteen words or more; the rest is for
\* the next call.
DataBlock ==
    /\ pc = "next_block"
    /\ stage = "WRITE_COMPLETED_WORDS"
    /\ CompletedWords >= WORDS_IN_MESSAGE
    /\ bytes_read' = bytes_read + 4 * WORDS_IN_MESSAGE
    /\ stage' = IF CompletedWords = WORDS_IN_MESSAGE THEN "WRITE_LAST_WORD" ELSE stage
    /\ Finish(WriteCompletedWords(WORDS_IN_MESSAGE))

\* What the stages before the padding have written when the call gets there, and
\* how many bytes they have read.
Unpadded ==
    CASE stage = "WRITE_COMPLETED_WORDS" ->
           LET read == bytes_read + 4 * CompletedWords
           IN [words |-> Append(WriteCompletedWords(CompletedWords), LastWord(read)),
               read |-> read]
      [] stage = "WRITE_LAST_WORD" -> [words |-> <<LastWord(bytes_read)>>, read |-> bytes_read]
      [] stage = "WRITE_PADDING_ZEROS" -> [words |-> <<>>, read |-> bytes_read]

\* get_next_message_block otherwise: it falls through the stages, to the size if
\* there is room left for it.
PaddedBlock ==
    LET words == PadZeros(Unpadded.words)
        full == WORDS_IN_MESSAGE - Len(words) < SIZE_SPANS_WORDS
        asserted == Len(words) = WORDS_IN_MESSAGE - SIZE_SPANS_WORDS
    IN /\ pc = "next_block"
       /\ stage # "FINISHED"
       /\ ~(stage = "WRITE_COMPLETED_WORDS" /\ CompletedWords >= WORDS_IN_MESSAGE)
       /\ bytes_read' = Unpadded.read
       /\ stage' = IF full THEN "WRITE_PADDING_ZEROS" ELSE "FINISHED"
       /\ IF full \/ asserted
          THEN Finish(IF full THEN words ELSE words \o SizeWords)
          ELSE /\ pc' = "aborted"
               /\ UNCHANGED <<data, message, registers, starting_values, i, blocks>>

\* No block is left: hash returns the registers.
Return == /\ pc = "next_block"
          /\ stage = "FINISHED"
          /\ pc' = "returned"
          /\ UNCHANGED <<data, bytes_read, stage, message, registers, starting_values, i, blocks>>
-----------------------------------------------------------------------------
\* The loop goes one too far.
ScheduleTooLong ==
    /\ pc = "schedule"
    /\ IF i < 65
       THEN message' = message /\ i' = i + 1 /\ UNCHANGED <<starting_values, pc>>
       ELSE pc' = "compress" /\ i' = 0 /\ UNCHANGED <<message, starting_values>>
    /\ UNCHANGED <<data, bytes_read, stage, registers, blocks>>

\* An iteration of generate_message_schedule, or its end and the memcpy of compress.
Schedule ==
    /\ pc = "schedule"
    /\ IF i < 64
       THEN /\ message' = [message EXCEPT ![i] =
                               sigma1(message[i - 2]) ++ message[i - 7]
                               ++ sigma0(message[i - 15]) ++ message[i - 16]]
            /\ i' = i + 1
            /\ UNCHANGED <<starting_values, pc>>
       ELSE /\ starting_values' = registers
            /\ i' = 0
            /\ pc' = "compress"
            /\ UNCHANGED message
    /\ UNCHANGED <<data, bytes_read, stage, registers, blocks>>

\* What C++ makes of a % b for b > 0: a remainder with the sign of a.
Remainder(a, b) == IF a >= 0 THEN a % b ELSE -((-a) % b)

modulo(a, b) == IF Remainder(a, b) < 0 THEN Remainder(a, b) + b ELSE Remainder(a, b)

\* The names of the registers move the wrong way.
RegisterForward(reg) == modulo(reg + i, 8)

\* GET_REG: where the register that was number reg before the rounds is in this one.
Register(reg) == modulo(reg - i, 8)

\* The loop ends before its last round.
CompressRoundMissing ==
    /\ pc = "compress" /\ i < 63
    /\ i' = i + 1
    /\ UNCHANGED <<data, bytes_read, stage, message, registers, starting_values, pc, blocks>>

\* A round of compress: nothing moves, the registers change their names.
CompressRound ==
    LET Reg(reg) == registers[Register(reg)]
        t1 == upsigma1(Reg(4)) ++ choice(Reg(4), Reg(5), Reg(6)) ++ Reg(7) ++ K[i] ++ message[i]
        t2 == upsigma0(Reg(0)) ++ maj(Reg(0), Reg(1), Reg(2))
    IN /\ pc = "compress" /\ i < 64
       /\ registers' = [registers EXCEPT ![Register(7)] = t1 ++ t2,
                                         ![Register(3)] = @ ++ t1]
       /\ i' = i + 1
       /\ UNCHANGED <<data, bytes_read, stage, message, starting_values, pc, blocks>>

\* The end of compress.
AddStartingValues ==
    /\ pc = "compress" /\ i = 64
    /\ registers' = [r \in 0..7 |-> registers[r] ++ starting_values[r]]
    /\ pc' = "next_block"
    /\ UNCHANGED <<data, bytes_read, stage, message, starting_values, i, blocks>>

Next == DataBlock \/ PaddedBlock \/ Return \/ Schedule \/ CompressRound \/ AddStartingValues

Spec == Init /\ [][Next]_vars

\* The caller waits for the hash, so the thread goes on.
FairSpec == Spec /\ WF_vars(Next)
-----------------------------------------------------------------------------
Stages == {"WRITE_COMPLETED_WORDS", "WRITE_LAST_WORD", "WRITE_PADDING_ZEROS", "FINISHED"}

\* The assert of message_write_size holds: whatever the size of the data, the zeros
\* end where the size belongs.
SizeHasItsPlace == pc # "aborted"

TypeOK ==
    /\ data \in Messages
    /\ bytes_read \in 0..Len(data)
    /\ stage \in Stages
    /\ DOMAIN message = 0..63
    /\ DOMAIN registers = 0..7
    /\ DOMAIN starting_values = 0..7
    /\ i \in 0..64
    /\ pc \in {"next_block", "schedule", "compress", "returned", "aborted"}

\* The padding of the standard (5.1.1): the data, a one, zeros up to 8 bytes before
\* a multiple of 64, the size in bits.
Padded == data \o <<128>> \o [b \in 1..((55 - Len(data)) % 64) |-> 0] \o EightBytes(8 * Len(data))

\* Wherever the data ends, within a word, at the end of a block or too close to it
\* for the size, the blocks cut on the way are the padded message: nothing twice,
\* nothing left out, and all of it by the time the hash is returned.
BlocksArePadded ==
    /\ 64 * Len(blocks) <= Len(Padded)
    /\ \A n \in 1..Len(blocks) : blocks[n] = SubSeq(Padded, 64 * (n - 1) + 1, 64 * n)
    /\ (stage = "FINISHED") = (64 * Len(blocks) = Len(Padded))

\* compress computes what the standard says although no register moves: seen
\* through the names they have in round i, the registers are the working variables,
\* and the hash so far is in starting_values while they are in use.
Renamed == IF pc = "compress" THEN [r \in 0..7 |-> registers[Register(r)]] ELSE registers

Standard == INSTANCE Compression WITH
                hash <- IF pc = "compress" THEN starting_values ELSE registers,
                phase <- IF pc = "compress" THEN "rounds" ELSE "idle",
                schedule <- IF pc = "compress" THEN message ELSE <<>>,
                working <- Renamed,
                round <- IF pc = "compress" THEN i ELSE 0
ImplementsStandard == Standard!Spec

\* Every call returns: each goes on to FINISHED whatever the size.
Returns == <>(pc = "returned")
=============================================================================
