---------------------------- MODULE Sha256_proofs ----------------------------
(***************************************************************************)
(* The padding always leaves its place to the size, the blocks that are    *)
(* compressed are those of the padded message, and compress, which moves   *)
(* no register, implements the rounds of the standard: for messages of     *)
(* every size and content.  hash returns after a number of steps that only *)
(* the size decides, and compress reads nothing that it did not write.     *)
(* The last part is about the operations on words: rotr is the rotation,   *)
(* and the sum is that of the numbers modulo 2^32.                         *)
(***************************************************************************)
EXTENDS Sha256, SequenceTheorems, WellFoundedInduction, TLAPS

(***************************************************************************)
(* The bit operations.                                                     *)
(***************************************************************************)

\* maj saves an operation against the comment's (a & b) | (b & c) | (c & a)
\* (sha256.cpp:61) and is the same.
THEOREM MajIsMajority ==
    ASSUME NEW a, NEW b, NEW c
    PROVE  maj(a, b, c) = (a \cap b) \cup (b \cap c) \cup (c \cap a)
BY DEF maj

(***************************************************************************)
(* The registers.                                                          *)
(***************************************************************************)

\* For the eight registers, modulo is the remainder of mathematics.
LEMMA ModuloIsRemainder ==
    ASSUME NEW a \in -64..7
    PROVE  modulo(a, 8) = a % 8 /\ modulo(a, 8) \in 0..7
BY DEF modulo, Remainder

\* The loop of the schedule has done what it will have done in the end, up to i.
Scheduled(w, n) ==
    \A t \in 16..63 : t < n =>
        w[t] = sigma1(w[t - 2]) ++ w[t - 7] ++ sigma0(w[t - 15]) ++ w[t - 16]

ScheduleInv ==
    /\ i \in 0..64
    /\ DOMAIN message = 0..63 /\ message = [t \in 0..63 |-> message[t]]
    /\ registers = [r \in 0..7 |-> registers[r]]
    /\ starting_values = [r \in 0..7 |-> starting_values[r]]
    /\ pc = "schedule" => i >= 16 /\ Scheduled(message, i)
    /\ pc = "compress" => Scheduled(message, 64)

LEMMA ScheduleInitially == Init => ScheduleInv
BY DEF Init, ScheduleInv, H

LEMMA SchedulePreserved == ScheduleInv /\ [Next]_vars => ScheduleInv'
<1> SUFFICES ASSUME ScheduleInv, [Next]_vars PROVE ScheduleInv'
    OBVIOUS
<1> USE DEF ScheduleInv
<1>1. ASSUME NEW words, Finish(words) PROVE ScheduleInv'
    <2>1. message' = [t \in 0..63 |-> message'[t]]
        BY <1>1 DEF Finish
    <2>2. pc' = "schedule" /\ i' = 16 /\ UNCHANGED <<registers, starting_values>>
        BY <1>1 DEF Finish
    <2> QED
        BY <2>1, <2>2 DEF Scheduled
<1>2. CASE DataBlock \/ PaddedBlock
    <2>1. CASE pc' = "aborted" /\ UNCHANGED <<message, registers, starting_values, i>>
        BY <2>1
    <2>2. CASE DataBlock
        BY <1>1, <2>2 DEF DataBlock
    <2> DEFINE words == PadZeros(Unpadded.words)
               full == WORDS_IN_MESSAGE - Len(words) < SIZE_SPANS_WORDS
    <2>3. CASE PaddedBlock
        <3>1. \/ Finish(IF full THEN words ELSE words \o SizeWords)
              \/ pc' = "aborted" /\ UNCHANGED <<message, registers, starting_values, i>>
            BY <2>3, Zenon DEF PaddedBlock
        <3> QED
            BY <1>1, <2>1, <3>1
    <2> QED
        BY <1>2, <2>2, <2>3
<1>3. CASE Return
    BY <1>3 DEF Return, Scheduled
<1>4. CASE Schedule
    <2>1. CASE i < 64
        <3>1. \A t \in 0..63 : t # i => message'[t] = message[t]
            BY <1>4, <2>1 DEF Schedule
        <3>2. message'[i] = sigma1(message[i - 2]) ++ message[i - 7]
                            ++ sigma0(message[i - 15]) ++ message[i - 16]
            BY <1>4, <2>1 DEF Schedule
        <3>3. Scheduled(message', i + 1)
            <4> SUFFICES ASSUME NEW t \in 16..63, t < i + 1
                         PROVE  message'[t] = sigma1(message'[t - 2]) ++ message'[t - 7]
                                              ++ sigma0(message'[t - 15]) ++ message'[t - 16]
                BY DEF Scheduled
            <4>1. /\ message'[t - 2] = message[t - 2] /\ message'[t - 7] = message[t - 7]
                  /\ message'[t - 15] = message[t - 15] /\ message'[t - 16] = message[t - 16]
                BY <3>1
            <4>2. CASE t = i
                BY <3>2, <4>1, <4>2
            <4>3. CASE t < i
                BY <1>4, <3>1, <4>1, <4>3 DEF Schedule, Scheduled
            <4> QED
                BY <4>2, <4>3
        <3> QED
            BY <1>4, <2>1, <3>3 DEF Schedule
    <2>2. CASE i = 64
        BY <1>4, <2>2 DEF Schedule, Scheduled
    <2> QED
        BY <2>1, <2>2
<1>5. CASE CompressRound
    <2>1. registers' = [r \in 0..7 |-> registers'[r]]
        BY <1>5 DEF CompressRound
    <2>2. i' \in 0..64 /\ UNCHANGED <<message, starting_values, pc>> /\ pc = "compress"
        BY <1>5 DEF CompressRound
    <2> QED
        BY <2>1, <2>2
<1>6. CASE AddStartingValues
    BY <1>6 DEF AddStartingValues
<1>7. CASE UNCHANGED vars
    BY <1>7 DEF vars
<1> QED
    BY <1>2, <1>3, <1>4, <1>5, <1>6, <1>7 DEF Next

LEMMA ScheduleAlways == Spec => []ScheduleInv
BY ScheduleInitially, SchedulePreserved, PTL DEF Spec

(***************************************************************************)
(* The refinement.                                                         *)
(***************************************************************************)

\* The standard has the tables and operations of the code.
LEMMA SameTables == Standard!H = H /\ Standard!K = K
BY DEF Standard!H, Standard!HTable, Standard!K, Standard!KTable, Standard!Hex, Standard!Bits,
       H, HTable, K, KTable, Hex, Bits

LEMMA SameSum == Standard!sum = sum
BY DEF Standard!sum, Standard!CarryInto, Standard!Word, Standard!Bits,
       sum, CarryInto, Word, Bits

LEMMA SameOperations ==
    /\ \A x, y : Standard!++(x, y) = x ++ y
    /\ \A w : Standard!IsSchedule(w) <=> Scheduled(w, 64)
    /\ \A v, k, w : Standard!T1(v, k, w) =
          upsigma1(v[4]) ++ choice(v[4], v[5], v[6]) ++ v[7] ++ k ++ w
    /\ \A v : Standard!T2(v) = upsigma0(v[0]) ++ maj(v[0], v[1], v[2])
<1>1. \A x, y : Standard!++(x, y) = x ++ y
    BY SameSum DEF Standard!++, ++
<1>2. \A x : Standard!sigma0(x) = sigma0(x) /\ Standard!sigma1(x) = sigma1(x)
    BY DEF Standard!sigma0, Standard!sigma1, Standard!Xor, Standard!rotr, Standard!Shifted,
           Standard!Bits, sigma0, sigma1, Xor, rotr, Shifted, Bits
<1>3. \A x : Standard!upsigma0(x) = upsigma0(x) /\ Standard!upsigma1(x) = upsigma1(x)
    BY DEF Standard!upsigma0, Standard!upsigma1, Standard!Xor, Standard!rotr,
           Standard!Bits, upsigma0, upsigma1, Xor, rotr, Bits
<1>4. \A x, y, z : /\ Standard!maj(x, y, z) = maj(x, y, z)
                   /\ Standard!choice(x, y, z) = choice(x, y, z)
    BY DEF Standard!maj, Standard!choice, maj, choice
<1>5. \A w : Standard!IsSchedule(w) <=> Scheduled(w, 64)
    BY <1>1, <1>2 DEF Standard!IsSchedule, Scheduled
<1>6. \A v, k, w : Standard!T1(v, k, w) =
          upsigma1(v[4]) ++ choice(v[4], v[5], v[6]) ++ v[7] ++ k ++ w
    BY <1>1, <1>3, <1>4 DEF Standard!T1
<1>7. \A v : Standard!T2(v) = upsigma0(v[0]) ++ maj(v[0], v[1], v[2])
    BY <1>1, <1>3, <1>4 DEF Standard!T2
<1> QED
    BY <1>1, <1>5, <1>6, <1>7

\* One round: seen through their new names the registers have moved on by one.
LEMMA RoundIsRound ==
    ScheduleInv /\ CompressRound => Standard!Round
<1> SUFFICES ASSUME ScheduleInv, CompressRound PROVE Standard!Round
    OBVIOUS
<1>0. i \in 0..63 /\ i' = i + 1 /\ pc = "compress" /\ pc' = "compress"
    BY DEF ScheduleInv, CompressRound
<1>1. \A r \in 0..7 : Register(r) \in 0..7 /\ Register(r) = (r - i) % 8
    BY <1>0, ModuloIsRemainder DEF Register
<1>2. \A r \in 0..7 : Register(r)' \in 0..7 /\ Register(r)' = (r - (i + 1)) % 8
    BY <1>0, ModuloIsRemainder DEF Register
<1>3. /\ Register(0)' = Register(7)
      /\ \A r \in 1..7 : Register(r)' = Register(r - 1)
    BY <1>0, <1>1, <1>2
<1>4. \A r \in 0..6 : Register(r) # Register(7)
    BY <1>0, <1>1
<1>5. \A r \in 0..7 : r # 3 => Register(r) # Register(3)
    BY <1>0, <1>1
<1> DEFINE v == [r \in 0..7 |-> registers[Register(r)]]
           t1 == Standard!T1(v, K[i], message[i])
           t2 == Standard!T2(v)
<1>6. /\ registers'[Register(7)] = t1 ++ t2
      /\ registers'[Register(3)] = registers[Register(3)] ++ t1
      /\ \A n \in 0..7 : n # Register(7) /\ n # Register(3) => registers'[n] = registers[n]
    <2>1. \A r \in 0..7 : v[r] = registers[Register(r)]
        OBVIOUS
    <2>2. /\ t1 = upsigma1(registers[Register(4)])
                   ++ choice(registers[Register(4)], registers[Register(5)], registers[Register(6)])
                   ++ registers[Register(7)] ++ K[i] ++ message[i]
          /\ t2 = upsigma0(registers[Register(0)])
                   ++ maj(registers[Register(0)], registers[Register(1)], registers[Register(2)])
        BY <2>1, SameOperations
    <2>3. registers' = [registers EXCEPT ![Register(7)] = t1 ++ t2,
                                         ![Register(3)] = @ ++ t1]
        BY <2>2 DEF CompressRound
    <2> HIDE DEF t1, t2
    <2> QED
        BY <1>1, <1>4, <2>3 DEF ScheduleInv
<1>7. [r \in 0..7 |-> registers'[Register(r)']] = Standard!Moved(v, t1, t2)
    <2>1. registers'[Register(0)'] = t1 ++ t2
        BY <1>3, <1>6
    <2>2. registers'[Register(4)'] = v[3] ++ t1
        BY <1>3, <1>6
    <2>3. ASSUME NEW r \in 1..7, r # 4 PROVE registers'[Register(r)'] = v[r - 1]
        <3>1. r - 1 \in 0..6 /\ r - 1 # 3
            BY <2>3
        <3> QED
            BY <3>1, <1>1, <1>3, <1>4, <1>5, <1>6
    <2> QED
        BY <2>1, <2>2, <2>3, SameOperations DEF Standard!Moved
<1>8. Renamed = v /\ Renamed' = [r \in 0..7 |-> registers'[Register(r)']]
    BY <1>0 DEF Renamed
<1> QED
    BY <1>0, <1>7, <1>8, SameTables DEF Standard!Round, CompressRound

\* The sum of compress: after 64 rounds every register has its own name again.
LEMMA SumIsEnd ==
    ScheduleInv /\ AddStartingValues => Standard!End
<1> SUFFICES ASSUME ScheduleInv, AddStartingValues PROVE Standard!End
    OBVIOUS
<1>1. \A r \in 0..7 : Register(r) = r
    BY ModuloIsRemainder DEF Register, AddStartingValues
<1>2. Renamed = registers
    BY <1>1 DEF Renamed, ScheduleInv
<1>3. registers' = [r \in 0..7 |-> Standard!++(registers[r], starting_values[r])]
    BY SameOperations DEF AddStartingValues
<1> QED
    BY <1>2, <1>3 DEF Standard!End, Renamed, AddStartingValues

\* The end of the loop that makes the schedule.
LEMMA ScheduleIsBegin ==
    ScheduleInv /\ Schedule => Standard!Begin \/ UNCHANGED Standard!vars
<1> SUFFICES ASSUME ScheduleInv, Schedule
             PROVE  Standard!Begin \/ UNCHANGED Standard!vars
    OBVIOUS
<1>1. CASE i < 64
    BY <1>1 DEF Schedule, Standard!vars, Renamed
<1>2. CASE i = 64
    <2>1. i' = 0 /\ pc' = "compress" /\ message' = message
          /\ registers' = registers /\ starting_values' = registers
        BY <1>2 DEF Schedule
    <2>2. \A r \in 0..7 : Register(r)' = r
        BY <2>1, ModuloIsRemainder DEF Register
    <2>3. [r \in 0..7 |-> registers'[Register(r)']] = registers
        BY <2>1, <2>2 DEF ScheduleInv
    <2>4. Standard!IsSchedule(message')
        BY <1>2, <2>1, SameOperations DEF Schedule, ScheduleInv
    <2> QED
        BY <2>1, <2>3, <2>4 DEF Schedule, Standard!Begin, Renamed
<1> QED
    BY <1>1, <1>2 DEF ScheduleInv

LEMMA RefinementStep ==
    ScheduleInv /\ [Next]_vars =>
        [Standard!Begin \/ Standard!Round \/ Standard!End]_(Standard!vars)
<1> SUFFICES ASSUME ScheduleInv, [Next]_vars
             PROVE  \/ Standard!Begin \/ Standard!Round \/ Standard!End
                    \/ UNCHANGED Standard!vars
    OBVIOUS
<1>1. CASE DataBlock
    BY <1>1 DEF DataBlock, Finish, Standard!vars, Renamed
<1>2. CASE PaddedBlock
    BY <1>2 DEF PaddedBlock, Finish, Standard!vars, Renamed
<1>3. CASE Return
    BY <1>3 DEF Return, Standard!vars, Renamed
<1>4. CASE Schedule
    BY <1>4, ScheduleIsBegin
<1>5. CASE CompressRound
    BY <1>5, RoundIsRound
<1>6. CASE AddStartingValues
    BY <1>6, SumIsEnd
<1>7. CASE UNCHANGED vars
    BY <1>7 DEF vars, Standard!vars, Renamed, Register
<1> QED
    BY <1>1, <1>2, <1>3, <1>4, <1>5, <1>6, <1>7 DEF Next

LEMMA RefinementInit == Init => Standard!Init
BY SameTables DEF Init, Standard!Init, Renamed

\* hash follows the standard for every message: the renaming of the registers is
\* the standard's movement of the working variables.
THEOREM CompressRefinement == Spec => ImplementsStandard
BY ScheduleAlways, RefinementStep, RefinementInit, PTL
   DEF Spec, ImplementsStandard, Standard!Spec

(***************************************************************************)
(* The place of the size.                                                  *)
(***************************************************************************)

SizeInv ==
    /\ data \in Messages
    /\ bytes_read \in 0..Len(data)
    /\ pc # "aborted"

\* Up to fifteen words leave the call with one more, which the zeros follow to the
\* end of the block or to the place of the size, never in between.
LEMMA PadZerosLength ==
    ASSUME NEW n \in 0..16, NEW written, Len(written) = n, NEW S, written \in Seq(S),
           <<0, 0, 0, 0>> \in S
    PROVE  Len(PadZeros(written)) \in {14, 16}
<1> DEFINE zeros == 16 - (IF 16 - n >= 2 THEN 2 ELSE 0) - n
<1>1. zeros \in 0..14 /\ n + zeros \in {14, 16}
    OBVIOUS
<1>2. /\ [w \in 1..zeros |-> <<0, 0, 0, 0>>] \in Seq(S)
      /\ Len([w \in 1..zeros |-> <<0, 0, 0, 0>>]) = zeros
    BY <1>1
<1>3. PadZeros(written) = written \o [w \in 1..zeros |-> <<0, 0, 0, 0>>]
    BY DEF PadZeros, WORDS_IN_MESSAGE, SIZE_SPANS_WORDS
<1> QED
    BY <1>1, <1>2, <1>3

\* The whole words among the bytes left, when they do not fill a block, are no more
\* bytes than those.
LEMMA WordsFit ==
    ASSUME NEW l \in Nat, NEW r \in 0..l, ~((l - r) \div 4 >= 16)
    PROVE  (l - r) \div 4 \in 0..15 /\ r + 4 * ((l - r) \div 4) \in 0..l
OBVIOUS

LEMMA UnpaddedLength ==
    ASSUME SizeInv, PaddedBlock, stage \in Stages
    PROVE  /\ \E S : Unpadded.words \in Seq(S) /\ <<0, 0, 0, 0>> \in S
           /\ Len(Unpadded.words) \in 0..16
           /\ Unpadded.read \in 0..Len(data)
<1>1. Len(data) \in Nat
    BY MessagesAssumption DEF SizeInv
<1>2. CASE stage = "WRITE_COMPLETED_WORDS"
    <2>1. CompletedWords \in 0..15 /\ bytes_read + 4 * CompletedWords \in 0..Len(data)
        <3>1. ~(CompletedWords >= 16)
            BY <1>2 DEF PaddedBlock, WORDS_IN_MESSAGE
        <3>2. bytes_read \in 0..Len(data) /\ CompletedWords = (Len(data) - bytes_read) \div 4
            BY DEF SizeInv, CompletedWords
        <3> HIDE DEF CompletedWords
        <3> QED
            BY <1>1, <3>1, <3>2, WordsFit
    <2> DEFINE read == bytes_read + 4 * CompletedWords
               S == {WriteCompletedWords(CompletedWords)[w] : w \in 1..CompletedWords}
                    \cup {LastWord(read), <<0, 0, 0, 0>>}
    <2>2. /\ WriteCompletedWords(CompletedWords) \in [1..CompletedWords -> S]
          /\ WriteCompletedWords(CompletedWords)
                 = [w \in 1..CompletedWords |-> Load(data, bytes_read + 4 * (w - 1))]
        BY DEF WriteCompletedWords
    <2>3. Unpadded = [words |-> Append(WriteCompletedWords(CompletedWords), LastWord(read)),
                      read |-> read]
        BY <1>2 DEF Unpadded
    <2>4. /\ LastWord(read) \in S /\ <<0, 0, 0, 0>> \in S
          /\ read \in 0..Len(data)
        BY <2>1
    <2> HIDE DEF read, S
    <2>5. /\ WriteCompletedWords(CompletedWords) \in Seq(S)
          /\ Len(WriteCompletedWords(CompletedWords)) = CompletedWords
        BY <2>1, <2>2
    <2>6. /\ Append(WriteCompletedWords(CompletedWords), LastWord(read)) \in Seq(S)
          /\ Len(Append(WriteCompletedWords(CompletedWords), LastWord(read))) = CompletedWords + 1
        BY <2>1, <2>4, <2>5
    <2>7. /\ Unpadded.words \in Seq(S) /\ Len(Unpadded.words) = CompletedWords + 1
          /\ Unpadded.read = read
        BY <2>3, <2>6
    <2>8. \E T : Unpadded.words \in Seq(T) /\ <<0, 0, 0, 0>> \in T
        BY <2>4, <2>7, Zenon
    <2>9. CompletedWords + 1 \in 0..16
        BY <2>1
    <2> QED
        BY <2>4, <2>7, <2>8, <2>9
<1>3. CASE stage = "WRITE_LAST_WORD"
    <2> DEFINE S == {LastWord(bytes_read), <<0, 0, 0, 0>>}
    <2>1. Unpadded = [words |-> <<LastWord(bytes_read)>>, read |-> bytes_read]
        BY <1>3 DEF Unpadded
    <2>2. <<LastWord(bytes_read)>> \in Seq(S) /\ <<0, 0, 0, 0>> \in S
        OBVIOUS
    <2>3. Unpadded.words \in Seq(S) /\ Len(Unpadded.words) = 1 /\ Unpadded.read = bytes_read
        BY <2>1, <2>2
    <2> HIDE DEF S
    <2>4. \E T : Unpadded.words \in Seq(T) /\ <<0, 0, 0, 0>> \in T
        BY <2>2, <2>3, Zenon
    <2> QED
        BY <1>1, <2>3, <2>4 DEF SizeInv
<1>4. CASE stage = "WRITE_PADDING_ZEROS"
    <2>1. Unpadded = [words |-> <<>>, read |-> bytes_read]
        BY <1>4 DEF Unpadded
    <2> DEFINE S == {<<0, 0, 0, 0>>}
    <2>2. <<>> \in Seq(S) /\ <<0, 0, 0, 0>> \in S
        OBVIOUS
    <2>3. Unpadded.words \in Seq(S) /\ Len(Unpadded.words) = 0 /\ Unpadded.read = bytes_read
        BY <2>1, <2>2
    <2> HIDE DEF S
    <2>4. \E T : Unpadded.words \in Seq(T) /\ <<0, 0, 0, 0>> \in T
        BY <2>2, <2>3, Zenon
    <2> QED
        BY <1>1, <2>3, <2>4 DEF SizeInv
<1> QED
    BY <1>2, <1>3, <1>4 DEF PaddedBlock, Stages

LEMMA SizePreserved == SizeInv /\ stage \in Stages /\ [Next]_vars => (SizeInv /\ stage \in Stages)'
<1> SUFFICES ASSUME SizeInv, stage \in Stages, [Next]_vars
             PROVE  SizeInv' /\ stage' \in Stages
    BY DEF Stages
<1>1. CASE DataBlock
    <2>1. bytes_read + 64 \in 0..Len(data)
        BY <1>1, MessagesAssumption
           DEF SizeInv, DataBlock, CompletedWords, WORDS_IN_MESSAGE
    <2>2. /\ bytes_read' = bytes_read + 64 /\ data' = data /\ pc' = "schedule"
          /\ stage' \in Stages
        BY <1>1 DEF DataBlock, Finish, WORDS_IN_MESSAGE, Stages
    <2> QED
        BY <2>1, <2>2 DEF SizeInv
<1>2. CASE PaddedBlock
    <2> DEFINE words == PadZeros(Unpadded.words)
    <2>1. PICK S : Unpadded.words \in Seq(S) /\ <<0, 0, 0, 0>> \in S
        BY <1>2, UnpaddedLength
    <2>2. Len(words) \in {14, 16}
        BY <1>2, <2>1, UnpaddedLength, PadZerosLength
    <2> HIDE DEF words
    <2>3. 16 - Len(words) < 2 \/ Len(words) = 16 - 2
        <3>1. CASE Len(words) = 14
            BY <3>1
        <3>2. CASE Len(words) = 16
            BY <3>2
        <3> QED
            BY <2>2, <3>1, <3>2
    <2>4. \/ Finish(words)
          \/ Finish(words \o SizeWords)
        BY <1>2, <2>3 DEF PaddedBlock, words, WORDS_IN_MESSAGE, SIZE_SPANS_WORDS
    <2>5. data' = data /\ pc' = "schedule"
        BY <2>4 DEF Finish
    <2>6. bytes_read' = Unpadded.read /\ stage' \in Stages
        BY <1>2 DEF PaddedBlock, Stages
    <2> QED
        BY <1>2, <2>5, <2>6, UnpaddedLength DEF SizeInv
<1>3. CASE Return
    BY <1>3 DEF Return, SizeInv
<1>4. CASE Schedule
    BY <1>4 DEF Schedule, SizeInv
<1>5. CASE CompressRound
    BY <1>5 DEF CompressRound, SizeInv
<1>6. CASE AddStartingValues
    BY <1>6 DEF AddStartingValues, SizeInv
<1>7. CASE UNCHANGED vars
    BY <1>7 DEF vars, SizeInv
<1> QED
    BY <1>1, <1>2, <1>3, <1>4, <1>5, <1>6, <1>7 DEF Next

\* The assert of message_write_size never fails, whatever the size of the message.
THEOREM SizePlace == Spec => []SizeHasItsPlace
<1>1. Init => SizeInv /\ stage \in Stages
    BY MessagesAssumption DEF Init, SizeInv, Stages
<1>2. SizeInv => SizeHasItsPlace
    BY DEF SizeInv, SizeHasItsPlace
<1> QED
    BY <1>1, <1>2, SizePreserved, PTL DEF Spec

PcInv == pc \in {"next_block", "schedule", "compress", "returned", "aborted"}

\* No field leaves its range: the words read never pass the end of the data, the
\* loops never pass the ends of their arrays.
THEOREM TypeCorrect == Spec => []TypeOK
<1>1. Init => SizeInv /\ stage \in Stages /\ ScheduleInv
    BY ScheduleInitially, MessagesAssumption DEF Init, SizeInv, Stages
<1>2. Init => PcInv
    BY DEF Init, PcInv
<1>3. PcInv /\ [Next]_vars => PcInv'
    BY DEF PcInv, Next, DataBlock, PaddedBlock, Finish, Return, Schedule, CompressRound,
           AddStartingValues, vars
<1>4. SizeInv /\ stage \in Stages /\ ScheduleInv /\ PcInv => TypeOK
    BY DEF SizeInv, ScheduleInv, PcInv, TypeOK
<1> QED
    BY <1>1, <1>2, <1>3, <1>4, SizePreserved, SchedulePreserved, PTL DEF Spec

(***************************************************************************)
(* The blocks.                                                             *)
(***************************************************************************)

Quad(S) == [1..4 -> S]

Tuples(n, S) == [1..n -> S]

LEMMA TupleIsSeq ==
    ASSUME NEW S, NEW n \in Nat, NEW f \in Tuples(n, S)
    PROVE  f \in Seq(S) /\ Len(f) = n
BY DEF Tuples

LEMMA QuadIsSeq ==
    ASSUME NEW S, NEW word \in Quad(S)
    PROVE  word \in Seq(S) /\ Len(word) = 4
<1>1. word \in Tuples(4, S)
    BY DEF Quad, Tuples
<1> QED
    BY <1>1, TupleIsSeq

\* A byte shifted into a word pushes the highest one out.
LEMMA ShiftOne ==
    ASSUME NEW S, NEW word \in Quad(S), NEW y \in S
    PROVE  /\ Append(Tail(word), y) \in Quad(S)
           /\ \A p \in 1..3 : Append(Tail(word), y)[p] = word[p + 1]
           /\ Append(Tail(word), y)[4] = y
<1>1. word \in Seq(S) /\ Len(word) = 4
    BY QuadIsSeq
<1>2. word # <<>>
    BY <1>1, EmptySeq
<1>3. PICK s : s = Tail(word)
    OBVIOUS
<1>4. s \in Seq(S) /\ Len(s) = 3 /\ \A p \in 1..3 : s[p] = word[p + 1]
    <2>1. /\ Tail(word) \in Seq(S)
          /\ Len(Tail(word)) = Len(word) - 1
          /\ \A p \in 1..Len(Tail(word)) : Tail(word)[p] = word[p + 1]
        BY <1>1, <1>2, HeadTailProperties
    <2>2. s \in Seq(S) /\ Len(s) = Len(word) - 1 /\ \A p \in 1..Len(s) : s[p] = word[p + 1]
        BY <1>3, <2>1
    <2> QED
        BY <1>1, <2>2
<1>5. PICK u : u = Append(s, y)
    OBVIOUS
<1>6. u \in Seq(S) /\ Len(u) = Len(s) + 1 /\ (\A p \in 1..Len(s) : u[p] = s[p]) /\ u[Len(s) + 1] = y
    <2>1. /\ Append(s, y) \in Seq(S)
          /\ Append(s, y) # <<>>
          /\ Len(Append(s, y)) = Len(s) + 1
          /\ \A p \in 1..Len(s) : Append(s, y)[p] = s[p]
          /\ Append(s, y)[Len(s) + 1] = y
        BY <1>4, AppendProperties
    <2> QED
        BY <1>5, <2>1
<1>7. Len(u) = 4 /\ (\A p \in 1..3 : u[p] = s[p]) /\ u[4] = y
    BY <1>4, <1>6
<1>8. u \in [1..4 -> S]
    BY <1>6, <1>7, LenProperties
<1> QED
    BY <1>3, <1>4, <1>5, <1>7, <1>8 DEF Quad

\* A byte of a word that was reversed.
LEMMA ReversedQuad ==
    ASSUME NEW S, NEW word \in Quad(S)
    PROVE  /\ Reverse(word) \in Quad(S)
           /\ \A p \in 1..4 : Reverse(word)[p] = word[5 - p]
<1>1. word \in Seq(S) /\ Len(word) = 4
    BY QuadIsSeq
<1>2. Reverse(word) = [p \in 1..4 |-> word[(4 - p) + 1]]
    BY <1>1 DEF Reverse
<1>3. \A p \in 1..4 : (4 - p) + 1 = 5 - p /\ 5 - p \in 1..4
    OBVIOUS
<1> QED
    BY <1>2, <1>3 DEF Quad

\* The four bytes behind the first n, loaded from memory and swapped again, are as
\* they were.
LEMMA LoadedBytes ==
    ASSUME NEW S, NEW memory \in Seq(S), NEW n \in Nat, n + 4 <= Len(memory)
    PROVE  /\ Load(memory, n) \in Quad(S)
           /\ \A p \in 1..4 : Load(memory, n)[5 - p] = memory[n + p]
<1> DEFINE part == SubSeq(memory, n + 1, n + 4)
<1>1. \A k \in n + 1..n + 4 : memory[k] \in S
    <2>1. \A k \in n + 1..n + 4 : k \in 1..Len(memory)
        OBVIOUS
    <2> QED
        BY <2>1, ElementOfSeq
<1>2. part \in Quad(S) /\ \A p \in 1..4 : part[p] = memory[n + p]
    <2>1. /\ part \in Seq(S) /\ Len(part) = (n + 4 - (n + 1)) + 1
          /\ \A p \in 1..(n + 4 - (n + 1)) + 1 : part[p] = memory[((n + 1) + p) - 1]
        BY <1>1, SubSeqProperties
    <2>2. (n + 4 - (n + 1)) + 1 = 4 /\ \A p \in 1..4 : ((n + 1) + p) - 1 = n + p
        OBVIOUS
    <2> HIDE DEF part
    <2>3. part \in [1..4 -> S]
        BY <2>1, <2>2
    <2> QED
        BY <2>1, <2>2, <2>3 DEF Quad
<1> HIDE DEF part
<1>3. Reverse(part) \in Quad(S) /\ \A p \in 1..4 : Reverse(part)[p] = part[5 - p]
    BY <1>2, ReversedQuad
<1>4. Load(memory, n) = Reverse(part)
    BY DEF Load, part
<1>5. \A p \in 1..4 : 5 - p \in 1..4 /\ 5 - (5 - p) = p
    OBVIOUS
<1> QED
    BY <1>2, <1>3, <1>4, <1>5

\* The bytes of a whole block.
SwappedBytes(words) == BytesOf([w \in 1..Len(words) |-> Reverse(words[w])])

IsBlock(block, words, S) ==
    /\ block \in Seq(S) /\ Len(block) = 64
    /\ \A w \in 1..16, p \in 1..4 : block[4 * (w - 1) + p] = words[w][5 - p]

LEMMA BlockBytes ==
    ASSUME NEW S, NEW words \in Seq(Quad(S)), Len(words) = 16
    PROVE  IsBlock(SwappedBytes(words), words, S)
<1> DEFINE swapped == [w \in 1..Len(words) |-> Reverse(words[w])]
           block == BytesOf(swapped)
<1>1. \A w \in 1..16 : words[w] \in Quad(S)
    BY ElementOfSeq
<1>2. /\ swapped \in [1..16 -> Quad(S)]
      /\ \A w \in 1..16, p \in 1..4 : swapped[w][p] = words[w][5 - p]
    BY <1>1, ReversedQuad
<1>3. Len(swapped) = 16
    OBVIOUS
<1> HIDE DEF swapped
<1>4. block = [b \in 1..64 |-> swapped[(b - 1) \div 4 + 1][((b - 1) % 4) + 1]]
    BY <1>3 DEF BytesOf
<1>5. \A b \in 1..64 : (b - 1) \div 4 + 1 \in 1..16 /\ ((b - 1) % 4) + 1 \in 1..4
    OBVIOUS
<1>6. \A b \in 1..64 : swapped[(b - 1) \div 4 + 1][((b - 1) % 4) + 1] \in S
    BY <1>2, <1>5 DEF Quad
<1>7. block \in Seq(S) /\ Len(block) = 64
    <2>1. block \in [1..64 -> S]
        BY <1>4, <1>6
    <2> HIDE DEF block
    <2>2. PICK b : b = block
        OBVIOUS
    <2>3. b \in Tuples(64, S)
        BY <2>1, <2>2 DEF Tuples
    <2>4. 64 \in Nat
        OBVIOUS
    <2>5. b \in Seq(S) /\ Len(b) = 64
        BY <2>3, <2>4, TupleIsSeq
    <2> QED
        BY <2>2, <2>5
<1>8. ASSUME NEW w \in 1..16, NEW p \in 1..4
      PROVE  block[4 * (w - 1) + p] = words[w][5 - p]
    <2>1. PICK b \in 1..64 : b = 4 * (w - 1) + p
        OBVIOUS
    <2>2. (b - 1) \div 4 + 1 = w /\ ((b - 1) % 4) + 1 = p
        BY <2>1
    <2> HIDE DEF block
    <2>3. block[b] = swapped[w][p]
        BY <1>4, <2>2
    <2> QED
        BY <1>2, <2>1, <2>3
<1> QED
    BY <1>7, <1>8 DEF swapped, SwappedBytes, IsBlock

\* What is shifted in, when it is no whole word: one step for each byte.
LEMMA ShiftedWord ==
    ASSUME NEW bytes \in Seq(0..255), NEW k \in 0..3, Len(bytes) = k
    PROVE  /\ ShiftedIn(bytes) \in Quad(0..255)
           /\ \A p \in 1..4 : ShiftedIn(bytes)[5 - p] =
                 IF p <= k THEN bytes[p] ELSE IF p = k + 1 THEN 128 ELSE 0
<1> DEFINE S == 0..255
<1>0. PICK a0 : a0 = <<0, 0, 0, 128>>
    OBVIOUS
<1>1. a0 \in Quad(S) /\ a0[1] = 0 /\ a0[2] = 0 /\ a0[3] = 0 /\ a0[4] = 128
    BY <1>0 DEF Quad
<1> DEFINE Is(f) == f = [n \in 0..k |-> IF n = 0 THEN a0
                                        ELSE Append(Tail(f[n - 1]), bytes[k - n + 1])]
           w == CHOOSE f : Is(f)
<1>2. ShiftedIn(bytes) = w[k]
    BY <1>0 DEF ShiftedIn
<1>3. \A n \in 1..k : bytes[k - n + 1] \in S
    <2>1. \A n \in 1..k : k - n + 1 \in 1..k
        OBVIOUS
    <2> QED
        BY <2>1, ElementOfSeq
<1>4. PICK a1 : a1 = Append(Tail(a0), bytes[k - 1 + 1])
    OBVIOUS
<1>5. PICK a2 : a2 = Append(Tail(a1), bytes[k - 2 + 1])
    OBVIOUS
<1>6. PICK a3 : a3 = Append(Tail(a2), bytes[k - 3 + 1])
    OBVIOUS
<1>7. Is(w)
    <2> DEFINE g == [n \in 0..k |-> IF n = 0 THEN a0 ELSE IF n = 1 THEN a1
                                    ELSE IF n = 2 THEN a2 ELSE a3]
    <2>1. ASSUME NEW n \in 0..k
          PROVE  g[n] = IF n = 0 THEN a0 ELSE Append(Tail(g[n - 1]), bytes[k - n + 1])
        <3>1. CASE n = 0
            BY <3>1
        <3>2. CASE n = 1
            <4>1. g[n] = a1 /\ g[n - 1] = a0
                BY <3>2
            <4> HIDE DEF g
            <4> QED
                BY <1>4, <3>2, <4>1
        <3>3. CASE n = 2
            <4>1. g[n] = a2 /\ g[n - 1] = a1
                BY <3>3
            <4> HIDE DEF g
            <4> QED
                BY <1>5, <3>3, <4>1
        <3>4. CASE n = 3
            <4>1. g[n] = a3 /\ g[n - 1] = a2
                BY <3>4
            <4> HIDE DEF g
            <4> QED
                BY <1>6, <3>4, <4>1
        <3> QED
            BY <3>1, <3>2, <3>3, <3>4
    <2>2. g = [n \in 0..k |-> g[n]]
        OBVIOUS
    <2>3. Is(g)
        <3> HIDE DEF g
        <3> QED
            BY <2>1, <2>2
    <2> HIDE DEF Is, g
    <2> QED
        BY <2>3
<1> HIDE DEF w
<1>8. w[0] = a0 /\ \A n \in 1..k : w[n] = Append(Tail(w[n - 1]), bytes[k - n + 1])
    <2>1. w = [n \in 0..k |-> IF n = 0 THEN a0 ELSE Append(Tail(w[n - 1]), bytes[k - n + 1])]
        BY <1>7
    <2>2. \A n \in 0..k : w[n] = IF n = 0 THEN a0 ELSE Append(Tail(w[n - 1]), bytes[k - n + 1])
        BY ONLY <2>1
    <2>3. 0 \in 0..k /\ \A n \in 1..k : n \in 0..k /\ n # 0
        OBVIOUS
    <2> QED
        BY <2>2, <2>3
<1> HIDE DEF Is
<1>9. ASSUME NEW n \in 1..k, w[n - 1] \in Quad(S)
      PROVE  /\ w[n] \in Quad(S)
             /\ \A p \in 1..3 : w[n][p] = w[n - 1][p + 1]
             /\ w[n][4] = bytes[k - n + 1]
    <2>1. PICK u : u = w[n - 1]
        OBVIOUS
    <2>2. PICK y \in S : y = bytes[k - n + 1]
        BY <1>3
    <2>3. u \in Quad(S)
        BY <1>9, <2>1
    <2>4. /\ Append(Tail(u), y) \in Quad(S)
          /\ \A p \in 1..3 : Append(Tail(u), y)[p] = u[p + 1]
          /\ Append(Tail(u), y)[4] = y
        BY <2>3, ShiftOne
    <2>5. w[n] = Append(Tail(u), y)
        BY <1>8, <2>1, <2>2
    <2> QED
        BY <2>1, <2>2, <2>4, <2>5
<1>10. w[0] \in Quad(S) /\ w[0][1] = 0 /\ w[0][2] = 0 /\ w[0][3] = 0 /\ w[0][4] = 128
    BY <1>1, <1>8
<1>11. ASSUME k >= 1
       PROVE  /\ w[1] \in Quad(S)
              /\ w[1][1] = 0 /\ w[1][2] = 0 /\ w[1][3] = 128 /\ w[1][4] = bytes[k]
    <2>1. 1 \in 1..k /\ 1 - 1 = 0 /\ k - 1 + 1 = k
        BY <1>11
    <2>2. w[1 - 1] \in Quad(S)
        BY <1>10, <2>1
    <2>3. w[1] \in Quad(S) /\ (\A p \in 1..3 : w[1][p] = w[0][p + 1]) /\ w[1][4] = bytes[k]
        BY <1>9, <2>1, <2>2
    <2> QED
        BY <1>10, <2>3
<1>12. ASSUME k >= 2
       PROVE  /\ w[2] \in Quad(S)
              /\ w[2][1] = 0 /\ w[2][2] = 128 /\ w[2][3] = bytes[k] /\ w[2][4] = bytes[k - 1]
    <2>0. k >= 1
        BY <1>12
    <2>1. 2 \in 1..k /\ 2 - 1 = 1 /\ k - 2 + 1 = k - 1
        BY <1>12
    <2>2. w[2 - 1] \in Quad(S)
        BY <1>11, <2>0, <2>1
    <2>3. w[2] \in Quad(S) /\ (\A p \in 1..3 : w[2][p] = w[1][p + 1]) /\ w[2][4] = bytes[k - 1]
        BY <1>9, <2>1, <2>2
    <2> QED
        BY <1>11, <2>0, <2>3
<1>13. ASSUME k = 3
       PROVE  /\ w[3] \in Quad(S)
              /\ w[3][1] = 128 /\ w[3][2] = bytes[3] /\ w[3][3] = bytes[2] /\ w[3][4] = bytes[1]
    <2>0. k >= 2
        BY <1>13
    <2>1. 3 \in 1..k /\ 3 - 1 = 2 /\ k - 3 + 1 = 1 /\ k - 1 = 2
        BY <1>13
    <2>2. w[3 - 1] \in Quad(S)
        BY <1>12, <2>0, <2>1
    <2>3. w[3] \in Quad(S) /\ (\A p \in 1..3 : w[3][p] = w[2][p + 1]) /\ w[3][4] = bytes[1]
        BY <1>9, <2>1, <2>2
    <2> QED
        BY <1>12, <1>13, <2>0, <2>1, <2>3
<1>14. \A p \in 1..4 : p = 1 \/ p = 2 \/ p = 3 \/ p = 4
    OBVIOUS
<1>15. PICK v : v = ShiftedIn(bytes)
    OBVIOUS
<1>16. /\ v \in Quad(S)
       /\ v[4] = IF 1 <= k THEN bytes[1] ELSE IF 1 = k + 1 THEN 128 ELSE 0
       /\ v[3] = IF 2 <= k THEN bytes[2] ELSE IF 2 = k + 1 THEN 128 ELSE 0
       /\ v[2] = IF 3 <= k THEN bytes[3] ELSE IF 3 = k + 1 THEN 128 ELSE 0
       /\ v[1] = IF 4 <= k THEN bytes[4] ELSE IF 4 = k + 1 THEN 128 ELSE 0
    <2>1. CASE k = 0
        BY <1>2, <1>10, <1>15, <2>1
    <2>2. CASE k = 1
        BY <1>2, <1>11, <1>15, <2>2
    <2>3. CASE k = 2
        BY <1>2, <1>12, <1>15, <2>3
    <2>4. CASE k = 3
        BY <1>2, <1>13, <1>15, <2>4
    <2> QED
        BY <2>1, <2>2, <2>3, <2>4
<1>17. \A p \in 1..4 : v[5 - p] = IF p <= k THEN bytes[p] ELSE IF p = k + 1 THEN 128 ELSE 0
    BY <1>14, <1>16
<1> QED
    BY <1>15, <1>16, <1>17

\* The last word: what is left of the data, the 1, zeros.
LEMMA LastWordBytes ==
    ASSUME data \in Seq(0..255), NEW read \in 0..Len(data), NEW k \in 0..3,
           k = Len(data) - read, (Len(data) % 4 = 0) <=> (k = 0)
    PROVE  /\ LastWord(read) \in Quad(0..255)
           /\ \A p \in 1..4 : LastWord(read)[5 - p] =
                 IF p <= k THEN data[read + p] ELSE IF p = k + 1 THEN 128 ELSE 0
<1> DEFINE left == Left(read)
<1>1. Len(data) \in Nat /\ read \in Nat
    BY LenProperties
<1>2. left \in Seq(0..255) /\ Len(left) = k /\ \A p \in 1..k : left[p] = data[read + p]
    <2>1. CASE k = 0
        <3>1. left = <<>>
            BY <2>1 DEF Left
        <3>2. Len(left) = 0 /\ left \in Seq(0..255)
            BY <3>1, EmptySeq
        <3> QED
            BY <2>1, <3>2
    <2>2. CASE k # 0
        <3>1. left = SubSeq(data, read + 1, read + k)
            BY <1>1, <2>2 DEF Left
        <3>2. \A x \in read + 1..read + k : data[x] \in 0..255
            <4>1. \A x \in read + 1..read + k : x \in 1..Len(data)
                BY <1>1
            <4> QED
                BY <4>1, ElementOfSeq
        <3>3. /\ left \in Seq(0..255)
              /\ Len(left) = IF read + 1 <= read + k THEN (read + k - (read + 1)) + 1 ELSE 0
              /\ \A p \in 1..(read + k - (read + 1)) + 1 : left[p] = data[((read + 1) + p) - 1]
            BY <1>1, <3>1, <3>2, SubSeqProperties
        <3>4. (read + k - (read + 1)) + 1 = k /\ read + 1 <= read + k
            BY <1>1, <2>2
        <3>5. \A p \in 1..k : ((read + 1) + p) - 1 = read + p
            BY <1>1
        <3> HIDE DEF left
        <3> QED
            BY <3>3, <3>4, <3>5
    <2> QED
        BY <2>1, <2>2
<1> HIDE DEF left
<1>3. /\ ShiftedIn(left) \in Quad(0..255)
      /\ \A p \in 1..4 : ShiftedIn(left)[5 - p] =
            IF p <= k THEN left[p] ELSE IF p = k + 1 THEN 128 ELSE 0
    BY <1>2, ShiftedWord
<1>4. LastWord(read) = ShiftedIn(left)
    BY DEF LastWord, left
<1>5. ASSUME NEW p \in 1..4
      PROVE  ShiftedIn(left)[5 - p] =
                IF p <= k THEN data[read + p] ELSE IF p = k + 1 THEN 128 ELSE 0
    <2>1. CASE p <= k
        <3>1. p \in 1..k
            BY <2>1
        <3> QED
            BY <1>2, <1>3, <3>1
    <2>2. CASE ~(p <= k)
        BY <1>3, <2>2
    <2> QED
        BY <2>1, <2>2
<1> QED
    BY <1>3, <1>4, <1>5

\* What the padded message is made of.
Bytes == (0..255) \cup {EightBytes(8 * Len(data))[b] : b \in 1..8}

\* Two sequences of d and e elements, one behind the other.
Holds(s, n, S) == s \in Seq(S) /\ Len(s) = n

Behind(s, t, d, e, S) ==
    /\ Holds(s \o t, d + e, S)
    /\ \A k \in 1..d : (s \o t)[k] = s[k]
    /\ \A k \in 1..e : (s \o t)[d + k] = t[k]

LEMMA Joined ==
    ASSUME NEW S, NEW s, NEW t, NEW d \in Nat, NEW e \in Nat, Holds(s, d, S), Holds(t, e, S)
    PROVE  Behind(s, t, d, e, S)
<1> USE DEF Holds, Behind
<1>0. PICK c : c = s \o t
    OBVIOUS
<1>1. d \in Nat /\ e \in Nat
    BY LenProperties
<1>2. /\ c \in Seq(S) /\ Len(c) = d + e
      /\ \A k \in 1..d + e : c[k] = IF k <= d THEN s[k] ELSE t[k - d]
    BY <1>0, ConcatProperties
<1>3. \A k \in 1..d : k \in 1..d + e /\ k <= d
    BY <1>1
<1>4. \A k \in 1..e : d + k \in 1..d + e /\ ~(d + k <= d) /\ (d + k) - d = k
    BY <1>1
<1>5. \A k \in 1..d : c[k] = s[k]
    BY <1>2, <1>3
<1>6. \A k \in 1..e : c[d + k] = t[k]
    BY <1>2, <1>4
<1> QED
    BY <1>0, <1>1, <1>2, <1>5, <1>6

LEMMA ZerosFit ==
    ASSUME NEW d \in Nat
    PROVE  (55 - d) % 64 \in 0..63
OBVIOUS

\* The padded message, byte by byte.
Laid(d, z) ==
    /\ z \in 0..63
    /\ Padded \in Seq(Bytes) /\ Len(Padded) = d + 1 + z + 8
    /\ \A k \in 1..d : Padded[k] = data[k]
    /\ Padded[d + 1] = 128
    /\ \A k \in 1..z : Padded[d + 1 + k] = 0
    /\ \A k \in 1..8 : Padded[d + 1 + z + k] = EightBytes(8 * d)[k]

LEMMA PaddedBytes ==
    ASSUME data \in Seq(0..255), NEW d \in Nat, d = Len(data), NEW z \in Nat, z = (55 - d) % 64
    PROVE  Laid(d, z)
<1>1. d \in Nat
    OBVIOUS
<1>2. z \in 0..63
    BY ZerosFit
<1>14. PICK e \in Nat : e = d + 1
    BY <1>1
<1>16. PICK f \in Nat : f = e + z
    BY <1>2, <1>14
<1>3. PICK eight : eight = EightBytes(8 * d)
    OBVIOUS
<1>4. eight \in Tuples(8, Bytes)
    <2>1. \A b \in 1..8 : eight[b] \in Bytes
        BY <1>3 DEF Bytes
    <2>2. eight = [b \in 1..8 |-> eight[b]]
        BY <1>3 DEF EightBytes
    <2> HIDE DEF Bytes
    <2> QED
        BY <2>1, <2>2 DEF Tuples
<1>5. eight \in Seq(Bytes) /\ Len(eight) = 8
    <2>1. 8 \in Nat
        OBVIOUS
    <2> HIDE DEF Bytes
    <2> QED
        BY <1>4, <2>1, TupleIsSeq
<1>6. PICK one : one = <<128>>
    OBVIOUS
<1>7. one \in Seq(Bytes) /\ Len(one) = 1 /\ one[1] = 128
    <2>1. 128 \in Bytes
        BY DEF Bytes
    <2> HIDE DEF Bytes
    <2> QED
        BY <1>6, <2>1
<1>8. PICK zeros : zeros = [b \in 1..z |-> 0]
    OBVIOUS
<1>9. zeros \in Seq(Bytes) /\ Len(zeros) = z /\ \A k \in 1..z : zeros[k] = 0
    <2>1. 0 \in Bytes
        BY DEF Bytes
    <2> HIDE DEF Bytes
    <2>2. zeros \in Tuples(z, Bytes) /\ z \in Nat
        BY <1>2, <1>8, <2>1 DEF Tuples
    <2> QED
        BY <1>8, <2>2, TupleIsSeq
<1>10. data \in Seq(Bytes)
    BY SeqMonotonic DEF Bytes
<1> HIDE DEF Bytes
<1>11. PICK a : a = data \o one
    OBVIOUS
<1>12. a \in Seq(Bytes) /\ Len(a) = d + 1 /\ (\A k \in 1..d : a[k] = data[k]) /\ a[d + 1] = 128
    <2>1. /\ a \in Seq(Bytes) /\ Len(a) = d + 1
          /\ \A k \in 1..d : a[k] = data[k]
          /\ \A k \in 1..1 : a[d + k] = one[k]
        <3>1. Holds(data, d, Bytes) /\ Holds(one, 1, Bytes)
            BY <1>7, <1>10 DEF Holds
        <3>2. /\ Holds(a, d + 1, Bytes)
              /\ \A k \in 1..d : a[k] = data[k]
              /\ \A k \in 1..1 : a[d + k] = one[k]
            <4>1. d \in Nat /\ 1 \in Nat
                BY <1>1, <1>2, <1>14, <1>16
            <4>2. Behind(data, one, d, 1, Bytes)
                BY <3>1, <4>1, Joined
            <4> QED
                BY <1>11, <4>2 DEF Behind
        <3> QED
            BY <3>2 DEF Holds
    <2> QED
        BY <1>7, <2>1
<1>13. PICK b : b = a \o zeros
    OBVIOUS
<1>15. /\ b \in Seq(Bytes) /\ Len(b) = e + z
       /\ \A k \in 1..e : b[k] = a[k]
       /\ \A k \in 1..z : b[e + k] = 0
    <2>1. e = Len(a) /\ z = Len(zeros)
        BY <1>9, <1>12, <1>14
    <2>2. /\ b \in Seq(Bytes) /\ Len(b) = e + z
          /\ \A k \in 1..e : b[k] = a[k]
          /\ \A k \in 1..z : b[e + k] = zeros[k]
        <3>1. Holds(a, e, Bytes) /\ Holds(zeros, z, Bytes)
            BY <1>9, <1>12, <2>1 DEF Holds
        <3>2. /\ Holds(b, e + z, Bytes)
              /\ \A k \in 1..e : b[k] = a[k]
              /\ \A k \in 1..z : b[e + k] = zeros[k]
            <4>1. e \in Nat /\ z \in Nat
                BY <1>1, <1>2, <1>14, <1>16
            <4>2. Behind(a, zeros, e, z, Bytes)
                BY <3>1, <4>1, Joined
            <4> QED
                BY <1>13, <4>2 DEF Behind
        <3> QED
            BY <3>2 DEF Holds
    <2> QED
        BY <1>9, <2>2
<1>17. PICK c : c = b \o eight
    OBVIOUS
<1>18. /\ c \in Seq(Bytes) /\ Len(c) = f + 8
       /\ \A k \in 1..f : c[k] = b[k]
       /\ \A k \in 1..8 : c[f + k] = eight[k]
    <2>1. f = Len(b) /\ 8 = Len(eight)
        BY <1>5, <1>15, <1>16
    <2> QED
        <3>1. Holds(b, f, Bytes) /\ Holds(eight, 8, Bytes)
            BY <1>5, <1>15, <2>1 DEF Holds
        <3>2. /\ Holds(c, f + 8, Bytes)
              /\ \A k \in 1..f : c[k] = b[k]
              /\ \A k \in 1..8 : c[f + k] = eight[k]
            <4>1. f \in Nat /\ 8 \in Nat
                BY <1>1, <1>2, <1>14, <1>16
            <4>2. Behind(b, eight, f, 8, Bytes)
                BY <3>1, <4>1, Joined
            <4> QED
                BY <1>17, <4>2 DEF Behind
        <3> QED
            BY <3>2 DEF Holds
<1>19. c = Padded
    BY <1>3, <1>6, <1>8, <1>11, <1>13, <1>17 DEF Padded
<1>20. \A k \in 1..d : c[k] = data[k]
    <2>1. \A k \in 1..d : k \in 1..e /\ k \in 1..f
        BY <1>1, <1>2, <1>14, <1>16
    <2> QED
        BY <1>12, <1>15, <1>18, <2>1
<1>21. c[d + 1] = 128
    <2>1. e \in 1..e /\ e \in 1..f
        BY <1>1, <1>2, <1>14, <1>16
    <2>2. c[e] = a[e] /\ a[e] = 128
        BY <1>12, <1>14, <1>15, <1>18, <2>1
    <2> QED
        BY <1>14, <2>2
<1>22. \A k \in 1..z : c[d + 1 + k] = 0
    <2>1. \A k \in 1..z : e + k \in 1..f
        BY <1>1, <1>2, <1>14, <1>16
    <2> QED
        BY <1>14, <1>15, <1>18, <2>1
<1> QED
    BY <1>1, <1>2, <1>3, <1>14, <1>16, <1>18, <1>19, <1>20, <1>21, <1>22 DEF Laid

\* The padded message ends with a block, eight bytes before which the size begins.
Ends(d, z) == \E m \in Nat : d + 1 + z = 64 * m + 56

LEMMA PaddedEnds ==
    ASSUME NEW d \in Nat, NEW z, z = (55 - d) % 64
    PROVE  Ends(d, z)
<1>1. d + 1 + z = 64 * (((d + 1 + z) - 56) \div 64) + 56
    OBVIOUS
<1>2. ((d + 1 + z) - 56) \div 64 \in Nat
    OBVIOUS
<1> QED
    BY <1>1, <1>2 DEF Ends

\* A whole word of the data.
LEMMA DataWord ==
    ASSUME data \in Seq(0..255), NEW r \in Nat, r + 4 <= Len(data)
    PROVE  /\ Load(data, r) \in Quad(Bytes)
           /\ \A p \in 1..4 : Load(data, r)[5 - p] = Padded[r + p]
<1>0. PICK d \in Nat : d = Len(data)
    BY LenProperties
<1>1. PICK z \in Nat : z = (55 - d) % 64
    BY ZerosFit
<1>2. \A k \in 1..d : Padded[k] = data[k]
    <2>1. Laid(d, z)
        BY <1>0, <1>1, PaddedBytes
    <2> QED
        BY <2>1 DEF Laid
<1>3. /\ Load(data, r) \in Quad(0..255)
      /\ \A p \in 1..4 : Load(data, r)[5 - p] = data[r + p]
    BY LoadedBytes
<1>4. \A p \in 1..4 : r + p \in 1..d
    BY <1>0
<1>5. Load(data, r) \in Quad(Bytes)
    BY <1>3 DEF Quad, Bytes
<1> QED
    BY <1>2, <1>3, <1>4, <1>5

\* The word the data ends in.
LEMMA FinalWord ==
    ASSUME data \in Seq(0..255), NEW q \in Nat, NEW r \in Nat, r = 4 * q,
           NEW k \in 0..3, Len(data) = r + k
    PROVE  /\ LastWord(r) \in Quad(Bytes)
           /\ \A p \in 1..4 : LastWord(r)[5 - p] = Padded[r + p]
<1>0. PICK d \in Nat : d = Len(data)
    BY LenProperties
<1>1. PICK z \in Nat : z = (55 - d) % 64
    BY ZerosFit
<1>2. PICK m \in Nat : d + 1 + z = 64 * m + 56
    <2>1. Ends(d, z)
        BY <1>1, PaddedEnds
    <2> QED
        BY <2>1 DEF Ends
<1>3. d = r + k
    BY <1>0
<1>4. /\ \A x \in 1..d : Padded[x] = data[x]
      /\ Padded[d + 1] = 128
      /\ \A x \in 1..z : Padded[d + 1 + x] = 0
    <2>1. Laid(d, z)
        BY <1>0, <1>1, PaddedBytes
    <2> QED
        BY <2>1 DEF Laid
<1>5. r \in 0..Len(data) /\ k = Len(data) - r /\ ((Len(data) % 4 = 0) <=> (k = 0))
    <2>1. r \in 0..d /\ k = d - r
        BY <1>3
    <2>2. d % 4 = k
        BY <1>3
    <2> QED
        BY <1>0, <2>1, <2>2
<1>6. PICK v : v = LastWord(r)
    OBVIOUS
<1>7. /\ v \in Quad(0..255)
      /\ \A p \in 1..4 : v[5 - p] =
            IF p <= k THEN data[r + p] ELSE IF p = k + 1 THEN 128 ELSE 0
    BY <1>5, <1>6, LastWordBytes
<1>8. ASSUME NEW p \in 1..4
      PROVE  v[5 - p] = Padded[r + p]
    <2>1. CASE p <= k
        <3>1. r + p \in 1..d
            BY <1>3, <2>1
        <3> QED
            BY <1>4, <1>7, <2>1, <3>1
    <2>2. CASE p = k + 1
        <3>1. r + p = d + 1 /\ ~(p <= k)
            BY <1>3, <2>2
        <3> QED
            BY <1>4, <1>7, <2>2, <3>1
    <2>3. CASE p > k + 1
        <3>1. PICK x \in Int : x = p - k - 1
            OBVIOUS
        <3>2. r + p = d + 1 + x /\ x >= 1
            BY <1>3, <2>3, <3>1
        <3>3. x <= z
            <4>1. 4 * q + k + 1 + z = 64 * m + 56
                BY <1>2, <1>3
            <4>2. 4 * q + 4 <= 64 * m + 56
                BY <4>1
            <4> QED
                BY <3>1, <4>1, <4>2
        <3>4. x \in 1..z /\ ~(p <= k) /\ p # k + 1
            BY <2>3, <3>2, <3>3
        <3>5. Padded[r + p] = 0
            <4>1. Padded[d + 1 + x] = 0
                BY <1>4, <3>4
            <4> QED
                BY <3>2, <4>1
        <3> QED
            BY <1>7, <3>4, <3>5
    <2> QED
        BY <2>1, <2>2, <2>3
<1>9. v \in Quad(Bytes)
    BY <1>7 DEF Quad, Bytes
<1> QED
    BY <1>6, <1>8, <1>9

\* The block with number n of the padded message.
Cut(n) == SubSeq(Padded, 64 * (n - 1) + 1, 64 * n)

\* What is written of the block behind the first n.
Copies(words, n) ==
    \A w \in 1..Len(words), p \in 1..4 : words[w][5 - p] = Padded[64 * n + 4 * (w - 1) + p]

\* Sixteen words of it, swapped, are the block.
LEMMA WholeBlock ==
    ASSUME Padded \in Seq(Bytes), NEW n \in Nat, 64 * n + 64 <= Len(Padded),
           NEW words \in Seq(Quad(Bytes)), Len(words) = 16, Copies(words, n)
    PROVE  /\ SwappedBytes(words) = Cut(n + 1)
           /\ Cut(n + 1) \in Seq(Bytes)
<1>1. PICK block : block = SwappedBytes(words)
    OBVIOUS
<1>2. /\ block \in Seq(Bytes) /\ Len(block) = 64
      /\ \A w \in 1..16, p \in 1..4 : block[4 * (w - 1) + p] = words[w][5 - p]
    <2>1. IsBlock(SwappedBytes(words), words, Bytes)
        BY BlockBytes
    <2> QED
        BY <1>1, <2>1 DEF IsBlock
<1>3. PICK l \in Nat : l = Len(Padded)
    BY LenProperties
<1>4. PICK from \in Nat : from = 64 * n + 1
    OBVIOUS
<1>5. PICK to \in Nat : to = 64 * n + 64
    OBVIOUS
<1>6. PICK cut : cut = SubSeq(Padded, from, to)
    OBVIOUS
<1>7. cut = Cut(n + 1)
    <2>1. 64 * ((n + 1) - 1) + 1 = from /\ 64 * (n + 1) = to
        BY <1>4, <1>5
    <2> QED
        BY <1>6, <2>1 DEF Cut
<1>8. /\ cut \in Seq(Bytes) /\ Len(cut) = 64
      /\ \A b \in 1..64 : cut[b] = Padded[64 * n + b]
    <2>1. \A k \in from..to : Padded[k] \in Bytes
        <3>1. \A k \in from..to : k \in 1..l
            BY <1>3, <1>4, <1>5
        <3> QED
            BY <1>3, <3>1, ElementOfSeq
    <2>2. /\ cut \in Seq(Bytes)
          /\ Len(cut) = IF from <= to THEN (to - from) + 1 ELSE 0
          /\ \A b \in 1..(to - from) + 1 : cut[b] = Padded[(from + b) - 1]
        BY <1>6, <2>1, SubSeqProperties
    <2>3. (to - from) + 1 = 64 /\ from <= to
        BY <1>4, <1>5
    <2>4. \A b \in 1..64 : (from + b) - 1 = 64 * n + b
        BY <1>4
    <2>5. \A b \in 1..64 : cut[b] = Padded[(from + b) - 1]
        BY <2>2, <2>3
    <2> QED
        BY <2>2, <2>3, <2>4, <2>5
<1>9. ASSUME NEW b \in 1..64
      PROVE  block[b] = cut[b]
    <2>1. PICK w \in 1..16 : w = (b - 1) \div 4 + 1
        OBVIOUS
    <2>2. PICK p \in 1..4 : p = b - 4 * (w - 1)
        BY <2>1
    <2>3. b = 4 * (w - 1) + p
        BY <2>2
    <2>4. block[b] = words[w][5 - p]
        BY <1>2, <2>3
    <2>5. words[w][5 - p] = Padded[64 * n + 4 * (w - 1) + p]
        BY DEF Copies
    <2>6. 64 * n + 4 * (w - 1) + p = 64 * n + b
        BY <2>3
    <2> QED
        BY <1>8, <2>4, <2>5, <2>6
<1>10. block = cut
    <2>1. Len(block) = Len(cut) /\ \A b \in 1..Len(block) : block[b] = cut[b]
        BY <1>2, <1>8, <1>9
    <2> QED
        BY <1>2, <1>8, <2>1, SeqEqual
<1> QED
    BY <1>1, <1>7, <1>8, <1>10

\* The d bytes of the data, the 1 and z zeros end 8 bytes before the end of block m.
Plan(d, z, m) == d = Len(data) /\ Laid(d, z) /\ d + 1 + z = 64 * m + 56

LEMMA PlanExists ==
    ASSUME data \in Seq(0..255)
    PROVE  \E d \in Nat, z \in Nat, m \in Nat : Plan(d, z, m)
<1>1. PICK d \in Nat : d = Len(data)
    BY LenProperties
<1>2. PICK z \in Nat : z = (55 - d) % 64
    BY ZerosFit
<1>3. PICK m \in Nat : d + 1 + z = 64 * m + 56
    <2>1. Ends(d, z)
        BY <1>2, PaddedEnds
    <2> QED
        BY <2>1 DEF Ends
<1>4. Laid(d, z)
    BY <1>1, <1>2, PaddedBytes
<1> QED
    BY <1>1, <1>3, <1>4 DEF Plan

\* Words behind the others.
LEMMA CopiesBehind ==
    ASSUME NEW n \in Nat, NEW c \in Nat, NEW e \in Nat, NEW s, NEW t,
           Holds(s, c, Quad(Bytes)), Holds(t, e, Quad(Bytes)), Copies(s, n),
           \A w \in 1..e, p \in 1..4 : t[w][5 - p] = Padded[64 * n + 4 * c + 4 * (w - 1) + p]
    PROVE  Holds(s \o t, c + e, Quad(Bytes)) /\ Copies(s \o t, n)
<1>1. Behind(s, t, c, e, Quad(Bytes))
    BY Joined
<1>2. PICK u : u = s \o t
    OBVIOUS
<1>3. /\ Holds(u, c + e, Quad(Bytes))
      /\ \A k \in 1..c : u[k] = s[k]
      /\ \A k \in 1..e : u[c + k] = t[k]
    BY <1>1, <1>2 DEF Behind
<1>4. Len(u) = c + e /\ Len(s) = c
    BY <1>3 DEF Holds
<1>5. ASSUME NEW w \in 1..c + e, NEW p \in 1..4
      PROVE  u[w][5 - p] = Padded[64 * n + 4 * (w - 1) + p]
    <2>1. CASE w <= c
        <3>1. w \in 1..c
            BY <2>1
        <3>2. s[w][5 - p] = Padded[64 * n + 4 * (w - 1) + p]
            BY <1>4, <3>1 DEF Copies
        <3> QED
            BY <1>3, <3>1, <3>2
    <2>2. CASE ~(w <= c)
        <3>1. PICK k \in 1..e : w = c + k
            <4>1. w - c \in 1..e /\ w = c + (w - c)
                BY <2>2
            <4> QED
                BY <4>1
        <3>2. t[k][5 - p] = Padded[64 * n + 4 * c + 4 * (k - 1) + p]
            OBVIOUS
        <3>3. 64 * n + 4 * c + 4 * (k - 1) + p = 64 * n + 4 * (w - 1) + p
            BY <3>1
        <3>4. u[w] = t[k]
            BY <1>3, <3>1
        <3> QED
            BY <3>2, <3>3, <3>4
    <2> QED
        BY <2>1, <2>2
<1>6. Copies(u, n)
    BY <1>4, <1>5 DEF Copies
<1> QED
    BY <1>2, <1>3, <1>6

\* Behind the data and the 1 there is room for the size in the same block or else in
\* the next one.
LEMMA BlocksNeeded ==
    ASSUME NEW d \in Nat, NEW z \in 0..63, NEW m \in Nat, NEW n \in Nat, NEW c \in 0..16,
           d + 1 + z = 64 * m + 56, d < 64 * n + 4 * c,
           \/ c = 0 /\ m = n
           \/ c > 0 /\ 64 * n + 4 * (c - 1) <= d
    PROVE  /\ c <= 14 => m = n
           /\ c > 14 => m = n + 1
OBVIOUS

\* Where the zeros behind c words of block n end, when the size ends block m.
Fits(c, l, m, n) ==
    \/ c <= 14 /\ l = 14 /\ m = n
    \/ c > 14 /\ l = 16 /\ m = n + 1

\* The zeros.
LEMMA ZerosCopied ==
    ASSUME NEW d \in Nat, NEW z \in Nat, NEW m \in Nat, NEW n \in Nat, NEW c \in 0..16,
           Plan(d, z, m), NEW words, Holds(words, c, Quad(Bytes)), Copies(words, n),
           d < 64 * n + 4 * c, NEW l \in Nat, Fits(c, l, m, n)
    PROVE  Holds(PadZeros(words), l, Quad(Bytes)) /\ Copies(PadZeros(words), n)
<1>0. /\ c <= 14 => l = 14 /\ m = n
      /\ c > 14 => l = 16 /\ m = n + 1
    BY DEF Fits
<1>1. PICK e \in Nat : e = l - c
    BY <1>0
<1>2. PICK zero : zero = <<0, 0, 0, 0>>
    OBVIOUS
<1>3. zero \in Quad(Bytes) /\ \A p \in 1..4 : zero[5 - p] = 0
    <2>1. zero \in [1..4 -> {0}] /\ \A p \in 1..4 : 5 - p \in 1..4
        BY <1>2
    <2>2. {0} \subseteq Bytes
        BY DEF Bytes
    <2> QED
        BY <2>1, <2>2 DEF Quad
<1>4. PICK t : t = [w \in 1..e |-> zero]
    OBVIOUS
<1>5. PadZeros(words) = words \o t
    <2>1. Len(words) = c
        BY DEF Holds
    <2>2. (WORDS_IN_MESSAGE - (IF WORDS_IN_MESSAGE - c >= SIZE_SPANS_WORDS
                               THEN SIZE_SPANS_WORDS ELSE 0)) - c = e
        BY <1>0, <1>1 DEF WORDS_IN_MESSAGE, SIZE_SPANS_WORDS
    <2> QED
        BY <1>2, <1>4, <2>1, <2>2 DEF PadZeros
<1>6. Holds(t, e, Quad(Bytes))
    <2>1. t \in Tuples(e, Quad(Bytes))
        BY <1>3, <1>4 DEF Tuples
    <2> QED
        BY <2>1, TupleIsSeq DEF Holds
<1>7. ASSUME NEW w \in 1..e, NEW p \in 1..4
      PROVE  t[w][5 - p] = Padded[64 * n + 4 * c + 4 * (w - 1) + p]
    <2>1. PICK x \in Int : x = 64 * n + 4 * c + 4 * (w - 1) + p - (d + 1)
        OBVIOUS
    <2>2. d + 1 + z = 64 * m + 56
        BY DEF Plan
    <2>3. x >= 1
        BY <2>1
    <2>4. c + w <= l
        BY <1>1
    <2>5. x <= z
        BY <1>0, <2>1, <2>2, <2>4
    <2>6. Padded[d + 1 + x] = 0
        <3>1. x \in 1..z
            BY <2>3, <2>5
        <3>2. \A k \in 1..z : Padded[d + 1 + k] = 0
            BY DEF Plan, Laid
        <3> QED
            BY <3>1, <3>2
    <2>7. d + 1 + x = 64 * n + 4 * c + 4 * (w - 1) + p
        BY <2>1
    <2> QED
        BY <1>3, <1>4, <2>6, <2>7
<1>8. Holds(words \o t, c + e, Quad(Bytes)) /\ Copies(words \o t, n)
    <2>1. c \in Nat /\ \A w \in 1..e, p \in 1..4 :
                              t[w][5 - p] = Padded[64 * n + 4 * c + 4 * (w - 1) + p]
        BY <1>7
    <2> QED
        BY <1>6, <2>1, CopiesBehind
<1>9. c + e = l
    BY <1>1
<1> QED
    BY <1>5, <1>8, <1>9

\* The size.
LEMMA SizeCopied ==
    ASSUME NEW d \in Nat, NEW z \in Nat, NEW n \in Nat, Plan(d, z, n),
           NEW words, Holds(words, 14, Quad(Bytes)), Copies(words, n)
    PROVE  Holds(words \o SizeWords, 16, Quad(Bytes)) /\ Copies(words \o SizeWords, n)
<1>1. PICK memory : memory = EightBytes(8 * d)
    OBVIOUS
<1>2. memory \in Seq(Bytes) /\ Len(memory) = 8
    <2>1. \A b \in 1..8 : memory[b] \in Bytes
        <3>1. d = Len(data)
            BY DEF Plan
        <3> QED
            BY <1>1, <3>1 DEF Bytes
    <2>2. memory = [b \in 1..8 |-> memory[b]]
        BY <1>1 DEF EightBytes
    <2>3. memory \in Tuples(8, Bytes)
        BY <2>1, <2>2 DEF Tuples
    <2>4. 8 \in Nat
        OBVIOUS
    <2> QED
        BY <2>3, <2>4, TupleIsSeq
<1>3. PICK high : high = Load(memory, 0)
    OBVIOUS
<1>4. PICK low : low = Load(memory, 4)
    OBVIOUS
<1>5. SizeWords = <<high, low>>
    <2>1. Len(data) = d
        BY DEF Plan
    <2>2. d * 8 = 8 * d
        OBVIOUS
    <2>3. EightBytes(Len(data) * 8) = memory
        BY <1>1, <2>1, <2>2
    <2> QED
        BY <1>3, <1>4, <2>3 DEF SizeWords
<1>6. high \in Quad(Bytes) /\ \A p \in 1..4 : high[5 - p] = memory[0 + p]
    <2>1. 0 \in Nat /\ 0 + 4 <= Len(memory)
        BY <1>2
    <2> QED
        BY <1>2, <1>3, <2>1, LoadedBytes
<1>7. low \in Quad(Bytes) /\ \A p \in 1..4 : low[5 - p] = memory[4 + p]
    <2>1. 4 \in Nat /\ 4 + 4 <= Len(memory)
        BY <1>2
    <2> QED
        BY <1>2, <1>4, <2>1, LoadedBytes
<1>8. PICK t : t = SizeWords
    OBVIOUS
<1>9. Holds(t, 2, Quad(Bytes)) /\ t[1] = high /\ t[2] = low
    BY <1>5, <1>6, <1>7, <1>8 DEF Holds
<1>10. ASSUME NEW w \in 1..2, NEW p \in 1..4
       PROVE  t[w][5 - p] = Padded[64 * n + 4 * 14 + 4 * (w - 1) + p]
    <2>1. PICK k \in 1..8 : k = 4 * (w - 1) + p
        OBVIOUS
    <2>2. Padded[d + 1 + z + k] = memory[k]
        BY <1>1 DEF Plan, Laid
    <2>3. d + 1 + z + k = 64 * n + 4 * 14 + 4 * (w - 1) + p
        <3>1. d + 1 + z = 64 * n + 56
            BY DEF Plan
        <3> QED
            BY <2>1, <3>1
    <2>4. t[w][5 - p] = memory[k]
        <3>1. CASE w = 1
            <4>1. k = 0 + p
                BY <2>1, <3>1
            <4> QED
                BY <1>6, <1>9, <3>1, <4>1
        <3>2. CASE w = 2
            <4>1. k = 4 + p
                BY <2>1, <3>2
            <4> QED
                BY <1>7, <1>9, <3>2, <4>1
        <3> QED
            BY <3>1, <3>2
    <2> QED
        BY <2>2, <2>3, <2>4
<1>11. Holds(words \o t, 14 + 2, Quad(Bytes)) /\ Copies(words \o t, n)
    <2>1. 14 \in Nat /\ 2 \in Nat
        OBVIOUS
    <2> QED
        BY <1>9, <1>10, <2>1, CopiesBehind
<1> QED
    BY <1>8, <1>11

\* Between the calls: the blocks so far are the first of the padded message, and each
\* stage knows how much of it is left.
CutInv ==
    /\ data \in Messages
    /\ bytes_read \in Nat
    /\ blocks \in Seq(Seq(Bytes))
    /\ \A k \in 1..Len(blocks) : blocks[k] = Cut(k)
    /\ stage \in Stages
    /\ stage \in {"WRITE_COMPLETED_WORDS", "WRITE_LAST_WORD"} =>
           bytes_read = 64 * Len(blocks) /\ bytes_read <= Len(data)
    /\ stage = "WRITE_LAST_WORD" => Len(data) - bytes_read \in 0..3
    /\ stage = "WRITE_PADDING_ZEROS" =>
           Len(data) < 64 * Len(blocks) /\ Len(Padded) = 64 * (Len(blocks) + 1)
    /\ stage = "FINISHED" => Len(Padded) = 64 * Len(blocks)

\* The c words in hand go past the data, and all but the last of them do not.
InHand(words, c, n, d, m) ==
    /\ Holds(words, c, Quad(Bytes))
    /\ Copies(words, n)
    /\ d < 64 * n + 4 * c
    /\ \/ c = 0 /\ m = n
       \/ c > 0 /\ 64 * n + 4 * (c - 1) <= d

\* The whole words left of the data.
LEMMA WholeWords ==
    ASSUME data \in Seq(0..255), NEW d \in Nat, d = Len(data), NEW n \in Nat,
           NEW c \in 0..16, bytes_read = 64 * n, 64 * n + 4 * c <= d
    PROVE  /\ Holds(WriteCompletedWords(c), c, Quad(Bytes))
           /\ Copies(WriteCompletedWords(c), n)
<1>1. PICK s : s = WriteCompletedWords(c)
    OBVIOUS
<1>2. s = [w \in 1..c |-> Load(data, 64 * n + 4 * (w - 1))]
    BY <1>1 DEF WriteCompletedWords
<1>3. ASSUME NEW w \in 1..c
      PROVE  /\ s[w] \in Quad(Bytes)
             /\ \A p \in 1..4 : s[w][5 - p] = Padded[64 * n + 4 * (w - 1) + p]
    <2>1. PICK r \in Nat : r = 64 * n + 4 * (w - 1)
        OBVIOUS
    <2>2. r + 4 <= d
        BY <2>1
    <2>3. r + 4 <= Len(data)
        BY <2>2
    <2>4. /\ Load(data, r) \in Quad(Bytes)
          /\ \A p \in 1..4 : Load(data, r)[5 - p] = Padded[r + p]
        BY <2>3, DataWord
    <2>5. s[w] = Load(data, r)
        BY <1>2, <2>1
    <2> QED
        BY <2>1, <2>4, <2>5
<1>4. Holds(s, c, Quad(Bytes))
    <2>1. s \in Tuples(c, Quad(Bytes)) /\ c \in Nat
        BY <1>2, <1>3 DEF Tuples
    <2> QED
        BY <2>1, TupleIsSeq DEF Holds
<1>5. Copies(s, n)
    <2>1. Len(s) = c
        BY <1>4 DEF Holds
    <2> QED
        BY <1>3, <2>1 DEF Copies
<1> QED
    BY <1>1, <1>4, <1>5

\* What is written before the padding.
LEMMA UnpaddedCopies ==
    ASSUME CutInv, PaddedBlock, NEW d \in Nat, NEW z \in Nat, NEW m \in Nat, Plan(d, z, m),
           NEW n \in Nat, n = Len(blocks)
    PROVE  \E c \in 0..16 : InHand(Unpadded.words, c, n, d, m)
<1>1. data \in Seq(0..255)
    BY MessagesAssumption DEF CutInv
<1>2. d = Len(data) /\ d + 1 + z = 64 * m + 56 /\ z \in 0..63 /\ Len(Padded) = d + 1 + z + 8
    BY DEF Plan, Laid
<1>3. CASE stage = "WRITE_COMPLETED_WORDS"
    <2>1. bytes_read = 64 * n /\ 64 * n <= d
        BY <1>2, <1>3 DEF CutInv
    <2>2. PICK c \in 0..15 : c = (d - 64 * n) \div 4
        <3>1. CompletedWords = (d - 64 * n) \div 4 /\ ~(CompletedWords >= 16)
            BY <1>2, <1>3, <2>1 DEF CompletedWords, PaddedBlock, WORDS_IN_MESSAGE
        <3>2. (d - 64 * n) \div 4 \in 0..15
            <4>1. PICK x \in Nat : x = d - 64 * n
                BY <2>1
            <4>2. PICK y \in Nat : y = x \div 4
                OBVIOUS
            <4>3. CompletedWords = y /\ ~(CompletedWords >= 16)
                BY <3>1, <4>1, <4>2
            <4>4. y \in 0..15
                BY <4>3
            <4> QED
                BY <4>1, <4>2, <4>4
        <3> QED
            BY <3>2
    <2>3. PICK q \in Nat : q = 16 * n + c
        OBVIOUS
    <2>4. PICK r \in Nat : r = 4 * q
        OBVIOUS
    <2>5. PICK k \in 0..3 : d = r + k
        <3>1. d - r \in 0..3
            BY <2>1, <2>2, <2>3, <2>4
        <3>2. d = r + (d - r)
            BY <2>4
        <3> QED
            BY <3>1, <3>2
    <2>6. CompletedWords = c
        BY <1>2, <2>1, <2>2 DEF CompletedWords
    <2>7. Unpadded.words = Append(WriteCompletedWords(c), LastWord(r))
        <3>1. bytes_read + 4 * c = r
            BY <2>1, <2>3, <2>4
        <3> QED
            BY <1>3, <2>6, <3>1 DEF Unpadded
    <2>8. PICK s : s = WriteCompletedWords(c)
        OBVIOUS
    <2>9. Holds(s, c, Quad(Bytes)) /\ Copies(s, n)
        <3>1. c \in 0..16 /\ 64 * n + 4 * c <= d
            BY <2>3, <2>4, <2>5
        <3> QED
            BY <1>1, <1>2, <2>1, <2>8, <3>1, WholeWords
    <2>10. PICK last : last = LastWord(r)
        OBVIOUS
    <2>11. last \in Quad(Bytes) /\ \A p \in 1..4 : last[5 - p] = Padded[r + p]
        BY <1>1, <1>2, <2>4, <2>5, <2>10, FinalWord
    <2>12. Append(s, last) = s \o <<last>>
        BY <2>9, <2>11, AppendIsConcat DEF Holds
    <2>13. PICK t : t = <<last>>
        OBVIOUS
    <2>14. Holds(t, 1, Quad(Bytes)) /\ t[1] = last
        BY <2>11, <2>13 DEF Holds
    <2>15. ASSUME NEW w \in 1..1, NEW p \in 1..4
           PROVE  t[w][5 - p] = Padded[64 * n + 4 * c + 4 * (w - 1) + p]
        <3>1. 64 * n + 4 * c + 4 * (w - 1) + p = r + p
            BY <2>3, <2>4
        <3> QED
            BY <2>11, <2>14, <3>1
    <2>16. Holds(s \o t, c + 1, Quad(Bytes)) /\ Copies(s \o t, n)
        <3>1. c \in Nat /\ 1 \in Nat
            OBVIOUS
        <3>2. \A w \in 1..1, p \in 1..4 : t[w][5 - p] = Padded[64 * n + 4 * c + 4 * (w - 1) + p]
            BY <2>15
        <3> QED
            BY <2>9, <2>14, <3>1, <3>2, CopiesBehind
    <2>17. PICK e \in 0..16 : e = c + 1
        OBVIOUS
    <2>18. Unpadded.words = s \o t
        BY <2>7, <2>8, <2>10, <2>12, <2>13
    <2>19. d < 64 * n + 4 * e /\ e > 0 /\ 64 * n + 4 * (e - 1) <= d
        BY <2>3, <2>4, <2>5, <2>17
    <2>20. InHand(Unpadded.words, e, n, d, m)
        BY <2>16, <2>17, <2>18, <2>19 DEF InHand
    <2> QED
        BY <2>20
<1>4. CASE stage = "WRITE_LAST_WORD"
    <2>1. bytes_read = 64 * n /\ d - 64 * n \in 0..3
        BY <1>2, <1>4 DEF CutInv
    <2>2. PICK r \in Nat : r = 64 * n
        OBVIOUS
    <2>3. PICK q \in Nat : r = 4 * q
        <3>1. 16 * n \in Nat /\ r = 4 * (16 * n)
            BY <2>2
        <3> QED
            BY <3>1
    <2>4. PICK k \in 0..3 : d = r + k
        <3>1. d - r \in 0..3 /\ d = r + (d - r)
            BY <2>1, <2>2
        <3> QED
            BY <3>1
    <2>5. PICK last : last = LastWord(r)
        OBVIOUS
    <2>6. last \in Quad(Bytes) /\ \A p \in 1..4 : last[5 - p] = Padded[r + p]
        BY <1>1, <1>2, <2>3, <2>4, <2>5, FinalWord
    <2>7. PICK t : t = Unpadded.words
        OBVIOUS
    <2>8. Holds(t, 1, Quad(Bytes)) /\ t[1] = last
        <3>1. t = <<last>>
            BY <1>4, <2>1, <2>2, <2>5, <2>7 DEF Unpadded
        <3> QED
            BY <2>6, <3>1 DEF Holds
    <2>9. Copies(t, n)
        <3>1. Len(t) = 1
            BY <2>8 DEF Holds
        <3>2. ASSUME NEW w \in 1..1, NEW p \in 1..4
              PROVE  t[w][5 - p] = Padded[64 * n + 4 * (w - 1) + p]
            <4>1. 64 * n + 4 * (w - 1) + p = r + p
                BY <2>2
            <4> QED
                BY <2>6, <2>8, <4>1
        <3> QED
            BY <3>1, <3>2 DEF Copies
    <2>10. d < 64 * n + 4 * 1 /\ 1 > 0 /\ 64 * n + 4 * (1 - 1) <= d
        BY <2>2, <2>4
    <2>11. InHand(t, 1, n, d, m)
        BY <2>8, <2>9, <2>10 DEF InHand
    <2> QED
        BY <2>7, <2>11
<1>5. CASE stage = "WRITE_PADDING_ZEROS"
    <2>1. d < 64 * n /\ 64 * m + 56 + 8 = 64 * (n + 1)
        BY <1>2, <1>5 DEF CutInv
    <2>2. m = n
        BY <2>1
    <2>3. Unpadded.words = <<>>
        BY <1>5 DEF Unpadded
    <2>4. Holds(<<>>, 0, Quad(Bytes))
        BY EmptySeq DEF Holds
    <2>5. Copies(<<>>, n)
        BY DEF Copies
    <2>6. InHand(Unpadded.words, 0, n, d, m)
        BY <2>1, <2>2, <2>3, <2>4, <2>5 DEF InHand
    <2> QED
        BY <2>6
<1> QED
    BY <1>3, <1>4, <1>5 DEF CutInv, Stages, PaddedBlock

\* A call that finishes a block: it is the next one of the padded message.
Grown(n) ==
    /\ data' = data
    /\ blocks' \in Seq(Seq(Bytes))
    /\ Len(blocks') = n + 1
    /\ \A k \in 1..n + 1 : blocks'[k] = Cut(k)

LEMMA BlockAppended ==
    ASSUME CutInv, NEW n \in Nat, n = Len(blocks), NEW words, Holds(words, 16, Quad(Bytes)),
           Copies(words, n), Padded \in Seq(Bytes), 64 * n + 64 <= Len(Padded), Finish(words)
    PROVE  Grown(n)
<1>1. words \in Seq(Quad(Bytes)) /\ Len(words) = 16
    BY DEF Holds
<1>2. SwappedBytes(words) = Cut(n + 1) /\ Cut(n + 1) \in Seq(Bytes)
    BY <1>1, WholeBlock
<1>3. PICK block : block = Cut(n + 1)
    OBVIOUS
<1>4. blocks' = Append(blocks, block) /\ data' = data
    BY <1>2, <1>3 DEF Finish, SwappedBytes
<1>5. block \in Seq(Bytes)
    BY <1>2, <1>3
<1>6. PICK s : s = blocks
    OBVIOUS
<1>7. s \in Seq(Seq(Bytes)) /\ Len(s) = n /\ \A k \in 1..n : s[k] = Cut(k)
    BY <1>6 DEF CutInv
<1>8. PICK u : u = Append(s, block)
    OBVIOUS
<1>9. u \in Seq(Seq(Bytes)) /\ Len(u) = n + 1 /\ (\A k \in 1..n : u[k] = s[k]) /\ u[n + 1] = block
    <2>1. /\ Append(s, block) \in Seq(Seq(Bytes))
          /\ Append(s, block) # <<>>
          /\ Len(Append(s, block)) = Len(s) + 1
          /\ \A k \in 1..Len(s) : Append(s, block)[k] = s[k]
          /\ Append(s, block)[Len(s) + 1] = block
        BY <1>5, <1>7, AppendProperties
    <2> QED
        BY <1>7, <1>8, <2>1
<1>10. ASSUME NEW k \in 1..n + 1
       PROVE  u[k] = Cut(k)
    <2>1. CASE k = n + 1
        BY <1>3, <1>9, <2>1
    <2>2. CASE k # n + 1
        <3>1. k \in 1..n
            BY <2>2
        <3> QED
            BY <1>7, <1>9, <3>1
    <2> QED
        BY <2>1, <2>2
<1> QED
    BY <1>4, <1>6, <1>8, <1>9, <1>10 DEF Grown

\* It leaves the next stage what that one relies on.
LEMMA StageReached ==
    ASSUME CutInv, NEW n \in Nat, n = Len(blocks), Grown(n), bytes_read' \in Nat,
           NEW d \in Nat, NEW z \in Nat, NEW m \in Nat, Plan(d, z, m),
           \/ /\ stage' \in {"WRITE_COMPLETED_WORDS", "WRITE_LAST_WORD"}
              /\ bytes_read' = 64 * (n + 1) /\ bytes_read' <= d
              /\ stage' = "WRITE_LAST_WORD" => d - bytes_read' \in 0..3
           \/ stage' = "WRITE_PADDING_ZEROS" /\ d < 64 * (n + 1) /\ m = n + 1
           \/ stage' = "FINISHED" /\ m = n
    PROVE  CutInv'
<1>1. d = Len(data) /\ d + 1 + z = 64 * m + 56 /\ Len(Padded) = d + 1 + z + 8
    BY DEF Plan, Laid
<1>2. PICK l \in Nat : l = Len(Padded)
    BY <1>1
<1>3. Padded' = Padded /\ Bytes' = Bytes
    BY DEF Grown, Padded, Bytes
<1>4. \A k \in 1..n + 1 : blocks'[k] = Cut(k)'
    BY <1>3 DEF Grown, Cut
<1>5. data' \in Messages /\ blocks' \in Seq(Seq(Bytes')) /\ Len(blocks') = n + 1 /\ data' = data
    BY <1>3 DEF Grown, CutInv
<1>6. CASE /\ stage' \in {"WRITE_COMPLETED_WORDS", "WRITE_LAST_WORD"}
           /\ bytes_read' = 64 * (n + 1) /\ bytes_read' <= d
           /\ stage' = "WRITE_LAST_WORD" => d - bytes_read' \in 0..3
    BY <1>1, <1>4, <1>5, <1>6 DEF CutInv, Stages
<1>7. CASE stage' = "WRITE_PADDING_ZEROS" /\ d < 64 * (n + 1) /\ m = n + 1
    <2>1. Len(Padded') = 64 * ((n + 1) + 1)
        BY <1>1, <1>2, <1>3, <1>7
    <2> QED
        BY <1>1, <1>4, <1>5, <1>7, <2>1 DEF CutInv, Stages
<1>8. CASE stage' = "FINISHED" /\ m = n
    <2>1. Len(Padded') = 64 * (n + 1)
        BY <1>1, <1>2, <1>3, <1>8
    <2> QED
        BY <1>4, <1>5, <1>8, <2>1 DEF CutInv, Stages
<1> QED
    BY <1>6, <1>7, <1>8

\* The block that is finished has sixteen words.
FinishesWhole == \E words : Finish(words) /\ Len(words) = 16

LEMMA DataBlockCut == ASSUME CutInv, DataBlock PROVE CutInv' /\ FinishesWhole
<1>1. data \in Seq(0..255)
    BY MessagesAssumption DEF CutInv
<1>2. PICK d \in Nat, z \in Nat, m \in Nat : Plan(d, z, m)
    BY <1>1, PlanExists
<1>3. d = Len(data) /\ Padded \in Seq(Bytes) /\ Len(Padded) = d + 1 + z + 8
    BY <1>2 DEF Plan, Laid
<1>4. PICK n \in Nat : n = Len(blocks)
    BY LenProperties DEF CutInv
<1>5. bytes_read = 64 * n /\ 64 * n <= d
    BY <1>3, <1>4 DEF CutInv, DataBlock
<1>6. PICK x \in Nat : x = d - 64 * n
    BY <1>5
<1>7. CompletedWords = x \div 4 /\ x \div 4 >= 16
    BY <1>3, <1>5, <1>6 DEF CompletedWords, DataBlock, WORDS_IN_MESSAGE
<1>8. x >= 64
    BY <1>7
<1>9. PICK words : words = WriteCompletedWords(16)
    OBVIOUS
<1>10. Finish(words) /\ bytes_read' = bytes_read + 64
       /\ stage' = IF x \div 4 = 16 THEN "WRITE_LAST_WORD" ELSE "WRITE_COMPLETED_WORDS"
    BY <1>7, <1>9 DEF DataBlock, WORDS_IN_MESSAGE
<1>11. Holds(words, 16, Quad(Bytes)) /\ Copies(words, n)
    <2>1. 16 \in 0..16 /\ 64 * n + 4 * 16 <= d
        BY <1>6, <1>8
    <2> QED
        BY <1>1, <1>3, <1>5, <1>9, <2>1, WholeWords
<1>12. Grown(n)
    <2>1. 64 * n + 64 <= Len(Padded)
        BY <1>3, <1>6, <1>8
    <2> QED
        BY <1>3, <1>4, <1>10, <1>11, <2>1, BlockAppended
<1>13. bytes_read' \in Nat /\ bytes_read' = 64 * (n + 1) /\ bytes_read' <= d
    BY <1>5, <1>6, <1>8, <1>10
<1>14. stage' = "WRITE_LAST_WORD" => d - bytes_read' \in 0..3
    <2>1. ASSUME x \div 4 = 16 PROVE x - 64 \in 0..3
        BY <2>1
    <2> QED
        BY <1>6, <1>10, <1>13, <2>1
<1>15. stage' \in {"WRITE_COMPLETED_WORDS", "WRITE_LAST_WORD"}
    BY <1>10
<1>16. FinishesWhole
    BY <1>10, <1>11 DEF FinishesWhole, Holds
<1> QED
    BY <1>2, <1>4, <1>12, <1>13, <1>14, <1>15, <1>16, StageReached

LEMMA PaddedBlockCut == ASSUME CutInv, PaddedBlock PROVE CutInv' /\ FinishesWhole
<1>1. data \in Seq(0..255)
    BY MessagesAssumption DEF CutInv
<1>2. PICK d \in Nat, z \in Nat, m \in Nat : Plan(d, z, m)
    BY <1>1, PlanExists
<1>3. /\ d = Len(data) /\ Padded \in Seq(Bytes) /\ Len(Padded) = d + 1 + z + 8
      /\ d + 1 + z = 64 * m + 56 /\ z \in 0..63
    BY <1>2 DEF Plan, Laid
<1>4. PICK n \in Nat : n = Len(blocks)
    BY LenProperties DEF CutInv
<1>5. PICK c \in 0..16 : InHand(Unpadded.words, c, n, d, m)
    BY <1>2, <1>4, UnpaddedCopies
<1>6. /\ Holds(Unpadded.words, c, Quad(Bytes))
      /\ Copies(Unpadded.words, n)
      /\ d < 64 * n + 4 * c
      /\ \/ c = 0 /\ m = n
         \/ c > 0 /\ 64 * n + 4 * (c - 1) <= d
    BY <1>5 DEF InHand
<1>7. (c <= 14 => m = n) /\ (c > 14 => m = n + 1)
    BY <1>3, <1>6, BlocksNeeded
<1>8. PICK words : words = PadZeros(Unpadded.words)
    OBVIOUS
<1>9. PICK l \in {14, 16} : (c <= 14 => l = 14) /\ (c > 14 => l = 16)
    OBVIOUS
<1>10. Holds(words, l, Quad(Bytes)) /\ Copies(words, n)
    <2>1. PICK given : given = Unpadded.words
        OBVIOUS
    <2>2. Holds(given, c, Quad(Bytes)) /\ Copies(given, n)
        BY <1>6, <2>1
    <2>3. Fits(c, l, m, n)
        BY <1>7, <1>9 DEF Fits
    <2>4. Holds(PadZeros(given), l, Quad(Bytes)) /\ Copies(PadZeros(given), n)
        BY <1>2, <1>6, <2>2, <2>3, ZerosCopied
    <2> QED
        BY <1>8, <2>1, <2>4
<1>11. Len(words) = l
    BY <1>10 DEF Holds
<1>12. bytes_read' = Unpadded.read /\ Unpadded.read \in Nat
    <2>1. bytes_read \in Nat /\ CompletedWords = (d - bytes_read) \div 4
          /\ (stage = "WRITE_COMPLETED_WORDS" => d - bytes_read \in Nat)
        BY <1>3 DEF CutInv, CompletedWords
    <2>2. stage = "WRITE_COMPLETED_WORDS" => bytes_read + 4 * CompletedWords \in Nat
        <3>1. ASSUME NEW x \in Nat PROVE 4 * (x \div 4) \in Nat
            BY <3>1
        <3> QED
            BY <2>1, <3>1
    <2>3. Unpadded.read \in Nat
        BY <2>1, <2>2 DEF Unpadded, PaddedBlock, CutInv, Stages
    <2> QED
        BY <2>3 DEF PaddedBlock
<1>13. CASE l = 14
    <2>1. PICK whole : whole = words \o SizeWords
        OBVIOUS
    <2>2. stage' = "FINISHED" /\ Finish(whole)
        BY <1>8, <1>11, <1>13, <2>1 DEF PaddedBlock, WORDS_IN_MESSAGE, SIZE_SPANS_WORDS
    <2>3. m = n
        BY <1>7, <1>9, <1>13
    <2>4. Holds(whole, 16, Quad(Bytes)) /\ Copies(whole, n)
        BY <1>2, <1>10, <1>13, <2>1, <2>3, SizeCopied
    <2>5. 64 * n + 64 <= Len(Padded)
        BY <1>3, <2>3
    <2>6. Grown(n)
        BY <1>3, <1>4, <2>2, <2>4, <2>5, BlockAppended
    <2>7. FinishesWhole
        BY <2>2, <2>4 DEF FinishesWhole, Holds
    <2> QED
        BY <1>2, <1>4, <1>12, <2>2, <2>3, <2>6, <2>7, StageReached
<1>14. CASE l = 16
    <2>1. stage' = "WRITE_PADDING_ZEROS" /\ Finish(words)
        BY <1>8, <1>11, <1>14 DEF PaddedBlock, WORDS_IN_MESSAGE, SIZE_SPANS_WORDS
    <2>2. c > 14 /\ m = n + 1
        BY <1>7, <1>9, <1>14
    <2>3. 64 * n + 64 <= Len(Padded)
        BY <1>3, <2>2
    <2>4. Grown(n)
        BY <1>3, <1>4, <1>10, <1>14, <2>1, <2>3, BlockAppended
    <2>5. d < 64 * (n + 1)
        BY <1>6
    <2>6. FinishesWhole
        BY <1>11, <1>14, <2>1 DEF FinishesWhole
    <2> QED
        BY <1>2, <1>4, <1>12, <2>1, <2>2, <2>4, <2>5, <2>6, StageReached
<1> QED
    BY <1>13, <1>14

LEMMA CutPreserved == CutInv /\ [Next]_vars => CutInv'
<1> SUFFICES ASSUME CutInv, [Next]_vars PROVE CutInv'
    OBVIOUS
<1>1. CASE DataBlock
    BY <1>1, DataBlockCut
<1>2. CASE PaddedBlock
    BY <1>2, PaddedBlockCut
<1>3. ASSUME UNCHANGED <<data, bytes_read, stage, blocks>> PROVE CutInv'
    <2>1. Padded' = Padded /\ Bytes' = Bytes
        BY <1>3 DEF Padded, Bytes
    <2>2. \A k : Cut(k)' = Cut(k)
        BY <2>1 DEF Cut
    <2> QED
        BY <1>3, <2>1, <2>2 DEF CutInv
<1>4. CASE Return \/ Schedule \/ CompressRound \/ AddStartingValues \/ UNCHANGED vars
    BY <1>3, <1>4 DEF Return, Schedule, CompressRound, AddStartingValues, vars
<1> QED
    BY <1>1, <1>2, <1>4 DEF Next

LEMMA CutInitially == Init => CutInv
<1> SUFFICES ASSUME Init PROVE CutInv
    OBVIOUS
<1>1. data \in Messages /\ bytes_read = 0 /\ stage = "WRITE_COMPLETED_WORDS" /\ blocks = <<>>
    BY DEF Init
<1>2. Len(data) \in Nat
    BY <1>1, MessagesAssumption
<1>3. blocks \in Seq(Seq(Bytes)) /\ Len(blocks) = 0
    BY <1>1, EmptySeq
<1> QED
    BY <1>1, <1>2, <1>3 DEF CutInv, Stages

LEMMA CutAlways == Spec => []CutInv
BY CutInitially, CutPreserved, PTL DEF Spec

\* Whatever the data and its size, hash compresses the blocks of the padded message of
\* the standard, one after the other, and has compressed all of them when no stage is
\* left (get_next_message_block, sha256.cpp:263-304).
THEOREM BlocksAreTheMessage == Spec => []BlocksArePadded
<1>1. CutInv => BlocksArePadded
    <2> SUFFICES ASSUME CutInv PROVE BlocksArePadded
        OBVIOUS
    <2>1. data \in Seq(0..255)
        BY MessagesAssumption DEF CutInv
    <2>2. PICK d \in Nat, z \in Nat, m \in Nat : Plan(d, z, m)
        BY <2>1, PlanExists
    <2>3. d = Len(data) /\ Len(Padded) = d + 1 + z + 8
        BY <2>2 DEF Plan, Laid
    <2>4. PICK n \in Nat : n = Len(blocks)
        BY LenProperties DEF CutInv
    <2>5. PICK l \in Nat : l = Len(Padded)
        BY <2>3
    <2>6. 64 * n <= l /\ ((stage = "FINISHED") <=> (64 * n = l))
        <3>1. CASE stage \in {"WRITE_COMPLETED_WORDS", "WRITE_LAST_WORD"}
            BY <2>3, <2>4, <2>5, <3>1 DEF CutInv
        <3>2. CASE stage = "WRITE_PADDING_ZEROS"
            BY <2>4, <2>5, <3>2 DEF CutInv
        <3>3. CASE stage = "FINISHED"
            BY <2>4, <2>5, <3>3 DEF CutInv
        <3> QED
            BY <3>1, <3>2, <3>3 DEF CutInv, Stages
    <2>7. \A k \in 1..Len(blocks) : blocks[k] = SubSeq(Padded, 64 * (k - 1) + 1, 64 * k)
        BY DEF CutInv, Cut
    <2> QED
        BY <2>4, <2>5, <2>6, <2>7 DEF BlocksArePadded
<1> QED
    BY <1>1, CutAlways, PTL

(***************************************************************************)
(* The number of steps.                                                    *)
(***************************************************************************)

\* A block takes 115 steps: one that cuts it, 48 and 1 for the schedule, 64 and 1 for
\* compress.  The last step returns.
StepsOfBlock == 115
BlocksLeft == Len(Padded) \div 64 - Len(blocks)
InThisBlock == IF pc = "next_block" THEN 1
               ELSE IF pc = "schedule" THEN 67 + (64 - i)
               ELSE IF pc = "compress" THEN 2 + (64 - i)
               ELSE 0
StepsLeft == StepsOfBlock * BlocksLeft + InThisBlock

\* In the last stage no block is left, and before it there is one.
LeftInv == /\ CutInv /\ ScheduleInv /\ PcInv /\ pc # "aborted"
           /\ pc = "returned" => stage = "FINISHED"

LEMMA BlocksLeftFacts ==
    ASSUME CutInv
    PROVE  /\ BlocksLeft \in Nat
           /\ stage = "FINISHED" <=> BlocksLeft = 0
<1>1. data \in Seq(0..255)
    BY MessagesAssumption DEF CutInv
<1>2. PICK d \in Nat, z \in Nat, m \in Nat : Plan(d, z, m)
    BY <1>1, PlanExists
<1>3. d = Len(data) /\ Len(Padded) = d + 1 + z + 8 /\ d + 1 + z = 64 * m + 56
    BY <1>2 DEF Plan, Laid
<1>4. PICK n \in Nat : n = Len(blocks)
    BY LenProperties DEF CutInv
<1>5. Len(Padded) = 64 * (m + 1)
    BY <1>3
<1>6. (64 * (m + 1)) \div 64 = m + 1
    OBVIOUS
<1>7. BlocksLeft = m + 1 - n
    BY <1>4, <1>5, <1>6 DEF BlocksLeft
<1>8. CASE stage \in {"WRITE_COMPLETED_WORDS", "WRITE_LAST_WORD"}
    <2>1. 64 * n <= d
        BY <1>3, <1>4, <1>8 DEF CutInv
    <2>2. n < m + 1
        BY <1>3, <2>1
    <2> QED
        BY <1>7, <1>8, <2>2
<1>9. CASE stage = "WRITE_PADDING_ZEROS"
    <2>1. 64 * (m + 1) = 64 * (n + 1)
        BY <1>4, <1>5, <1>9 DEF CutInv
    <2> QED
        BY <1>7, <1>9, <2>1
<1>10. CASE stage = "FINISHED"
    <2>1. 64 * (m + 1) = 64 * n
        BY <1>4, <1>5, <1>10 DEF CutInv
    <2> QED
        BY <1>7, <1>10, <2>1
<1> QED
    BY <1>8, <1>9, <1>10 DEF CutInv, Stages

\* A step that cuts a block leaves one block fewer.
LEMMA CutTakesOne ==
    ASSUME CutInv, CutInv', FinishesWhole
    PROVE  BlocksLeft' = BlocksLeft - 1 /\ pc' = "schedule" /\ i' = 16
<1>1. PICK words : Finish(words)
    BY DEF FinishesWhole
<1>2. /\ data' = data /\ pc' = "schedule" /\ i' = 16
      /\ \E block : blocks' = Append(blocks, block)
    BY <1>1 DEF Finish
<1>3. PICK block : blocks' = Append(blocks, block)
    BY <1>2
<1>4. Len(blocks) \in Nat /\ Len(blocks') = Len(blocks) + 1
    BY <1>3 DEF CutInv
<1>5. Padded' = Padded
    BY <1>2 DEF Padded
<1>6. PICK t : t = Len(Padded) \div 64
    OBVIOUS
<1>7. BlocksLeft = t - Len(blocks) /\ BlocksLeft' = t - Len(blocks')
    BY <1>5, <1>6 DEF BlocksLeft
<1>8. BlocksLeft \in Nat
    BY BlocksLeftFacts
<1>9. PICK q \in Int : q = Len(Padded) \div 64
    <2>1. data \in Seq(0..255)
        BY MessagesAssumption DEF CutInv
    <2>2. PICK d \in Nat, z \in Nat, m \in Nat : Plan(d, z, m)
        BY <2>1, PlanExists
    <2>3. d \in Nat /\ z \in Nat /\ Len(Padded) = d + 1 + z + 8
        BY <2>2 DEF Plan, Laid
    <2> QED
        BY <2>3
<1> QED
    BY <1>2, <1>4, <1>6, <1>7, <1>9

LEMMA LeftInitially == Init => LeftInv
BY CutInitially, ScheduleInitially DEF Init, LeftInv, PcInv

LEMMA LeftPreserved == LeftInv /\ SizeInv /\ SizeInv' /\ [Next]_vars => LeftInv'
<1> SUFFICES ASSUME LeftInv, SizeInv, SizeInv', [Next]_vars PROVE LeftInv'
    OBVIOUS
<1>1. CutInv' /\ ScheduleInv'
    BY CutPreserved, SchedulePreserved DEF LeftInv
<1>2. PcInv' /\ pc' # "aborted"
    BY DEF SizeInv, LeftInv, PcInv, Next, DataBlock, PaddedBlock, Finish, Return, Schedule,
           CompressRound, AddStartingValues, vars
<1>3. pc' = "returned" => stage' = "FINISHED"
    BY DEF LeftInv, Next, DataBlock, PaddedBlock, Finish, Return, Schedule,
           CompressRound, AddStartingValues, vars
<1> QED
    BY <1>1, <1>2, <1>3 DEF LeftInv

\* Every step is one step less.
LEMMA OneStepLess ==
    ASSUME LeftInv, LeftInv', Next
    PROVE  StepsLeft' = StepsLeft - 1
<1>0. PICK n \in Nat : n = BlocksLeft
    BY BlocksLeftFacts DEF LeftInv
<1>1. i \in 0..64 /\ i' \in 0..64
    BY DEF LeftInv, ScheduleInv
<1>2. CASE DataBlock \/ PaddedBlock
    <2>1. FinishesWhole
        BY <1>2, DataBlockCut, PaddedBlockCut DEF LeftInv
    <2>2. BlocksLeft' = BlocksLeft - 1 /\ pc' = "schedule" /\ i' = 16
        BY <2>1, CutTakesOne DEF LeftInv
    <2>3. InThisBlock = 1 /\ InThisBlock' = 115
        BY <1>2, <2>2 DEF DataBlock, PaddedBlock, InThisBlock
    <2>4. StepsLeft = 115 * n + 1 /\ StepsLeft' = 115 * (n - 1) + 115
        BY <1>0, <2>2, <2>3 DEF StepsLeft, StepsOfBlock
    <2> QED
        BY <2>4
<1>3. ASSUME UNCHANGED <<data, blocks>>, InThisBlock \in Int,
             InThisBlock' = InThisBlock - 1
      PROVE  StepsLeft' = StepsLeft - 1
    <2>1. Padded' = Padded /\ blocks' = blocks
        BY <1>3 DEF Padded
    <2>2. BlocksLeft' = BlocksLeft
        BY <2>1 DEF BlocksLeft
    <2>3. StepsLeft = 115 * n + InThisBlock /\ StepsLeft' = 115 * n + InThisBlock'
        BY <1>0, <2>2 DEF StepsLeft, StepsOfBlock
    <2> QED
        BY <1>3, <2>3
<1>4. CASE Return
    <2>1. InThisBlock = 1 /\ InThisBlock' = 0 /\ UNCHANGED <<data, blocks>>
        BY <1>4 DEF Return, InThisBlock
    <2> QED
        BY <1>3, <2>1
<1>5. CASE Schedule
    <2>1. InThisBlock = 67 + (64 - i) /\ UNCHANGED <<data, blocks>>
        BY <1>5 DEF Schedule, InThisBlock
    <2>2. CASE i < 64
        <3>1. InThisBlock' = 67 + (64 - (i + 1))
            BY <1>5, <2>2 DEF Schedule, InThisBlock
        <3> QED
            BY <1>1, <1>3, <2>1, <3>1
    <2>3. CASE ~(i < 64)
        <3>1. InThisBlock' = 66 /\ InThisBlock = 67
            BY <1>1, <1>5, <2>1, <2>3 DEF Schedule, InThisBlock
        <3> QED
            BY <1>3, <2>1, <3>1
    <2> QED
        BY <2>2, <2>3
<1>6. CASE CompressRound
    <2>1. /\ InThisBlock = 2 + (64 - i) /\ InThisBlock' = 2 + (64 - (i + 1))
          /\ UNCHANGED <<data, blocks>>
        BY <1>6 DEF CompressRound, InThisBlock
    <2> QED
        BY <1>1, <1>3, <2>1
<1>7. CASE AddStartingValues
    <2>1. InThisBlock = 2 /\ InThisBlock' = 1 /\ UNCHANGED <<data, blocks>>
        BY <1>7 DEF AddStartingValues, InThisBlock
    <2> QED
        BY <1>3, <2>1
<1> QED
    BY <1>2, <1>4, <1>5, <1>6, <1>7 DEF Next

\* hash needs the same number of steps whatever the bytes are, 115 for each block of the
\* padded message and one: every iteration is one less of them, and when none is left
\* hash has returned.  So no loop of it runs on for ever, whatever the size.
THEOREM HashIsBounded ==
    Spec => /\ [](StepsLeft \in Nat /\ (StepsLeft = 0 <=> pc = "returned"))
            /\ [][StepsLeft' = StepsLeft - 1]_vars
<1>1. LeftInv => StepsLeft \in Nat /\ (StepsLeft = 0 <=> pc = "returned")
    <2> SUFFICES ASSUME LeftInv
                 PROVE  StepsLeft \in Nat /\ (StepsLeft = 0 <=> pc = "returned")
        OBVIOUS
    <2>1. PICK n \in Nat : n = BlocksLeft
        BY BlocksLeftFacts DEF LeftInv
    <2>2. PICK t \in Nat : t = InThisBlock /\ (t = 0 <=> pc = "returned")
        BY DEF LeftInv, ScheduleInv, PcInv, InThisBlock
    <2>3. pc = "returned" => n = 0
        BY <2>1, BlocksLeftFacts DEF LeftInv
    <2>4. StepsLeft = 115 * n + t
        BY <2>1, <2>2 DEF StepsLeft, StepsOfBlock
    <2> QED
        BY <2>2, <2>3, <2>4
<1>2. LeftInv /\ LeftInv' /\ [Next]_vars => [StepsLeft' = StepsLeft - 1]_vars
    BY OneStepLess
<1>3. Init => SizeInv /\ stage \in Stages
    BY MessagesAssumption DEF Init, SizeInv, Stages
<1>4. Spec => []LeftInv
    BY <1>3, LeftInitially, LeftPreserved, SizePreserved, PTL DEF Spec
<1> QED
    BY <1>1, <1>2, <1>4, PTL DEF Spec

(***************************************************************************)
(* The words.                                                              *)
(***************************************************************************)

LEMMA SumIsWord ==
    ASSUME NEW x \in Word, NEW y \in Word
    PROVE  x ++ y \in Word /\ x ++ y = {b \in Bits : b \in x <=> (b \in y <=> CarryInto(x, y, b))}
<1>1. sum[<<x, y>>] = {b \in Bits : b \in x <=> (b \in y <=> CarryInto(x, y, b))}
    BY DEF sum
<1> QED
    BY <1>1 DEF ++, Word

LEMMA XorIsWord == \A x, y, z : Xor(x, y, z) \in Word
BY DEF Xor, Word

LEMMA RotatedIsWord ==
    ASSUME NEW x \in Word, NEW c \in Bits
    PROVE  rotr(x, c) \in Word /\ Shifted(x, c) \in Word
<1>1. \A b \in x : b \in 0..31
    BY DEF Word, Bits
<1>2. \A b \in x : (b - c) % 32 \in 0..31
    BY <1>1 DEF Bits
<1>3. \A b \in {d \in x : d >= c} : b - c \in 0..31
    BY <1>1 DEF Bits
<1> QED
    BY <1>2, <1>3 DEF rotr, Shifted, Word, Bits

LEMMA SigmasAreWords ==
    \A x : sigma0(x) \in Word /\ sigma1(x) \in Word /\ upsigma0(x) \in Word /\ upsigma1(x) \in Word
BY XorIsWord DEF sigma0, sigma1, upsigma0, upsigma1

LEMMA ChosenIsWord ==
    ASSUME NEW x \in Word, NEW y \in Word, NEW z \in Word
    PROVE  choice(x, y, z) \in Word /\ maj(x, y, z) \in Word
BY DEF choice, maj, Word

LEMMA TablesAreWords == H \in [0..7 -> Word] /\ \A t \in 0..63 : K[t] \in Word
<1>1. \A u, l : Hex(u, l) \in Word
    BY DEF Hex, Word
<1> HIDE DEF Hex, Word
<1>2. \A r \in 0..7 : HTable[r + 1] \in Word
    BY <1>1 DEF HTable
<1>3. \A t \in 0..63 : KTable[t + 1] \in Word
    BY <1>1 DEF KTable
<1> QED
    BY <1>2, <1>3 DEF H, K

\* What is used of message is words: all of it in compress, what is filled in before.
WordInv ==
    /\ registers \in [0..7 -> Word]
    /\ starting_values \in [0..7 -> Word]
    /\ \A t \in 0..63 : pc = "compress" \/ (pc = "schedule" /\ t < i) => message[t] \in Word

LEMMA WordsInitially == Init => WordInv
BY TablesAreWords DEF Init, WordInv

LEMMA WordsOfBlock ==
    ASSUME WordInv, FinishesWhole
    PROVE  WordInv'
<1>1. PICK words : Finish(words) /\ Len(words) = 16
    BY DEF FinishesWhole
<1>2. \A bytes : WordOf(bytes) \in Word
    BY DEF WordOf, Word
<1>3. PICK swapped : \A t \in 0..63 : t < 16 => message'[t] = WordOf(swapped[t + 1])
    BY <1>1 DEF Finish
<1>4. pc' = "schedule" /\ i' = 16 /\ UNCHANGED <<registers, starting_values>>
    BY <1>1 DEF Finish
<1> QED
    BY <1>2, <1>3, <1>4 DEF WordInv

LEMMA WordsOfSchedule ==
    ASSUME WordInv, ScheduleInv, Schedule
    PROVE  WordInv'
<1>1. CASE i < 64
    <2>1. i \in 16..63 /\ pc = "schedule" /\ pc' = "schedule" /\ i' = i + 1
          /\ UNCHANGED <<registers, starting_values>>
        BY <1>1 DEF Schedule, ScheduleInv
    <2>2. /\ message'[i] = sigma1(message[i - 2]) ++ message[i - 7]
                           ++ sigma0(message[i - 15]) ++ message[i - 16]
          /\ \A t \in 0..63 : t # i => message'[t] = message[t]
        BY <1>1, <2>1 DEF Schedule, ScheduleInv
    <2>3. message[i - 7] \in Word /\ message[i - 16] \in Word
        BY <2>1 DEF WordInv
    <2>4. message'[i] \in Word
        BY <2>2, <2>3, SigmasAreWords, SumIsWord
    <2>5. \A t \in 0..63 : t < i + 1 => message'[t] \in Word
        BY <2>1, <2>2, <2>4 DEF WordInv
    <2> QED
        BY <2>1, <2>5 DEF WordInv
<1>2. CASE ~(i < 64)
    BY <1>2 DEF Schedule, ScheduleInv, WordInv
<1> QED
    BY <1>1, <1>2

LEMMA WordsOfRound ==
    ASSUME WordInv, ScheduleInv, CompressRound
    PROVE  WordInv'
<1>1. i \in 0..63 /\ pc = "compress" /\ UNCHANGED <<message, starting_values, pc>>
    BY DEF CompressRound, ScheduleInv
<1>2. \A r \in 0..7 : Register(r) \in 0..7
    BY <1>1, ModuloIsRemainder DEF Register
<1>3. \A r \in 0..7 : registers[Register(r)] \in Word
    BY <1>2 DEF WordInv
<1>4. K[i] \in Word /\ message[i] \in Word
    BY <1>1, TablesAreWords DEF WordInv
<1> DEFINE Reg(reg) == registers[Register(reg)]
           t1 == upsigma1(Reg(4)) ++ choice(Reg(4), Reg(5), Reg(6)) ++ Reg(7) ++ K[i] ++ message[i]
           t2 == upsigma0(Reg(0)) ++ maj(Reg(0), Reg(1), Reg(2))
<1>5. t1 \in Word
    <2>1. choice(Reg(4), Reg(5), Reg(6)) \in Word
        BY <1>3, ChosenIsWord
    <2>2. upsigma1(Reg(4)) ++ choice(Reg(4), Reg(5), Reg(6)) \in Word
        BY <2>1, SigmasAreWords, SumIsWord
    <2>3. upsigma1(Reg(4)) ++ choice(Reg(4), Reg(5), Reg(6)) ++ Reg(7) \in Word
        BY <1>3, <2>2, SumIsWord
    <2> QED
        BY <1>4, <2>3, SumIsWord
<1>6. t2 \in Word
    <2>1. maj(Reg(0), Reg(1), Reg(2)) \in Word
        BY <1>3, ChosenIsWord
    <2> QED
        BY <2>1, SigmasAreWords, SumIsWord
<1>7. registers' = [registers EXCEPT ![Register(7)] = t1 ++ t2, ![Register(3)] = @ ++ t1]
    BY DEF CompressRound
<1>8. Register(7) # Register(3)
    <2>1. Register(7) = (7 - i) % 8 /\ Register(3) = (3 - i) % 8
        BY <1>1, ModuloIsRemainder DEF Register
    <2> QED
        BY <1>1, <2>1
<1> HIDE DEF t1, t2
<1>9. t1 ++ t2 \in Word /\ registers[Register(3)] ++ t1 \in Word
    BY <1>3, <1>5, <1>6, SumIsWord
<1>10. registers' \in [0..7 -> Word]
    BY <1>2, <1>7, <1>8, <1>9 DEF WordInv
<1> QED
    BY <1>1, <1>10 DEF WordInv

LEMMA WordsPreserved == CutInv /\ ScheduleInv /\ WordInv /\ [Next]_vars => WordInv'
<1> SUFFICES ASSUME CutInv, ScheduleInv, WordInv, [Next]_vars PROVE WordInv'
    OBVIOUS
<1>1. CASE DataBlock \/ PaddedBlock
    BY <1>1, DataBlockCut, PaddedBlockCut, WordsOfBlock
<1>2. CASE AddStartingValues
    <2>1. \A r \in 0..7 : registers[r] ++ starting_values[r] \in Word
        BY SumIsWord DEF WordInv
    <2> QED
        BY <1>2, <2>1 DEF AddStartingValues, WordInv
<1>3. CASE Return
    BY <1>3 DEF Return, WordInv
<1>4. CASE UNCHANGED vars
    BY <1>4 DEF vars, WordInv
<1> QED
    BY <1>1, <1>2, <1>3, <1>4, WordsOfSchedule, WordsOfRound DEF Next

\* compress never uses an element of its uninitialised array message (sha256.cpp:377)
\* that was not filled in for this block, and no sum leaves 32 bits: the registers and
\* the schedule, as far as it is made, are words, whatever lay in the array before.
THEOREM NoGarbageIsHashed == Spec => []WordInv
BY WordsInitially, WordsPreserved, CutAlways, ScheduleAlways, PTL DEF Spec

\* What the code writes: value >> count | value << (32 - count), where the second shift
\* drops the bits that leave the word.
ShiftedUp(value, count) == {b + count : b \in {c \in value : c + count < 32}}

\* rotr loses no bit and makes none up: the two shifts are the rotation of the standard,
\* for every count that the assert of rotr (sha256.cpp:54) allows.
THEOREM RotrIsTwoShifts ==
    ASSUME NEW x \in Word, NEW c \in 1..31
    PROVE  rotr(x, c) = Shifted(x, c) \cup ShiftedUp(x, 32 - c)
<1>1. ASSUME NEW b \in x, b >= c PROVE (b - c) % 32 = b - c
    BY <1>1 DEF Word, Bits
<1>2. ASSUME NEW b \in x, ~(b >= c)
      PROVE  (b - c) % 32 = b + (32 - c) /\ b + (32 - c) < 32
    BY <1>2 DEF Word, Bits
<1>3. \A b \in x : b + (32 - c) < 32 <=> ~(b >= c)
    BY DEF Word, Bits
<1> QED
    BY <1>1, <1>2, <1>3 DEF rotr, Shifted, ShiftedUp

(***************************************************************************)
(* The sum.                                                                *)
(***************************************************************************)

Width == 32

LEMMA WidthNat == Width \in Nat /\ Width > 0
BY DEF Width

LEMMA BitsOfWidth == \A b : b \in Bits <=> b \in 0..(Width - 1)
BY DEF Width, Bits

\* The function that begins with a and goes on by the steps of G.
Iterated(k, a, G) ==
    LET f[n \in 0..k] == IF n = 0 THEN a ELSE G[n][f[n - 1]]
    IN f

\* Powers of two, and the number that the bits of x below n make.
Pow == Iterated(Width, 1, [n \in 1..Width |-> [v \in Nat |-> 2 * v]])

Below(x) == Iterated(Width, 0, [n \in 1..Width |->
                            [v \in Nat |-> IF n - 1 \in x THEN v + Pow[n - 1] ELSE v]])

Number(x) == Below(x)[Width]

LEMMA SetInduction ==
    ASSUME NEW S, 0 \in S, \A n \in Nat : n \in S => n + 1 \in S
    PROVE  Nat \subseteq S
<1> DEFINE T == Nat \ S
<1> SUFFICES ASSUME T # {} PROVE FALSE
    OBVIOUS
<1>1. PICK x \in T : \A y \in T : ~(<<y, x>> \in OpToRel(<, Nat))
    BY NatLessThanWellFounded, WFMin
<1>2. \A y \in T : ~(y < x)
    BY <1>1 DEF OpToRel
<1>3. x # 0 /\ x - 1 \in Nat /\ x - 1 \notin T
    BY <1>2
<1> QED
    BY <1>3

\* f begins with a and goes on as the steps of G say.
Follows(f, k, a, G) == f[0] = a /\ \A n \in 1..k : f[n] = G[n][f[n - 1]]

LEMMA FollowingExists ==
    ASSUME NEW m \in Nat, NEW S, NEW a \in S, NEW G \in [1..m -> [S -> S]]
    PROVE  \E f \in [0..m -> S] : Follows(f, m, a, G)
<1> DEFINE T == {k \in Nat : k <= m => \E f \in [0..k -> S] : Follows(f, k, a, G)}
<1>1. 0 \in T
    <2>1. [n \in 0..0 |-> a] \in [0..0 -> S] /\ Follows([n \in 0..0 |-> a], 0, a, G)
        BY DEF Follows
    <2> QED
        BY <2>1
<1>2. ASSUME NEW k \in Nat, k \in T PROVE k + 1 \in T
    <2> SUFFICES ASSUME k + 1 <= m
                 PROVE  \E f \in [0..(k + 1) -> S] : Follows(f, k + 1, a, G)
        OBVIOUS
    <2>1. PICK f \in [0..k -> S] : Follows(f, k, a, G)
        BY <1>2
    <2> DEFINE g == [n \in 0..(k + 1) |-> IF n <= k THEN f[n] ELSE G[k + 1][f[k]]]
    <2>2. g \in [0..(k + 1) -> S] /\ g[0] = a
        BY <2>1 DEF Follows
    <2>3. ASSUME NEW n \in 1..(k + 1) PROVE g[n] = G[n][g[n - 1]]
        <3>1. CASE n <= k
            <4>1. n \in 1..k /\ n - 1 \in 0..k /\ g[n] = f[n] /\ g[n - 1] = f[n - 1]
                BY <3>1
            <4> QED
                BY <2>1, <4>1 DEF Follows
        <3>2. CASE n = k + 1
            BY <3>2
        <3> QED
            BY <3>1, <3>2
    <2>4. Follows(g, k + 1, a, G)
        BY <2>2, <2>3 DEF Follows
    <2> HIDE DEF g
    <2> QED
        BY <2>2, <2>4
<1>3. m \in T
    <2> HIDE DEF T
    <2> QED
        BY <1>1, <1>2, SetInduction
<1> QED
    BY <1>3

StepsOf(G, m, S) == G \in [1..m -> [S -> S]]

GoesOn(f, m, S, a, G) ==
    /\ f \in [0..m -> S]
    /\ f[0] = a
    /\ \A n \in 0..(m - 1) : f[n + 1] = G[n + 1][f[n]]

LEMMA IteratedFacts ==
    ASSUME NEW m \in Nat, NEW S, NEW a \in S, NEW G, StepsOf(G, m, S)
    PROVE  GoesOn(Iterated(m, a, G), m, S, a, G)
<1>0. G \in [1..m -> [S -> S]]
    BY DEF StepsOf
<1> DEFINE Is(f) == f = [n \in 0..m |-> IF n = 0 THEN a ELSE G[n][f[n - 1]]]
<1>1. PICK f \in [0..m -> S] : Follows(f, m, a, G)
    BY <1>0, FollowingExists
<1>2. \A n \in 0..m : f[n] = IF n = 0 THEN a ELSE G[n][f[n - 1]]
    BY <1>1 DEF Follows
<1>3. Is(f)
    BY <1>2
<1>4. PICK g : g = Iterated(m, a, G)
    OBVIOUS
<1>5. Is(g)
    <2>1. Iterated(m, a, G) = CHOOSE h : Is(h)
        BY DEF Iterated
    <2> HIDE DEF Is
    <2> QED
        BY <1>3, <1>4, <2>1
<1>6. g[0] = a /\ \A n \in 0..(m - 1) : g[n + 1] = G[n + 1][g[n]]
    BY <1>5
<1> DEFINE T == {n \in Nat : n <= m => g[n] \in S}
<1>7. 0 \in T
    BY <1>6
<1>8. ASSUME NEW n \in Nat, n \in T PROVE n + 1 \in T
    <2> SUFFICES ASSUME n + 1 <= m PROVE g[n + 1] \in S
        OBVIOUS
    <2>1. n + 1 \in 1..m /\ n \in 0..(m - 1) /\ g[n] \in S
        BY <1>8
    <2> QED
        BY <1>0, <1>6, <2>1
<1>9. \A n \in 0..m : g[n] \in S
    <2> HIDE DEF T
    <2>1. Nat \subseteq T
        BY <1>7, <1>8, SetInduction
    <2> QED
        BY <2>1 DEF T
<1>10. g \in [0..m -> S]
    BY <1>5, <1>9
<1>11. GoesOn(g, m, S, a, G)
    BY <1>6, <1>10 DEF GoesOn
<1> QED
    BY <1>4, <1>11

LEMMA PowFacts ==
    /\ Pow \in [0..Width -> Nat]
    /\ Pow[0] = 1 /\ \A n \in 0..(Width - 1) : Pow[n + 1] = 2 * Pow[n]
<1> DEFINE G == [n \in 1..Width |-> [v \in Nat |-> 2 * v]]
<1>1. G \in [1..Width -> [Nat -> Nat]] /\ Pow = Iterated(Width, 1, G)
    BY DEF Pow
<1>2. \A n \in 0..(Width - 1), v \in Nat : G[n + 1][v] = 2 * v
    BY WidthNat
<1> HIDE DEF G
<1>3. GoesOn(Iterated(Width, 1, G), Width, Nat, 1, G)
    <2>1. StepsOf(G, Width, Nat)
        BY <1>1 DEF StepsOf
    <2> QED
        BY <2>1, IteratedFacts, WidthNat
<1>4. /\ Pow \in [0..Width -> Nat] /\ Pow[0] = 1
      /\ \A n \in 0..(Width - 1) : Pow[n + 1] = G[n + 1][Pow[n]]
    BY <1>1, <1>3 DEF GoesOn
<1>5. \A n \in 0..(Width - 1) : Pow[n] \in Nat
    BY <1>4, WidthNat
<1> QED
    BY <1>2, <1>4, <1>5

LEMMA PowOfWord == Pow[Width] = 4294967296
<1>1. ASSUME NEW n \in Nat, n < Width PROVE Pow[n] \in Nat /\ Pow[n + 1] = 2 * Pow[n]
    BY <1>1, PowFacts DEF Width
<1>2. ASSUME NEW n \in Nat, n + 4 <= Width, NEW p \in Nat, Pow[n] = p
      PROVE  Pow[n + 4] = 16 * p
    <2>1. Pow[n + 1] = 2 * p
        BY <1>1, <1>2 DEF Width
    <2>2. Pow[(n + 1) + 1] = 2 * Pow[n + 1]
        BY <1>1, <1>2 DEF Width
    <2>3. Pow[(n + 2) + 1] = 2 * Pow[n + 2]
        BY <1>1, <1>2 DEF Width
    <2>4. Pow[(n + 3) + 1] = 2 * Pow[n + 3]
        BY <1>1, <1>2 DEF Width
    <2>5. (n + 1) + 1 = n + 2 /\ (n + 2) + 1 = n + 3 /\ (n + 3) + 1 = n + 4
        BY DEF Width
    <2> QED
        BY <2>1, <2>2, <2>3, <2>4, <2>5 DEF Width
<1>3. Pow[0 + 4] = 16 * 1
    BY <1>2, PowFacts DEF Width
<1>4. Pow[4 + 4] = 16 * 16
    BY <1>2, <1>3 DEF Width
<1>5. Pow[8 + 4] = 16 * 256
    BY <1>2, <1>4 DEF Width
<1>6. Pow[12 + 4] = 16 * 4096
    BY <1>2, <1>5 DEF Width
<1>7. Pow[16 + 4] = 16 * 65536
    BY <1>2, <1>6 DEF Width
<1>8. Pow[20 + 4] = 16 * 1048576
    BY <1>2, <1>7 DEF Width
<1>9. Pow[24 + 4] = 16 * 16777216
    BY <1>2, <1>8 DEF Width
<1>10. Pow[28 + 4] = 16 * 268435456
    BY <1>2, <1>9 DEF Width
<1> QED
    BY <1>10 DEF Width

LEMMA BelowFacts ==
    ASSUME NEW x
    PROVE  /\ Below(x) \in [0..Width -> Nat]
           /\ Below(x)[0] = 0
           /\ \A n \in 0..(Width - 1) : Below(x)[n + 1] = IF n \in x THEN Below(x)[n] + Pow[n]
                                                 ELSE Below(x)[n]
<1> DEFINE G == [n \in 1..Width |-> [v \in Nat |-> IF n - 1 \in x THEN v + Pow[n - 1] ELSE v]]
<1>1. \A n \in 1..Width : Pow[n - 1] \in Nat
    BY PowFacts, WidthNat
<1>2. G \in [1..Width -> [Nat -> Nat]] /\ Below(x) = Iterated(Width, 0, G)
    <2>1. \A n \in 1..Width, v \in Nat : (IF n - 1 \in x THEN v + Pow[n - 1] ELSE v) \in Nat
        BY <1>1
    <2> QED
        BY <2>1 DEF Below
<1>3. \A n \in 0..(Width - 1), v \in Nat : G[n + 1][v] = IF n \in x THEN v + Pow[n] ELSE v
    <2> SUFFICES ASSUME NEW n \in 0..(Width - 1), NEW v \in Nat
                 PROVE  G[n + 1][v] = IF n \in x THEN v + Pow[n] ELSE v
        OBVIOUS
    <2>1. n + 1 \in 1..Width /\ (n + 1) - 1 = n
        BY WidthNat
    <2> QED
        BY <2>1
<1> HIDE DEF G
<1>4. GoesOn(Iterated(Width, 0, G), Width, Nat, 0, G)
    <2>1. StepsOf(G, Width, Nat)
        BY <1>2 DEF StepsOf
    <2> QED
        BY <2>1, IteratedFacts, WidthNat
<1>5. PICK below : below = Below(x)
    OBVIOUS
<1>6. /\ below \in [0..Width -> Nat] /\ below[0] = 0
      /\ \A n \in 0..(Width - 1) : below[n + 1] = G[n + 1][below[n]]
    BY <1>2, <1>4, <1>5 DEF GoesOn
<1>7. \A n \in 0..(Width - 1) : below[n] \in Nat
    BY <1>6, WidthNat
<1>8. \A n \in 0..(Width - 1) :
          below[n + 1] = IF n \in x THEN below[n] + Pow[n] ELSE below[n]
    BY <1>3, <1>6, <1>7
<1> QED
    BY <1>5, <1>6, <1>8

\* The bits below n make less than the n-th power.
LEMMA BelowBound ==
    ASSUME NEW x, NEW n \in 0..Width
    PROVE  Below(x)[n] < Pow[n]
<1> DEFINE T == {k \in Nat : k <= Width => Below(x)[k] < Pow[k]}
<1>1. 0 \in T
    BY PowFacts, BelowFacts
<1>2. ASSUME NEW k \in Nat, k \in T PROVE k + 1 \in T
    <2> SUFFICES ASSUME k + 1 <= Width PROVE Below(x)[k + 1] < Pow[k + 1]
        OBVIOUS
    <2>1. k \in 0..(Width - 1) /\ k \in 0..Width /\ Below(x)[k] < Pow[k]
        BY <1>2, WidthNat
    <2>2. PICK p \in Nat : p = Pow[k]
        BY <2>1, PowFacts
    <2>3. PICK v \in Nat : v = Below(x)[k]
        BY <2>1, BelowFacts
    <2>4. Pow[k + 1] = 2 * p
        BY <2>1, <2>2, PowFacts
    <2>5. Below(x)[k + 1] = IF k \in x THEN v + p ELSE v
        BY <2>1, <2>2, <2>3, BelowFacts
    <2> QED
        BY <2>1, <2>2, <2>3, <2>4, <2>5
<1>3. Nat \subseteq T
    <2> HIDE DEF T
    <2> QED
        BY <1>1, <1>2, SetInduction
<1> QED
    BY <1>3

\* A carry comes from the bit below or through it.
LEMMA CarryOn ==
    ASSUME NEW x \in Word, NEW y \in Word, NEW n \in 0..(Width - 1)
    PROVE  CarryInto(x, y, n + 1) <=>
               n \in x \cap y \/ (CarryInto(x, y, n) /\ n \in x \cup y)
<1>0. \A b \in x \cap y : b \in 0..(Width - 1)
    BY BitsOfWidth DEF Word
<1>1. ASSUME CarryInto(x, y, n + 1)
      PROVE  n \in x \cap y \/ (CarryInto(x, y, n) /\ n \in x \cup y)
    <2>1. PICK low \in x \cap y : low < n + 1 /\ (low + 1)..((n + 1) - 1) \subseteq x \cup y
        BY <1>1 DEF CarryInto
    <2>2. low \in 0..(Width - 1)
        BY <1>0
    <2>3. CASE low = n
        BY <2>3
    <2>4. CASE low # n
        <3>1. low < n /\ n \in (low + 1)..((n + 1) - 1)
            BY <2>1, <2>2, <2>4
        <3>2. (low + 1)..(n - 1) \subseteq (low + 1)..((n + 1) - 1)
            BY <2>2
        <3> QED
            BY <2>1, <3>1, <3>2 DEF CarryInto
    <2> QED
        BY <2>3, <2>4
<1>2. ASSUME n \in x \cap y PROVE CarryInto(x, y, n + 1)
    <2>1. n < n + 1 /\ (n + 1)..((n + 1) - 1) = {}
        OBVIOUS
    <2> QED
        BY <1>2, <2>1 DEF CarryInto
<1>3. ASSUME CarryInto(x, y, n), n \in x \cup y PROVE CarryInto(x, y, n + 1)
    <2>1. PICK low \in x \cap y : low < n /\ (low + 1)..(n - 1) \subseteq x \cup y
        BY <1>3 DEF CarryInto
    <2>2. low \in 0..(Width - 1)
        BY <1>0
    <2>3. \A e \in (low + 1)..((n + 1) - 1) : e = n \/ e \in (low + 1)..(n - 1)
        BY <2>2
    <2>4. low < n + 1 /\ (low + 1)..((n + 1) - 1) \subseteq x \cup y
        BY <1>3, <2>1, <2>2, <2>3
    <2> QED
        BY <2>4 DEF CarryInto
<1> QED
    BY <1>1, <1>2, <1>3

\* The bits below n add up to those of the sum and a carry.
SumsTo(x, y, n) ==
    Below(x)[n] + Below(y)[n]
        = IF CarryInto(x, y, n) THEN Below(x ++ y)[n] + Pow[n] ELSE Below(x ++ y)[n]

LEMMA SumStep ==
    ASSUME NEW x \in Word, NEW y \in Word, NEW n \in 0..(Width - 1), SumsTo(x, y, n)
    PROVE  SumsTo(x, y, n + 1)
<1>1. PICK s \in Word : s = x ++ y
    BY SumIsWord
<1>2. PICK p \in Nat : p = Pow[n]
    BY PowFacts, WidthNat
<1>3. Pow[n + 1] = 2 * p
    BY <1>2, PowFacts
<1>4. PICK vx \in Nat, vy \in Nat, vs \in Nat :
          vx = Below(x)[n] /\ vy = Below(y)[n] /\ vs = Below(s)[n]
    BY BelowFacts, WidthNat
<1>5. /\ Below(x)[n + 1] = IF n \in x THEN vx + p ELSE vx
      /\ Below(y)[n + 1] = IF n \in y THEN vy + p ELSE vy
      /\ Below(s)[n + 1] = IF n \in s THEN vs + p ELSE vs
    BY <1>2, <1>4, BelowFacts
<1>6. n \in s <=> (n \in x <=> (n \in y <=> CarryInto(x, y, n)))
    BY <1>1, SumIsWord, BitsOfWidth
<1>7. vx + vy = IF CarryInto(x, y, n) THEN vs + p ELSE vs
    BY <1>1, <1>2, <1>4 DEF SumsTo
<1>8. CarryInto(x, y, n + 1) <=> (n \in x /\ n \in y)
                                  \/ (CarryInto(x, y, n) /\ (n \in x \/ n \in y))
    BY CarryOn
<1> DEFINE c == CarryInto(x, y, n)
<1>9. CASE c
    <2>1. n \in s <=> ((n \in x) <=> (n \in y))
        BY <1>6, <1>9
    <2> QED
        BY <1>1, <1>3, <1>5, <1>7, <1>8, <1>9, <2>1 DEF SumsTo
<1>10. CASE ~c
    <2>1. n \in s <=> ~((n \in x) <=> (n \in y))
        BY <1>6, <1>10
    <2> QED
        BY <1>1, <1>3, <1>5, <1>7, <1>8, <1>10, <2>1 DEF SumsTo
<1> QED
    BY <1>9, <1>10

LEMMA Wraps ==
    ASSUME NEW m \in Nat \ {0}, NEW s \in Nat, s < m
    PROVE  s % m = s /\ (s + m) % m = s
OBVIOUS

\* The + of the code on uint32_t: ++ is the sum of the numbers modulo 2^32, whatever the
\* two words are.  compress and the schedule add with nothing else.
THEOREM SumIsAddition ==
    ASSUME NEW x \in Word, NEW y \in Word
    PROVE  /\ Number(x) \in Nat /\ Number(x) < 4294967296
           /\ Number(x ++ y) = (Number(x) + Number(y)) % 4294967296
<1>1. SumsTo(x, y, Width)
    <2> DEFINE T == {n \in Nat : n <= Width => SumsTo(x, y, n)}
    <2>1. 0 \in T
        <3>1. ~CarryInto(x, y, 0)
            BY BitsOfWidth DEF CarryInto, Word
        <3>2. Below(x)[0] = 0 /\ Below(y)[0] = 0 /\ Below(x ++ y)[0] = 0
            BY BelowFacts
        <3> QED
            BY <3>1, <3>2 DEF SumsTo
    <2>2. ASSUME NEW n \in Nat, n \in T PROVE n + 1 \in T
        <3>1. n + 1 <= Width => n \in 0..(Width - 1) /\ SumsTo(x, y, n)
            BY <2>2, WidthNat
        <3> QED
            BY <3>1, SumStep
    <2> HIDE DEF T
    <2>3. Nat \subseteq T
        BY <2>1, <2>2, SetInduction
    <2> QED
        BY <2>3, WidthNat DEF T
<1>2. \A z : Number(z) \in Nat /\ Number(z) < 4294967296
    <2> SUFFICES ASSUME NEW z PROVE Number(z) \in Nat /\ Number(z) < 4294967296
        OBVIOUS
    <2>1. Below(z)[Width] \in Nat /\ Below(z)[Width] < Pow[Width]
        BY BelowFacts, BelowBound, WidthNat
    <2> QED
        BY <2>1, PowOfWord DEF Number
<1>3. PICK a \in Nat, b \in Nat, s \in Nat :
          /\ a = Number(x) /\ b = Number(y) /\ s = Number(x ++ y)
          /\ a < 4294967296 /\ b < 4294967296 /\ s < 4294967296
    BY <1>2
<1>4. a + b = s \/ a + b = s + 4294967296
    BY <1>1, <1>3, PowOfWord DEF SumsTo, Number
<1>5. s = (a + b) % 4294967296
    BY <1>3, <1>4, Wraps
<1> QED
    BY <1>3, <1>5

=============================================================================
