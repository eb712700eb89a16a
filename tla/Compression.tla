---------------------------- MODULE Compression ----------------------------
(***************************************************************************)
(* What the standard (FIPS 180-4, 6.2.2) says of hashing a padded message: *)
(* for each block a schedule of 64 words, 64 rounds in which eight working *)
(* variables move on by one place, and their sum with the hash so far.     *)
(* The block itself, the first 16 words of the schedule, may be any.       *)
(***************************************************************************)
EXTENDS Sha256Words

VARIABLES hash,      \* the hash of the blocks so far
          phase,     \* "idle" between two blocks, or "rounds"
          schedule,  \* the words of the block in its rounds
          working,   \* a, b, ..., h: 0 is a
          round      \* the next round

vars == <<hash, phase, schedule, working, round>>

Init == /\ hash = H
        /\ phase = "idle"
        /\ schedule = <<>>
        /\ working = H
        /\ round = 0

IsSchedule(w) ==
    \A t \in 16..63 :
        w[t] = sigma1(w[t - 2]) ++ w[t - 7] ++ sigma0(w[t - 15]) ++ w[t - 16]

Begin == /\ phase = "idle"
         /\ phase' = "rounds"
         /\ IsSchedule(schedule')
         /\ UNCHANGED <<hash, working, round>>

T1(v, k, w) == upsigma1(v[4]) ++ choice(v[4], v[5], v[6]) ++ v[7] ++ k ++ w
T2(v) == upsigma0(v[0]) ++ maj(v[0], v[1], v[2])

Moved(v, t1, t2) == [r \in 0..7 |-> IF r = 0 THEN t1 ++ t2
                                    ELSE IF r = 4 THEN v[3] ++ t1
                                    ELSE v[r - 1]]

Round == /\ phase = "rounds" /\ round < 64
         /\ working' = Moved(working, T1(working, K[round], schedule[round]), T2(working))
         /\ round' = round + 1
         /\ UNCHANGED <<hash, phase, schedule>>

End == /\ phase = "rounds" /\ round = 64
       /\ hash' = [r \in 0..7 |-> working[r] ++ hash[r]]
       /\ phase' = "idle"
       /\ schedule' = <<>>
       /\ working' = hash'
       /\ round' = 0

Spec == Init /\ [][Begin \/ Round \/ End]_vars
=============================================================================
