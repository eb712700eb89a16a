------------------------------ MODULE MCSha256 ------------------------------
(* Messages of the sizes where padding changes its shape. *)
EXTENDS Sha256

CONSTANT Sizes

\* "assembly", the example of lib/sha256/README.md.
Assembly == <<97, 115, 115, 101, 109, 98, 108, 121>>

MCMessages == {[b \in 1..size |-> (7 * b + size) % 256] : size \in Sizes} \cup {Assembly}

\* lib/sha256/README.md says "It's also compliant", and gives this hash.
HashesAsDocumented ==
    pc = "returned" /\ data = Assembly =>
        registers = [r \in 0..7 |-> <<
            Hex(\he020, \hbdf5), Hex(\h6879, \h3dee), Hex(\h747a, \h2200), Hex(\h86c5, \he53c),
            Hex(\h8b3a, \hf5ab), Hex(\hd959, \h383a), Hex(\h3129, \h7f30), Hex(\h3577, \hefe6)
            >>[r + 1]]
=============================================================================
