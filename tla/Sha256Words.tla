---------------------------- MODULE Sha256Words ----------------------------
(***************************************************************************)
(* lib/sha256/src/sha256.cpp: the arithmetic of SHA-256.  A uint32_t is    *)
(* the set of its one bits, so that & is intersection and | is union.      *)
(***************************************************************************)
EXTENDS Integers

Bits == 0..31
Word == SUBSET Bits

\* x ^ y ^ z: what an odd number of them has.
Xor(x, y, z) == {b \in Bits : (b \in x) = ((b \in y) = (b \in z))}

rotr(value, count) == {(b - count) % 32 : b \in value}

\* value >> count
Shifted(value, count) == {b - count : b \in {c \in value : c >= count}}

\* Addition in 32 bits: a bit is flipped by a carry, which comes from a lower bit
\* that both have, through bits that either has.
CarryInto(x, y, b) ==
    \E low \in x \cap y : low < b /\ (low + 1)..(b - 1) \subseteq x \cup y
sum[p \in Word \X Word] ==
    {b \in Bits : b \in p[1] <=> (b \in p[2] <=> CarryInto(p[1], p[2], b))}
x ++ y == sum[<<x, y>>]

maj(a, b, c) == (a \cap (b \cup c)) \cup (b \cap c)

choice(driver_bits, a, b) == (a \cap driver_bits) \cup (b \ driver_bits)

\* The rotation of the other one.
SigmaMixedUp(value) == Xor(rotr(value, 7), rotr(value, 19), Shifted(value, 3))

sigma0(value) == Xor(rotr(value, 7), rotr(value, 18), Shifted(value, 3))
sigma1(value) == Xor(rotr(value, 17), rotr(value, 19), Shifted(value, 10))
upsigma0(value) == Xor(rotr(value, 2), rotr(value, 13), rotr(value, 22))
upsigma1(value) == Xor(rotr(value, 6), rotr(value, 11), rotr(value, 25))

\* A word by the numbers of its upper and its lower half.
Hex(upper, lower) ==
    {b \in Bits : (IF b < 16 THEN lower \div 2^b ELSE upper \div 2^(b - 16)) % 2 = 1}

KTable == <<
    Hex(\h428a, \h2f98), Hex(\h7137, \h4491), Hex(\hb5c0, \hfbcf), Hex(\he9b5, \hdba5),
    Hex(\h3956, \hc25b), Hex(\h59f1, \h11f1), Hex(\h923f, \h82a4), Hex(\hab1c, \h5ed5),
    Hex(\hd807, \haa98), Hex(\h1283, \h5b01), Hex(\h2431, \h85be), Hex(\h550c, \h7dc3),
    Hex(\h72be, \h5d74), Hex(\h80de, \hb1fe), Hex(\h9bdc, \h06a7), Hex(\hc19b, \hf174),
    Hex(\he49b, \h69c1), Hex(\hefbe, \h4786), Hex(\h0fc1, \h9dc6), Hex(\h240c, \ha1cc),
    Hex(\h2de9, \h2c6f), Hex(\h4a74, \h84aa), Hex(\h5cb0, \ha9dc), Hex(\h76f9, \h88da),
    Hex(\h983e, \h5152), Hex(\ha831, \hc66d), Hex(\hb003, \h27c8), Hex(\hbf59, \h7fc7),
    Hex(\hc6e0, \h0bf3), Hex(\hd5a7, \h9147), Hex(\h06ca, \h6351), Hex(\h1429, \h2967),
    Hex(\h27b7, \h0a85), Hex(\h2e1b, \h2138), Hex(\h4d2c, \h6dfc), Hex(\h5338, \h0d13),
    Hex(\h650a, \h7354), Hex(\h766a, \h0abb), Hex(\h81c2, \hc92e), Hex(\h9272, \h2c85),
    Hex(\ha2bf, \he8a1), Hex(\ha81a, \h664b), Hex(\hc24b, \h8b70), Hex(\hc76c, \h51a3),
    Hex(\hd192, \he819), Hex(\hd699, \h0624), Hex(\hf40e, \h3585), Hex(\h106a, \ha070),
    Hex(\h19a4, \hc116), Hex(\h1e37, \h6c08), Hex(\h2748, \h774c), Hex(\h34b0, \hbcb5),
    Hex(\h391c, \h0cb3), Hex(\h4ed8, \haa4a), Hex(\h5b9c, \hca4f), Hex(\h682e, \h6ff3),
    Hex(\h748f, \h82ee), Hex(\h78a5, \h636f), Hex(\h84c8, \h7814), Hex(\h8cc7, \h0208),
    Hex(\h90be, \hfffa), Hex(\ha450, \h6ceb), Hex(\hbef9, \ha3f7), Hex(\hc671, \h78f2)>>
K == [i \in 0..63 |-> KTable[i + 1]]

HTable == <<
    Hex(\h6a09, \he667), Hex(\hbb67, \hae85), Hex(\h3c6e, \hf372), Hex(\ha54f, \hf53a),
    Hex(\h510e, \h527f), Hex(\h9b05, \h688c), Hex(\h1f83, \hd9ab), Hex(\h5be0, \hcd19)>>
H == [r \in 0..7 |-> HTable[r + 1]]
=============================================================================
