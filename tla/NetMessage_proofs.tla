------------------------- MODULE NetMessage_proofs -------------------------
(***************************************************************************)
(* Proofs about NetMessage for messages of any bytes, any tracks and       *)
(* files, and lists of any length: what one side writes is what the other  *)
(* side reads.                                                             *)
(***************************************************************************)
EXTENDS NetMessage, SequenceTheorems, WellFoundedInduction, TLAPS

-----------------------------------------------------------------------------
(* Induction over a set, and functions defined by recursion *)

LEMMA Least ==
  ASSUME NEW T, T \subseteq Nat, T # {}
  PROVE  \E x \in T : \A y \in T : x <= y
  <1>1. \E x \in T : \A y \in T : ~(<<y, x>> \in OpToRel(<, Nat))
    BY NatLessThanWellFounded, WFMin
  <1>2. PICK x \in T : \A y \in T : ~(<<y, x>> \in OpToRel(<, Nat))
    BY <1>1
  <1>3. \A y \in T : ~(y < x)
    BY <1>2 DEF OpToRel
  <1> QED
    BY <1>3

LEMMA SetInduction ==
  ASSUME NEW S, 0 \in S, \A n \in Nat : n \in S => n + 1 \in S
  PROVE  Nat \subseteq S
  <1> DEFINE T == Nat \ S
  <1> SUFFICES ASSUME T # {} PROVE FALSE
    OBVIOUS
  <1>1. PICK x \in T : \A y \in T : x <= y
    BY Least
  <1>2. x # 0 /\ x - 1 \in Nat /\ x - 1 \notin T
    BY <1>1
  <1> QED
    BY <1>2

\* f starts with a and takes a step of G from i - 1 to i.
Iterates(f, N, a, G) == f[0] = a /\ \A i \in 1..N : f[i] = G[i][f[i - 1]]

\* There is such a function.
LEMMA Recursion ==
  ASSUME NEW N \in Nat, NEW S, NEW a \in S, NEW G \in [1..N -> [S -> S]]
  PROVE  \E f \in [0..N -> S] : Iterates(f, N, a, G)
  <1> DEFINE T == {n \in Nat : n <= N => \E f \in [0..n -> S] : Iterates(f, n, a, G)}
  <1>1. 0 \in T
    <2>1. [i \in 0..0 |-> a] \in [0..0 -> S] /\ Iterates([i \in 0..0 |-> a], 0, a, G)
      BY DEF Iterates
    <2> QED
      BY <2>1
  <1>2. ASSUME NEW n \in Nat, n \in T PROVE n + 1 \in T
    <2> SUFFICES ASSUME n + 1 <= N PROVE \E f \in [0..(n + 1) -> S] : Iterates(f, n + 1, a, G)
      OBVIOUS
    <2>1. PICK f \in [0..n -> S] : Iterates(f, n, a, G)
      BY <1>2
    <2> DEFINE g == [i \in 0..(n + 1) |-> IF i <= n THEN f[i] ELSE G[n + 1][f[n]]]
    <2>2. G[n + 1][f[n]] \in S
      OBVIOUS
    <2>3. g \in [0..(n + 1) -> S]
      BY <2>2
    <2>4. g[0] = a
      BY <2>1 DEF Iterates
    <2>5. ASSUME NEW i \in 1..(n + 1) PROVE g[i] = G[i][g[i - 1]]
      <3>1. CASE i <= n
        <4>1. i \in 1..n /\ i - 1 \in 0..n /\ g[i] = f[i] /\ g[i - 1] = f[i - 1]
          BY <3>1
        <4> QED
          BY <2>1, <4>1 DEF Iterates
      <3>2. CASE i = n + 1
        <4>1. g[i] = G[n + 1][f[n]] /\ g[i - 1] = f[n]
          BY <3>2
        <4> QED
          BY <3>2, <4>1
      <3> QED
        BY <3>1, <3>2
    <2>6. Iterates(g, n + 1, a, G)
      BY <2>4, <2>5 DEF Iterates
    <2> HIDE DEF g
    <2> QED
      BY <2>3, <2>6
  <1>3. N \in T
    <2> HIDE DEF T
    <2> QED
      BY <1>1, <1>2, SetInduction
  <1> QED
    BY <1>3
-----------------------------------------------------------------------------
(* Numbers and their bytes *)

LEMMA Constants ==
  /\ Base \in Nat /\ Base > 1
  /\ Width \in Nat /\ Width > 0
  /\ HeaderBytes \in Nat
  /\ SizeLimit \in Nat /\ SizeLimit > 0
  BY ByteAssumption, LimitAssumption DEF SizeLimit

LEMMA Division ==
  ASSUME NEW x \in Nat
  PROVE  /\ x \div Base \in Nat
         /\ x % Base \in Byte
         /\ x = (x % Base) + Base * (x \div Base)
  BY Constants DEF Byte

LEMMA DivisionMonotonic ==
  ASSUME NEW x \in Nat, NEW y \in Nat, x <= y
  PROVE  x \div Base <= y \div Base
  BY Constants

LEMMA ShiftedFacts ==
  ASSUME NEW value \in Nat
  PROVE  /\ Shifted(value) \in [0..Width -> Nat]
         /\ Shifted(value)[0] = value
         /\ \A i \in 1..Width : Shifted(value)[i] = Shifted(value)[i - 1] \div Base
  <1> DEFINE G == [i \in 1..Width |-> [x \in Nat |-> x \div Base]]
             Is(f) == f = [i \in 0..Width |-> IF i = 0 THEN value ELSE f[i - 1] \div Base]
             shifted == CHOOSE f : Is(f)
  <1>1. G \in [1..Width -> [Nat -> Nat]]
    BY Division
  <1>2. PICK f \in [0..Width -> Nat] : Iterates(f, Width, value, G)
    <2> HIDE DEF G
    <2> QED
      BY <1>1, Recursion, Constants
  <1>3. ASSUME NEW i \in 0..Width
        PROVE  f[i] = IF i = 0 THEN value ELSE f[i - 1] \div Base
    <2>1. CASE i = 0
      BY <1>2, <2>1 DEF Iterates
    <2>2. CASE i # 0
      <3>1. i \in 1..Width /\ i - 1 \in 0..Width /\ f[i - 1] \in Nat
        BY <2>2, Constants
      <3>2. G[i][f[i - 1]] = f[i - 1] \div Base
        BY <3>1
      <3> QED
        BY <1>2, <2>2, <3>1, <3>2 DEF Iterates
    <2> QED
      BY <2>1, <2>2
  <1>4. Is(f)
    BY <1>3
  <1>5. Is(shifted)
    <2> HIDE DEF Is
    <2> QED
      BY <1>4
  <1>6. Shifted(value) = shifted
    BY DEF Shifted
  <1> HIDE DEF shifted
  <1>7. /\ shifted[0] = value
        /\ \A i \in 1..Width : shifted[i] = shifted[i - 1] \div Base
    BY <1>5, Constants
  <1>8. shifted \in [0..Width -> Nat]
    <2> DEFINE T == {n \in Nat : n <= Width => shifted[n] \in Nat}
    <2>1. 0 \in T
      BY <1>7
    <2>2. ASSUME NEW n \in Nat, n \in T PROVE n + 1 \in T
      <3> SUFFICES ASSUME n + 1 <= Width PROVE shifted[n + 1] \in Nat
        OBVIOUS
      <3>1. shifted[n] \in Nat
        BY <2>2, Constants
      <3>2. shifted[n + 1] = shifted[n] \div Base
        BY <1>7, Constants
      <3> QED
        BY <3>1, <3>2, Division
    <2>3. Nat \subseteq T
      <3> HIDE DEF T
      <3> QED
        BY <2>1, <2>2, SetInduction
    <2>4. \A i \in 0..Width : shifted[i] \in Nat
      BY <2>3, Constants
    <2> QED
      BY <1>5, <2>4
  <1> QED
    BY <1>6, <1>7, <1>8

LEMMA BytesFacts ==
  ASSUME NEW value \in Nat
  PROVE  Bytes(value) \in Seq(Byte) /\ Len(Bytes(value)) = Width
  <1>1. \A i \in 1..Width : Shifted(value)[i - 1] \in Nat
    BY ShiftedFacts, Constants
  <1>2. Bytes(value) \in [1..Width -> Byte]
    BY <1>1, Division DEF Bytes
  <1> QED
    BY <1>2, Constants

\* What >> makes of the bytes of a size_t is the size_t that << wrote (net_message.h:30
\* and 69), for every number that its bytes hold and whatever their width.
THEOREM ValueOfBytes ==
  ASSUME NEW value \in Scalar
  PROVE  Value(Bytes(value)) = value
  <1> DEFINE bytes == Bytes(value)
             shifted == Shifted(value)
             Is(f) == f = [i \in 0..Len(bytes) |->
                              IF i = 0 THEN 0
                              ELSE bytes[Len(bytes) - i + 1] + Base * f[i - 1]]
             high == CHOOSE f : Is(f)
             left == [i \in 0..Width |-> shifted[Width - i]]
  <1>1. value \in Nat /\ shifted[Width] = 0
    BY DEF Scalar
  <1>2. /\ shifted \in [0..Width -> Nat]
        /\ shifted[0] = value
        /\ \A i \in 1..Width : shifted[i] = shifted[i - 1] \div Base
    BY <1>1, ShiftedFacts
  <1>3. Len(bytes) = Width /\ \A i \in 1..Width : bytes[i] = shifted[i - 1] % Base
    BY <1>1, BytesFacts DEF Bytes
  <1> HIDE DEF bytes, shifted
  <1>4. ASSUME NEW i \in 0..Width, i # 0
        PROVE  left[i] = bytes[Width - i + 1] + Base * left[i - 1]
    <2>1. Width - i \in 0..Width /\ Width - i + 1 \in 1..Width
      BY <1>4, Constants
    <2>2. left[i] = shifted[Width - i] /\ left[i - 1] = shifted[Width - i + 1]
      BY <1>4, Constants
    <2>3. bytes[Width - i + 1] = shifted[Width - i] % Base
      BY <1>3, <2>1
    <2>4. shifted[Width - i + 1] = shifted[Width - i] \div Base
      BY <1>2, <2>1
    <2>5. shifted[Width - i] \in Nat
      BY <1>2, <2>1
    <2> QED
      BY <2>2, <2>3, <2>4, <2>5, Division
  <1>5. left[0] = 0
    BY <1>1, Constants
  <1>6. Is(left)
    <2> HIDE DEF left
    <2>1. ASSUME NEW i \in 0..Width
          PROVE  left[i] = IF i = 0 THEN 0 ELSE bytes[Width - i + 1] + Base * left[i - 1]
      BY <1>4, <1>5
    <2>2. DOMAIN left = 0..Width /\ left = [i \in 0..Width |-> left[i]]
      BY DEF left
    <2> QED
      BY <1>3, <2>1, <2>2
  <1>7. Is(high)
    <2> HIDE DEF Is
    <2> QED
      BY <1>6
  <1>8. Value(bytes) = high[Width]
    BY <1>3 DEF Value
  <1> HIDE DEF high, left
  <1> DEFINE T == {n \in Nat : n <= Width => high[n] = left[n]}
  <1>9. 0 \in T
    BY <1>5, <1>7, <1>3, Constants
  <1>10. ASSUME NEW n \in Nat, n \in T PROVE n + 1 \in T
    <2> SUFFICES ASSUME n + 1 <= Width PROVE high[n + 1] = left[n + 1]
      OBVIOUS
    <2>1. high[n + 1] = bytes[Width - (n + 1) + 1] + Base * high[n + 1 - 1]
      BY <1>7, <1>3
    <2>2. left[n + 1] = bytes[Width - (n + 1) + 1] + Base * left[n + 1 - 1]
      BY <1>4
    <2>3. high[n] = left[n] /\ n + 1 - 1 = n
      BY <1>10, Constants
    <2> QED
      BY <2>1, <2>2, <2>3
  <1>11. Width \in T
    <2> HIDE DEF T
    <2> QED
      BY <1>9, <1>10, SetInduction, Constants
  <1>12. left[Width] = value
    BY <1>2, Constants DEF left
  <1> QED
    BY <1>8, <1>11, <1>12, Constants DEF bytes

\* What is below a size_t is one.
LEMMA ScalarBelow ==
  ASSUME NEW high \in Scalar, NEW low \in Nat, low <= high
  PROVE  low \in Scalar
  <1> DEFINE h == Shifted(high)
             l == Shifted(low)
  <1>1. high \in Nat /\ h[Width] = 0
    BY DEF Scalar
  <1>2. /\ h \in [0..Width -> Nat] /\ l \in [0..Width -> Nat]
        /\ h[0] = high /\ l[0] = low
        /\ \A i \in 1..Width : h[i] = h[i - 1] \div Base /\ l[i] = l[i - 1] \div Base
    BY <1>1, ShiftedFacts
  <1> HIDE DEF h, l
  <1> DEFINE T == {n \in Nat : n <= Width => l[n] <= h[n]}
  <1>3. 0 \in T
    BY <1>2
  <1>4. ASSUME NEW n \in Nat, n \in T PROVE n + 1 \in T
    <2> SUFFICES ASSUME n + 1 <= Width PROVE l[n + 1] <= h[n + 1]
      OBVIOUS
    <2>1. l[n] \in Nat /\ h[n] \in Nat /\ l[n] <= h[n]
      BY <1>2, <1>4, Constants
    <2>2. h[n + 1] = h[n] \div Base /\ l[n + 1] = l[n] \div Base
      BY <1>2
    <2> QED
      BY <2>1, <2>2, DivisionMonotonic
  <1>5. Width \in T
    <2> HIDE DEF T
    <2> QED
      BY <1>3, <1>4, SetInduction, Constants
  <1>6. l[Width] = 0
    BY <1>1, <1>2, <1>5, Constants
  <1> QED
    BY <1>6 DEF Scalar, l
-----------------------------------------------------------------------------
(* Messages *)

Messages == [size : Nat, body : Seq(Byte)]

LEMMA MessageFacts ==
  ASSUME NEW body \in Seq(Byte)
  PROVE  Message(body) \in Messages /\ Message(body).body = body
  <1>1. Len(body) \in Nat
    BY LenProperties
  <1>2. (HeaderBytes + Len(body)) % SizeLimit \in Nat
    BY <1>1, Constants
  <1> QED
    BY <1>2 DEF Message, Messages

LEMMA NewMessageFacts == NewMessage \in Messages /\ NewMessage.body = <<>>
  BY EmptySeq DEF NewMessage, Messages

\* What was written last is taken first, and then the rest is as it was before.
LEMMA TakesBytes ==
  ASSUME NEW m \in Messages, NEW bytes \in Seq(Byte)
  PROVE  LET put == PutBytes(m, bytes) IN
         /\ put \in Messages
         /\ put.body = m.body \o bytes
         /\ put = Message(put.body)
         /\ Len(put.body) = Len(m.body) + Len(bytes)
         /\ Holds(put, Len(bytes))
         /\ Top(put, Len(bytes)) = bytes
         /\ Drop(put, Len(bytes)) = Message(m.body)
  <1> DEFINE body == m.body
             whole == body \o bytes
  <1>1. body \in Seq(Byte)
    BY DEF Messages
  <1>2. Len(body) \in Nat /\ Len(bytes) \in Nat
    BY <1>1, LenProperties
  <1> HIDE DEF body
  <1>3. /\ whole \in Seq(Byte)
        /\ Len(whole) = Len(body) + Len(bytes)
        /\ \A i \in 1..Len(body) + Len(bytes) :
              whole[i] = IF i <= Len(body) THEN body[i] ELSE bytes[i - Len(body)]
    BY <1>1, ConcatProperties
  <1> HIDE DEF whole
  <1>4. \A i \in 1..Len(whole) : whole[i] \in Byte
    BY <1>3, ElementOfSeq
  <1>5. SubSeq(whole, Len(whole) - Len(bytes) + 1, Len(whole)) = bytes
    <2> DEFINE top == SubSeq(whole, Len(body) + 1, Len(body) + Len(bytes))
    <2>1. /\ top \in Seq(Byte)
          /\ Len(top) = Len(bytes)
          /\ \A i \in 1..Len(bytes) : top[i] = whole[Len(body) + i]
      <3>1. \A i \in Len(body) + 1..Len(body) + Len(bytes) : whole[i] \in Byte
        BY <1>2, <1>3, <1>4
      <3> QED
        BY <1>2, <3>1, SubSeqProperties
    <2> HIDE DEF top
    <2>2. ASSUME NEW i \in 1..Len(bytes) PROVE top[i] = bytes[i]
      <3>1. /\ Len(body) + i \in 1..Len(body) + Len(bytes)
            /\ ~(Len(body) + i <= Len(body))
            /\ Len(body) + i - Len(body) = i
        BY <1>2
      <3>2. whole[Len(body) + i] = bytes[i]
        BY <1>3, <3>1
      <3> QED
        BY <2>1, <3>2
    <2>3. top = bytes
      BY <2>1, <2>2, SeqEqual
    <2> QED
      BY <1>2, <1>3, <2>3 DEF top
  <1>6. SubSeq(whole, 1, Len(whole) - Len(bytes)) = body
    <2> DEFINE rest == SubSeq(whole, 1, Len(body))
    <2>1. /\ rest \in Seq(Byte)
          /\ Len(rest) = Len(body)
          /\ \A i \in 1..Len(body) : rest[i] = whole[i]
      <3>1. \A i \in 1..Len(body) : whole[i] \in Byte
        BY <1>2, <1>3, <1>4
      <3> QED
        BY <1>2, <3>1, SubSeqProperties
    <2>2. \A i \in 1..Len(body) : rest[i] = body[i]
      BY <1>2, <1>3, <2>1
    <2>3. rest = body
      <3> HIDE DEF rest
      <3> QED
        BY <1>1, <2>1, <2>2, SeqEqual
    <2> QED
      BY <1>2, <1>3, <2>3
  <1>7. PutBytes(m, bytes) = Message(whole)
    BY DEF PutBytes, whole, body
  <1>8. Message(whole) \in Messages /\ Message(whole).body = whole
    BY <1>3, MessageFacts
  <1>9. Holds(Message(whole), Len(bytes))
    BY <1>2, <1>3, <1>8 DEF Holds
  <1> QED
    BY <1>3, <1>5, <1>6, <1>7, <1>8, <1>9 DEF Top, Drop, whole, body

LEMMA TakesScalar ==
  ASSUME NEW m \in Messages, NEW value \in Scalar
  PROVE  LET put == PutScalar(m, value) IN
         /\ put \in Messages
         /\ put.body = m.body \o Bytes(value)
         /\ put = Message(put.body)
         /\ Len(put.body) = Len(m.body) + Width
         /\ Holds(put, Width)
         /\ Value(Top(put, Width)) = value
         /\ Drop(put, Width) = Message(m.body)
  <1>1. Bytes(value) \in Seq(Byte) /\ Len(Bytes(value)) = Width
    BY BytesFacts DEF Scalar
  <1>2. Value(Bytes(value)) = value
    BY ValueOfBytes
  <1> QED
    BY <1>1, <1>2, TakesBytes DEF PutScalar

\* The size of a string, and then the string, the way << wrote them.
LEMMA TakesString ==
  ASSUME NEW m \in Messages, NEW string \in Seq(Byte), Len(string) \in Scalar,
         NEW read, NEW tag
  PROVE  LET put == PutString(m, string) IN
         /\ put \in Messages
         /\ put = Message(put.body)
         /\ Len(put.body) = Len(m.body) + Len(string) + Width
         /\ TakeString(Reader(put, read, TRUE), tag)
                = Reader(Message(m.body), [read EXCEPT !.tags[tag] = string], TRUE)
  <1> DEFINE inner == PutBytes(m, string)
             put == PutScalar(inner, Len(string))
  <1>1. /\ inner \in Messages
        /\ inner = Message(inner.body)
        /\ Len(inner.body) = Len(m.body) + Len(string)
        /\ Holds(inner, Len(string))
        /\ Top(inner, Len(string)) = string
        /\ Drop(inner, Len(string)) = Message(m.body)
    BY TakesBytes
  <1> HIDE DEF inner
  <1>2. /\ put \in Messages
        /\ put = Message(put.body)
        /\ Len(put.body) = Len(inner.body) + Width
        /\ Holds(put, Width)
        /\ Value(Top(put, Width)) = Len(string)
        /\ Drop(put, Width) = inner
    BY <1>1, TakesScalar
  <1> HIDE DEF put
  <1> DEFINE r == Reader(put, read, TRUE)
  <1>3. r.msg = put /\ r.read = read /\ r.ok = TRUE
    BY DEF Reader
  <1>4. TakeString(r, tag) = Reader(Message(m.body), [read EXCEPT !.tags[tag] = string], TRUE)
    <2> HIDE DEF r
    <2> QED
      BY <1>1, <1>2, <1>3 DEF TakeString
  <1>5. PutString(m, string) = put
    BY DEF PutString, put, inner
  <1> QED
    BY <1>1, <1>2, <1>4, <1>5
-----------------------------------------------------------------------------
(* Tracks *)

TagCount == Len(WriteOrder)

LEMMA Orders ==
  /\ TagCount = 7 /\ Len(ReadOrder) = TagCount
  /\ \A i \in 1..TagCount : WriteOrder[i] \in Tags
  /\ \A i \in 1..TagCount : ReadOrder[i] = WriteOrder[TagCount + 1 - i]
  /\ \A tag \in Tags : \E i \in 1..TagCount : ReadOrder[i] = tag
  /\ \A i, j \in 1..TagCount : ReadOrder[i] = ReadOrder[j] => i = j
  <1>1. TagCount = 7 /\ Len(ReadOrder) = 7
    BY DEF TagCount, WriteOrder, ReadOrder
  <1>2. Tags = {"title", "artist", "album", "comment", "date", "genre", "album_artist"}
    BY DEF Tags, ToSet, WriteOrder
  <1>3. 1..7 = {1, 2, 3, 4, 5, 6, 7}
    OBVIOUS
  <1>4. \A i \in 1..7 : WriteOrder[i] \in Tags
    BY <1>2, <1>3 DEF WriteOrder
  <1>5. \A i \in 1..7 : ReadOrder[i] = WriteOrder[8 - i]
    BY <1>3 DEF WriteOrder, ReadOrder
  <1>6. \A tag \in Tags : \E i \in 1..7 : ReadOrder[i] = tag
    BY <1>2, <1>3 DEF ReadOrder
  <1>7. \A i, j \in 1..7 : ReadOrder[i] = ReadOrder[j] => i = j
    BY <1>3 DEF ReadOrder
  <1> QED
    BY <1>1, <1>4, <1>5, <1>6, <1>7

LEMMA TrackFacts ==
  ASSUME NEW track \in Tracks
  PROVE  /\ track = [hash |-> track.hash, tags |-> track.tags]
         /\ track.hash \in Scalar
         /\ track.tags \in [Tags -> Seq(Byte)]
         /\ \A tag \in Tags : /\ track.tags[tag] \in Seq(Byte)
                              /\ Len(track.tags[tag]) \in Scalar
  BY TrackAssumption

\* The messages << goes through as it writes a track.
IsPut(put, m, track) ==
    /\ put \in [0..TagCount -> Messages]
    /\ put[0] = PutScalar(m, track.hash)
    /\ \A i \in 1..TagCount : put[i] = PutString(put[i - 1], track.tags[WriteOrder[i]])

LEMMA PutTrackFacts ==
  ASSUME NEW m \in Messages, NEW track \in Tracks
  PROVE  \E put : IsPut(put, m, track) /\ PutTrack(m, track) = put[TagCount]
  <1> DEFINE string(i) == track.tags[WriteOrder[i]]
             first == PutScalar(m, track.hash)
             G == [i \in 1..TagCount |-> [x \in Messages |-> PutString(x, string(i))]]
             Is(f) == f = [i \in 0..TagCount |->
                              IF i = 0 THEN first ELSE PutString(f[i - 1], string(i))]
             put == CHOOSE f : Is(f)
  <1>1. \A i \in 1..TagCount : string(i) \in Seq(Byte) /\ Len(string(i)) \in Scalar
    BY Orders, TrackFacts
  <1>2. first \in Messages
    BY TrackFacts, TakesScalar
  <1>3. \A i \in 1..TagCount : \A x \in Messages : PutString(x, string(i)) \in Messages
    <2> HIDE DEF string
    <2> QED
      BY <1>1, TakesString
  <1> HIDE DEF string, first
  <1>4. PICK f \in [0..TagCount -> Messages] : Iterates(f, TagCount, first, G)
    <2>1. G \in [1..TagCount -> [Messages -> Messages]]
      BY <1>3
    <2>2. TagCount \in Nat
      BY Orders
    <2> HIDE DEF G
    <2> QED
      BY <1>2, <2>1, <2>2, Recursion
  <1>5. f[0] = first /\ \A i \in 1..TagCount : f[i] = PutString(f[i - 1], string(i))
    <2>1. ASSUME NEW i \in 1..TagCount PROVE G[i][f[i - 1]] = PutString(f[i - 1], string(i))
      <3>1. i - 1 \in 0..TagCount /\ f[i - 1] \in Messages
        BY Orders
      <3> QED
        BY <3>1
    <2> QED
      BY <1>4, <2>1 DEF Iterates
  <1>6. Is(f)
    <2>1. ASSUME NEW i \in 0..TagCount
          PROVE  f[i] = IF i = 0 THEN first ELSE PutString(f[i - 1], string(i))
      <3>1. i = 0 \/ i \in 1..TagCount
        BY Orders
      <3> QED
        BY <1>5, <3>1
    <2> QED
      BY <2>1
  <1>7. Is(put)
    <2> HIDE DEF Is
    <2> QED
      BY <1>6
  <1>8. PutTrack(m, track) = put[TagCount]
    BY DEF PutTrack, TagCount, first, string
  <1> HIDE DEF put
  <1>9. put[0] = first /\ \A i \in 1..TagCount : put[i] = PutString(put[i - 1], string(i))
    BY <1>7, Orders
  <1>10. \A n \in 0..TagCount : put[n] \in Messages
    <2> DEFINE T == {n \in Nat : n <= TagCount => put[n] \in Messages}
    <2>1. 0 \in T
      BY <1>2, <1>9
    <2>2. ASSUME NEW n \in Nat, n \in T PROVE n + 1 \in T
      <3> SUFFICES ASSUME n + 1 <= TagCount PROVE put[n + 1] \in Messages
        OBVIOUS
      <3>1. put[n] \in Messages
        BY <2>2, Orders
      <3>2. put[n + 1] = PutString(put[n], string(n + 1))
        BY <1>9, Orders
      <3> QED
        BY <1>3, <3>1, <3>2, Orders
    <2>3. Nat \subseteq T
      <3> HIDE DEF T
      <3> QED
        BY <2>1, <2>2, SetInduction
    <2> QED
      BY <2>3, Orders
  <1>11. IsPut(put, m, track)
    BY <1>7, <1>9, <1>10 DEF IsPut, first, string
  <1> QED
    BY <1>8, <1>11

\* How many bytes a track adds to a message.
TrackLength(track) ==
    8 * Width + Len(track.tags["title"]) + Len(track.tags["artist"])
        + Len(track.tags["album"]) + Len(track.tags["comment"])
        + Len(track.tags["date"]) + Len(track.tags["genre"])
        + Len(track.tags["album_artist"])

LEMMA PutTrackLength ==
  ASSUME NEW m \in Messages, NEW track \in Tracks
  PROVE  /\ PutTrack(m, track) \in Messages
         /\ PutTrack(m, track) = Message(PutTrack(m, track).body)
         /\ TrackLength(track) \in Nat
         /\ Len(PutTrack(m, track).body) = Len(m.body) + TrackLength(track)
  <1>1. PICK put : IsPut(put, m, track) /\ PutTrack(m, track) = put[TagCount]
    BY PutTrackFacts
  <1> DEFINE string(i) == track.tags[WriteOrder[i]]
             length(i) == Len(put[i].body)
  <1>2. \A i \in 1..7 : string(i) \in Seq(Byte) /\ Len(string(i)) \in Scalar
    BY Orders, TrackFacts
  <1>3. \A i \in 0..7 : put[i] \in Messages
    BY <1>1, Orders DEF IsPut
  <1>4. length(0) = Len(m.body) + Width
    BY <1>1, TrackFacts, TakesScalar DEF IsPut
  <1>5. ASSUME NEW i \in 1..7
        PROVE  /\ length(i) = length(i - 1) + Len(string(i)) + Width
               /\ put[i] = Message(put[i].body)
    <2>1. put[i] = PutString(put[i - 1], string(i))
      BY <1>1, Orders DEF IsPut
    <2>2. put[i - 1] \in Messages
      BY <1>3
    <2> HIDE DEF string
    <2> QED
      BY <1>2, <2>1, <2>2, TakesString
  <1>6. /\ string(1) = track.tags["title"] /\ string(2) = track.tags["artist"]
        /\ string(3) = track.tags["album"] /\ string(4) = track.tags["comment"]
        /\ string(5) = track.tags["date"] /\ string(6) = track.tags["genre"]
        /\ string(7) = track.tags["album_artist"]
    BY DEF WriteOrder
  <1>7. /\ Len(m.body) \in Nat
        /\ \A i \in 1..7 : Len(string(i)) \in Nat
        /\ \A i \in 0..7 : length(i) \in Nat
    BY <1>2, <1>3, LenProperties DEF Messages
  <1> HIDE DEF string, length
  <1>8. /\ length(1) = length(0) + Len(string(1)) + Width
        /\ length(2) = length(1) + Len(string(2)) + Width
        /\ length(3) = length(2) + Len(string(3)) + Width
        /\ length(4) = length(3) + Len(string(4)) + Width
        /\ length(5) = length(4) + Len(string(5)) + Width
        /\ length(6) = length(5) + Len(string(6)) + Width
        /\ length(7) = length(6) + Len(string(7)) + Width
    BY <1>5
  <1>9. /\ TrackLength(track) \in Nat
        /\ length(7) = Len(m.body) + TrackLength(track)
    <2>1. TrackLength(track) = 8 * Width + Len(string(1)) + Len(string(2)) + Len(string(3))
              + Len(string(4)) + Len(string(5)) + Len(string(6)) + Len(string(7))
      BY <1>6 DEF TrackLength
    <2>2. /\ Len(string(1)) \in Nat /\ Len(string(2)) \in Nat /\ Len(string(3)) \in Nat
          /\ Len(string(4)) \in Nat /\ Len(string(5)) \in Nat /\ Len(string(6)) \in Nat
          /\ Len(string(7)) \in Nat /\ Width \in Nat
      BY <1>7, Constants
    <2>3. TrackLength(track) \in Nat
      BY <2>1, <2>2
    <2>4. length(7) = Len(m.body) + TrackLength(track)
      <3>1. PICK b, w, s1, s2, s3, s4, s5, s6, s7 :
              /\ b = Len(m.body) /\ w = Width
              /\ s1 = Len(string(1)) /\ s2 = Len(string(2)) /\ s3 = Len(string(3))
              /\ s4 = Len(string(4)) /\ s5 = Len(string(5)) /\ s6 = Len(string(6))
              /\ s7 = Len(string(7))
        OBVIOUS
      <3>2. /\ b \in Nat /\ w \in Nat /\ s1 \in Nat /\ s2 \in Nat /\ s3 \in Nat
            /\ s4 \in Nat /\ s5 \in Nat /\ s6 \in Nat /\ s7 \in Nat
        BY <1>7, <2>2, <3>1
      <3>3. /\ length(1) = b + w + s1 + w
            /\ length(2) = length(1) + s2 + w /\ length(3) = length(2) + s3 + w
            /\ length(4) = length(3) + s4 + w /\ length(5) = length(4) + s5 + w
            /\ length(6) = length(5) + s6 + w /\ length(7) = length(6) + s7 + w
        BY <1>4, <1>8, <3>1
      <3>4. length(7) = b + (8 * w + s1 + s2 + s3 + s4 + s5 + s6 + s7)
        BY <3>2, <3>3
      <3> QED
        BY <2>1, <3>1, <3>4
    <2> QED
      BY <2>3, <2>4
  <1> QED
    BY <1>1, <1>3, <1>5, <1>9, Orders DEF length

\* The >> of a track (net_message.h:117) undoes its << (net_message.h:164): whatever
\* strings the track has and whatever is below it in the message, each of them comes
\* back in its place, no assert fails, and the rest of the message is as it was.
\* ReadOrder is WriteOrder from its end.
THEOREM TakesTrack ==
  ASSUME NEW m \in Messages, NEW track \in Tracks
  PROVE  TakeTrack(PutTrack(m, track)) = Reader(Message(m.body), track, TRUE)
  <1>1. PICK put : IsPut(put, m, track) /\ PutTrack(m, track) = put[TagCount]
    BY PutTrackFacts
  <1> DEFINE blank == [hash |-> 0, tags |-> [tag \in Tags |-> <<>>]]
             Read(i) == [hash |-> 0,
                         tags |-> [tag \in Tags |->
                                      IF \E j \in 1..i : ReadOrder[j] = tag
                                      THEN track.tags[tag] ELSE <<>>]]
             taken == [i \in 0..7 |-> Reader(put[7 - i], Read(i), TRUE)]
             start == Reader(PutTrack(m, track), blank, TRUE)
             Is(f) == f = [i \in 0..Len(ReadOrder) |->
                              IF i = 0 THEN start ELSE TakeString(f[i - 1], ReadOrder[i])]
             take == CHOOSE f : Is(f)
  <1>2. TagCount = 7 /\ Len(ReadOrder) = 7
    BY Orders
  <1>3. \A i \in 0..7 : put[i] \in Messages /\ put[i] = Message(put[i].body)
    <2>1. \A i \in 0..7 : put[i] \in Messages
      BY <1>1, <1>2 DEF IsPut
    <2>2. put[0] = Message(put[0].body)
      BY <1>1, TrackFacts, TakesScalar DEF IsPut
    <2>3. ASSUME NEW i \in 1..7 PROVE put[i] = Message(put[i].body)
      <3> DEFINE string == track.tags[WriteOrder[i]]
      <3>1. string \in Seq(Byte) /\ Len(string) \in Scalar
        BY <1>2, Orders, TrackFacts
      <3>2. put[i] = PutString(put[i - 1], string) /\ put[i - 1] \in Messages
        BY <1>1, <1>2, <2>1 DEF IsPut
      <3> HIDE DEF string
      <3> QED
        BY <3>1, <3>2, TakesString
    <2> QED
      BY <2>1, <2>2, <2>3
  <1>4. taken[0] = start
    <2>1. Read(0) = blank
      OBVIOUS
    <2> HIDE DEF Read, blank
    <2>2. taken[0] = Reader(put[7], Read(0), TRUE)
      OBVIOUS
    <2> QED
      BY <1>1, <1>2, <2>1, <2>2
  <1>5. ASSUME NEW i \in 1..7
        PROVE  taken[i] = TakeString(taken[i - 1], ReadOrder[i])
    <2> DEFINE string == track.tags[ReadOrder[i]]
    <2>1. string \in Seq(Byte) /\ Len(string) \in Scalar /\ ReadOrder[i] \in Tags
      BY <1>2, Orders, TrackFacts
    <2>2. ReadOrder[i] = WriteOrder[8 - i]
      BY <1>2, Orders
    <2>3. put[8 - i] = PutString(put[7 - i], string)
      <3>1. 8 - i \in 1..7 /\ 8 - i - 1 = 7 - i
        OBVIOUS
      <3> QED
        BY <1>1, <1>2, <2>2, <3>1 DEF IsPut
    <2>4. put[7 - i] \in Messages /\ Message(put[7 - i].body) = put[7 - i]
      BY <1>3
    <2>5. [Read(i - 1) EXCEPT !.tags[ReadOrder[i]] = string] = Read(i)
      <3> DEFINE before == [tag \in Tags |-> IF \E j \in 1..i - 1 : ReadOrder[j] = tag
                                             THEN track.tags[tag] ELSE <<>>]
                 after == [tag \in Tags |-> IF \E j \in 1..i : ReadOrder[j] = tag
                                            THEN track.tags[tag] ELSE <<>>]
      <3>1. 1..i = (1..i - 1) \cup {i}
        OBVIOUS
      <3>2. ASSUME NEW tag \in Tags
            PROVE  after[tag] = IF tag = ReadOrder[i] THEN string ELSE before[tag]
        BY <3>1
      <3>3. [before EXCEPT ![ReadOrder[i]] = string] = after
        BY <2>1, <3>2
      <3> HIDE DEF before, after, string
      <3>4. [[hash |-> 0, tags |-> before] EXCEPT !.tags[ReadOrder[i]] = string]
                = [hash |-> 0, tags |-> [before EXCEPT ![ReadOrder[i]] = string]]
        OBVIOUS
      <3> QED
        BY <3>3, <3>4 DEF before, after
    <2> HIDE DEF string, Read
    <2>6. taken[i - 1] = Reader(put[8 - i], Read(i - 1), TRUE)
      <3>1. i - 1 \in 0..7 /\ 7 - (i - 1) = 8 - i
        OBVIOUS
      <3> QED
        BY <3>1
    <2>7. taken[i] = Reader(put[7 - i], Read(i), TRUE)
      <3>1. i \in 0..7
        OBVIOUS
      <3> QED
        BY <3>1
    <2>8. TakeString(Reader(put[8 - i], Read(i - 1), TRUE), ReadOrder[i])
              = Reader(put[7 - i], [Read(i - 1) EXCEPT !.tags[ReadOrder[i]] = string], TRUE)
      <3>1. PICK before : before = put[7 - i]
        OBVIOUS
      <3>2. before \in Messages /\ Message(before.body) = before
        BY <2>4, <3>1
      <3>3. TakeString(Reader(PutString(before, string), Read(i - 1), TRUE), ReadOrder[i])
                = Reader(Message(before.body),
                         [Read(i - 1) EXCEPT !.tags[ReadOrder[i]] = string], TRUE)
        BY <2>1, <3>2, TakesString
      <3> QED
        BY <2>3, <3>1, <3>2, <3>3
    <2> QED
      BY <2>5, <2>6, <2>7, <2>8
  <1> HIDE DEF start
  <1>6. Is(taken)
    <2> HIDE DEF taken
    <2>1. ASSUME NEW i \in 0..7
          PROVE  taken[i] = IF i = 0 THEN start ELSE TakeString(taken[i - 1], ReadOrder[i])
      BY <1>4, <1>5
    <2>2. taken = [i \in 0..7 |-> taken[i]]
      BY DEF taken
    <2> QED
      BY <1>2, <2>1, <2>2
  <1>7. Is(take)
    <2> HIDE DEF Is
    <2> QED
      BY <1>6
  <1> HIDE DEF take, taken
  <1>8. /\ take[0] = start
        /\ \A i \in 1..7 : take[i] = TakeString(take[i - 1], ReadOrder[i])
    BY <1>2, <1>7
  <1>9. take[7] = taken[7]
    <2> DEFINE T == {n \in Nat : n <= 7 => take[n] = taken[n]}
    <2>1. 0 \in T
      BY <1>4, <1>8
    <2>2. ASSUME NEW n \in Nat, n \in T PROVE n + 1 \in T
      <3> SUFFICES ASSUME n + 1 <= 7 PROVE take[n + 1] = taken[n + 1]
        OBVIOUS
      <3>1. /\ take[n + 1] = TakeString(take[n], ReadOrder[n + 1])
            /\ taken[n + 1] = TakeString(taken[n], ReadOrder[n + 1])
        BY <1>5, <1>8
      <3>2. take[n] = taken[n]
        BY <2>2
      <3> QED
        BY <3>1, <3>2
    <2> HIDE DEF T
    <2>3. 7 \in T
      BY <2>1, <2>2, SetInduction
    <2> QED
      BY <2>3 DEF T
  <1>10. Read(7) = [hash |-> 0, tags |-> track.tags]
    <2>1. \A tag \in Tags : \E j \in 1..7 : ReadOrder[j] = tag
      BY <1>2, Orders
    <2>2. [tag \in Tags |-> IF \E j \in 1..7 : ReadOrder[j] = tag
                            THEN track.tags[tag] ELSE <<>>] = track.tags
      BY <2>1, TrackFacts
    <2> QED
      BY <2>2
  <1>11. take[7] = Reader(put[0], [hash |-> 0, tags |-> track.tags], TRUE)
    <2>1. taken[7] = Reader(put[0], Read(7), TRUE)
      <3> HIDE DEF Read
      <3> QED
        BY DEF taken
    <2> QED
      BY <1>9, <1>10, <2>1
  <1>12. /\ Holds(put[0], Width)
         /\ Value(Top(put[0], Width)) = track.hash
         /\ Drop(put[0], Width) = Message(m.body)
    BY <1>1, TrackFacts, TakesScalar DEF IsPut
  <1>13. TakeTrack(PutTrack(m, track))
             = IF take[7].ok /\ Holds(take[7].msg, Width)
               THEN Reader(Drop(take[7].msg, Width),
                           [take[7].read EXCEPT !.hash = Value(Top(take[7].msg, Width))],
                           TRUE)
               ELSE [take[7] EXCEPT !.ok = FALSE]
    BY <1>2 DEF TakeTrack, take, start
  <1>14. /\ take[7].msg = put[0] /\ take[7].ok = TRUE
         /\ take[7].read = [hash |-> 0, tags |-> track.tags]
    BY <1>11 DEF Reader
  <1>15. [[hash |-> 0, tags |-> track.tags] EXCEPT !.hash = track.hash] = track
    BY TrackFacts
  <1> QED
    BY <1>12, <1>13, <1>14, <1>15
-----------------------------------------------------------------------------
(* Lists *)

\* The messages send_tracks_list goes through as it puts tracks into one.
Written(tracks) ==
    LET written[i \in 0..Len(tracks)] ==
            IF i = 0 THEN NewMessage ELSE PutTrack(written[i - 1], tracks[i])
    IN written

LEMMA WrittenFacts ==
  ASSUME NEW tracks \in Seq(Tracks)
  PROVE  /\ Written(tracks) \in [0..Len(tracks) -> Messages]
         /\ Written(tracks)[0] = NewMessage
         /\ \A i \in 1..Len(tracks) :
               Written(tracks)[i] = PutTrack(Written(tracks)[i - 1], tracks[i])
  <1> DEFINE N == Len(tracks)
             G == [i \in 1..N |-> [m \in Messages |-> PutTrack(m, tracks[i])]]
             Is(f) == f = [i \in 0..N |->
                              IF i = 0 THEN NewMessage ELSE PutTrack(f[i - 1], tracks[i])]
             written == CHOOSE f : Is(f)
  <1>1. N \in Nat /\ \A i \in 1..N : tracks[i] \in Tracks
    BY LenProperties, ElementOfSeq
  <1>2. \A i \in 1..N : \A m \in Messages : PutTrack(m, tracks[i]) \in Messages
    BY <1>1, PutTrackLength
  <1>3. PICK f \in [0..N -> Messages] : Iterates(f, N, NewMessage, G)
    <2>1. G \in [1..N -> [Messages -> Messages]]
      BY <1>2
    <2> HIDE DEF G, N
    <2> QED
      BY <1>1, <2>1, NewMessageFacts, Recursion
  <1> HIDE DEF N
  <1>4. /\ f[0] = NewMessage
        /\ \A i \in 1..N : f[i] = PutTrack(f[i - 1], tracks[i])
    <2>1. ASSUME NEW i \in 1..N PROVE G[i][f[i - 1]] = PutTrack(f[i - 1], tracks[i])
      <3>1. i - 1 \in 0..N /\ f[i - 1] \in Messages
        BY <1>1
      <3> QED
        BY <3>1
    <2> QED
      BY <1>3, <2>1 DEF Iterates
  <1>5. Is(f)
    <2>1. ASSUME NEW i \in 0..N
          PROVE  f[i] = IF i = 0 THEN NewMessage ELSE PutTrack(f[i - 1], tracks[i])
      <3>1. i = 0 \/ i \in 1..N
        BY <1>1
      <3> QED
        BY <1>4, <3>1
    <2> QED
      BY <2>1
  <1>6. Is(written)
    <2> HIDE DEF Is
    <2> QED
      BY <1>5
  <1>7. Written(tracks) = written
    BY DEF Written, N
  <1> HIDE DEF written
  <1>8. /\ written[0] = NewMessage
        /\ \A i \in 1..N : written[i] = PutTrack(written[i - 1], tracks[i])
    BY <1>1, <1>6
  <1>9. \A n \in 0..N : written[n] \in Messages
    <2> DEFINE T == {n \in Nat : n <= N => written[n] \in Messages}
    <2>1. 0 \in T
      BY <1>8, NewMessageFacts
    <2>2. ASSUME NEW n \in Nat, n \in T PROVE n + 1 \in T
      <3> SUFFICES ASSUME n + 1 <= N PROVE written[n + 1] \in Messages
        OBVIOUS
      <3>1. written[n] \in Messages /\ n + 1 \in 1..N
        BY <1>1, <2>2
      <3>2. written[n + 1] = PutTrack(written[n], tracks[n + 1])
        BY <1>8, <3>1
      <3> QED
        BY <1>2, <3>1, <3>2
    <2>3. Nat \subseteq T
      <3> HIDE DEF T
      <3> QED
        BY <2>1, <2>2, SetInduction
    <2> QED
      BY <1>1, <2>3
  <1> QED
    BY <1>6, <1>7, <1>8, <1>9 DEF N

LEMMA WrittenAppend ==
  ASSUME NEW tracks \in Seq(Tracks), NEW track \in Tracks
  PROVE  Written(Append(tracks, track))[Len(tracks) + 1]
             = PutTrack(Written(tracks)[Len(tracks)], track)
  <1> DEFINE more == Append(tracks, track)
             N == Len(tracks)
             old == Written(tracks)
             new == Written(more)
  <1>1. /\ N \in Nat
        /\ more \in Seq(Tracks) /\ Len(more) = N + 1
        /\ more[N + 1] = track /\ \A i \in 1..N : more[i] = tracks[i]
    BY LenProperties, AppendProperties
  <1> HIDE DEF more
  <1>2. /\ old[0] = NewMessage
        /\ \A i \in 1..N : old[i] = PutTrack(old[i - 1], tracks[i])
    BY WrittenFacts
  <1>3. /\ new[0] = NewMessage
        /\ \A i \in 1..(N + 1) : new[i] = PutTrack(new[i - 1], more[i])
    BY <1>1, WrittenFacts
  <1> HIDE DEF N, old, new
  <1> DEFINE T == {n \in Nat : n <= N => new[n] = old[n]}
  <1>4. 0 \in T
    BY <1>2, <1>3
  <1>5. ASSUME NEW n \in Nat, n \in T PROVE n + 1 \in T
    <2> SUFFICES ASSUME n + 1 <= N PROVE new[n + 1] = old[n + 1]
      OBVIOUS
    <2>1. new[n] = old[n] /\ n + 1 \in 1..N /\ n + 1 \in 1..(N + 1)
      BY <1>1, <1>5
    <2>2. /\ new[n + 1] = PutTrack(new[n], tracks[n + 1])
          /\ old[n + 1] = PutTrack(old[n], tracks[n + 1])
      BY <1>1, <1>2, <1>3, <2>1
    <2> QED
      BY <2>1, <2>2
  <1>6. N \in T
    <2> HIDE DEF T
    <2> QED
      BY <1>1, <1>4, <1>5, SetInduction
  <1>7. new[N + 1] = PutTrack(new[N], track)
    BY <1>1, <1>3
  <1> QED
    BY <1>1, <1>6, <1>7 DEF N, old, new, more
-----------------------------------------------------------------------------
(* The invariant *)

Listings == [call : {"get_tracks_list"}]
Downloads == [call : {"download_track"}, path : Paths, index : Indices]
Uploading == [call : {"upload_track"}, content : Uploads]

\* The message after all but the last k tracks of the list.
Before(k) == Written(listed)[Len(listed) - k]

TypeInv ==
    /\ phase \in {"idle", "listing", "list_arrived", "decoding", "list_returned",
                  "download_requested", "track_found", "no_track", "track_arrived",
                  "installed", "undefined", "failed", "upload_arrived", "uploaded"}
    /\ listed \in Seq(Tracks) /\ Len(listed) <= MaxListed
    /\ count = Len(listed)
    /\ track_list \in Seq(Tracks)
    /\ phase \in {"idle", "listing", "list_arrived"} => track_list = <<>>
    /\ phase = "idle" => asked = [call |-> "none"] /\ listed = <<>> /\ msg = NewMessage

\* The list on its way, and what is left of it as it is decoded.
ListInv ==
    /\ phase = "listing" => msg = Before(0)
    /\ phase = "list_arrived" => msg = PutScalar(Before(0), count)
    /\ phase \in {"decoding", "list_returned"} =>
          /\ num_of_tracks = Len(listed)
          /\ Len(track_list) <= Len(listed)
          /\ msg = Message(Before(Len(track_list)).body)
          /\ \A i \in 1..Len(track_list) :
                track_list[i] = listed[Len(listed) + 1 - i]
    /\ phase = "list_returned" => Len(track_list) = Len(listed)

\* The request and the reply of a download.
DownloadInv ==
    /\ phase \in {"download_requested", "track_found", "no_track", "track_arrived",
                  "installed", "undefined"} => asked \in Downloads
    /\ phase = "download_requested" =>
          msg = PutScalar(PutBytes(NewMessage, asked.path), asked.index)
    /\ phase = "track_found" =>
          /\ asked.index \in DOMAIN Library
          /\ msg = PutScalar(Message(asked.path), asked.index)
    /\ phase = "no_track" => asked.index \notin DOMAIN Library
    /\ phase = "track_arrived" =>
          /\ asked.index \in DOMAIN Library /\ Readable(Library[asked.index])
          /\ msg = Message(asked.path \o ReadFile(Library[asked.index]))
    /\ phase = "undefined" => ~Terminated(asked.path)
    /\ (phase = "installed" /\ Terminated(asked.path) /\ Sendable(asked.index)) =>
          file = [path |-> Front(asked.path), content |-> Library[asked.index]]

UploadInv ==
    phase = "upload_arrived" =>
        /\ asked \in Uploading /\ Readable(asked.content)
        /\ msg = Message(ReadFile(asked.content))

IInv == TypeInv /\ ListInv /\ DownloadInv /\ UploadInv

LEMMA InitIInv == Init => IInv
  <1> SUFFICES ASSUME Init PROVE IInv
    OBVIOUS
  <1> USE DEF Init
  <1>1. <<>> \in Seq(Tracks) /\ Len(<<>>) = 0
    BY EmptySeq
  <1>2. MaxListed \in Nat
    BY BoundAssumption DEF Scalar
  <1>3. TypeInv
    BY <1>1, <1>2 DEF TypeInv
  <1> QED
    BY <1>3 DEF IInv, ListInv, DownloadInv, UploadInv

LEMMA BeforeFacts ==
  ASSUME TypeInv, NEW k \in 0..Len(listed)
  PROVE  /\ Before(k) \in Messages
         /\ k < Len(listed) =>
               /\ listed[Len(listed) - k] \in Tracks
               /\ Before(k) = PutTrack(Before(k + 1), listed[Len(listed) - k])
               /\ Before(k + 1) \in Messages
               /\ Message(Before(k).body) = Before(k)
  <1> DEFINE N == Len(listed)
             at == N - k
             written == Written(listed)
  <1>1. listed \in Seq(Tracks) /\ N \in Nat
    BY LenProperties DEF TypeInv
  <1>2. /\ \A i \in 0..N : written[i] \in Messages
        /\ \A i \in 1..N : written[i] = PutTrack(written[i - 1], listed[i])
    BY <1>1, WrittenFacts
  <1>3. Before(k) = written[at] /\ Before(k + 1) = written[N - (k + 1)]
    BY DEF Before
  <1> HIDE DEF written
  <1>4. at \in 0..N
    BY <1>1
  <1>5. ASSUME k < N
        PROVE  /\ listed[at] \in Tracks
               /\ written[at] = PutTrack(written[at - 1], listed[at])
               /\ written[at - 1] \in Messages
               /\ Message(written[at].body) = written[at]
    <2>1. at \in 1..N /\ at - 1 \in 0..N
      BY <1>1, <1>5
    <2>2. listed[at] \in Tracks
      <3> HIDE DEF at
      <3> QED
        BY <1>1, <2>1, ElementOfSeq
    <2>3. written[at] = PutTrack(written[at - 1], listed[at]) /\ written[at - 1] \in Messages
      BY <1>2, <2>1
    <2> QED
      BY <2>2, <2>3, PutTrackLength
  <1>6. N - (k + 1) = at - 1
    BY <1>1
  <1> QED
    BY <1>2, <1>3, <1>4, <1>5, <1>6
-----------------------------------------------------------------------------
(* Every step keeps the invariant *)

LEMMA ListTracksStep ==
  ASSUME IInv, ListTracks
  PROVE  IInv'
  <1> USE DEF ListTracks, list
  <1>1. TypeInv'
    BY DEF IInv, TypeInv
  <1>2. ListInv'
    <2>1. listed \in Seq(Tracks) /\ listed = <<>> /\ Len(listed) = 0 /\ msg = NewMessage
      BY EmptySeq DEF IInv, TypeInv
    <2>2. Written(listed)[0] = NewMessage
      BY <2>1, WrittenFacts
    <2>3. msg' = Before(0)'
      BY <2>1, <2>2 DEF Before
    <2> QED
      BY <2>3 DEF ListInv
  <1>3. DownloadInv' /\ UploadInv'
    BY DEF DownloadInv, UploadInv
  <1> QED
    BY <1>1, <1>2, <1>3 DEF IInv

LEMMA PutEntryStep ==
  ASSUME IInv, NEW track \in Tracks, PutEntry(track)
  PROVE  IInv'
  <1> USE DEF PutEntry
  <1>1. /\ listed \in Seq(Tracks) /\ Len(listed) \in Nat
        /\ MaxListed \in Nat
    BY LenProperties, BoundAssumption DEF IInv, TypeInv, Scalar
  <1>2. /\ listed' \in Seq(Tracks)
        /\ Len(listed') = Len(listed) + 1
    BY <1>1, AppendProperties
  <1>3. TypeInv'
    BY <1>1, <1>2 DEF IInv, TypeInv
  <1>4. ListInv'
    <2>1. msg = Written(listed)[Len(listed)]
      BY <1>1 DEF IInv, ListInv, Before
    <2>2. msg' = Written(listed')[Len(listed) + 1]
      BY <1>1, <2>1, WrittenAppend
    <2>3. msg' = Before(0)'
      BY <1>1, <1>2, <2>2 DEF Before
    <2> QED
      BY <2>3 DEF ListInv
  <1>5. DownloadInv' /\ UploadInv'
    BY DEF DownloadInv, UploadInv
  <1> QED
    BY <1>3, <1>4, <1>5 DEF IInv

LEMMA SendTracksListStep ==
  ASSUME IInv, SendTracksList
  PROVE  IInv'
  <1> USE DEF SendTracksList, list
  <1>1. TypeInv'
    BY DEF IInv, TypeInv
  <1>2. ListInv'
    BY DEF IInv, ListInv, Before
  <1>3. DownloadInv' /\ UploadInv'
    BY DEF DownloadInv, UploadInv
  <1> QED
    BY <1>1, <1>2, <1>3 DEF IInv

LEMMA CountIsScalar ==
  ASSUME TypeInv
  PROVE  count \in Scalar /\ Len(listed) \in Nat /\ MaxListed \in Nat
  <1>1. Len(listed) \in Nat /\ MaxListed \in Nat
    BY LenProperties, BoundAssumption DEF TypeInv, Scalar
  <1> QED
    BY <1>1, ScalarBelow, BoundAssumption DEF TypeInv

LEMMA TakeCountStep ==
  ASSUME IInv, TakeCount
  PROVE  IInv'
  <1> USE DEF TakeCount
  <1>1. count \in Scalar /\ Len(listed) \in Nat
    BY CountIsScalar DEF IInv
  <1>2. Before(0) \in Messages
    BY <1>1, BeforeFacts DEF IInv
  <1>3. msg = PutScalar(Before(0), count)
    BY DEF IInv, ListInv
  <1>4. /\ Holds(msg, Width)
        /\ Value(Top(msg, Width)) = count
        /\ Drop(msg, Width) = Message(Before(0).body)
    <2> HIDE DEF TakeCount
    <2> QED
      BY <1>1, <1>2, <1>3, TakesScalar
  <1>5. num_of_tracks' = count /\ msg' = Message(Before(0).body) /\ phase' = "decoding"
    BY <1>4
  <1>6. TypeInv'
    BY <1>5 DEF IInv, TypeInv
  <1>7. ListInv'
    <2>1. track_list = <<>> /\ Len(track_list) = 0 /\ track_list' = track_list
      BY DEF IInv, TypeInv
    <2>2. num_of_tracks' = Len(listed)'
      BY <1>5 DEF IInv, TypeInv
    <2>3. msg' = Message(Before(Len(track_list)).body)'
      BY <1>5, <2>1 DEF Before, Message
    <2> QED
      BY <1>1, <1>5, <2>1, <2>2, <2>3 DEF ListInv
  <1>8. DownloadInv' /\ UploadInv'
    BY <1>5 DEF DownloadInv, UploadInv
  <1> QED
    BY <1>6, <1>7, <1>8 DEF IInv

LEMMA TakeEntryStep ==
  ASSUME IInv, TakeEntry
  PROVE  IInv'
  <1> DEFINE n == Len(track_list)
             N == Len(listed)
             next == listed[N - n]
             r == TakeTrack(msg)
  <1>1. /\ phase = "decoding" /\ n < num_of_tracks
        /\ msg' = r.msg /\ track_list' = Append(track_list, r.read)
        /\ phase' = IF r.ok THEN "decoding" ELSE "aborted"
        /\ UNCHANGED <<asked, listed, count, num_of_tracks, file>>
    BY DEF TakeEntry
  <1>2. /\ num_of_tracks = N /\ msg = Message(Before(n).body)
        /\ \A i \in 1..n : track_list[i] = listed[N + 1 - i]
    BY <1>1 DEF IInv, ListInv
  <1>3. /\ N \in Nat /\ n \in Nat /\ n < N
        /\ listed \in Seq(Tracks) /\ track_list \in Seq(Tracks)
    BY <1>1, <1>2, LenProperties DEF IInv, TypeInv
  <1>4. /\ next \in Tracks
        /\ Before(n) = PutTrack(Before(n + 1), next)
        /\ Before(n + 1) \in Messages
        /\ Message(Before(n).body) = Before(n)
    BY <1>3, BeforeFacts DEF IInv
  <1>5. r = Reader(Message(Before(n + 1).body), next, TRUE)
    <2> HIDE DEF next
    <2>1. PICK before : before = Before(n + 1)
      OBVIOUS
    <2>2. TakeTrack(PutTrack(before, next)) = Reader(Message(before.body), next, TRUE)
      BY <1>4, <2>1, TakesTrack
    <2> QED
      BY <1>2, <1>4, <2>1, <2>2
  <1>6. r.msg = Message(Before(n + 1).body) /\ r.read = next /\ r.ok = TRUE
    <2> HIDE DEF r, next
    <2> QED
      BY <1>5 DEF Reader
  <1> HIDE DEF r, next
  <1>7. /\ track_list' \in Seq(Tracks)
        /\ Len(track_list') = n + 1
        /\ \A i \in 1..n : track_list'[i] = track_list[i]
        /\ track_list'[n + 1] = next
    BY <1>1, <1>3, <1>4, <1>6, AppendProperties
  <1>8. phase' = "decoding"
    BY <1>1, <1>6
  <1>9. TypeInv'
    BY <1>1, <1>7, <1>8 DEF IInv, TypeInv
  <1>10. ListInv'
    <2>1. Len(track_list)' <= Len(listed)'
      BY <1>1, <1>3, <1>7
    <2>2. msg' = Message(Before(Len(track_list)).body)'
      BY <1>1, <1>6, <1>7 DEF Before, Message
    <2>3. ASSUME NEW i \in 1..(n + 1) PROVE track_list'[i] = listed[N + 1 - i]
      <3>1. CASE i \in 1..n
        BY <1>2, <1>7, <3>1
      <3>2. CASE i = n + 1
        <4>1. N + 1 - i = N - n
          BY <1>3, <3>2
        <4> QED
          BY <1>7, <3>2, <4>1 DEF next
      <3> QED
        BY <1>3, <3>1, <3>2
    <2>4. \A i \in 1..Len(track_list)' : track_list'[i] = listed'[Len(listed)' + 1 - i]
      BY <1>1, <1>7, <2>3
    <2> QED
      BY <1>1, <1>2, <1>8, <2>1, <2>2, <2>4 DEF ListInv
  <1>11. DownloadInv' /\ UploadInv'
    BY <1>8 DEF DownloadInv, UploadInv
  <1> QED
    BY <1>9, <1>10, <1>11 DEF IInv

LEMMA ReturnListStep ==
  ASSUME IInv, ReturnList
  PROVE  IInv'
  <1> USE DEF ReturnList, list
  <1>1. TypeInv'
    BY DEF IInv, TypeInv
  <1>2. ListInv'
    <2>1. UNCHANGED <<listed, count, num_of_tracks, track_list, msg>>
      OBVIOUS
    <2>2. Message(Before(Len(track_list)).body)' = Message(Before(Len(track_list)).body)
      BY <2>1 DEF Before, Message
    <2> QED
      BY <2>1, <2>2 DEF IInv, ListInv
  <1>3. DownloadInv' /\ UploadInv'
    BY DEF DownloadInv, UploadInv
  <1> QED
    BY <1>1, <1>2, <1>3 DEF IInv

LEMMA PathFacts ==
  ASSUME NEW path \in Paths
  PROVE  /\ path \in Seq(Byte) /\ Len(path) \in Nat
         /\ HeaderBytes + Len(path) <= IntLimit
  BY LimitAssumption, LenProperties

LEMMA PathBody ==
  ASSUME NEW path \in Seq(Byte)
  PROVE  PutBytes(NewMessage, path) \in Messages /\ PutBytes(NewMessage, path).body = path
  <1>1. NewMessage.body \o path = path
    BY NewMessageFacts, ConcatEmptySeq
  <1> QED
    BY <1>1, MessageFacts DEF PutBytes

LEMMA RequestDownloadStep ==
  ASSUME IInv, NEW path \in Paths, NEW index \in Indices, RequestDownload(path, index)
  PROVE  IInv'
  <1> USE DEF RequestDownload, list
  <1>1. asked' \in Downloads /\ asked'.path = path /\ asked'.index = index
    BY DEF Downloads
  <1>2. TypeInv'
    BY DEF IInv, TypeInv
  <1>3. ListInv' /\ UploadInv'
    BY DEF ListInv, UploadInv
  <1>4. DownloadInv'
    BY <1>1 DEF DownloadInv
  <1> QED
    BY <1>2, <1>3, <1>4 DEF IInv

LEMMA OnDownloadRequestStep ==
  ASSUME IInv, OnDownloadRequest
  PROVE  IInv'
  <1> DEFINE index == asked.index
             path == asked.path
  <1>1. /\ phase = "download_requested" /\ asked \in Downloads
        /\ msg = PutScalar(PutBytes(NewMessage, path), index)
    BY DEF OnDownloadRequest, IInv, DownloadInv
  <1>2. index \in Scalar /\ path \in Paths /\ path \in Seq(Byte)
    BY <1>1, IndexAssumption, PathFacts DEF Downloads
  <1>3. /\ PutBytes(NewMessage, path) \in Messages
        /\ PutBytes(NewMessage, path).body = path
        /\ Message(PutBytes(NewMessage, path).body) = Message(path)
    BY <1>2, PathBody
  <1>4. /\ Holds(msg, Width)
        /\ Value(Top(msg, Width)) = index
        /\ Drop(msg, Width) = Message(path)
    BY <1>1, <1>2, <1>3, TakesScalar
  <1>5. UNCHANGED <<asked, listed, count, num_of_tracks, track_list, file>>
    BY DEF OnDownloadRequest, list
  <1>6. \/ /\ index \in DOMAIN Library /\ phase' = "track_found"
           /\ msg' = PutScalar(Message(path), index)
        \/ index \notin DOMAIN Library /\ phase' = "no_track"
    BY <1>4 DEF OnDownloadRequest
  <1>7. TypeInv'
    BY <1>5, <1>6 DEF IInv, TypeInv
  <1>8. ListInv' /\ UploadInv'
    BY <1>6 DEF ListInv, UploadInv
  <1>9. DownloadInv'
    <2>1. asked'.path = path /\ asked'.index = index /\ asked' \in Downloads
      BY <1>1, <1>5
    <2> QED
      BY <1>6, <2>1 DEF DownloadInv
  <1> QED
    BY <1>7, <1>8, <1>9 DEF IInv

LEMMA ReadFileFacts ==
  ASSUME NEW bytes \in Seq(Byte), Readable(bytes)
  PROVE  /\ ReadFile(bytes) \in Seq(Byte)
         /\ Len(ReadFile(bytes)) \in Nat
         /\ Len(ReadFile(bytes)) < IntLimit
         /\ Len(bytes) < IntLimit => ReadFile(bytes) = bytes
  <1> DEFINE n == Len(bytes)
             size == SizeFromFile(bytes)
  <1>1. n \in Nat /\ IntLimit \in Nat /\ IntLimit > 0
    BY LenProperties, LimitAssumption, Constants DEF SizeLimit
  <1>2. /\ (n + IntLimit) % SizeLimit \in 0..SizeLimit - 1
        /\ (n + IntLimit) % SizeLimit <= n + IntLimit
        /\ n < IntLimit => (n + IntLimit) % SizeLimit = n + IntLimit
    <2>1. n + IntLimit \in Nat /\ SizeLimit \in Nat /\ SizeLimit > 0
      BY <1>1, Constants
    <2>2. (n + IntLimit) % SizeLimit \in 0..SizeLimit - 1
      BY <2>1
    <2>3. (n + IntLimit) % SizeLimit <= n + IntLimit
      BY <2>1
    <2>4. n < IntLimit => n + IntLimit < SizeLimit
      BY <1>1 DEF SizeLimit
    <2>5. n < IntLimit => (n + IntLimit) % SizeLimit = n + IntLimit
      BY <2>1, <2>4
    <2> QED
      BY <2>2, <2>3, <2>5
  <1>3. /\ size \in Int /\ size >= 0 /\ size < IntLimit /\ size <= n
        /\ n < IntLimit => size = n
    BY <1>1, <1>2 DEF SizeFromFile, SizeLimit, Readable
  <1> HIDE DEF size
  <1>4. \A i \in 1..size : bytes[i] \in Byte
    BY <1>1, <1>3, ElementOfSeq
  <1>5. /\ SubSeq(bytes, 1, size) \in Seq(Byte)
        /\ Len(SubSeq(bytes, 1, size)) = size
    BY <1>3, <1>4, SubSeqProperties
  <1>6. SubSeq(bytes, 1, n) = bytes
    BY SubSeqFull
  <1>7. ReadFile(bytes) = SubSeq(bytes, 1, size)
    BY DEF ReadFile, size
  <1>8. n < IntLimit => SubSeq(bytes, 1, size) = bytes
    BY <1>3, <1>6
  <1>9. size \in Nat
    BY <1>3
  <1> HIDE DEF n
  <1> QED
    BY <1>3, <1>5, <1>7, <1>8, <1>9 DEF n

LEMMA SendTrackStep ==
  ASSUME IInv, SendTrack
  PROVE  IInv'
  <1> DEFINE index == asked.index
             path == asked.path
  <1>1. /\ phase = "track_found" /\ asked \in Downloads
        /\ index \in DOMAIN Library
        /\ msg = PutScalar(Message(path), index)
    BY DEF SendTrack, IInv, DownloadInv
  <1>2. index \in Scalar /\ path \in Paths /\ path \in Seq(Byte)
    BY <1>1, IndexAssumption, PathFacts DEF Downloads
  <1>3. Message(path) \in Messages /\ Message(path).body = path
    BY <1>2, MessageFacts
  <1>4. /\ Holds(msg, Width)
        /\ Value(Top(msg, Width)) = index
        /\ Drop(msg, Width).body = path
    BY <1>1, <1>2, <1>3, TakesScalar
  <1>5. UNCHANGED <<asked, listed, count, num_of_tracks, track_list, file>>
    BY DEF SendTrack, list
  <1>6. \/ /\ Readable(Library[index]) /\ phase' = "track_arrived"
           /\ msg' = PutBytes(PutBytes(NewMessage, path), ReadFile(Library[index]))
        \/ phase' = "failed"
    BY <1>1, <1>4 DEF SendTrack
  <1>7. PutBytes(PutBytes(NewMessage, path), ReadFile(Library[index]))
            = Message(path \o ReadFile(Library[index]))
    <2>1. PutBytes(NewMessage, path).body = path
      BY <1>2, PathBody
    <2>2. PICK inner : inner = PutBytes(NewMessage, path)
      OBVIOUS
    <2>3. PutBytes(inner, ReadFile(Library[index]))
              = Message(inner.body \o ReadFile(Library[index]))
      BY DEF PutBytes
    <2> QED
      BY <2>1, <2>2, <2>3
  <1>8. TypeInv'
    BY <1>5, <1>6 DEF IInv, TypeInv
  <1>9. ListInv' /\ UploadInv'
    BY <1>6 DEF ListInv, UploadInv
  <1>10. DownloadInv'
    <2>1. asked'.path = path /\ asked'.index = index /\ asked' \in Downloads
      BY <1>1, <1>5
    <2> QED
      BY <1>1, <1>6, <1>7, <2>1 DEF DownloadInv
  <1> QED
    BY <1>8, <1>9, <1>10 DEF IInv

\* The first NUL of a reply to a terminated path is that of the path.
LEMMA PathEndsAtNul ==
  ASSUME NEW path \in Seq(Byte), NEW content \in Seq(Byte), Terminated(path)
  PROVE  /\ NUL \in ToSet(path \o content)
         /\ \A pos \in DOMAIN (path \o content) :
               ((path \o content)[pos] = NUL
                    /\ \A i \in 1..pos - 1 : (path \o content)[i] # NUL) =>
                 /\ SubSeq(path \o content, 1, pos - 1) = Front(path)
                 /\ SubSeq(path \o content, pos + 1, Len(path \o content)) = content
  <1> DEFINE body == path \o content
             L == Len(path)
             C == Len(content)
  <1>1. /\ L \in Nat /\ L > 0 /\ C \in Nat
        /\ path[L] = NUL /\ \A i \in 1..L - 1 : path[i] # NUL
    <2>1. L \in Nat /\ L # 0 /\ C \in Nat
      BY LenProperties, EmptySeq DEF Terminated
    <2>2. path[L] = NUL
      BY DEF Terminated, Last
    <2>3. ASSUME NEW i \in 1..L - 1 PROVE path[i] # NUL
      <3>1. \A j \in 1..L - 1 : path[j] \in Byte
        BY <2>1, ElementOfSeq
      <3>2. /\ Front(path) \in Seq(Byte) /\ Len(Front(path)) = L - 1
            /\ Front(path)[i] = path[i]
        BY <2>1, <3>1, SubSeqProperties DEF Front
      <3>3. i \in DOMAIN Front(path)
        BY <3>2, LenProperties
      <3>4. Front(path)[i] \in ToSet(Front(path))
        BY <3>3 DEF ToSet
      <3> QED
        BY <3>2, <3>4 DEF Terminated
    <2> QED
      BY <2>1, <2>2, <2>3
  <1>2. /\ body \in Seq(Byte) /\ Len(body) = L + C /\ DOMAIN body = 1..L + C
        /\ \A i \in 1..L : body[i] = path[i]
        /\ \A i \in 1..C : body[L + i] = content[i]
    <2>1. /\ body \in Seq(Byte) /\ Len(body) = L + C
          /\ \A i \in 1..L + C : body[i] = IF i <= L THEN path[i] ELSE content[i - L]
      BY ConcatProperties
    <2>2. DOMAIN body = 1..L + C
      BY <2>1, LenProperties
    <2> HIDE DEF body
    <2>3. ASSUME NEW i \in 1..C PROVE body[L + i] = content[i]
      <3>1. L + i \in 1..L + C /\ ~(L + i <= L) /\ L + i - L = i
        BY <1>1
      <3> QED
        BY <2>1, <3>1
    <2>4. \A i \in 1..L : body[i] = path[i]
      BY <1>1, <2>1
    <2> QED
      BY <2>1, <2>2, <2>3, <2>4
  <1> HIDE DEF body
  <1>3. L \in DOMAIN body /\ body[L] = NUL
    BY <1>1, <1>2
  <1>4. NUL \in ToSet(body)
    BY <1>3 DEF ToSet
  <1>5. ASSUME NEW pos \in DOMAIN body, body[pos] = NUL, \A i \in 1..pos - 1 : body[i] # NUL
        PROVE  /\ SubSeq(body, 1, pos - 1) = Front(path)
               /\ SubSeq(body, pos + 1, Len(body)) = content
    <2>1. pos = L
      <3>1. pos \in 1..L + C
        BY <1>2
      <3>2. ~(L \in 1..pos - 1)
        BY <1>3, <1>5
      <3>3. ~(pos \in 1..L - 1)
        BY <1>1, <1>2, <1>5
      <3> QED
        BY <1>1, <3>1, <3>2, <3>3
    <2>2. \A i \in 1..L + C : body[i] \in Byte
      BY <1>2, ElementOfSeq
    <2>3. SubSeq(body, 1, L - 1) = SubSeq(path, 1, L - 1)
      <3>1. PICK k \in Nat : k = L - 1
        BY <1>1
      <3> DEFINE s == SubSeq(body, 1, k)
                 t == SubSeq(path, 1, k)
      <3>2. \A i \in 1..k : body[i] \in Byte /\ path[i] \in Byte /\ path[i] = body[i]
        BY <1>1, <1>2, <2>2, <3>1
      <3>3. s \in Seq(Byte) /\ Len(s) = k /\ \A i \in 1..k : s[i] = body[i]
        BY <3>2, SubSeqProperties
      <3>4. t \in Seq(Byte) /\ Len(t) = k /\ \A i \in 1..k : t[i] = path[i]
        BY <3>2, SubSeqProperties
      <3> HIDE DEF s, t
      <3>5. s = t
        BY <3>2, <3>3, <3>4, SeqEqual
      <3> QED
        BY <3>1, <3>5 DEF s, t
    <2>4. SubSeq(body, L + 1, L + C) = content
      <3> DEFINE s == SubSeq(body, L + 1, L + C)
      <3>1. \A i \in L + 1..L + C : body[i] \in Byte
        BY <1>1, <2>2
      <3>2. /\ s \in Seq(Byte) /\ Len(s) = C
            /\ \A i \in 1..C : s[i] = body[L + i]
        BY <1>1, <3>1, SubSeqProperties
      <3> HIDE DEF s
      <3>3. s = content
        BY <1>2, <3>2, SeqEqual
      <3> QED
        BY <3>3 DEF s
    <2> QED
      BY <1>2, <2>1, <2>3, <2>4 DEF Front
  <1> QED
    BY <1>4, <1>5 DEF body

LEMMA InstallTrackStep ==
  ASSUME IInv, InstallTrack
  PROVE  IInv'
  <1> DEFINE index == asked.index
             path == asked.path
             content == ReadFile(Library[index])
             body == path \o content
  <1>1. /\ phase = "track_arrived" /\ asked \in Downloads
        /\ index \in DOMAIN Library /\ Readable(Library[index])
        /\ msg = Message(body)
    BY DEF InstallTrack, IInv, DownloadInv
  <1>2. path \in Seq(Byte)
    BY <1>1, PathFacts DEF Downloads
  <1>3. content \in Seq(Byte) /\ (Sendable(index) => content = Library[index])
    BY <1>1, FileAssumption, ReadFileFacts DEF Sendable
  <1>4. UNCHANGED <<asked, msg, listed, count, num_of_tracks, track_list>>
    BY DEF InstallTrack, list
  <1> HIDE DEF index, path, content
  <1>5. msg.body = body
    BY <1>1, <1>2, <1>3, ConcatProperties, MessageFacts
  <1>6. \/ phase' = "failed"
        \/ /\ phase' = "installed"
           /\ Terminated(path) => file' = [path |-> Front(path), content |-> content]
        \/ phase' = "undefined" /\ ~Terminated(path)
    <2>1. CASE phase' = "failed"
      BY <2>1
    <2>2. ASSUME NEW pos \in DOMAIN body,
                 body[pos] = NUL, \A i \in 1..pos - 1 : body[i] # NUL,
                 phase' = "installed",
                 file' = [path |-> SubSeq(body, 1, pos - 1),
                          content |-> SubSeq(body, pos + 1, Len(body))]
          PROVE  Terminated(path) => file' = [path |-> Front(path), content |-> content]
      <3>1. SUFFICES ASSUME Terminated(path)
                     PROVE  file' = [path |-> Front(path), content |-> content]
        OBVIOUS
      <3>2. /\ SubSeq(body, 1, pos - 1) = Front(path)
            /\ SubSeq(body, pos + 1, Len(body)) = content
        BY <1>2, <1>3, <2>2, <3>1, PathEndsAtNul
      <3> QED
        BY <2>2, <3>2
    <2>3. ASSUME NUL \notin ToSet(body), phase' = "undefined"
          PROVE  ~Terminated(path)
      BY <1>2, <1>3, <2>3, PathEndsAtNul
    <2> HIDE DEF body
    <2> QED
      BY <1>5, <2>1, <2>2, <2>3 DEF InstallTrack
  <1>7. TypeInv'
    BY <1>4, <1>6 DEF IInv, TypeInv
  <1>8. ListInv' /\ UploadInv'
    BY <1>6 DEF ListInv, UploadInv
  <1>9. DownloadInv'
    <2>1. asked'.path = path /\ asked'.index = index /\ asked' \in Downloads
      BY <1>1, <1>4 DEF path, index
    <2> QED
      BY <1>3, <1>6, <2>1 DEF DownloadInv
  <1> QED
    BY <1>7, <1>8, <1>9 DEF IInv

LEMMA UploadTrackStep ==
  ASSUME IInv, NEW bytes \in Uploads, UploadTrack(bytes)
  PROVE  IInv'
  <1> USE DEF UploadTrack, list
  <1>1. asked' \in Uploading /\ asked'.content = bytes
    BY DEF Uploading
  <1>2. TypeInv'
    BY DEF IInv, TypeInv
  <1>3. ListInv' /\ DownloadInv'
    BY DEF ListInv, DownloadInv
  <1>4. UploadInv'
    BY <1>1 DEF UploadInv
  <1> QED
    BY <1>2, <1>3, <1>4 DEF IInv

LEMMA AddToLibraryStep ==
  ASSUME IInv, AddToLibrary
  PROVE  IInv'
  <1> USE DEF AddToLibrary, list
  <1>1. TypeInv'
    BY DEF IInv, TypeInv
  <1>2. ListInv' /\ DownloadInv' /\ UploadInv'
    BY DEF ListInv, DownloadInv, UploadInv
  <1> QED
    BY <1>1, <1>2 DEF IInv

LEMMA StutterStep ==
  ASSUME IInv, UNCHANGED vars
  PROVE  IInv'
  <1> USE DEF vars, list
  <1>1. TypeInv'
    BY DEF IInv, TypeInv
  <1>2. ListInv'
    BY DEF IInv, ListInv, Before
  <1>3. DownloadInv' /\ UploadInv'
    BY DEF IInv, DownloadInv, UploadInv
  <1> QED
    BY <1>1, <1>2, <1>3 DEF IInv

LEMMA StepIInv == IInv /\ [Next]_vars => IInv'
  <1> SUFFICES ASSUME IInv, [Next]_vars PROVE IInv'
    OBVIOUS
  <1>1. CASE GetTracksList
    BY <1>1, ListTracksStep, PutEntryStep, SendTracksListStep, TakeCountStep,
       TakeEntryStep, ReturnListStep DEF GetTracksList
  <1>2. CASE DownloadTrack
    BY <1>2, RequestDownloadStep, OnDownloadRequestStep, SendTrackStep, InstallTrackStep
       DEF DownloadTrack
  <1>3. CASE Upload
    BY <1>3, UploadTrackStep, AddToLibraryStep DEF Upload
  <1>4. CASE UNCHANGED vars
    BY <1>4, StutterStep
  <1> QED
    BY <1>1, <1>2, <1>3, <1>4 DEF Next

LEMMA Invariance == Spec => []IInv
  BY InitIInv, StepIInv, PTL DEF Spec
-----------------------------------------------------------------------------
\* No assert of a >> fails, whatever is listed, downloaded or uploaded: every reader
\* finds the bytes its writer put, in the order that mirrors it.
THEOREM NoAssertFails == Spec => []AssertionsHold
  <1>1. IInv => AssertionsHold
    BY DEF IInv, TypeInv, AssertionsHold
  <1> QED
    BY <1>1, Invariance, PTL

\* get_tracks_list decodes every list of send_tracks_list, of any tracks and any
\* length, into the same tracks from the last one to the first.
THEOREM ListIsReversed == Spec => []DecodesListReversed
  <1>1. IInv => DecodesListReversed
    <2> SUFFICES ASSUME IInv PROVE DecodesListReversed
      OBVIOUS
    <2>1. /\ listed \in Seq(Tracks) /\ track_list \in Seq(Tracks)
          /\ Len(listed) \in Nat
          /\ DOMAIN track_list = 1..Len(track_list)
      BY LenProperties DEF IInv, TypeInv
    <2>2. ASSUME phase \in {"decoding", "list_returned"}
          PROVE  /\ num_of_tracks = Len(listed)
                 /\ \A i \in DOMAIN track_list :
                       track_list[i] = listed[Len(listed) + 1 - i]
      BY <2>1, <2>2 DEF IInv, ListInv
    <2>3. ASSUME phase = "list_returned" PROVE track_list = Reverse(listed)
      <3>1. /\ Len(track_list) = Len(listed)
            /\ \A i \in 1..Len(listed) : track_list[i] = listed[Len(listed) + 1 - i]
        BY <2>3 DEF IInv, ListInv
      <3>2. track_list = [i \in 1..Len(listed) |-> track_list[i]]
        BY <2>1, <3>1, LenProperties
      <3>3. \A i \in 1..Len(listed) : Len(listed) + 1 - i = (Len(listed) - i) + 1
        BY <2>1
      <3> QED
        BY <3>1, <3>2, <3>3 DEF Reverse
    <2> QED
      BY <2>2, <2>3 DEF DecodesListReversed
  <1> QED
    BY <1>1, Invariance, PTL

\* A download is answered with the file of the index the client asked for, or with
\* Error404 when there is none: the index that on_download_request puts back is the
\* one that send_track takes, for any path, library and index.
THEOREM RightFileIsServed == Spec => []ServesWhatWasAsked
  <1>1. IInv => ServesWhatWasAsked
    <2> SUFFICES ASSUME IInv PROVE ServesWhatWasAsked
      OBVIOUS
    <2>1. ASSUME phase = "track_arrived"
          PROVE  /\ asked.index \in DOMAIN Library
                 /\ Sendable(asked.index) => msg.body = asked.path \o Library[asked.index]
      <3>1. /\ asked \in Downloads
            /\ asked.index \in DOMAIN Library /\ Readable(Library[asked.index])
            /\ msg = Message(asked.path \o ReadFile(Library[asked.index]))
        BY <2>1 DEF IInv, DownloadInv
      <3>2. Sendable(asked.index) => ReadFile(Library[asked.index]) = Library[asked.index]
        BY <3>1, FileAssumption, ReadFileFacts DEF Sendable
      <3> QED
        BY <3>1, <3>2 DEF Message
    <2>2. phase = "no_track" => asked.index \notin DOMAIN Library
      BY DEF IInv, DownloadInv
    <2> QED
      BY <2>1, <2>2 DEF ServesWhatWasAsked
  <1> QED
    BY <1>1, Invariance, PTL

\* install_track puts the whole file under the path the caller gave, for every path
\* that ends with its only NUL and every file below the largest int.
THEOREM TrackIsInstalled == Spec => []InstallsTerminated
  <1>1. IInv => InstallsTerminated
    BY DEF IInv, DownloadInv, InstallsTerminated
  <1> QED
    BY <1>1, Invariance, PTL

\* The longest list stays below 2^32 bytes.
ListsFit ==
    \E n \in Nat : /\ \A track \in Tracks : Len(PutTrack(NewMessage, track).body) <= n
                  /\ HeaderBytes + MaxListed * n + Width < SizeLimit

LEMMA WrittenLength ==
  ASSUME NEW n \in Nat, \A track \in Tracks : TrackLength(track) <= n,
         NEW tracks \in Seq(Tracks)
  PROVE  \A i \in 0..Len(tracks) : Len(Written(tracks)[i].body) <= i * n
  <1> DEFINE N == Len(tracks)
             written == Written(tracks)
             T == {i \in Nat : i <= N => Len(written[i].body) <= i * n}
  <1>1. /\ N \in Nat
        /\ written \in [0..N -> Messages]
        /\ written[0] = NewMessage
        /\ \A i \in 1..N : written[i] = PutTrack(written[i - 1], tracks[i])
    BY LenProperties, WrittenFacts
  <1> HIDE DEF written
  <1>2. 0 \in T
    BY <1>1, NewMessageFacts, EmptySeq
  <1>3. ASSUME NEW i \in Nat, i \in T PROVE i + 1 \in T
    <2> SUFFICES ASSUME i + 1 <= N PROVE Len(written[i + 1].body) <= (i + 1) * n
      OBVIOUS
    <2>1. /\ written[i] \in Messages /\ Len(written[i].body) <= i * n
          /\ written[i + 1] = PutTrack(written[i], tracks[i + 1])
      BY <1>1, <1>3
    <2>2. tracks[i + 1] \in Tracks
      BY <1>1, ElementOfSeq
    <2>3. /\ Len(written[i + 1].body) = Len(written[i].body) + TrackLength(tracks[i + 1])
          /\ TrackLength(tracks[i + 1]) \in Nat
          /\ TrackLength(tracks[i + 1]) <= n
      BY <2>1, <2>2, PutTrackLength
    <2>4. Len(written[i].body) \in Nat
      BY <2>1, LenProperties DEF Messages
    <2>5. (i + 1) * n = i * n + n /\ i * n \in Nat
      OBVIOUS
    <2> QED
      BY <2>1, <2>3, <2>4, <2>5
  <1>4. Nat \subseteq T
    <2> HIDE DEF T
    <2> QED
      BY <1>2, <1>3, SetInduction
  <1> QED
    BY <1>1, <1>4 DEF written

LEMMA SizeOfMessage ==
  ASSUME NEW body \in Seq(Byte), HeaderBytes + Len(body) < SizeLimit
  PROVE  Message(body).size = HeaderBytes + Len(body)
  <1>1. Len(body) \in Nat
    BY LenProperties
  <1> QED
    BY <1>1, Constants DEF Message

\* header.size, a uint32_t, is the length of what is sent, for files and paths of any
\* length: what is too long for the int of get_file_size is not sent or is cut.  Of a
\* list it has to be assumed that it is not longer than a size can say; nothing in
\* send_tracks_list sees to that.
THEOREM SizeIsAnnounced ==
  ASSUME ListsFit
  PROVE  Spec => []AnnouncesItsBody
  <1>1. ASSUME IInv PROVE AnnouncesItsBody
    <2>1. HeaderBytes \in Nat /\ HeaderBytes < IntLimit /\ Width \in Nat /\ Width < IntLimit
          /\ IntLimit \in Nat
      BY Constants, LimitAssumption
    <2>2. ASSUME NEW body \in Seq(Byte), HeaderBytes + Len(body) < SizeLimit,
                 msg = Message(body)
          PROVE  msg.size = HeaderBytes + Len(msg.body)
      BY <2>2, SizeOfMessage, MessageFacts
    <2>3. ASSUME phase = "list_arrived" PROVE msg.size = HeaderBytes + Len(msg.body)
      <3>1. PICK n \in Nat :
              /\ \A track \in Tracks : Len(PutTrack(NewMessage, track).body) <= n
              /\ HeaderBytes + MaxListed * n + Width < SizeLimit
        BY DEF ListsFit
      <3>2. \A track \in Tracks : TrackLength(track) <= n
        <4> SUFFICES ASSUME NEW track \in Tracks PROVE TrackLength(track) <= n
          OBVIOUS
        <4>1. /\ Len(PutTrack(NewMessage, track).body)
                    = Len(NewMessage.body) + TrackLength(track)
              /\ TrackLength(track) \in Nat /\ Len(NewMessage.body) = 0
          BY PutTrackLength, NewMessageFacts, EmptySeq
        <4> QED
          BY <3>1, <4>1
      <3> DEFINE before == Before(0)
                 N == Len(listed)
      <3>3. /\ count \in Scalar /\ N \in Nat /\ MaxListed \in Nat /\ N <= MaxListed
            /\ before \in Messages /\ listed \in Seq(Tracks)
            /\ msg = PutScalar(before, count)
        BY <1>1, <2>3, CountIsScalar, BeforeFacts DEF IInv, TypeInv, ListInv
      <3>4. Len(before.body) <= N * n
        <4>1. \A i \in 0..N : Len(Written(listed)[i].body) <= i * n
          BY <3>2, <3>3, WrittenLength
        <4>2. before = Written(listed)[N]
          BY <3>3 DEF Before
        <4> QED
          BY <3>3, <4>1, <4>2
      <3> HIDE DEF before, N
      <3>5. /\ msg \in Messages /\ msg = Message(msg.body)
            /\ Len(msg.body) = Len(before.body) + Width
        BY <3>3, TakesScalar
      <3>6. msg.body \in Seq(Byte) /\ Len(msg.body) \in Nat /\ Len(before.body) \in Nat
        BY <3>3, <3>5, LenProperties DEF Messages
      <3>7. N * n <= MaxListed * n /\ N * n \in Nat /\ MaxListed * n \in Nat
        BY <3>3
      <3>8. HeaderBytes + Len(msg.body) < SizeLimit
        BY <2>1, <3>1, <3>4, <3>5, <3>6, <3>7, Constants
      <3> QED
        BY <2>2, <3>5, <3>6, <3>8
    <2>4. ASSUME phase = "download_requested" PROVE msg.size = HeaderBytes + Len(msg.body)
      <3> DEFINE path == asked.path
                 inner == PutBytes(NewMessage, path)
      <3>1. path \in Paths /\ asked.index \in Scalar /\ msg = PutScalar(inner, asked.index)
        BY <1>1, <2>4, IndexAssumption DEF IInv, DownloadInv, Downloads
      <3> HIDE DEF path
      <3>2. /\ path \in Seq(Byte) /\ Len(path) \in Nat
            /\ HeaderBytes + Len(path) <= IntLimit
        BY <3>1, PathFacts
      <3>3. inner \in Messages /\ inner.body = path
        BY <3>2, PathBody
      <3> HIDE DEF inner
      <3>4. /\ msg \in Messages /\ msg = Message(msg.body)
            /\ Len(msg.body) = Len(path) + Width
        BY <3>1, <3>3, TakesScalar
      <3>5. msg.body \in Seq(Byte) /\ HeaderBytes + Len(msg.body) < SizeLimit
        BY <2>1, <3>2, <3>4 DEF Messages, SizeLimit
      <3> QED
        BY <2>2, <3>4, <3>5
    <2>5. ASSUME phase = "track_arrived" PROVE msg.size = HeaderBytes + Len(msg.body)
      <3> DEFINE path == asked.path
                 content == ReadFile(Library[asked.index])
                 body == path \o content
      <3>1. /\ path \in Paths
            /\ asked.index \in DOMAIN Library /\ Readable(Library[asked.index])
            /\ msg = Message(body)
        BY <1>1, <2>5 DEF IInv, DownloadInv, Downloads
      <3>2. /\ path \in Seq(Byte) /\ Len(path) \in Nat
            /\ HeaderBytes + Len(path) <= IntLimit
        BY <3>1, PathFacts
      <3>3. content \in Seq(Byte) /\ Len(content) \in Nat /\ Len(content) < IntLimit
        BY <3>1, FileAssumption, ReadFileFacts
      <3> HIDE DEF path, content
      <3>4. body \in Seq(Byte) /\ Len(body) = Len(path) + Len(content)
        BY <3>2, <3>3, ConcatProperties
      <3>5. HeaderBytes + Len(body) < SizeLimit
        BY <2>1, <3>2, <3>3, <3>4 DEF SizeLimit
      <3> HIDE DEF body
      <3> QED
        BY <2>2, <3>1, <3>4, <3>5
    <2>6. ASSUME phase = "upload_arrived" PROVE msg.size = HeaderBytes + Len(msg.body)
      <3> DEFINE body == ReadFile(asked.content)
      <3>1. /\ asked.content \in Seq(Byte) /\ Readable(asked.content)
            /\ msg = Message(body)
        BY <1>1, <2>6, FileAssumption DEF IInv, UploadInv, Uploading
      <3>2. body \in Seq(Byte) /\ Len(body) \in Nat /\ Len(body) < IntLimit
        BY <3>1, ReadFileFacts
      <3> HIDE DEF body
      <3>3. HeaderBytes + Len(body) < SizeLimit
        BY <2>1, <3>2 DEF SizeLimit
      <3> QED
        BY <2>2, <3>1, <3>2, <3>3
    <2> QED
      BY <2>3, <2>4, <2>5, <2>6 DEF AnnouncesItsBody
  <1> QED
    BY <1>1, Invariance, PTL
=============================================================================
