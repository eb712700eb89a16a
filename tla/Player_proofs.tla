--------------------------- MODULE Player_proofs ---------------------------
(***************************************************************************)
(* Proofs about TrackTags and Player for files with any comments, and any  *)
(* library: the two readers of tags agree on names in capitals, and the    *)
(* rows are the titles of the server's files.                              *)
(***************************************************************************)
EXTENDS Player, WellFoundedInduction, TLAPS

-----------------------------------------------------------------------------
(* Induction over a set, and the last of some positions *)

LEMMA Least ==
  ASSUME NEW T, T \subseteq Nat, T # {}
  PROVE  \E x \in T : \A y \in T : x <= y
  <1>1. \E x \in T : \A y \in T : ~(<<y, x>> \in OpToRel(<, Nat))
    BY NatLessThanWellFounded, WFMin
  <1>2. PICK x \in T : \A y \in T : ~(<<y, x>> \in OpToRel(<, Nat))
    BY <1>1
  <1>3. \A y \in T : ~(y < x)
    BY <1>2 DEF OpToRel
  <1> QED
    BY <1>3

LEMMA SetInduction ==
  ASSUME NEW S, 0 \in S, \A n \in Nat : n \in S => n + 1 \in S
  PROVE  Nat \subseteq S
  <1> DEFINE T == Nat \ S
  <1> SUFFICES ASSUME T # {} PROVE FALSE
    OBVIOUS
  <1>1. PICK x \in T : \A y \in T : x <= y
    BY Least
  <1>2. x # 0 /\ x - 1 \in Nat /\ x - 1 \notin T
    BY <1>1
  <1> QED
    BY <1>2

LEMMA LastOf ==
  ASSUME NEW n \in Nat, NEW T, T \subseteq 1..n, T # {}
  PROVE  \E i \in T : \A j \in T : j <= i
  <1> DEFINE U == {n - i : i \in T}
  <1>1. U \subseteq Nat /\ U # {}
    <2>1. \A i \in T : n - i \in Nat
      OBVIOUS
    <2> QED
      BY <2>1
  <1>2. PICK u \in U : \A v \in U : u <= v
    BY <1>1, Least
  <1>3. PICK i \in T : u = n - i
    BY <1>2
  <1>4. ASSUME NEW j \in T PROVE j <= i
    <2>1. n - j \in U
      OBVIOUS
    <2>2. n - i <= n - j
      BY <1>2, <1>3, <2>1
    <2> QED
      BY <2>2
  <1> QED
    BY <1>4
-----------------------------------------------------------------------------
(* The map of fields *)

\* One iteration of the loop over the comments, and the map after the first n.
Inserted(comments, key, i, info) ==
    Assign(info, key[Name(comments[i])], Value(comments[i]))

IsInfo(info, comments, key, n) ==
    info = [i \in 0..n |-> IF i = 0 THEN <<>>
                           ELSE Inserted(comments, key, i, info[i - 1])]

LEMMA AssignFacts ==
  ASSUME NEW info, NEW name, NEW value
  PROVE  /\ DOMAIN Assign(info, name, value) = DOMAIN info \cup {name}
         /\ Assign(info, name, value)[name] = value
         /\ \A n \in DOMAIN info : n # name => Assign(info, name, value)[n] = info[n]
  BY DEF Assign

\* The maps the loop goes through exist, so that the definition defines them.
LEMMA InfoExists ==
  ASSUME NEW comments, NEW key
  PROVE  \A n \in Nat : \E info : IsInfo(info, comments, key, n)
  <1> DEFINE S == {n \in Nat : \E info : IsInfo(info, comments, key, n)}
  <1>1. 0 \in S
    <2> DEFINE info == [i \in 0..0 |-> <<>>]
    <2>1. info = [i \in 0..0 |-> IF i = 0 THEN <<>>
                                 ELSE Inserted(comments, key, i, info[i - 1])]
      OBVIOUS
    <2>2. IsInfo(info, comments, key, 0)
      BY <2>1 DEF IsInfo
    <2> HIDE DEF info
    <2> QED
      BY <2>2
  <1>2. ASSUME NEW n \in Nat, n \in S PROVE n + 1 \in S
    <2>1. PICK info : IsInfo(info, comments, key, n)
      BY <1>2
    <2>2. info = [i \in 0..n |-> IF i = 0 THEN <<>>
                                 ELSE Inserted(comments, key, i, info[i - 1])]
      BY <2>1 DEF IsInfo
    <2> DEFINE more == [i \in 0..(n + 1) |->
                           IF i <= n THEN info[i]
                           ELSE Inserted(comments, key, i, info[n])]
    <2>3. ASSUME NEW i \in 0..(n + 1)
          PROVE  more[i] = IF i = 0 THEN <<>>
                           ELSE Inserted(comments, key, i, more[i - 1])
      <3>1. CASE i = 0
        BY <2>2, <3>1
      <3>2. CASE i # 0 /\ i <= n
        <4>1. more[i] = info[i] /\ more[i - 1] = info[i - 1]
          BY <3>2
        <4>2. info[i] = Inserted(comments, key, i, info[i - 1])
          BY <2>2, <3>2
        <4> QED
          BY <3>2, <4>1, <4>2
      <3>3. CASE i = n + 1
        <4>1. /\ more[i] = Inserted(comments, key, i, info[n])
              /\ more[i - 1] = info[n]
          BY <3>3
        <4> QED
          BY <3>3, <4>1
      <3> QED
        BY <3>1, <3>2, <3>3
    <2>4. more = [i \in 0..(n + 1) |-> IF i = 0 THEN <<>>
                                       ELSE Inserted(comments, key, i, more[i - 1])]
      BY <2>3
    <2>5. IsInfo(more, comments, key, n + 1)
      BY <2>4 DEF IsInfo
    <2> HIDE DEF more
    <2> QED
      BY <2>5
  <1> HIDE DEF S
  <1>3. Nat \subseteq S
    BY <1>1, <1>2, SetInduction
  <1> QED
    BY <1>3 DEF S

LEMMA ExtractedInfo ==
  ASSUME NEW comments, Len(comments) \in Nat, NEW key
  PROVE  \E info : /\ IsInfo(info, comments, key, Len(comments))
                   /\ ExtractFieldsInfo(comments, key) = info[Len(comments)]
  <1> DEFINE info == CHOOSE info : IsInfo(info, comments, key, Len(comments))
  <1>1. IsInfo(info, comments, key, Len(comments))
    BY InfoExists
  <1>2. ExtractFieldsInfo(comments, key) = info[Len(comments)]
    BY DEF ExtractFieldsInfo, IsInfo, Inserted
  <1> QED
    BY <1>1, <1>2

\* The map has the keys of the comments, and for each the value of the last one.
Mapped(info, comments, key, n) ==
    /\ \A f : f \in DOMAIN info <=> \E i \in 1..n : key[Name(comments[i])] = f
    /\ \A i \in 1..n :
          (\A j \in 1..n : j > i => key[Name(comments[j])] # key[Name(comments[i])])
              => info[key[Name(comments[i])]] = Value(comments[i])

\* FLAC_extract_fields_info (FLAC_track_info.cpp:17) overwrites: of comments with one name
\* the last in the file counts, and the map has no other names, for any comments.
THEOREM LastFieldWins ==
  ASSUME NEW comments, Len(comments) \in Nat, NEW key
  PROVE  Mapped(ExtractFieldsInfo(comments, key), comments, key, Len(comments))
  <1> DEFINE N == Len(comments)
             k(i) == key[Name(comments[i])]
  <1>1. PICK info : /\ IsInfo(info, comments, key, N)
                    /\ ExtractFieldsInfo(comments, key) = info[N]
    BY ExtractedInfo
  <1>2. /\ info[0] = <<>>
        /\ \A n \in 0..N : n # 0 => info[n] = Assign(info[n - 1], k(n), Value(comments[n]))
    BY <1>1 DEF IsInfo, Inserted
  <1> DEFINE S == {n \in Nat : n <= N => Mapped(info[n], comments, key, n)}
  <1>3. 0 \in S
    BY <1>2 DEF Mapped
  <1>4. ASSUME NEW n \in Nat, n \in S PROVE n + 1 \in S
    <2> SUFFICES ASSUME n + 1 <= N PROVE Mapped(info[n + 1], comments, key, n + 1)
      OBVIOUS
    <2>1. Mapped(info[n], comments, key, n)
      BY <1>4
    <2>2. info[n + 1] = Assign(info[n], k(n + 1), Value(comments[n + 1]))
      BY <1>2
    <2>3. /\ DOMAIN info[n + 1] = DOMAIN info[n] \cup {k(n + 1)}
          /\ info[n + 1][k(n + 1)] = Value(comments[n + 1])
          /\ \A f \in DOMAIN info[n] : f # k(n + 1) => info[n + 1][f] = info[n][f]
      <3> HIDE DEF k
      <3> QED
        BY <2>2 DEF Assign
    <2> HIDE DEF k
    <2>4. \A f : f \in DOMAIN info[n + 1] <=> \E i \in 1..(n + 1) : k(i) = f
      <3>1. \A f : f \in DOMAIN info[n] <=> \E i \in 1..n : k(i) = f
        BY <2>1 DEF Mapped, k
      <3>2. 1..(n + 1) = 1..n \cup {n + 1}
        OBVIOUS
      <3> QED
        BY <2>3, <3>1, <3>2
    <2>5. ASSUME NEW i \in 1..(n + 1), \A j \in 1..(n + 1) : j > i => k(j) # k(i)
          PROVE  info[n + 1][k(i)] = Value(comments[i])
      <3>1. CASE i = n + 1
        BY <2>3, <3>1
      <3>2. CASE i # n + 1
        <4>1. i \in 1..n /\ k(i) # k(n + 1) /\ \A j \in 1..n : j > i => k(j) # k(i)
          BY <2>5, <3>2
        <4>2. info[n][k(i)] = Value(comments[i]) /\ k(i) \in DOMAIN info[n]
          BY <2>1, <4>1 DEF Mapped, k
        <4> QED
          BY <2>3, <4>1, <4>2
      <3> QED
        BY <3>1, <3>2
    <2> QED
      BY <2>4, <2>5 DEF Mapped, k
  <1> HIDE DEF S
  <1>5. N \in S
    BY <1>3, <1>4, SetInduction
  <1> QED
    BY <1>1, <1>5 DEF S

\* What a reader shows in a member: the last comment whose key it is, or the default.
LEMMA MemberShown ==
  ASSUME NEW comments, Len(comments) \in Nat, NEW key, NEW names, NEW f \in names
  PROVE  LET of == {i \in 1..Len(comments) : key[Name(comments[i])] = f}
         IN  /\ of = {} => FillTrackInfo(ExtractFieldsInfo(comments, key), names)[f]
                                = Default[f]
             /\ of # {} => \E i \in of :
                    /\ \A j \in of : j <= i
                    /\ FillTrackInfo(ExtractFieldsInfo(comments, key), names)[f]
                           = Value(comments[i])
  <1> DEFINE of == {i \in 1..Len(comments) : key[Name(comments[i])] = f}
             info == ExtractFieldsInfo(comments, key)
  <1>1. Mapped(info, comments, key, Len(comments))
    BY LastFieldWins
  <1>2. f \in DOMAIN info <=> of # {}
    BY <1>1 DEF Mapped
  <1>3. FillTrackInfo(info, names)[f] = IF of # {} THEN info[f] ELSE Default[f]
    BY <1>2 DEF FillTrackInfo
  <1>4. ASSUME of # {} PROVE \E i \in of : (\A j \in of : j <= i) /\ info[f] = Value(comments[i])
    <2>1. PICK i \in of : \A j \in of : j <= i
      BY <1>4, LastOf
    <2>2. \A j \in 1..Len(comments) : j > i => key[Name(comments[j])] # key[Name(comments[i])]
      BY <2>1
    <2> QED
      BY <1>1, <2>1, <2>2 DEF Mapped
  <1> QED
    BY <1>3, <1>4

\* Titles as the server reads them are titles.
LEMMA ReadsTitle ==
  ASSUME NEW file \in Seq(Comments)
  PROVE  ReadTrackInfo(file)["TITLE"] = Title(file)
  <1> DEFINE key == [n \in Names |-> n]
             of == {i \in 1..Len(file) : key[Name(file[i])] = "TITLE"}
  <1>1. \A i \in 1..Len(file) : key[Name(file[i])] = Name(file[i])
    <2>1. \A c \in Comments : Name(c) \in Names
      BY DEF Comments, Name
    <2> QED
      BY <2>1
  <1>2. DOMAIN file = 1..Len(file) /\ Len(file) \in Nat
    OBVIOUS
  <1>3. of = {i \in DOMAIN file : Name(file[i]) = "TITLE"}
    BY <1>1, <1>2
  <1>4. ReadTrackInfo(file) = FillTrackInfo(ExtractFieldsInfo(file, key), fields)
    BY DEF ReadTrackInfo
  <1> HIDE DEF key
  <1>5. "TITLE" \in fields
    BY DEF fields
  <1>6. CASE of = {}
    BY <1>2, <1>3, <1>4, <1>5, <1>6, MemberShown DEF Title
  <1>7. CASE of # {}
    <2>1. PICK i \in of : /\ \A j \in of : j <= i
                          /\ ReadTrackInfo(file)["TITLE"] = Value(file[i])
      BY <1>2, <1>4, <1>5, <1>7, MemberShown
    <2>2. \A l \in of : (\A j \in of : j <= l) => l = i
      BY <2>1
    <2>3. Title(file) = Value(file[CHOOSE l \in of : \A j \in of : j <= l])
      BY <1>3, <1>7 DEF Title
    <2>4. (CHOOSE l \in of : \A j \in of : j <= l) = i
      BY <2>1, <2>2
    <2> QED
      BY <2>1, <2>3, <2>4
  <1> QED
    BY <1>6, <1>7

\* If the names are in capitals, comparing them in capitals changes nothing.
LEMMA CapitalsAgree ==
  ASSUME NEW file \in Seq(Comments), InCapitals(file), NEW f \in fields \cap audio_fields
  PROVE  ReadTrackInfo(file)[f] = FlacData(file)[f]
  <1> DEFINE exact == [n \in Names |-> n]
             of == {i \in 1..Len(file) : Name(file[i]) = f}
  <1>1. \A i \in 1..Len(file) : /\ exact[Name(file[i])] = Name(file[i])
                                /\ make_string_large[Name(file[i])] = Name(file[i])
    <2>1. \A c \in Comments : Name(c) \in Names
      BY DEF Comments, Name
    <2>2. \A i \in 1..Len(file) : file[i] \in Comments /\ i \in DOMAIN file
      OBVIOUS
    <2> QED
      BY <2>1, <2>2 DEF InCapitals, make_string_large
  <1>2. Len(file) \in Nat
    OBVIOUS
  <1>3. /\ of = {i \in 1..Len(file) : exact[Name(file[i])] = f}
        /\ of = {i \in 1..Len(file) : make_string_large[Name(file[i])] = f}
    BY <1>1
  <1>4. /\ ReadTrackInfo(file) = FillTrackInfo(ExtractFieldsInfo(file, exact), fields)
        /\ FlacData(file)
               = FillTrackInfo(ExtractFieldsInfo(file, make_string_large), audio_fields)
    BY DEF ReadTrackInfo, FlacData
  <1> HIDE DEF exact
  <1>5. CASE of = {}
    BY <1>2, <1>3, <1>4, <1>5, MemberShown
  <1>6. CASE of # {}
    <2>1. PICK i \in of : /\ \A j \in of : j <= i
                          /\ ReadTrackInfo(file)[f] = Value(file[i])
      BY <1>2, <1>3, <1>4, <1>6, MemberShown
    <2>2. PICK l \in of : /\ \A j \in of : j <= l
                          /\ FlacData(file)[f] = Value(file[l])
      BY <1>2, <1>3, <1>4, <1>6, MemberShown
    <2>3. i = l
      BY <2>1, <2>2
    <2> QED
      BY <2>1, <2>2, <2>3
  <1> QED
    BY <1>5, <1>6
-----------------------------------------------------------------------------
(* From the answer to the rows *)

titles == [i \in DOMAIN library |-> Title(library[i])]

Answers == [id : {"GetList", "Error404"}, tracks : {titles, <<>>}]

\* The server answers once; a list, wherever it is, is the titles of its files.
AnswerInv ==
    /\ library \in Libraries
    /\ app = "connecting" => server = "listening"
    /\ \/ answer = <<>> /\ deq_messages_in = <<>>
       \/ /\ server \in {"listed", "apologised"}
          /\ \E a \in Answers :
                /\ a.id = "GetList" => a.tracks = titles
                /\ \/ answer = <<a>> /\ deq_messages_in = <<>>
                   \/ answer = <<>> /\ deq_messages_in = <<a>>

\* Every row has an element of tracks_, moved from.
RowsInv ==
    /\ app \in {"shown", "quit"} =>
          /\ rows = Reverse(titles)
          /\ tracks_ = [i \in DOMAIN rows |-> MovedFrom]
    /\ clicked.title = MovedFrom

IInv == AnswerInv /\ RowsInv

LEMMA TitlesSequence ==
  ASSUME library \in Libraries
  PROVE  /\ DOMAIN titles = 1..Len(library) /\ Len(titles) = Len(library)
         /\ Len(library) \in Nat
         /\ \A i \in DOMAIN library : library[i] \in Seq(Comments)
         /\ [i \in DOMAIN library |-> ReadTrackInfo(library[i])["TITLE"]] = titles
  <1>1. library \in Seq(Seq(Comments))
    BY LibrariesAssumption
  <1>2. DOMAIN library = 1..Len(library) /\ Len(library) \in Nat
        /\ \A i \in DOMAIN library : library[i] \in Seq(Comments)
    BY <1>1
  <1>3. Len(titles) = Len(library)
    BY <1>2 DEF titles
  <1>4. [i \in DOMAIN library |-> ReadTrackInfo(library[i])["TITLE"]] = titles
    BY <1>2, ReadsTitle DEF titles
  <1> QED
    BY <1>2, <1>3, <1>4 DEF titles

LEMMA InitIInv == Init => IInv
  BY DEF Init, IInv, AnswerInv, RowsInv, NotClicked

\* The rows as the answer makes them.
LEMMA GetTracksListInv == IInv /\ GetTracksList => IInv'
  <1> SUFFICES ASSUME IInv, GetTracksList PROVE IInv'
    OBVIOUS
  <1>1. PICK a \in Answers :
            /\ deq_messages_in = <<a>> /\ answer = <<>>
            /\ a.id = "GetList" => a.tracks = titles
            /\ library \in Libraries
    BY DEF GetTracksList, IInv, AnswerInv
  <1>2. Last(deq_messages_in) = a /\ Head(deq_messages_in) = a
        /\ Front(deq_messages_in) = <<>>
    BY <1>1 DEF Last, Front
  <1>3. /\ app' = "shown" /\ deq_messages_in' = <<>> /\ answer' = <<>>
        /\ library' = library /\ clicked' = clicked
        /\ rows' = Reverse(titles)
        /\ tracks_' = [i \in DOMAIN Reverse(titles) |-> MovedFrom]
    BY <1>1, <1>2 DEF GetTracksList, ShowTracks, network
  <1>4. titles' = titles
    BY <1>3 DEF titles
  <1> QED
    BY <1>1, <1>3, <1>4 DEF IInv, AnswerInv, RowsInv

LEMMA StepIInv == IInv /\ [Next]_vars => IInv'
  <1> SUFFICES ASSUME IInv, [Next]_vars PROVE IInv'
    OBVIOUS
  <1>0. AnswerInv /\ RowsInv
    BY DEF IInv
  <1>t. library' = library => titles' = titles /\ Answers' = Answers
    BY DEF titles, Answers
  <1>1. ASSUME UNCHANGED <<library, view>>, app' \in {"shown", "quit"} => app = "shown" \/ app' = app
        PROVE  RowsInv'
    BY <1>0, <1>1, <1>t DEF RowsInv, view
  <1>2. ASSUME UNCHANGED <<library, answer, deq_messages_in>>,
               app' = "connecting" => app = "connecting" /\ server' = server,
               \/ server' = server
               \/ server \notin {"listed", "apologised"}
        PROVE  AnswerInv'
    BY <1>0, <1>2, <1>t DEF AnswerInv
  <1>3. CASE GetTracksList
    BY <1>3, GetTracksListInv
  <1>4. CASE Connect
    <2>1. /\ UNCHANGED <<library, answer, deq_messages_in, view>>
          /\ server = "listening"
          /\ app' \in {"validating", "failed"}
      BY <1>0, <1>4 DEF Connect, client, AnswerInv
    <2> QED
      BY <1>1, <1>2, <2>1 DEF IInv
  <1>5. CASE ReadServerValidation \/ ValidationUnread
    <2>1. /\ UNCHANGED <<library, answer, deq_messages_in, view, server>>
          /\ app' \in {"linked", "failed"}
      BY <1>5 DEF ReadServerValidation, ValidationUnread, client, network
    <2> QED
      BY <1>1, <1>2, <2>1 DEF IInv
  <1>6. CASE Startup
    <2>1. /\ UNCHANGED <<library, answer, deq_messages_in, clicked, server>>
          /\ app' = "spinning"
      BY <1>6 DEF Startup, network
    <2>2. RowsInv'
      BY <1>0, <2>1 DEF RowsInv
    <2> QED
      BY <1>2, <2>1, <2>2 DEF IInv
  <1>7. ASSUME NEW row \in DOMAIN rows, OnEntryClicked(row) PROVE IInv'
    <2>1. /\ UNCHANGED <<library, answer, deq_messages_in, server, app, tracks_, rows>>
          /\ app = "shown" /\ clicked' = [row |-> row, title |-> tracks_[row]]
      BY <1>7 DEF OnEntryClicked, client, network
    <2>2. tracks_[row] = MovedFrom
      BY <1>0, <2>1 DEF RowsInv
    <2>3. RowsInv'
      BY <1>0, <1>t, <2>1, <2>2 DEF RowsInv
    <2> QED
      BY <1>2, <2>1, <2>3 DEF IInv
  <1>8. CASE Quit \/ ValidationWritten \/ ValidationFailed \/ SendList \/ ReadFails
    <2>1. /\ UNCHANGED <<library, answer, deq_messages_in, server, view>>
          /\ app' \in {"quit", "terminated", app}
          /\ app' = "quit" => app \in {"shown", "quit"}
      BY <1>8 DEF Quit, ValidationWritten, ValidationFailed, SendList, ReadFails, client,
                  network
    <2> QED
      BY <1>1, <1>2, <2>1 DEF IInv
  <1>9. CASE Receive
    <2>1. /\ answer # <<>> /\ deq_messages_in' = deq_messages_in \o answer /\ answer' = <<>>
          /\ UNCHANGED <<app, library, server, view>>
      BY <1>9 DEF Receive
    <2>2. PICK a \in Answers :
            /\ answer = <<a>> /\ deq_messages_in = <<>>
            /\ server \in {"listed", "apologised"}
            /\ a.id = "GetList" => a.tracks = titles
      BY <1>0, <2>1 DEF AnswerInv
    <2>3. deq_messages_in' = <<a>>
      BY <2>1, <2>2
    <2>4. AnswerInv'
      BY <1>0, <1>t, <2>1, <2>2, <2>3 DEF AnswerInv
    <2> QED
      BY <1>1, <2>1, <2>4 DEF IInv
  <1>10. CASE SendPuzzle \/ ReadClientValidation
    <2>1. /\ UNCHANGED <<library, answer, deq_messages_in, view, app>>
          /\ server \in {"accepted", "puzzled"}
      BY <1>10 DEF SendPuzzle, ReadClientValidation, client
    <2>2. app # "connecting"
      BY <1>0, <2>1 DEF AnswerInv
    <2> QED
      BY <1>1, <1>2, <2>1, <2>2 DEF IInv
  <1>11. CASE AnswerList
    <2>1. /\ UNCHANGED <<library, deq_messages_in, view, app>> /\ server = "validated"
          /\ server' \in {"listed", "apologised"}
          /\ \/ answer' = <<[id |-> "GetList", tracks |-> [i \in DOMAIN library |->
                                         ReadTrackInfo(library[i])["TITLE"]]]>>
             \/ answer' = <<[id |-> "Error404", tracks |-> <<>>]>>
      BY <1>11 DEF AnswerList, client
    <2>2. deq_messages_in = <<>> /\ app # "connecting"
      BY <1>0, <2>1 DEF AnswerInv
    <2>3. PICK a \in Answers :
            /\ answer' = <<a>>
            /\ a.id = "GetList" => a.tracks = titles
      <3>1. [id |-> "Error404", tracks |-> <<>>] \in Answers
        BY DEF Answers
      <3>2. [id |-> "GetList", tracks |-> titles] \in Answers
        BY DEF Answers
      <3> QED
        BY <1>0, <2>1, <3>1, <3>2, TitlesSequence DEF AnswerInv
    <2>4. AnswerInv'
      BY <1>0, <1>t, <2>1, <2>2, <2>3 DEF AnswerInv
    <2> QED
      BY <1>1, <2>1, <2>4 DEF IInv
  <1>12. CASE LoseLink
    <2>1. /\ UNCHANGED <<library, deq_messages_in, view, app, server>>
          /\ answer' \in {answer, <<>>}
      BY <1>12 DEF LoseLink, client
    <2>2. AnswerInv'
      BY <1>0, <1>t, <2>1 DEF AnswerInv
    <2> QED
      BY <1>1, <2>1, <2>2 DEF IInv
  <1>13. CASE UNCHANGED vars
    BY <1>1, <1>2, <1>13 DEF IInv, vars, client, network
  <1> QED
    BY <1>3, <1>4, <1>5, <1>6, <1>7, <1>8, <1>9, <1>10, <1>11, <1>12, <1>13
       DEF Next, MainThread, IoThread, Server, User

LEMMA Invariance == Spec => []IInv
  BY InitIInv, StepIInv, PTL DEF Spec
-----------------------------------------------------------------------------
\* For every library, of whatever size and with whatever comments, the rows of
\* update_entries are the titles of the server's files, each the value of the last
\* TITLE comment, in the reverse of the directory's order; each row has its element of
\* tracks_, and what on_entry_clicked prints has been moved away.
THEOREM RowsAreTitles == Spec => []ShowsTitlesOnce
  <1>1. IInv => ShowsTitlesOnce
    <2> SUFFICES ASSUME IInv PROVE ShowsTitlesOnce
      OBVIOUS
    <2>1. clicked.title = MovedFrom
      BY DEF IInv, RowsInv
    <2>2. ASSUME app \in {"shown", "quit"}
          PROVE  rows = Reverse(titles) /\ Len(tracks_) = Len(rows)
      <3>1. /\ rows = Reverse(titles)
            /\ tracks_ = [i \in DOMAIN rows |-> MovedFrom]
            /\ library \in Libraries
        BY <2>2 DEF IInv, RowsInv, AnswerInv
      <3>2. Len(titles) \in Nat /\ rows = [i \in 1..Len(titles) |-> titles[(Len(titles) - i) + 1]]
        BY <3>1, TitlesSequence DEF Reverse
      <3>3. DOMAIN rows = 1..Len(titles) /\ DOMAIN tracks_ = 1..Len(titles)
        BY <3>1, <3>2
      <3>4. Len(rows) = Len(titles) /\ Len(tracks_) = Len(titles)
        BY <3>1, <3>2, <3>3
      <3> QED
        BY <3>1, <3>4
    <2> QED
      BY <2>1, <2>2 DEF ShowsTitlesOnce, titles
  <1> QED
    BY <1>1, Invariance, PTL

\* FLAC_read_track_info and audio::flac_data fill the members they share with the same
\* values, for every file whose field names are in capitals, however often a field is
\* repeated and whether or not a comment has a '='.
THEOREM TagReadersAgree == Spec => []ReadersAgree
  <1>1. IInv => ReadersAgree
    BY TitlesSequence, CapitalsAgree DEF IInv, AnswerInv, ReadersAgree
  <1> QED
    BY <1>1, Invariance, PTL
=============================================================================
