------------------------ MODULE ClientServer_proofs ------------------------
(***************************************************************************)
(* Proofs about ClientServer for any clients, tracks, uploads and bounds.  *)
(* As long as no request fails, a call gets the answer to its own request, *)
(* the two ends of the client's queue are one answer, a list shows what    *)
(* the client uploaded, a download what the client saw, and the answer "no *)
(* track" is true.  When requests fail, a call gets at least an answer to  *)
(* one that the same client had made by then.                              *)
(***************************************************************************)
EXTENDS ClientServer, SequenceTheorems, TLAPS

RequestSet == [no : Nat, kind : {"DownloadTrack", "GetList", "UploadTrack"},
               index : Indices, tracks : Seq(Tracks)]
Queued == [client : Clients, msg : RequestSet]
ReplySet == [no : Nat, kind : {"DownloadTrack", "GetList", "NoTrackExists"},
             tracks : Seq(Tracks)]
States == {"idle", "wait", "spin", "NoTrackExists", "install", "decode", "dead"}

TypeInv ==
    /\ at \in [Clients -> States]
    /\ request \in [Clients -> RequestSet]
    /\ toServer \in [Clients -> Seq(RequestSet)]
    /\ deq_message_in \in Seq(Queued)
    /\ library \in Seq(Tracks)
    /\ toClient \in [Clients -> Seq(ReplySet)]
    /\ deq_messages_in \in [Clients -> Seq(ReplySet)]
    /\ result \in [Clients -> [call : RequestSet, reply : ReplySet]]
    /\ seen \in [Clients -> Seq(Tracks)]
    /\ uploaded \in [Clients -> SUBSET Tracks]
    /\ calls \in Nat

\* A request that is answered.
Asks(r) == r.kind # "UploadTrack"

\* The i-th request in the server's queue is one of client c.
IsOf(c, i) == i \in 1..Len(deq_message_in) /\ deq_message_in[i].client = c

\* Only the last request a client made can be one that is answered, and it is the
\* last of the client's in the queue.
QueueInv ==
    \A c \in Clients : \A i \in 1..Len(deq_message_in) :
        IsOf(c, i) /\ Asks(deq_message_in[i].msg) =>
            /\ deq_message_in[i].msg = request[c]
            /\ \A j \in 1..Len(deq_message_in) : IsOf(c, j) => j <= i

InQueue(c) == \E i \in 1..Len(deq_message_in) :
                  IsOf(c, i) /\ Asks(deq_message_in[i].msg)

ShowsPrefix(list) ==
    /\ Len(list) <= Len(library)
    /\ \A i \in 1..Len(list) : list[i] = library[i]

\* An answer to request r of client c.
IsAnswer(a, c, r) ==
    /\ a.no = r.no
    /\ \/ /\ r.kind = "GetList" /\ a.kind = "GetList"
          /\ ShowsPrefix(a.tracks)
          /\ uploaded[c] \subseteq ToSet(a.tracks)
       \/ /\ r.kind = "DownloadTrack" /\ a.kind = "DownloadTrack"
          /\ r.index < Len(seen[c]) => a.tracks = <<seen[c][r.index + 1]>>
       \/ /\ r.kind = "DownloadTrack" /\ a.kind = "NoTrackExists"
          /\ r.index >= Len(seen[c])

OneAnswer(channel, c) == Len(channel) = 1 /\ IsAnswer(channel[1], c, request[c])

\* Where the last request of a client, or the answer to it, is.
Settling(c) == /\ ~InQueue(c) /\ toClient[c] = <<>> /\ deq_messages_in[c] = <<>>
               /\ toServer[c] # <<>> => ~Asks(request[c])
Asking(c) == /\ toServer[c] = <<request[c]>> /\ Asks(request[c])
             /\ ~InQueue(c) /\ toClient[c] = <<>> /\ deq_messages_in[c] = <<>>
Queueing(c) == /\ InQueue(c)
               /\ toServer[c] = <<>> /\ toClient[c] = <<>> /\ deq_messages_in[c] = <<>>
Answering(c) == /\ OneAnswer(toClient[c], c)
                /\ toServer[c] = <<>> /\ ~InQueue(c) /\ deq_messages_in[c] = <<>>
Answered(c) == /\ OneAnswer(deq_messages_in[c], c)
               /\ toServer[c] = <<>> /\ ~InQueue(c) /\ toClient[c] = <<>>

AnsweredWith(c, kind) == Answered(c) /\ deq_messages_in[c][1].kind = kind

\* What the client's main thread may rely on.
CallInv(c) ==
    /\ Settling(c) \/ Asking(c) \/ Queueing(c) \/ Answering(c) \/ Answered(c)
    /\ toServer[c] # <<>> => toServer[c] = <<request[c]>>
    /\ Asks(request[c]) => request[c].tracks = <<>>
    /\ at[c] = "idle" => Settling(c)
    /\ at[c] = "spin" => request[c].kind = "GetList"
    /\ at[c] = "wait" => request[c].kind = "DownloadTrack"
    /\ at[c] = "decode" => AnsweredWith(c, "GetList")
    /\ at[c] = "install" => AnsweredWith(c, "DownloadTrack")
    /\ at[c] = "NoTrackExists" => AnsweredWith(c, "NoTrackExists")

\* An upload of client c that is on its way.
Underway(c, t) ==
    \/ toServer[c] # <<>> /\ request[c].tracks = <<t>>
    \/ \E i \in 1..Len(deq_message_in) : IsOf(c, i) /\ deq_message_in[i].msg.tracks = <<t>>

\* Nothing that was uploaded gets lost, and the lists that were seen stay true.
LibraryInv(c) ==
    /\ \A t \in uploaded[c] : t \in ToSet(library) \/ Underway(c, t)
    /\ ShowsPrefix(seen[c])

\* What the finished calls told the client.
ResultInv(c) ==
    /\ request[c].no <= calls
    /\ result[c].call.no <= calls
    /\ result[c].reply.no = result[c].call.no
    /\ result[c].call.kind = "GetList" /\ result[c].call.no > 0
            => uploaded[c] \subseteq ToSet(seen[c]) \/ request[c] # result[c].call
    /\ LET call == result[c].call
       IN call.kind = "DownloadTrack" /\ call.index < Len(seen[c])
              => result[c].reply.tracks = <<seen[c][call.index + 1]>>

ClientInv == \A c \in Clients : CallInv(c) /\ LibraryInv(c) /\ ResultInv(c)

IInv == TypeInv /\ QueueInv /\ ClientInv
-----------------------------------------------------------------------------
(* Types *)

\* The library only grows.
LEMMA ConcatFacts ==
  ASSUME NEW S, NEW s \in Seq(S), NEW t \in Seq(S)
  PROVE  /\ s \o t \in Seq(S)
         /\ Len(s \o t) >= Len(s)
         /\ \A i \in 1..Len(s) : (s \o t)[i] = s[i]
  OBVIOUS

LEMMA InitIInv == Init => IInv
  <1> SUFFICES ASSUME Init PROVE IInv
    OBVIOUS
  <1>1. TypeInv
    BY LibraryAssumption, BoundAssumption
       DEF Init, TypeInv, RequestSet, ReplySet, States, Indices, ListRequest, NoResult
  <1>2. QueueInv
    BY DEF Init, QueueInv
  <1>3. ASSUME NEW c \in Clients PROVE CallInv(c) /\ LibraryInv(c) /\ ResultInv(c)
    BY LibraryAssumption
       DEF Init, CallInv, LibraryInv, ResultInv, Settling, InQueue, ShowsPrefix,
           NoResult, ListRequest
  <1> QED
    BY <1>1, <1>2, <1>3 DEF IInv, ClientInv

\* A channel with one message.
LEMMA OneMessage ==
  ASSUME NEW S, NEW s \in Seq(S), Len(s) = 1
  PROVE  /\ s # <<>> /\ s[1] \in S
         /\ Head(s) = s[1] /\ Last(s) = s[1]
         /\ Tail(s) = <<>> /\ PopBack(s) = <<>>
  <1>1. s # <<>> /\ s[1] \in S
    BY ElementOfSeq
  <1>2. Head(s) = s[1] /\ Tail(s) \in Seq(S) /\ Len(Tail(s)) = 0
    BY <1>1, HeadTailProperties
  <1>3. Tail(s) = <<>>
    BY <1>2, EmptySeq
  <1> QED
    BY <1>1, <1>2, <1>3 DEF Last, PopBack

\* The one answer in a client's queue.
LEMMA AnsweredFacts ==
  ASSUME IInv, NEW c \in Clients, Answered(c)
  PROVE  /\ Len(deq_messages_in[c]) = 1
         /\ Head(deq_messages_in[c]) = deq_messages_in[c][1]
         /\ Last(deq_messages_in[c]) = deq_messages_in[c][1]
         /\ deq_messages_in[c][1] \in ReplySet
         /\ IsAnswer(deq_messages_in[c][1], c, request[c])
         /\ PopBack(deq_messages_in[c]) = <<>>
  <1>1. deq_messages_in[c] \in Seq(ReplySet)
    BY DEF IInv, TypeInv
  <1>2. Len(deq_messages_in[c]) = 1 /\ IsAnswer(deq_messages_in[c][1], c, request[c])
    BY DEF Answered, OneAnswer
  <1> QED
    BY <1>1, <1>2, OneMessage

\* Which of the five places holds the answer, when there is one in the queue.
LEMMA OnlyAnswered ==
  ASSUME IInv, NEW c \in Clients, deq_messages_in[c] # <<>>
  PROVE  Answered(c) /\ at[c] # "idle"
  BY DEF IInv, ClientInv, CallInv, Settling, Asking, Queueing, Answering

LEMMA OnlyAnswering ==
  ASSUME IInv, NEW c \in Clients, toClient[c] # <<>>
  PROVE  /\ Answering(c) /\ at[c] # "idle"
         /\ Head(toClient[c]) = toClient[c][1] /\ toClient[c][1] \in ReplySet
         /\ Tail(toClient[c]) = <<>>
  <1>1. Answering(c) /\ at[c] # "idle" /\ toClient[c] \in Seq(ReplySet)
    BY DEF IInv, TypeInv, ClientInv, CallInv, Settling, Asking, Queueing, Answered
  <1>2. Len(toClient[c]) = 1
    BY <1>1 DEF Answering, OneAnswer
  <1> QED
    BY <1>1, <1>2, OneMessage

\* What the calls send.
LEMMA Requests ==
  ASSUME calls \in Nat
  PROVE  /\ \A index \in Indices : DownloadRequest(calls + 1, index) \in RequestSet
         /\ ListRequest(calls + 1) \in RequestSet
         /\ \A track \in Tracks : UploadRequest(calls + 1, track) \in RequestSet
  <1>1. calls + 1 \in Nat /\ 0 \in Indices
    BY BoundAssumption DEF Indices
  <1> QED
    BY <1>1 DEF DownloadRequest, ListRequest, UploadRequest, RequestSet

LEMMA StepType == ~Failures /\ IInv /\ [Next]_vars => TypeInv'
  <1> SUFFICES ASSUME ~Failures, IInv, [Next]_vars PROVE TypeInv'
    OBVIOUS
  <1> USE DEF TypeInv, channels, history
  <1>0. TypeInv
    BY DEF IInv
  <1>1. ASSUME NEW c \in Clients, NEW r \in RequestSet,
               NEW then \in {"wait", "spin", "idle"}, SendRequest(c, r, then),
               uploaded' \in [Clients -> SUBSET Tracks]
        PROVE  TypeInv'
    BY <1>0, <1>1 DEF SendRequest, States
  <1>2. ASSUME NEW c \in Clients, NEW index \in Indices, Download(c, index) PROVE TypeInv'
    BY <1>0, <1>1, <1>2, Requests DEF Download
  <1>3. ASSUME NEW c \in Clients, GetTracksList(c) PROVE TypeInv'
    BY <1>0, <1>1, <1>3, Requests DEF GetTracksList
  <1>4. ASSUME NEW c \in Clients, NEW track \in Tracks, Upload(c, track) PROVE TypeInv'
    <2>1. uploaded' \in [Clients -> SUBSET Tracks]
      BY <1>0, <1>4 DEF Upload
    <2> QED
      BY <1>0, <1>1, <1>4, <2>1, Requests DEF Upload
  <1>4a. ASSUME NEW c \in Clients, NEW reply \in ReplySet, Answered(c), Return(c, reply),
                deq_messages_in' = [deq_messages_in EXCEPT ![c] = PopBack(@)],
                seen' \in [Clients -> Seq(Tracks)],
                UNCHANGED <<request, channels, library, uploaded, calls>>
         PROVE  TypeInv'
    <2>1. PopBack(deq_messages_in[c]) = <<>> /\ <<>> \in Seq(ReplySet)
      BY <1>4a, AnsweredFacts
    <2>2. deq_messages_in' \in [Clients -> Seq(ReplySet)]
      BY <1>0, <1>4a, <2>1
    <2>3. [call |-> request[c], reply |-> reply] \in [call : RequestSet, reply : ReplySet]
      BY <1>0, <1>4a
    <2>4. result' \in [Clients -> [call : RequestSet, reply : ReplySet]]
      BY <1>0, <1>4a, <2>3 DEF Return
    <2>5. at' \in [Clients -> States]
      BY <1>0, <1>4a DEF Return, States
    <2> QED
      BY <1>0, <1>4a, <2>2, <2>4, <2>5
  <1>5. ASSUME NEW c \in Clients, LookAtAnswer(c) PROVE TypeInv'
    <2>1. Last(deq_messages_in[c]).kind # "Error404"
      BY <1>5, OnlyAnswered, AnsweredFacts DEF LookAtAnswer, ReplySet
    <2> QED
      BY <1>0, <1>5, <2>1 DEF LookAtAnswer, States
  <1>6. ASSUME NEW c \in Clients, DownloadFails(c) PROVE TypeInv'
    <2>1. at[c] = "NoTrackExists" /\ Answered(c)
      BY <1>0, <1>6 DEF DownloadFails, States, IInv, ClientInv, CallInv, AnsweredWith
    <2>2. Answer(Head(deq_messages_in[c]), at[c], <<>>) \in ReplySet
      BY <2>1, AnsweredFacts DEF Answer, ReplySet
    <2> QED
      BY <1>0, <1>4a, <1>6, <2>1, <2>2 DEF DownloadFails
  <1>7. ASSUME NEW c \in Clients, InstallTrack(c) PROVE TypeInv'
    <2>1. Answered(c)
      BY <1>7 DEF InstallTrack, IInv, ClientInv, CallInv, AnsweredWith
    <2>2. Head(deq_messages_in[c]) \in ReplySet
      BY <2>1, AnsweredFacts
    <2> QED
      BY <1>0, <1>4a, <1>7, <2>1, <2>2 DEF InstallTrack
  <1>8. ASSUME NEW c \in Clients, SpinEnds(c) PROVE TypeInv'
    BY <1>0, <1>8 DEF SpinEnds, States
  <1>9. ASSUME NEW c \in Clients, DecodeList(c) PROVE TypeInv'
    <2>1. Answered(c)
      BY <1>9 DEF DecodeList, IInv, ClientInv, CallInv, AnsweredWith
    <2>2. /\ Head(deq_messages_in[c]) \in ReplySet
          /\ Head(deq_messages_in[c]).tracks \in Seq(Tracks)
          /\ Head(deq_messages_in[c]).kind = "GetList"
      <3>1. deq_messages_in[c][1].kind = "GetList"
        BY <1>9 DEF DecodeList, IInv, ClientInv, CallInv, AnsweredWith
      <3>2. /\ Head(deq_messages_in[c]) = deq_messages_in[c][1]
            /\ deq_messages_in[c][1] \in ReplySet
        BY <2>1, AnsweredFacts
      <3> QED
        BY <3>1, <3>2 DEF ReplySet
    <2>3. /\ Return(c, Head(deq_messages_in[c]))
          /\ seen' = [seen EXCEPT ![c] = Head(deq_messages_in[c]).tracks]
          /\ deq_messages_in' = [deq_messages_in EXCEPT ![c] = PopBack(@)]
          /\ UNCHANGED <<request, channels, library, uploaded, calls>>
      BY <1>9, <2>2 DEF DecodeList
    <2>4. seen' \in [Clients -> Seq(Tracks)]
      BY <1>0, <2>2, <2>3
    <2> QED
      BY <1>4a, <2>1, <2>2, <2>3, <2>4
  <1>10. ASSUME NEW c \in Clients, ReadReply(c) PROVE TypeInv'
    <2>1. Tail(toClient[c]) \in Seq(ReplySet) /\ Head(toClient[c]) \in ReplySet
      BY <1>0, <1>10 DEF ReadReply
    <2> QED
      BY <1>0, <1>10, <2>1 DEF ReadReply
  <1>11. ASSUME NEW c \in Clients, ReadRequest(c) PROVE TypeInv'
    <2>1. Tail(toServer[c]) \in Seq(RequestSet) /\ Head(toServer[c]) \in RequestSet
      BY <1>0, <1>11 DEF ReadRequest
    <2>2. [client |-> c, msg |-> Head(toServer[c])] \in Queued
      BY <2>1 DEF Queued
    <2> QED
      BY <1>0, <1>11, <2>1, <2>2 DEF ReadRequest
  <1>12. ASSUME NEW c \in Clients, LoseConnection(c) PROVE TypeInv'
    BY <1>0, <1>12 DEF LoseConnection, States
  <1>13. CASE OnMessageRecieved
    <2> DEFINE c == Head(deq_message_in).client
               r == Head(deq_message_in).msg
    <2>1. c \in Clients /\ r \in RequestSet /\ Tail(deq_message_in) \in Seq(Queued)
      <3>1. deq_message_in # <<>> /\ deq_message_in \in Seq(Queued)
        BY <1>0, <1>13 DEF OnMessageRecieved
      <3>2. Head(deq_message_in) \in Queued /\ Tail(deq_message_in) \in Seq(Queued)
        BY <3>1
      <3> QED
        BY <3>2 DEF Queued
    <2>2. library' = library \o r.tracks /\ toClient' = [toClient EXCEPT ![c] = Replies(r)]
      BY <1>13 DEF OnMessageRecieved, LibraryAfter
    <2>3. library' \in Seq(Tracks)
      BY <1>0, <2>1, <2>2, ConcatFacts DEF RequestSet
    <2>4. Replies(r) \in Seq(ReplySet)
      <3>1. CASE r.kind = "DownloadTrack"
        <4>1. Exists(r.index) => library[r.index + 1] \in Tracks
          BY <1>0, <2>1, BoundAssumption DEF Exists, RequestSet, Indices
        <4>2. \A k \in {"DownloadTrack", "NoTrackExists"}, ts \in Seq(Tracks) :
                  <<Answer(r, k, ts)>> \in Seq(ReplySet)
          BY <2>1 DEF Answer, RequestSet, ReplySet
        <4>3. Replies(r) = OnDownloadRequest(r)
          BY <3>1 DEF Replies
        <4> QED
          <5>1. CASE Exists(r.index)
            <6>1. <<library[r.index + 1]>> \in Seq(Tracks)
              BY <4>1, <5>1
            <6> QED
              BY <4>2, <4>3, <5>1, <6>1 DEF OnDownloadRequest
          <5>2. CASE ~Exists(r.index)
            <6>1. <<>> \in Seq(Tracks)
              OBVIOUS
            <6> QED
              BY <4>2, <4>3, <5>2, <6>1 DEF OnDownloadRequest
          <5> QED
            BY <5>1, <5>2
      <3>2. CASE r.kind = "GetList"
        <4>1. Answer(r, "GetList", library) \in ReplySet
          BY <1>0, <2>1 DEF Answer, RequestSet, ReplySet
        <4> QED
          BY <3>2, <4>1 DEF Replies, SendTracksList
      <3>3. CASE r.kind = "UploadTrack"
        BY <3>3 DEF Replies
      <3> QED
        BY <2>1, <3>1, <3>2, <3>3 DEF RequestSet
    <2> QED
      BY <1>0, <1>13, <2>1, <2>2, <2>3, <2>4 DEF OnMessageRecieved
  <1>14. CASE UNCHANGED vars
    BY <1>0, <1>14 DEF vars
  <1> QED
    BY <1>2, <1>3, <1>4, <1>5, <1>6, <1>7, <1>8, <1>9, <1>10, <1>11, <1>12, <1>13, <1>14
       DEF Next
-----------------------------------------------------------------------------
(* The queue of the server *)

\* What the end of a request on the queue does to the client it came from.
LEMMA QueueAppend ==
  ASSUME TypeInv, NEW c \in Clients, NEW r \in RequestSet,
         deq_message_in' = Append(deq_message_in, [client |-> c, msg |-> r])
  PROVE  /\ Len(deq_message_in') = Len(deq_message_in) + 1
         /\ \A i \in 1..Len(deq_message_in) : deq_message_in'[i] = deq_message_in[i]
         /\ deq_message_in'[Len(deq_message_in) + 1] = [client |-> c, msg |-> r]
  BY DEF TypeInv, Queued

LEMMA QueueTail ==
  ASSUME TypeInv, deq_message_in # <<>>, deq_message_in' = Tail(deq_message_in)
  PROVE  /\ Len(deq_message_in) \in Nat /\ Len(deq_message_in) > 0
         /\ Head(deq_message_in) = deq_message_in[1]
         /\ deq_message_in[1].client \in Clients /\ deq_message_in[1].msg \in RequestSet
         /\ Len(deq_message_in') = Len(deq_message_in) - 1
         /\ \A i \in 1..Len(deq_message_in') : deq_message_in'[i] = deq_message_in[i + 1]
  <1>1. deq_message_in \in Seq(Queued)
    BY DEF TypeInv
  <1>2. Len(deq_message_in) \in Nat /\ Len(deq_message_in) > 0
    BY <1>1, EmptySeq
  <1>3. deq_message_in[1] \in Queued /\ Head(deq_message_in) = deq_message_in[1]
    BY <1>1, <1>2, ElementOfSeq
  <1>4. /\ Len(deq_message_in') = Len(deq_message_in) - 1
        /\ \A i \in 1..Len(deq_message_in') : deq_message_in'[i] = deq_message_in[i + 1]
    BY <1>1, HeadTailProperties
  <1> QED
    BY <1>2, <1>3, <1>4 DEF Queued

LEMMA StepQueue == ~Failures /\ IInv /\ [Next]_vars => QueueInv'
  <1> SUFFICES ASSUME ~Failures, IInv, [Next]_vars PROVE QueueInv'
    OBVIOUS
  <1>0. TypeInv /\ QueueInv
    BY DEF IInv
  <1>1. ASSUME UNCHANGED <<request, deq_message_in>> PROVE QueueInv'
    BY <1>0, <1>1 DEF QueueInv, IsOf
  <1>2. ASSUME NEW c \in Clients, NEW r \in RequestSet, NEW then, SendRequest(c, r, then)
        PROVE  QueueInv'
    <2>1. ~InQueue(c)
      BY <1>2 DEF SendRequest, IInv, ClientInv, CallInv, Settling
    <2>2. deq_message_in' = deq_message_in
             /\ \A d \in Clients : d # c => request'[d] = request[d]
      BY <1>0, <1>2 DEF SendRequest, TypeInv
    <2> QED
      BY <1>0, <2>1, <2>2 DEF QueueInv, InQueue, IsOf
  <1>3. ASSUME NEW c \in Clients, ReadRequest(c) PROVE QueueInv'
    <2>1. toServer[c] = <<request[c]>> /\ ~InQueue(c)
      BY <1>3 DEF ReadRequest, IInv, ClientInv, CallInv, Settling, Asking, Queueing,
                  Answering, Answered
    <2>2. Head(toServer[c]) = request[c] /\ request[c] \in RequestSet
      BY <1>0, <2>1 DEF TypeInv
    <2>3. deq_message_in' = Append(deq_message_in, [client |-> c, msg |-> request[c]])
             /\ request' = request
      BY <1>3, <2>2 DEF ReadRequest
    <2>4. /\ Len(deq_message_in) \in Nat
          /\ Len(deq_message_in') = Len(deq_message_in) + 1
          /\ \A i \in 1..Len(deq_message_in) : deq_message_in'[i] = deq_message_in[i]
          /\ deq_message_in'[Len(deq_message_in) + 1] = [client |-> c, msg |-> request[c]]
      BY <1>0, <2>2, <2>3, QueueAppend DEF TypeInv
    <2>5. SUFFICES ASSUME NEW d \in Clients, NEW i \in 1..Len(deq_message_in'),
                          IsOf(d, i)', Asks(deq_message_in'[i].msg)
                   PROVE  /\ deq_message_in'[i].msg = request[d]
                          /\ \A j \in 1..Len(deq_message_in') : IsOf(d, j)' => j <= i
      BY <2>3 DEF QueueInv
    <2>6. CASE i = Len(deq_message_in) + 1
      BY <2>4, <2>5, <2>6 DEF IsOf
    <2>7. CASE i # Len(deq_message_in) + 1
      <3>1. i \in 1..Len(deq_message_in) /\ deq_message_in'[i] = deq_message_in[i]
        BY <2>4, <2>7
      <3>2. IsOf(d, i) /\ Asks(deq_message_in[i].msg)
        BY <2>5, <3>1 DEF IsOf
      <3>3. d # c
        BY <2>1, <3>1, <3>2 DEF InQueue
      <3>4. \A j \in 1..Len(deq_message_in') : IsOf(d, j)' => IsOf(d, j)
        BY <2>4, <3>3 DEF IsOf
      <3> QED
        BY <1>0, <3>1, <3>2, <3>4 DEF QueueInv, IsOf
    <2> QED
      BY <2>6, <2>7
  <1>4. CASE OnMessageRecieved
    <2>1. deq_message_in # <<>> /\ deq_message_in' = Tail(deq_message_in) /\ request' = request
      BY <1>4 DEF OnMessageRecieved
    <2>2. /\ Len(deq_message_in) \in Nat
          /\ Len(deq_message_in') = Len(deq_message_in) - 1
          /\ \A i \in 1..Len(deq_message_in') : deq_message_in'[i] = deq_message_in[i + 1]
      BY <1>0, <2>1, QueueTail
    <2>3. \A d, i : IsOf(d, i)' => IsOf(d, i + 1)
      BY <2>2 DEF IsOf
    <2>4. SUFFICES ASSUME NEW d \in Clients, NEW i \in 1..Len(deq_message_in'),
                          IsOf(d, i)', Asks(deq_message_in'[i].msg)
                   PROVE  /\ deq_message_in'[i].msg = request[d]
                          /\ \A j \in 1..Len(deq_message_in') : IsOf(d, j)' => j <= i
      BY <2>1 DEF QueueInv
    <2>5. /\ i + 1 \in 1..Len(deq_message_in)
          /\ IsOf(d, i + 1) /\ Asks(deq_message_in[i + 1].msg)
          /\ deq_message_in'[i] = deq_message_in[i + 1]
      BY <2>2, <2>3, <2>4
    <2>6. /\ deq_message_in[i + 1].msg = request[d]
          /\ \A j \in 1..Len(deq_message_in) : IsOf(d, j) => j <= i + 1
      BY <1>0, <2>5 DEF QueueInv
    <2>7. ASSUME NEW j \in 1..Len(deq_message_in'), IsOf(d, j)' PROVE j <= i
      <3>1. j + 1 \in 1..Len(deq_message_in) /\ IsOf(d, j + 1)
        BY <2>2, <2>3, <2>7
      <3> QED
        BY <2>6, <3>1
    <2> QED
      BY <2>5, <2>6, <2>7
  <1>5. ASSUME NEW c \in Clients,
               LookAtAnswer(c) \/ DownloadFails(c) \/ InstallTrack(c) \/ SpinEnds(c)
                   \/ DecodeList(c) \/ ReadReply(c) \/ LoseConnection(c)
        PROVE  QueueInv'
    BY <1>1, <1>5 DEF LookAtAnswer, DownloadFails, InstallTrack, SpinEnds, DecodeList,
                      ReadReply, LoseConnection, channels
  <1>6. ASSUME NEW c \in Clients, NEW index \in Indices, Download(c, index) PROVE QueueInv'
    BY <1>0, <1>2, <1>6, Requests DEF Download, TypeInv
  <1>7. ASSUME NEW c \in Clients, GetTracksList(c) PROVE QueueInv'
    BY <1>0, <1>2, <1>7, Requests DEF GetTracksList, TypeInv
  <1>8. ASSUME NEW c \in Clients, NEW track \in Tracks, Upload(c, track) PROVE QueueInv'
    BY <1>0, <1>2, <1>8, Requests DEF Upload, TypeInv
  <1>9. CASE UNCHANGED vars
    BY <1>1, <1>9 DEF vars, channels
  <1> QED
    BY <1>3, <1>4, <1>5, <1>6, <1>7, <1>8, <1>9 DEF Next
-----------------------------------------------------------------------------
(* The clients *)

\* A step that leaves a client alone, and what others may do in it.
Untouched(c) ==
    /\ at'[c] = at[c] /\ request'[c] = request[c] /\ toServer'[c] = toServer[c]
    /\ toClient'[c] = toClient[c] /\ deq_messages_in'[c] = deq_messages_in[c]
    /\ result'[c] = result[c] /\ seen'[c] = seen[c] /\ uploaded'[c] = uploaded[c]

Grows ==
    /\ calls' >= calls
    /\ Len(library') >= Len(library)
    /\ \A i \in 1..Len(library) : library'[i] = library[i]

QueueKeeps(c) ==
    /\ InQueue(c)' <=> InQueue(c)
    /\ \A t : Underway(c, t) => Underway(c, t)' \/ t \in ToSet(library')

OfClient(c) == CallInv(c) /\ LibraryInv(c) /\ ResultInv(c)

\* What a list showed stays true when the library grows.
LEMMA PrefixKept ==
  ASSUME NEW list \in Seq(Tracks), library \in Seq(Tracks), library' \in Seq(Tracks),
         Grows, ShowsPrefix(list)
  PROVE  ShowsPrefix(list)'
  BY DEF Grows, ShowsPrefix

LEMMA StaysListed ==
  ASSUME library \in Seq(Tracks), library' \in Seq(Tracks), Grows, NEW t \in ToSet(library)
  PROVE  t \in ToSet(library')
  <1>1. PICK i \in 1..Len(library) : t = library[i]
    BY DEF ToSet
  <1>2. i \in 1..Len(library') /\ library'[i] = t
    BY <1>1 DEF Grows
  <1> QED
    BY <1>2 DEF ToSet

LEMMA AnswerKept ==
  ASSUME TypeInv, TypeInv', Grows, NEW c \in Clients, NEW r \in RequestSet,
         NEW a \in ReplySet, IsAnswer(a, c, r),
         seen'[c] = seen[c], uploaded'[c] = uploaded[c]
  PROVE  IsAnswer(a, c, r)'
  <1>1. a.tracks \in Seq(Tracks) /\ library \in Seq(Tracks) /\ library' \in Seq(Tracks)
    BY DEF TypeInv, ReplySet
  <1>2. ShowsPrefix(a.tracks) => ShowsPrefix(a.tracks)'
    BY <1>1, PrefixKept
  <1> QED
    BY <1>2 DEF IsAnswer

LEMMA OthersKeep ==
  ASSUME IInv, TypeInv', NEW c \in Clients, Untouched(c), Grows, QueueKeeps(c)
  PROVE  OfClient(c)'
  <1>0. TypeInv /\ CallInv(c) /\ LibraryInv(c) /\ ResultInv(c)
    BY DEF IInv, ClientInv
  <1>1. OneAnswer(toClient[c], c) => OneAnswer(toClient[c], c)'
    <2> SUFFICES ASSUME OneAnswer(toClient[c], c) PROVE OneAnswer(toClient[c], c)'
      OBVIOUS
    <2>1. /\ toClient[c] \in Seq(ReplySet) /\ Len(toClient[c]) = 1
          /\ IsAnswer(toClient[c][1], c, request[c]) /\ request[c] \in RequestSet
          /\ toClient'[c] = toClient[c] /\ request'[c] = request[c]
      BY <1>0 DEF TypeInv, OneAnswer, Untouched
    <2>2. toClient[c][1] \in ReplySet
      BY <2>1, OneMessage
    <2>3. IsAnswer(toClient[c][1], c, request[c])'
      BY <1>0, <2>1, <2>2, AnswerKept DEF Untouched
    <2> QED
      BY <2>1, <2>3 DEF OneAnswer
  <1>2. OneAnswer(deq_messages_in[c], c) => OneAnswer(deq_messages_in[c], c)'
    <2> SUFFICES ASSUME OneAnswer(deq_messages_in[c], c)
                 PROVE  OneAnswer(deq_messages_in[c], c)'
      OBVIOUS
    <2>1. /\ deq_messages_in[c] \in Seq(ReplySet) /\ Len(deq_messages_in[c]) = 1
          /\ IsAnswer(deq_messages_in[c][1], c, request[c]) /\ request[c] \in RequestSet
          /\ deq_messages_in'[c] = deq_messages_in[c] /\ request'[c] = request[c]
      BY <1>0 DEF TypeInv, OneAnswer, Untouched
    <2>2. deq_messages_in[c][1] \in ReplySet
      BY <2>1, OneMessage
    <2>3. IsAnswer(deq_messages_in[c][1], c, request[c])'
      BY <1>0, <2>1, <2>2, AnswerKept DEF Untouched
    <2> QED
      BY <2>1, <2>3 DEF OneAnswer
  <1>3. CallInv(c)'
    BY <1>0, <1>1, <1>2
       DEF CallInv, Settling, Asking, Queueing, Answering, Answered, AnsweredWith,
           Untouched, QueueKeeps
  <1>4. LibraryInv(c)'
    <2>1. library \in Seq(Tracks) /\ library' \in Seq(Tracks) /\ seen[c] \in Seq(Tracks)
      BY <1>0 DEF TypeInv
    <2>2. ShowsPrefix(seen[c])'
      BY <1>0, <2>1, PrefixKept DEF LibraryInv, Untouched
    <2>3. ASSUME NEW t \in uploaded'[c] PROVE (t \in ToSet(library) \/ Underway(c, t))'
      <3>1. t \in ToSet(library) \/ Underway(c, t)
        BY <1>0, <2>3 DEF LibraryInv, Untouched
      <3>2. CASE t \in ToSet(library)
        <4>1. t \in ToSet(library')
          BY <2>1, <3>2, StaysListed
        <4> QED
          BY <4>1
      <3>3. CASE Underway(c, t)
        BY <3>3 DEF QueueKeeps
      <3> QED
        BY <3>1, <3>2, <3>3
    <2> QED
      BY <2>2, <2>3 DEF LibraryInv
  <1>5. ResultInv(c)'
    BY <1>0 DEF ResultInv, Untouched, Grows, TypeInv, RequestSet
  <1> QED
    BY <1>3, <1>4, <1>5 DEF OfClient

\* The same when neither the server's queue nor the library changes.
LEMMA OthersKeepLocal ==
  ASSUME IInv, TypeInv', NEW c \in Clients, Untouched(c), calls' >= calls,
         UNCHANGED <<deq_message_in, library>>
  PROVE  OfClient(c)'
  <1>1. Grows
    BY DEF Grows, IInv, TypeInv
  <1>2. QueueKeeps(c)
    BY DEF QueueKeeps, InQueue, Underway, IsOf, Untouched
  <1> QED
    BY <1>1, <1>2, OthersKeep
-----------------------------------------------------------------------------
(* The steps of one client *)

\* A call begins: its request is on the connection, and nothing else of the client
\* is anywhere that would be answered.
LEMMA SendOwn ==
  ASSUME IInv, TypeInv', NEW c \in Clients, NEW r \in RequestSet, NEW then,
         SendRequest(c, r, then), r.no = calls + 1,
         \/ then = "wait" /\ r.kind = "DownloadTrack" /\ r.tracks = <<>> /\ UNCHANGED uploaded
         \/ then = "spin" /\ r.kind = "GetList" /\ r.tracks = <<>> /\ UNCHANGED uploaded
         \/ /\ then = "idle" /\ r.kind = "UploadTrack"
            /\ \E track : /\ r.tracks = <<track>>
                          /\ uploaded' = [uploaded EXCEPT ![c] = @ \cup {track}]
  PROVE  OfClient(c)'
  <1>0. TypeInv /\ CallInv(c) /\ LibraryInv(c) /\ ResultInv(c)
    BY DEF IInv, ClientInv
  <1>1. /\ toServer[c] = <<>> /\ Settling(c)
        /\ request'[c] = r /\ at'[c] = then /\ calls' = calls + 1
        /\ toServer'[c] = <<r>> /\ toClient'[c] = toClient[c]
        /\ deq_messages_in'[c] = deq_messages_in[c]
        /\ UNCHANGED <<deq_message_in, library, result, seen>>
    BY <1>0 DEF SendRequest, Settled, CallInv, TypeInv
  <1>2. InQueue(c)' <=> InQueue(c)
    BY <1>1 DEF InQueue, IsOf
  <1>3. CallInv(c)'
    BY <1>1, <1>2 DEF CallInv, Settling, Asking, Asks
  <1>4. LibraryInv(c)'
    <2>1. \A t \in uploaded[c] : t \in ToSet(library) \/ Underway(c, t)'
      BY <1>0, <1>1 DEF LibraryInv, Underway, IsOf
    <2>2. \A t \in uploaded'[c] : t \in uploaded[c] \/ Underway(c, t)'
      BY <1>0, <1>1 DEF Underway, TypeInv
    <2>3. ShowsPrefix(seen[c])'
      BY <1>0, <1>1 DEF LibraryInv, ShowsPrefix
    <2> QED
      BY <1>1, <2>1, <2>2, <2>3 DEF LibraryInv
  <1>5. ResultInv(c)'
    <2>1. calls \in Nat /\ result[c].call.no \in Nat /\ request[c].no \in Nat
      BY <1>0 DEF TypeInv, RequestSet
    <2>2. request'[c] # result'[c].call
      BY <1>0, <1>1, <2>1 DEF ResultInv
    <2> QED
      BY <1>0, <1>1, <2>1, <2>2 DEF ResultInv
  <1> QED
    BY <1>3, <1>4, <1>5 DEF OfClient

\* A call ends with the answer in the queue; what is left is nothing.
LEMMA ReturnOwn ==
  ASSUME IInv, TypeInv', NEW c \in Clients, NEW reply, Return(c, reply), Answered(c),
         IsAnswer(deq_messages_in[c][1], c, request[c]),
         deq_messages_in' = [deq_messages_in EXCEPT ![c] = PopBack(@)],
         reply.no = request[c].no,
         UNCHANGED <<request, channels, library, uploaded, calls>>,
         \/ /\ request[c].kind = "GetList"
            /\ seen' = [seen EXCEPT ![c] = deq_messages_in[c][1].tracks]
         \/ /\ request[c].kind = "DownloadTrack"
            /\ UNCHANGED seen
            /\ request[c].index < Len(seen[c])
                   => reply.tracks = <<seen[c][request[c].index + 1]>>
  PROVE  OfClient(c)'
  <1>0. TypeInv /\ CallInv(c) /\ LibraryInv(c) /\ ResultInv(c)
    BY DEF IInv, ClientInv
  <1>1. PopBack(deq_messages_in[c]) = <<>>
    BY AnsweredFacts
  <1>2. /\ request' = request /\ toServer' = toServer /\ toClient' = toClient
        /\ deq_message_in' = deq_message_in /\ library' = library
        /\ uploaded' = uploaded /\ calls' = calls
        /\ at'[c] = "idle" /\ deq_messages_in'[c] = <<>>
        /\ result'[c] = [call |-> request[c], reply |-> reply]
    BY <1>0, <1>1 DEF Return, TypeInv, channels
  <1>3. InQueue(c)' <=> InQueue(c)
    BY <1>2 DEF InQueue, IsOf
  <1>4. CallInv(c)'
    BY <1>0, <1>2, <1>3 DEF CallInv, Settling, Answered
  <1>5. LibraryInv(c)'
    <2>1. ShowsPrefix(seen'[c])
      BY <1>0 DEF LibraryInv, IsAnswer, TypeInv
    <2>2. ShowsPrefix(seen[c])'
      BY <1>2, <2>1 DEF ShowsPrefix
    <2>3. \A t \in uploaded[c] : t \in ToSet(library) \/ Underway(c, t)'
      BY <1>0, <1>2 DEF LibraryInv, Underway, IsOf
    <2> QED
      BY <1>2, <2>2, <2>3 DEF LibraryInv
  <1>6. ResultInv(c)'
    <2>1. CASE request[c].kind = "GetList"
      <3>1. uploaded[c] \subseteq ToSet(seen'[c])
        BY <1>0, <2>1 DEF IsAnswer, TypeInv
      <3> QED
        BY <1>0, <1>2, <2>1, <3>1 DEF ResultInv
    <2>2. CASE request[c].kind = "DownloadTrack"
      BY <1>0, <1>2, <2>2 DEF ResultInv
    <2> QED
      BY <2>1, <2>2
  <1> QED
    BY <1>4, <1>5, <1>6 DEF OfClient

\* The answer comes into the client's queue.
LEMMA ReadReplyOwn ==
  ASSUME IInv, TypeInv', NEW c \in Clients, ReadReply(c)
  PROVE  OfClient(c)'
  <1>0. TypeInv /\ CallInv(c) /\ LibraryInv(c) /\ ResultInv(c)
    BY DEF IInv, ClientInv
  <1>1. /\ Answering(c) /\ at[c] # "idle"
        /\ Head(toClient[c]) = toClient[c][1] /\ Tail(toClient[c]) = <<>>
    BY OnlyAnswering DEF ReadReply
  <1>2. /\ toClient'[c] = <<>> /\ deq_messages_in'[c] = <<toClient[c][1]>>
        /\ UNCHANGED <<at, request, toServer, deq_message_in, library, history, calls>>
    BY <1>0, <1>1 DEF ReadReply, TypeInv, Answering
  <1>3. InQueue(c)' <=> InQueue(c)
    BY <1>2 DEF InQueue, IsOf
  <1>4. IsAnswer(toClient[c][1], c, request[c])
    BY <1>1 DEF Answering, OneAnswer
  <1>5. Answered(c)'
    BY <1>1, <1>2, <1>3, <1>4
       DEF Answering, Answered, OneAnswer, IsAnswer, ShowsPrefix, history
  <1>6. CallInv(c)'
    BY <1>0, <1>1, <1>2, <1>5 DEF CallInv, AnsweredWith, Answered, Answering, OneAnswer
  <1>7. LibraryInv(c)' /\ ResultInv(c)'
    BY <1>0, <1>2 DEF LibraryInv, ResultInv, Underway, IsOf, ShowsPrefix, history
  <1> QED
    BY <1>6, <1>7 DEF OfClient

\* The request comes into the server's queue.
LEMMA ReadRequestOwn ==
  ASSUME IInv, TypeInv', NEW c \in Clients, ReadRequest(c)
  PROVE  OfClient(c)'
  <1>0. TypeInv /\ CallInv(c) /\ LibraryInv(c) /\ ResultInv(c)
    BY DEF IInv, ClientInv
  <1>1. /\ toServer[c] = <<request[c]>> /\ request[c] \in RequestSet
        /\ Asking(c) \/ (Settling(c) /\ ~Asks(request[c]))
    BY <1>0 DEF ReadRequest, CallInv, Settling, Asking, Queueing, Answering, Answered, TypeInv
  <1>2. /\ toServer'[c] = <<>>
        /\ deq_message_in' = Append(deq_message_in, [client |-> c, msg |-> request[c]])
        /\ UNCHANGED <<at, request, library, toClient, deq_messages_in, history, calls>>
    BY <1>0, <1>1 DEF ReadRequest, TypeInv
  <1>3. /\ Len(deq_message_in) \in Nat
        /\ Len(deq_message_in') = Len(deq_message_in) + 1
        /\ \A i \in 1..Len(deq_message_in) : deq_message_in'[i] = deq_message_in[i]
        /\ deq_message_in'[Len(deq_message_in) + 1] = [client |-> c, msg |-> request[c]]
    BY <1>0, <1>1, <1>2, QueueAppend DEF TypeInv
  <1>4. \A i \in 1..Len(deq_message_in) : IsOf(c, i) => IsOf(c, i)'
    BY <1>3 DEF IsOf
  <1>5. IsOf(c, Len(deq_message_in))'
    BY <1>3 DEF IsOf
  <1>6. CallInv(c)'
    <2>1. CASE Asking(c)
      <3>1. InQueue(c)'
        BY <1>3, <1>5, <2>1 DEF InQueue, Asking
      <3> QED
        BY <1>0, <1>1, <1>2, <2>1, <3>1
           DEF CallInv, Asking, Queueing, Settling, AnsweredWith, Answered, OneAnswer
    <2>2. CASE Settling(c) /\ ~Asks(request[c])
      <3>1. ~InQueue(c)'
        BY <1>2, <1>3, <2>2 DEF InQueue, Settling, IsOf
      <3> QED
        BY <1>0, <1>1, <1>2, <2>2, <3>1
           DEF CallInv, Settling, AnsweredWith, Answered, OneAnswer
    <2> QED
      BY <1>1, <2>1, <2>2
  <1>7. LibraryInv(c)'
    <2>1. \A t : Underway(c, t) => Underway(c, t)'
      <3>1. ASSUME NEW t, toServer[c] # <<>>, request[c].tracks = <<t>> PROVE Underway(c, t)'
        BY <1>3, <1>5, <3>1 DEF Underway
      <3>2. ASSUME NEW t, NEW i \in 1..Len(deq_message_in),
                   IsOf(c, i), deq_message_in[i].msg.tracks = <<t>>
            PROVE  Underway(c, t)'
        BY <1>3, <1>4, <3>2 DEF Underway
      <3> QED
        BY <3>1, <3>2 DEF Underway
    <2>2. \A t \in uploaded[c] : t \in ToSet(library) \/ Underway(c, t)'
      BY <1>0, <2>1 DEF LibraryInv
    <2> QED
      BY <1>0, <1>2, <2>2 DEF LibraryInv, ShowsPrefix, history
  <1>8. ResultInv(c)'
    BY <1>0, <1>2 DEF ResultInv, history
  <1> QED
    BY <1>6, <1>7, <1>8 DEF OfClient
-----------------------------------------------------------------------------
(* The step of the server *)

\* The answer to the request of client c that is at the head of the queue.
LEMMA RepliesAreAnswers ==
  ASSUME TypeInv, NEW c \in Clients, NEW r \in RequestSet, Asks(r), LibraryInv(c),
         r.kind = "GetList" => uploaded[c] \subseteq ToSet(library)
  PROVE  Len(Replies(r)) = 1 /\ IsAnswer(Replies(r)[1], c, r)
  <1>0. library \in Seq(Tracks) /\ seen[c] \in Seq(Tracks) /\ ShowsPrefix(seen[c])
    BY DEF TypeInv, LibraryInv
  <1>1. CASE r.kind = "DownloadTrack"
    <2>1. Replies(r) = OnDownloadRequest(r)
      BY <1>1 DEF Replies
    <2>2. CASE Exists(r.index)
      <3>1. Replies(r) = <<Answer(r, "DownloadTrack", <<library[r.index + 1]>>)>>
        BY <2>1, <2>2 DEF OnDownloadRequest
      <3>2. r.index < Len(seen[c]) => library[r.index + 1] = seen[c][r.index + 1]
        BY <1>0, BoundAssumption DEF ShowsPrefix, RequestSet, Indices
      <3> QED
        BY <1>1, <3>1, <3>2 DEF Answer, IsAnswer
    <2>3. CASE ~Exists(r.index)
      <3>1. Replies(r) = <<Answer(r, "NoTrackExists", <<>>)>>
        BY <2>1, <2>3 DEF OnDownloadRequest
      <3>2. r.index >= Len(seen[c])
        BY <1>0, <2>3, BoundAssumption DEF ShowsPrefix, Exists, RequestSet, Indices
      <3> QED
        BY <1>1, <3>1, <3>2 DEF Answer, IsAnswer
    <2> QED
      BY <2>2, <2>3
  <1>2. CASE r.kind = "GetList"
    <2>1. Replies(r) = <<Answer(r, "GetList", library)>>
      BY <1>2 DEF Replies, SendTracksList
    <2>2. ShowsPrefix(library)
      BY <1>0 DEF ShowsPrefix
    <2> QED
      BY <1>2, <2>1, <2>2 DEF Answer, IsAnswer
  <1> QED
    BY <1>1, <1>2 DEF Asks, RequestSet

LEMMA StepServer ==
  ASSUME ~Failures, IInv, TypeInv', OnMessageRecieved, NEW c \in Clients
  PROVE  OfClient(c)'
  <1> DEFINE d == deq_message_in[1].client
             r == deq_message_in[1].msg
  <1>0. TypeInv /\ QueueInv /\ CallInv(c) /\ LibraryInv(c) /\ ResultInv(c)
    BY DEF IInv, ClientInv
  <1>1. /\ Len(deq_message_in) \in Nat /\ Len(deq_message_in) > 0
        /\ Head(deq_message_in) = deq_message_in[1]
        /\ d \in Clients /\ r \in RequestSet
        /\ Len(deq_message_in') = Len(deq_message_in) - 1
        /\ \A i \in 1..Len(deq_message_in') : deq_message_in'[i] = deq_message_in[i + 1]
    BY <1>0, QueueTail DEF OnMessageRecieved
  <1>2. /\ library' = library \o r.tracks
        /\ toClient[d] = <<>> /\ toClient' = [toClient EXCEPT ![d] = Replies(r)]
        /\ UNCHANGED <<at, request, toServer, deq_messages_in, history, calls>>
    BY <1>1 DEF OnMessageRecieved, LibraryAfter, Settled
  <1> HIDE DEF d, r
  <1>3. library \in Seq(Tracks) /\ r.tracks \in Seq(Tracks) /\ calls \in Nat
    BY <1>0, <1>1 DEF TypeInv, RequestSet
  <1>4. Grows
    BY <1>2, <1>3, ConcatFacts DEF Grows
  <1>5. /\ \A i \in 1..Len(deq_message_in') : IsOf(c, i)' <=> IsOf(c, i + 1)
        /\ IsOf(c, 1) <=> d = c
    BY <1>1 DEF IsOf, d
  <1>6. \A t : Underway(c, t) => Underway(c, t)' \/ t \in ToSet(library')
    <2>1. SUFFICES ASSUME NEW t, Underway(c, t)
                   PROVE  Underway(c, t)' \/ t \in ToSet(library')
      OBVIOUS
    <2>2. CASE toServer[c] # <<>> /\ request[c].tracks = <<t>>
      BY <1>2, <2>2 DEF Underway
    <2>3. ASSUME NEW i \in 1..Len(deq_message_in), IsOf(c, i),
                 deq_message_in[i].msg.tracks = <<t>>
          PROVE  Underway(c, t)' \/ t \in ToSet(library')
      <3>1. CASE i = 1
        <4>0. r.tracks = <<t>>
          BY <2>3, <3>1 DEF r
        <4>1. library' = library \o <<t>> /\ t \in Tracks
          <5>1. <<t>> \in Seq(Tracks) /\ Len(<<t>>) = 1 /\ <<t>>[1] = t
            BY <1>3, <4>0
          <5>2. t \in Tracks
            BY <5>1, ElementOfSeq
          <5> QED
            BY <1>2, <4>0, <5>2
        <4>2. /\ DOMAIN library' = 1..Len(library) + 1
              /\ library'[Len(library) + 1] = t
          BY <1>3, <4>1
        <4> QED
          BY <1>3, <4>2 DEF ToSet
      <3>2. CASE i # 1
        <4>1. i - 1 \in 1..Len(deq_message_in') /\ deq_message_in'[i - 1] = deq_message_in[i]
          BY <1>1, <3>2
        <4>2. deq_message_in'[i - 1].client = c
          BY <2>3, <4>1 DEF IsOf
        <4> QED
          BY <2>3, <4>1, <4>2 DEF Underway, IsOf
      <3> QED
        BY <3>1, <3>2
    <2> QED
      BY <2>1, <2>2, <2>3 DEF Underway
  <1>7. CASE d # c \/ ~Asks(r)
    <2>1. InQueue(c)' <=> InQueue(c)
      <3>1. ASSUME InQueue(c) PROVE InQueue(c)'
        <4>1. PICK i \in 1..Len(deq_message_in) : IsOf(c, i) /\ Asks(deq_message_in[i].msg)
          BY <3>1 DEF InQueue
        <4>2. i # 1
          BY <1>5, <1>7, <4>1 DEF r
        <4>3. i - 1 \in 1..Len(deq_message_in') /\ deq_message_in'[i - 1] = deq_message_in[i]
          BY <1>1, <4>2
        <4> QED
          BY <4>1, <4>3 DEF InQueue, IsOf
      <3>2. ASSUME InQueue(c)' PROVE InQueue(c)
        <4>1. PICK i \in 1..Len(deq_message_in') : IsOf(c, i)' /\ Asks(deq_message_in'[i].msg)
          BY <3>2 DEF InQueue
        <4>2. i + 1 \in 1..Len(deq_message_in) /\ deq_message_in'[i] = deq_message_in[i + 1]
          BY <1>1
        <4> QED
          BY <4>1, <4>2 DEF InQueue, IsOf
      <3> QED
        BY <3>1, <3>2
    <2>2. toClient'[c] = toClient[c]
      <3>1. CASE d # c
        BY <1>0, <1>1, <1>2, <3>1 DEF TypeInv
      <3>2. CASE d = c
        <4>1. Replies(r) = <<>>
          BY <1>1, <1>7, <3>2 DEF Asks, Replies
        <4> QED
          BY <1>0, <1>1, <1>2, <3>2, <4>1 DEF TypeInv
      <3> QED
        BY <3>1, <3>2
    <2>3. Untouched(c)
      BY <1>2, <2>2 DEF Untouched, history
    <2> QED
      BY <1>4, <1>6, <2>1, <2>3, OthersKeep DEF QueueKeeps
  <1>8. CASE d = c /\ Asks(r)
    <2>1. r = request[c] /\ \A j \in 1..Len(deq_message_in) : IsOf(c, j) => j <= 1
      BY <1>0, <1>1, <1>5, <1>8 DEF QueueInv, r
    <2>2. InQueue(c)
      BY <1>1, <1>5, <1>8 DEF InQueue, r
    <2>3. Queueing(c)
      BY <1>0, <2>2 DEF CallInv, Settling, Asking, Answering, Answered
    <2>4. \A i \in 1..Len(deq_message_in') : ~IsOf(c, i)'
      BY <1>1, <1>5, <2>1
    <2>5. ~InQueue(c)'
      BY <2>4 DEF InQueue
    <2>6. \A t \in uploaded[c] : t \in ToSet(library)
      <3>1. r.tracks = <<>>
        BY <1>0, <1>8, <2>1 DEF CallInv
      <3>2. \A i \in 1..Len(deq_message_in) : IsOf(c, i) => deq_message_in[i].msg.tracks = <<>>
        BY <2>1, <3>1 DEF r
      <3> QED
        BY <1>0, <2>3, <3>2 DEF LibraryInv, Underway, Queueing
    <2>7. Len(Replies(r)) = 1 /\ IsAnswer(Replies(r)[1], c, r)
      BY <1>0, <1>1, <1>8, <2>6, RepliesAreAnswers
    <2>8. library' = library /\ toClient'[c] = Replies(r)
      <3>1. r.tracks = <<>>
        BY <1>0, <1>8, <2>1 DEF CallInv
      <3> QED
        BY <1>0, <1>1, <1>2, <1>3, <1>8, <3>1 DEF TypeInv
    <2>9. IsAnswer(toClient[c][1], c, request[c])'
      BY <1>2, <2>1, <2>7, <2>8 DEF IsAnswer, ShowsPrefix, history
    <2>10. Answering(c)'
      BY <1>2, <2>3, <2>5, <2>7, <2>8, <2>9 DEF Answering, OneAnswer, Queueing
    <2>11. CallInv(c)'
      BY <1>0, <1>2, <2>3, <2>10
         DEF CallInv, Settling, Queueing, AnsweredWith, Answered, OneAnswer
    <2>12. LibraryInv(c)'
      BY <1>0, <1>2, <2>6, <2>8 DEF LibraryInv, ShowsPrefix, history
    <2>13. ResultInv(c)'
      BY <1>0, <1>2 DEF ResultInv, history
    <2> QED
      BY <2>11, <2>12, <2>13 DEF OfClient
  <1> QED
    BY <1>7, <1>8

-----------------------------------------------------------------------------
(* All steps *)

\* The last answer in a client's queue is looked at.
LEMMA LookOwn ==
  ASSUME IInv, TypeInv', NEW c \in Clients, LookAtAnswer(c) \/ SpinEnds(c)
  PROVE  OfClient(c)'
  <1>0. TypeInv /\ CallInv(c) /\ LibraryInv(c) /\ ResultInv(c)
    BY DEF IInv, ClientInv
  <1>1. Answered(c)
    BY OnlyAnswered DEF LookAtAnswer, SpinEnds
  <1>2. /\ Last(deq_messages_in[c]) = deq_messages_in[c][1]
        /\ deq_messages_in[c][1] \in ReplySet
        /\ IsAnswer(deq_messages_in[c][1], c, request[c])
    BY <1>1, AnsweredFacts
  <1>3. UNCHANGED <<request, toServer, deq_message_in, library, toClient, deq_messages_in,
                    history, calls>>
    BY DEF LookAtAnswer, SpinEnds, channels
  <1>4. \/ at'[c] = "NoTrackExists" /\ AnsweredWith(c, "NoTrackExists")
        \/ at'[c] = "install" /\ AnsweredWith(c, "DownloadTrack")
        \/ at'[c] = "decode" /\ AnsweredWith(c, "GetList")
    <2>1. CASE LookAtAnswer(c)
      <3>1. deq_messages_in[c][1].kind \in {"NoTrackExists", "DownloadTrack"}
        BY <1>0, <1>2, <2>1 DEF LookAtAnswer, CallInv, IsAnswer
      <3> QED
        BY <1>0, <1>1, <1>2, <2>1, <3>1 DEF LookAtAnswer, AnsweredWith, TypeInv
    <2>2. CASE SpinEnds(c)
      BY <1>0, <1>1, <1>2, <2>2 DEF SpinEnds, AnsweredWith, TypeInv
    <2> QED
      BY <2>1, <2>2
  <1>5. Answered(c)' /\ \A k : AnsweredWith(c, k)' <=> AnsweredWith(c, k)
    BY <1>1, <1>3 DEF Answered, AnsweredWith, OneAnswer, IsAnswer, ShowsPrefix, InQueue,
                      IsOf, history
  <1>6. CallInv(c)'
    BY <1>0, <1>3, <1>4, <1>5 DEF CallInv
  <1>7. LibraryInv(c)' /\ ResultInv(c)'
    BY <1>0, <1>3 DEF LibraryInv, ResultInv, Underway, IsOf, ShowsPrefix, history
  <1> QED
    BY <1>6, <1>7 DEF OfClient

\* The process of the client ends.
LEMMA LoseOwn ==
  ASSUME IInv, TypeInv', NEW c \in Clients, LoseConnection(c)
  PROVE  OfClient(c)'
  <1>0. TypeInv /\ CallInv(c) /\ LibraryInv(c) /\ ResultInv(c)
    BY DEF IInv, ClientInv
  <1>1. /\ at'[c] = "dead"
        /\ UNCHANGED <<request, toServer, deq_message_in, library, toClient,
                       deq_messages_in, history, calls>>
    BY <1>0 DEF LoseConnection, channels, TypeInv
  <1>2. CallInv(c)'
    BY <1>0, <1>1 DEF CallInv, Settling, Asking, Queueing, Answering, Answered, OneAnswer,
                      IsAnswer, ShowsPrefix, InQueue, IsOf, history
  <1>3. LibraryInv(c)' /\ ResultInv(c)'
    BY <1>0, <1>1 DEF LibraryInv, ResultInv, Underway, IsOf, ShowsPrefix, history
  <1> QED
    BY <1>2, <1>3 DEF OfClient

\* A call of c ends.
LEMMA EndOwn ==
  ASSUME IInv, TypeInv', NEW c \in Clients,
         DownloadFails(c) \/ InstallTrack(c) \/ DecodeList(c)
  PROVE  OfClient(c)'
  <1>0. TypeInv /\ CallInv(c)
    BY DEF IInv, ClientInv
  <1> DEFINE a == deq_messages_in[c][1]
  <1>1. Answered(c) /\ \A k : AnsweredWith(c, k) => a.kind = k
    BY <1>0 DEF DownloadFails, InstallTrack, DecodeList, CallInv, AnsweredWith, TypeInv,
                States
  <1>2. /\ Head(deq_messages_in[c]) = a /\ IsAnswer(a, c, request[c])
        /\ a.no = request[c].no
    BY <1>1, AnsweredFacts DEF IsAnswer
  <1>3. CASE DownloadFails(c)
    <2>1. at[c] = "NoTrackExists" /\ a.kind = "NoTrackExists"
      BY <1>0, <1>1, <1>3 DEF DownloadFails, CallInv, TypeInv, States
    <2>2. /\ request[c].kind = "DownloadTrack"
          /\ ~(request[c].index < Len(seen[c]))
      <3>1. request[c].index \in Nat /\ Len(seen[c]) \in Nat
        <4>1. request[c] \in RequestSet /\ seen[c] \in Seq(Tracks)
          BY <1>0 DEF TypeInv
        <4> QED
          BY <4>1, BoundAssumption DEF RequestSet, Indices
      <3>2. request[c].kind = "DownloadTrack" /\ request[c].index >= Len(seen[c])
        BY <1>2, <2>1 DEF IsAnswer
      <3> QED
        BY <3>1, <3>2
    <2>3. Answer(a, at[c], <<>>).no = request[c].no
      BY <1>2 DEF Answer
    <2> QED
      BY <1>1, <1>2, <1>3, <2>2, <2>3, ReturnOwn DEF DownloadFails
  <1>4. CASE InstallTrack(c)
    <2>1. a.kind = "DownloadTrack"
      BY <1>0, <1>1, <1>4 DEF InstallTrack, CallInv
    <2>2. /\ request[c].kind = "DownloadTrack"
          /\ request[c].index < Len(seen[c])
                 => a.tracks = <<seen[c][request[c].index + 1]>>
      BY <1>2, <2>1 DEF IsAnswer
    <2> QED
      BY <1>1, <1>2, <1>4, <2>2, ReturnOwn DEF InstallTrack
  <1>5. CASE DecodeList(c)
    <2>1. a.kind = "GetList"
      BY <1>0, <1>1, <1>5 DEF DecodeList, CallInv
    <2>2. request[c].kind = "GetList"
      BY <1>2, <2>1 DEF IsAnswer
    <2>3. Return(c, a) /\ seen' = [seen EXCEPT ![c] = a.tracks]
      BY <1>2, <1>5, <2>1 DEF DecodeList
    <2> QED
      BY <1>1, <1>2, <1>5, <2>2, <2>3, ReturnOwn DEF DecodeList
  <1> QED
    BY <1>3, <1>4, <1>5

\* A call of c begins.
LEMMA BeginOwn ==
  ASSUME IInv, TypeInv', NEW c \in Clients,
         \/ \E index \in Indices : Download(c, index)
         \/ GetTracksList(c)
         \/ \E track \in Tracks : Upload(c, track)
  PROVE  OfClient(c)'
  <1>0. TypeInv
    BY DEF IInv
  <1>1. ASSUME NEW index \in Indices, Download(c, index) PROVE OfClient(c)'
    <2>1. /\ DownloadRequest(calls + 1, index) \in RequestSet
          /\ DownloadRequest(calls + 1, index).no = calls + 1
          /\ DownloadRequest(calls + 1, index).kind = "DownloadTrack"
          /\ DownloadRequest(calls + 1, index).tracks = <<>>
      BY <1>0, Requests DEF DownloadRequest, TypeInv
    <2> QED
      BY <1>1, <2>1, SendOwn DEF Download
  <1>2. ASSUME GetTracksList(c) PROVE OfClient(c)'
    <2>1. /\ ListRequest(calls + 1) \in RequestSet /\ ListRequest(calls + 1).no = calls + 1
          /\ ListRequest(calls + 1).kind = "GetList"
          /\ ListRequest(calls + 1).tracks = <<>>
      BY <1>0, Requests DEF ListRequest, TypeInv
    <2> QED
      BY <1>2, <2>1, SendOwn DEF GetTracksList
  <1>3. ASSUME NEW track \in Tracks, Upload(c, track) PROVE OfClient(c)'
    <2>1. /\ UploadRequest(calls + 1, track) \in RequestSet
          /\ UploadRequest(calls + 1, track).no = calls + 1
          /\ UploadRequest(calls + 1, track).kind = "UploadTrack"
          /\ UploadRequest(calls + 1, track).tracks = <<track>>
      BY <1>0, Requests DEF UploadRequest, TypeInv
    <2> QED
      BY <1>3, <2>1, SendOwn DEF Upload
  <1> QED
    BY <1>1, <1>2, <1>3

\* What a step of client c leaves alone.
LEMMA StepOthers ==
  ASSUME IInv, TypeInv', NEW c \in Clients, NEW d \in Clients, c # d,
         \/ \E index \in Indices : Download(c, index)
         \/ GetTracksList(c)
         \/ \E track \in Tracks : Upload(c, track)
         \/ LookAtAnswer(c) \/ DownloadFails(c) \/ InstallTrack(c)
         \/ SpinEnds(c) \/ DecodeList(c)
         \/ ReadReply(c) \/ ReadRequest(c) \/ LoseConnection(c)
  PROVE  OfClient(d)'
  <1>0. TypeInv
    BY DEF IInv
  <1>1. ASSUME NEW r, NEW then, SendRequest(c, r, then),
               uploaded'[d] = uploaded[d]
        PROVE  OfClient(d)'
    <2>1. /\ at'[d] = at[d] /\ request'[d] = request[d] /\ toServer'[d] = toServer[d]
          /\ calls' >= calls /\ UNCHANGED <<deq_message_in, library>>
          /\ toClient' = toClient /\ deq_messages_in' = deq_messages_in
          /\ result' = result /\ seen' = seen
      BY <1>0, <1>1 DEF SendRequest, TypeInv
    <2>2. Untouched(d)
      BY <1>1, <2>1 DEF Untouched
    <2> QED
      BY <2>1, <2>2, OthersKeepLocal
  <1>2. ASSUME NEW index \in Indices, Download(c, index) PROVE OfClient(d)'
    BY <1>1, <1>2 DEF Download
  <1>3. CASE GetTracksList(c)
    BY <1>1, <1>3 DEF GetTracksList
  <1>4. ASSUME NEW track \in Tracks, Upload(c, track) PROVE OfClient(d)'
    <2>1. uploaded'[d] = uploaded[d]
      BY <1>0, <1>4 DEF Upload, TypeInv
    <2> QED
      BY <1>1, <1>4, <2>1 DEF Upload
  <1>5. CASE LookAtAnswer(c) \/ SpinEnds(c) \/ LoseConnection(c)
    <2>1. /\ at'[d] = at[d]
          /\ UNCHANGED <<request, channels, library, deq_messages_in, history, calls>>
      BY <1>0, <1>5 DEF LookAtAnswer, SpinEnds, LoseConnection, TypeInv
    <2>2. Untouched(d) /\ calls' >= calls /\ UNCHANGED <<deq_message_in, library>>
      BY <1>0, <2>1 DEF Untouched, channels, history, TypeInv
    <2> QED
      BY <2>2, OthersKeepLocal
  <1>6. CASE DownloadFails(c) \/ InstallTrack(c) \/ DecodeList(c)
    <2>1. /\ at'[d] = at[d] /\ result'[d] = result[d] /\ seen'[d] = seen[d]
          /\ deq_messages_in'[d] = deq_messages_in[d]
          /\ UNCHANGED <<request, channels, library, uploaded, calls>>
      BY <1>0, <1>6 DEF DownloadFails, InstallTrack, DecodeList, Return, TypeInv
    <2>2. Untouched(d) /\ calls' >= calls /\ UNCHANGED <<deq_message_in, library>>
      BY <1>0, <2>1 DEF Untouched, channels, TypeInv
    <2> QED
      BY <2>2, OthersKeepLocal
  <1>7. CASE ReadReply(c)
    <2>1. /\ toClient'[d] = toClient[d] /\ deq_messages_in'[d] = deq_messages_in[d]
          /\ UNCHANGED <<at, request, toServer, deq_message_in, library, history, calls>>
      BY <1>0, <1>7 DEF ReadReply, TypeInv
    <2>2. Untouched(d) /\ calls' >= calls /\ UNCHANGED <<deq_message_in, library>>
      BY <1>0, <2>1 DEF Untouched, history, TypeInv
    <2> QED
      BY <2>2, OthersKeepLocal
  <1>8. CASE ReadRequest(c)
    <2>1. /\ toServer'[d] = toServer[d]
          /\ UNCHANGED <<at, request, library, toClient, deq_messages_in, history, calls>>
      BY <1>0, <1>8 DEF ReadRequest, TypeInv
    <2>2. Untouched(d) /\ Grows
      BY <1>0, <2>1 DEF Untouched, Grows, history, TypeInv
    <2>3. /\ toServer[c] \in Seq(RequestSet) /\ toServer[c] # <<>>
          /\ deq_message_in' =
                 Append(deq_message_in, [client |-> c, msg |-> Head(toServer[c])])
      BY <1>0, <1>8 DEF ReadRequest, TypeInv
    <2>4. /\ Len(deq_message_in) \in Nat
          /\ Len(deq_message_in') = Len(deq_message_in) + 1
          /\ \A i \in 1..Len(deq_message_in) : deq_message_in'[i] = deq_message_in[i]
          /\ deq_message_in'[Len(deq_message_in) + 1].client = c
      <3>1. Head(toServer[c]) \in RequestSet /\ Len(deq_message_in) \in Nat
        <4>1. deq_message_in \in Seq(Queued)
          BY <1>0 DEF TypeInv
        <4> QED
          BY <2>3, <4>1
      <3> QED
        BY <1>0, <2>3, <3>1, QueueAppend
    <2>5. \A i : IsOf(d, i)' <=> IsOf(d, i)
      BY <2>4 DEF IsOf
    <2>6. QueueKeeps(d)
      <3>1. InQueue(d)' <=> InQueue(d)
        BY <2>4, <2>5 DEF InQueue, IsOf
      <3>2. \A t : Underway(d, t) => Underway(d, t)'
        BY <2>1, <2>4, <2>5 DEF Underway, IsOf
      <3> QED
        BY <3>1, <3>2 DEF QueueKeeps
    <2> QED
      BY <2>2, <2>6, OthersKeep
  <1> QED
    BY <1>2, <1>3, <1>4, <1>5, <1>6, <1>7, <1>8

LEMMA StepClient == ~Failures /\ IInv /\ [Next]_vars => ClientInv'
  <1> SUFFICES ASSUME ~Failures, IInv, [Next]_vars, NEW d \in Clients PROVE OfClient(d)'
    BY DEF ClientInv, OfClient
  <1>1. TypeInv'
    BY StepType
  <1>2. CASE OnMessageRecieved
    BY <1>1, <1>2, StepServer
  <1>3. ASSUME NEW c \in Clients,
               \/ \E index \in Indices : Download(c, index)
               \/ GetTracksList(c)
               \/ \E track \in Tracks : Upload(c, track)
               \/ LookAtAnswer(c) \/ DownloadFails(c) \/ InstallTrack(c)
               \/ SpinEnds(c) \/ DecodeList(c)
               \/ ReadReply(c) \/ ReadRequest(c) \/ LoseConnection(c)
        PROVE  OfClient(d)'
    <2>1. CASE c = d
      BY <1>1, <1>3, <2>1, BeginOwn, LookOwn, EndOwn, ReadReplyOwn, ReadRequestOwn, LoseOwn
    <2>2. CASE c # d
      BY <1>1, <1>3, <2>2, StepOthers
    <2> QED
      BY <2>1, <2>2
  <1>4. CASE UNCHANGED vars
    <2>1. Untouched(d) /\ calls' >= calls /\ UNCHANGED <<deq_message_in, library>>
      BY <1>4 DEF vars, channels, history, Untouched, IInv, TypeInv
    <2> QED
      BY <1>1, <2>1, OthersKeepLocal
  <1> QED
    BY <1>2, <1>3, <1>4 DEF Next

LEMMA Invariance == ASSUME ~Failures PROVE Spec => []IInv
  <1>1. IInv /\ [Next]_vars => IInv'
    BY StepType, StepQueue, StepClient DEF IInv
  <1> QED
    BY <1>1, InitIInv, PTL DEF Spec
-----------------------------------------------------------------------------
\* As long as no request fails, a call ends with the answer to its own request: what
\* pop_back of the client's queue returns in download_track and get_tracks_list is the
\* answer of on_message_recieved to the request that was sent last.
THEOREM CallGetsItsAnswer == ASSUME ~Failures PROVE Spec => []AnswersOwnRequest
  <1>1. IInv => AnswersOwnRequest
    BY DEF IInv, ClientInv, ResultInv, AnswersOwnRequest
  <1> QED
    BY <1>1, Invariance, PTL

\* As long as no request fails, deq_messages_in never holds two answers, and holds
\* the one that was looked at until it is popped: its front is its back.
THEOREM FrontIsBack == ASSUME ~Failures PROVE Spec => []OneAnswerQueued
  <1>1. IInv => OneAnswerQueued
    <2> SUFFICES ASSUME IInv, NEW c \in Clients
                 PROVE  /\ Len(deq_messages_in[c]) <= 1
                        /\ at[c] \in {"NoTrackExists", "Error404", "install", "decode"}
                               => deq_messages_in[c] # <<>>
      BY DEF OneAnswerQueued
    <2>1. CASE deq_messages_in[c] = <<>>
      <3>1. ~Answered(c)
        BY <2>1 DEF Answered, OneAnswer
      <3> QED
        <4>1. at[c] \in States /\ CallInv(c)
          BY DEF IInv, TypeInv, ClientInv
        <4>2. at[c] \notin {"NoTrackExists", "Error404", "install", "decode"}
          BY <3>1, <4>1 DEF States, CallInv, AnsweredWith
        <4> QED
          BY <2>1, <4>2
    <2>2. CASE deq_messages_in[c] # <<>>
      BY <2>2, OnlyAnswered DEF Answered, OneAnswer
    <2> QED
      BY <2>1, <2>2
  <1> QED
    BY <1>1, Invariance, PTL

\* As long as no request fails, a list shows its client every track the client uploaded
\* before it: upload_track returns before the server has the track, but its requests and
\* the one for the list are handled in their order.
THEOREM ListIsUpToDate == ASSUME ~Failures PROVE Spec => []ListShowsOwnUploads
  <1>1. IInv => ListShowsOwnUploads
    BY DEF IInv, ClientInv, ResultInv, ListShowsOwnUploads
  <1> QED
    BY <1>1, Invariance, PTL

\* As long as no request fails, download_track gets the track that the list showed under
\* the index: index_new_track gives no index twice, and the library only grows.
THEOREM ListedIsReceived == ASSUME ~Failures PROVE Spec => []DownloadsWhatItSaw
  <1>1. IInv => DownloadsWhatItSaw
    BY DEF IInv, ClientInv, ResultInv, DownloadsWhatItSaw
  <1> QED
    BY <1>1, Invariance, PTL
-----------------------------------------------------------------------------
(* What an answer "no track" says *)

\* An answer that there is no such track is about an index beyond the tracks of the
\* start, wherever the answer is.
TrulyNone(channel, index) ==
    channel # <<>> /\ channel[1].kind = "NoTrackExists" => index >= Len(Library)

NoneInv ==
    /\ Len(library) >= Len(Library)
    /\ \A c \in Clients : /\ TrulyNone(toClient[c], request[c].index)
                          /\ TrulyNone(deq_messages_in[c], request[c].index)
    /\ NoTrackMeansNone

LEMMA InitNone == Init => NoneInv
  BY LibraryAssumption DEF Init, NoneInv, TrulyNone, NoTrackMeansNone, NoResult, ListRequest

\* A call begins with both queues of answers empty.
LEMMA SendNone ==
  ASSUME IInv, NoneInv, NEW c \in Clients, NEW r, NEW then, SendRequest(c, r, then)
  PROVE  NoneInv'
  <1>0. TypeInv /\ CallInv(c)
    BY DEF IInv, ClientInv
  <1>1. toClient[c] = <<>> /\ deq_messages_in[c] = <<>>
    BY <1>0 DEF SendRequest, CallInv, Settling
  <1>2. UNCHANGED <<library, toClient, deq_messages_in, result>>
    BY DEF SendRequest
  <1>3. ASSUME NEW d \in Clients
        PROVE  /\ TrulyNone(toClient[d], request[d].index)'
               /\ TrulyNone(deq_messages_in[d], request[d].index)'
    <2>1. CASE d = c
      BY <1>1, <1>2, <2>1 DEF TrulyNone
    <2>2. CASE d # c
      <3>1. request'[d] = request[d]
        BY <1>0, <2>2 DEF SendRequest, TypeInv
      <3> QED
        BY <1>2, <3>1 DEF NoneInv, TrulyNone
    <2> QED
      BY <2>1, <2>2
  <1> QED
    BY <1>2, <1>3 DEF NoneInv, NoTrackMeansNone

\* A call ends with the answer to the last request.
LEMMA EndNone ==
  ASSUME IInv, NoneInv, TypeInv', NEW c \in Clients,
         DownloadFails(c) \/ InstallTrack(c) \/ DecodeList(c)
  PROVE  NoneInv'
  <1>0. TypeInv /\ CallInv(c)
    BY DEF IInv, ClientInv
  <1>1. Answered(c) /\ \A k : AnsweredWith(c, k) => deq_messages_in[c][1].kind = k
    BY <1>0 DEF DownloadFails, InstallTrack, DecodeList, CallInv, AnsweredWith, TypeInv,
                States
  <1>2. /\ Head(deq_messages_in[c]) = deq_messages_in[c][1]
        /\ PopBack(deq_messages_in[c]) = <<>>
        /\ deq_messages_in[c] # <<>>
    BY <1>1, AnsweredFacts DEF Answered, OneAnswer
  <1>3. /\ UNCHANGED <<library, toClient, request>>
        /\ deq_messages_in' = [deq_messages_in EXCEPT ![c] = <<>>]
    BY <1>2 DEF DownloadFails, InstallTrack, DecodeList, channels
  <1>4. PICK reply : /\ Return(c, reply)
                     /\ reply.kind = deq_messages_in[c][1].kind
    <2>1. CASE DownloadFails(c)
      <3>1. at[c] = "NoTrackExists" /\ deq_messages_in[c][1].kind = "NoTrackExists"
        BY <1>0, <1>1, <2>1 DEF DownloadFails, CallInv, TypeInv, States
      <3> QED
        BY <2>1, <3>1 DEF DownloadFails, Answer
    <2>2. CASE InstallTrack(c)
      BY <1>2, <2>2 DEF InstallTrack
    <2>3. CASE DecodeList(c)
      <3>1. deq_messages_in[c][1].kind = "GetList"
        BY <1>0, <1>1, <2>3 DEF DecodeList, CallInv
      <3> QED
        BY <1>2, <2>3, <3>1 DEF DecodeList
    <2> QED
      BY <2>1, <2>2, <2>3
  <1>5. result' = [result EXCEPT ![c] = [call |-> request[c], reply |-> reply]]
    BY <1>4 DEF Return
  <1>6. ASSUME NEW d \in Clients
        PROVE  /\ TrulyNone(toClient[d], request[d].index)'
               /\ TrulyNone(deq_messages_in[d], request[d].index)'
               /\ result'[d].call.kind = "DownloadTrack"
                    /\ result'[d].reply.kind = "NoTrackExists"
                      => result'[d].call.index >= Len(Library)
    <2>1. CASE d = c
      <3>1. /\ result'[d] = [call |-> request[c], reply |-> reply]
            /\ deq_messages_in'[d] = <<>>
        BY <1>0, <1>3, <1>5, <2>1 DEF TypeInv
      <3> QED
        BY <1>2, <1>3, <1>4, <2>1, <3>1 DEF NoneInv, TrulyNone
    <2>2. CASE d # c
      <3>1. result'[d] = result[d] /\ deq_messages_in'[d] = deq_messages_in[d]
        BY <1>0, <1>3, <1>5, <2>2 DEF TypeInv
      <3> QED
        BY <1>3, <3>1 DEF NoneInv, TrulyNone, NoTrackMeansNone
    <2> QED
      BY <2>1, <2>2
  <1> QED
    BY <1>3, <1>6 DEF NoneInv, NoTrackMeansNone

\* An answer reaches the client's queue.
LEMMA ReadReplyNone ==
  ASSUME IInv, NoneInv, NEW c \in Clients, ReadReply(c)
  PROVE  NoneInv'
  <1>0. TypeInv
    BY DEF IInv
  <1>1. /\ Answering(c) /\ Head(toClient[c]) = toClient[c][1]
        /\ toClient[c][1] \in ReplySet /\ Tail(toClient[c]) = <<>>
        /\ deq_messages_in[c] = <<>> /\ toClient[c] # <<>>
    BY OnlyAnswering DEF ReadReply, Answering
  <1>2. /\ UNCHANGED <<request, library, result>>
        /\ toClient' = [toClient EXCEPT ![c] = <<>>]
        /\ deq_messages_in' =
               [deq_messages_in EXCEPT ![c] = Append(deq_messages_in[c], toClient[c][1])]
    BY <1>1 DEF ReadReply, history
  <1>3. Append(<<>>, toClient[c][1])[1] = toClient[c][1]
    OBVIOUS
  <1>4. ASSUME NEW d \in Clients
        PROVE  /\ TrulyNone(toClient[d], request[d].index)'
               /\ TrulyNone(deq_messages_in[d], request[d].index)'
    <2>1. CASE d = c
      <3>1. toClient'[d] = <<>> /\ deq_messages_in'[d][1] = toClient[c][1]
        BY <1>0, <1>1, <1>2, <1>3, <2>1 DEF TypeInv
      <3> QED
        BY <1>1, <1>2, <2>1, <3>1 DEF NoneInv, TrulyNone
    <2>2. CASE d # c
      <3>1. toClient'[d] = toClient[d] /\ deq_messages_in'[d] = deq_messages_in[d]
        BY <1>0, <1>2, <2>2 DEF TypeInv
      <3> QED
        BY <1>2, <3>1 DEF NoneInv, TrulyNone
    <2> QED
      BY <2>1, <2>2
  <1> QED
    BY <1>2, <1>4 DEF NoneInv, NoTrackMeansNone

\* A request is handled: it is the client's last if it is answered, and the library has
\* at least the tracks of the start.
LEMMA ServerNone ==
  ASSUME ~Failures, IInv, NoneInv, TypeInv', OnMessageRecieved
  PROVE  NoneInv'
  <1>0. TypeInv /\ QueueInv
    BY DEF IInv
  <1> DEFINE c == Head(deq_message_in).client
             r == Head(deq_message_in).msg
  <1>1. /\ deq_message_in \in Seq(Queued) /\ Len(deq_message_in) >= 1
        /\ Head(deq_message_in) = deq_message_in[1]
        /\ c \in Clients /\ r \in RequestSet
    <2>1. deq_message_in \in Seq(Queued) /\ deq_message_in # <<>>
      BY <1>0 DEF OnMessageRecieved, TypeInv
    <2>2. Len(deq_message_in) >= 1 /\ Head(deq_message_in) = deq_message_in[1]
          /\ Head(deq_message_in) \in Queued
      BY <2>1
    <2> QED
      BY <2>1, <2>2 DEF Queued
  <1>2. /\ library' = library \o r.tracks
        /\ toClient' = [toClient EXCEPT ![c] = Replies(r)]
        /\ UNCHANGED <<request, deq_messages_in, result>>
    BY DEF OnMessageRecieved, LibraryAfter, history
  <1>3. Len(library') >= Len(Library)
    <2>1. r.tracks \in Seq(Tracks) /\ library \in Seq(Tracks)
      BY <1>0, <1>1 DEF RequestSet, TypeInv
    <2>2. Len(library') >= Len(library) /\ Len(library) \in Nat /\ Len(library') \in Nat
      BY <1>2, <2>1, ConcatFacts
    <2> QED
      BY <2>2, LibraryAssumption DEF NoneInv
  <1>4. ASSUME Asks(r) PROVE r = request[c]
    <2>1. IsOf(c, 1) /\ 1 \in 1..Len(deq_message_in)
      BY <1>1 DEF IsOf
    <2> QED
      BY <1>0, <1>1, <1>4, <2>1 DEF QueueInv
  <1>5. TrulyNone(Replies(r), request[c].index)
    <2>1. CASE r.kind = "DownloadTrack"
      <3>1. r = request[c] /\ Replies(r) = OnDownloadRequest(r)
        BY <1>4, <2>1 DEF Asks, Replies
      <3>2. CASE Exists(r.index)
        BY <3>1, <3>2 DEF OnDownloadRequest, Answer, TrulyNone
      <3>3. CASE ~Exists(r.index)
        <4>1. r.index \in Nat /\ Len(library) \in Nat /\ Len(Library) \in Nat
          <5>1. r.index \in Indices /\ library \in Seq(Tracks)
            BY <1>0, <1>1 DEF RequestSet, TypeInv
          <5> QED
            BY <5>1, BoundAssumption, LibraryAssumption DEF Indices
        <4>2. r.index >= Len(Library)
          BY <3>3, <4>1 DEF Exists, NoneInv
        <4> QED
          BY <3>1, <4>2 DEF TrulyNone
      <3> QED
        BY <3>2, <3>3
    <2>2. CASE r.kind = "GetList"
      BY <2>2 DEF Replies, SendTracksList, Answer, TrulyNone
    <2>3. CASE r.kind = "UploadTrack"
      BY <2>3 DEF Replies, TrulyNone
    <2> QED
      BY <1>1, <2>1, <2>2, <2>3 DEF RequestSet
  <1>6. ASSUME NEW d \in Clients
        PROVE  /\ TrulyNone(toClient[d], request[d].index)'
               /\ TrulyNone(deq_messages_in[d], request[d].index)'
    <2>1. toClient'[d] = IF d = c THEN Replies(r) ELSE toClient[d]
      BY <1>0, <1>1, <1>2 DEF TypeInv
    <2> QED
      BY <1>2, <1>5, <2>1 DEF NoneInv, TrulyNone
  <1> QED
    BY <1>2, <1>3, <1>6 DEF NoneInv, NoTrackMeansNone

LEMMA StepNone ==
  ~Failures /\ IInv /\ TypeInv' /\ NoneInv /\ [Next]_vars => NoneInv'
  <1> SUFFICES ASSUME ~Failures, IInv, TypeInv', NoneInv, [Next]_vars PROVE NoneInv'
    OBVIOUS
  <1>1. CASE OnMessageRecieved
    BY <1>1, ServerNone
  <1>2. ASSUME NEW c \in Clients,
               \/ \E index \in Indices : Download(c, index)
               \/ GetTracksList(c)
               \/ \E track \in Tracks : Upload(c, track)
        PROVE  NoneInv'
    BY <1>2, SendNone DEF Download, GetTracksList, Upload
  <1>3. ASSUME NEW c \in Clients, DownloadFails(c) \/ InstallTrack(c) \/ DecodeList(c)
        PROVE  NoneInv'
    BY <1>3, EndNone
  <1>4. ASSUME NEW c \in Clients, ReadReply(c) PROVE NoneInv'
    BY <1>4, ReadReplyNone
  <1>5. ASSUME UNCHANGED <<request, library, toClient, deq_messages_in, result>>
        PROVE  NoneInv'
    BY <1>5 DEF NoneInv, TrulyNone, NoTrackMeansNone
  <1>6. ASSUME NEW c \in Clients,
               LookAtAnswer(c) \/ SpinEnds(c) \/ ReadRequest(c) \/ LoseConnection(c)
        PROVE  NoneInv'
    BY <1>5, <1>6 DEF LookAtAnswer, SpinEnds, ReadRequest, LoseConnection, channels, history
  <1>7. CASE UNCHANGED vars
    BY <1>5, <1>7 DEF vars, channels, history
  <1> QED
    BY <1>1, <1>2, <1>3, <1>4, <1>6, <1>7 DEF Next

\* The failed requests are what makes the message of client.cpp:142 untrue: without them
\* "No track on server with index" is said of no index below those the server started
\* with, because such an answer is the one to this download and the library only grows.
THEOREM OnlyFailuresMislead == ASSUME ~Failures PROVE Spec => []NoTrackMeansNone
  <1>1. IInv => TypeInv
    BY DEF IInv
  <1>2. NoneInv => NoTrackMeansNone
    BY DEF NoneInv
  <1>3. Spec => []NoneInv
    BY <1>1, StepNone, InitNone, Invariance, PTL DEF Spec
  <1> QED
    BY <1>2, <1>3, PTL
-----------------------------------------------------------------------------
(* With failures: the types, and whose answers a call may get *)

AnyReply == [no : Nat, kind : {"DownloadTrack", "GetList", "NoTrackExists", "Error404"},
             tracks : Seq(Tracks)]
Popping == {"NoTrackExists", "Error404", "install", "decode"}

\* The types of the state, whether requests fail or not.
TypeOK ==
    /\ at \in [Clients -> States \cup {"Error404"}]
    /\ request \in [Clients -> RequestSet]
    /\ toServer \in [Clients -> Seq(RequestSet)]
    /\ deq_message_in \in Seq(Queued)
    /\ library \in Seq(Tracks)
    /\ toClient \in [Clients -> Seq(AnyReply)]
    /\ deq_messages_in \in [Clients -> Seq(AnyReply)]
    /\ result \in [Clients -> [call : RequestSet, reply : AnyReply]]
    /\ seen \in [Clients -> Seq(Tracks)]
    /\ uploaded \in [Clients -> SUBSET Tracks]
    /\ calls \in Nat

\* What was looked at can be popped: the io thread only adds answers meanwhile.
PopInv == \A c \in Clients : at[c] \in Popping => deq_messages_in[c] # <<>>

\* What pop_back leaves of a queue that is not empty.
LEMMA PopBackFacts ==
  ASSUME NEW s \in Seq(AnyReply), s # <<>>
  PROVE  /\ PopBack(s) \in Seq(AnyReply) /\ Head(s) \in AnyReply /\ Last(s) \in AnyReply
         /\ \A i \in 1..Len(PopBack(s)) : \E j \in 1..Len(s) : PopBack(s)[i].no = s[j].no
         /\ Head(s) = s[1] /\ 1 \in 1..Len(s)
  <1>1. PICK n \in Nat \ {0} : n = Len(s)
    BY EmptySeq
  <1>2. \A i \in 1..n : s[i] \in AnyReply
    BY <1>1, ElementOfSeq
  <1>3. Head(s) = s[1] /\ Head(s) \in AnyReply /\ Last(s) \in AnyReply
    BY <1>1, <1>2 DEF Last
  <1>4. PICK g : g = Gutted(Head(s))
    OBVIOUS
  <1>5. g \in AnyReply /\ g.no = s[1].no
    <2>1. <<>> \in Seq(Tracks)
      OBVIOUS
    <2> QED
      BY <1>3, <1>4, <2>1 DEF Gutted, AnyReply
  <1>6. CASE n = 1
    <2>1. PopBack(s) = <<>>
      BY <1>1, <1>6 DEF PopBack
    <2> QED
      BY <1>1, <1>3, <2>1
  <1>7. CASE n # 1
    <2>1. PICK m \in Nat : m = n - 2
      BY <1>7
    <2>2. PICK rest : rest = SubSeq(s, 2, n - 1)
      OBVIOUS
    <2>3. /\ rest \in Seq(AnyReply) /\ Len(rest) = m
          /\ \A i \in 1..m : rest[i] = s[i + 1]
      <3>1. 2 \in Nat /\ n - 1 \in Nat /\ \A i \in 2..(n - 1) : i \in 1..n
        BY <1>7
      <3>2. \A i \in 2..(n - 1) : s[i] \in AnyReply
        BY <1>2, <3>1
      <3>3. /\ SubSeq(s, 2, n - 1) \in Seq(AnyReply)
            /\ Len(SubSeq(s, 2, n - 1)) = IF 2 <= n - 1 THEN (n - 1) - 2 + 1 ELSE 0
            /\ \A i \in 1..((n - 1) - 2 + 1) : SubSeq(s, 2, n - 1)[i] = s[2 + i - 1]
        BY <3>1, <3>2, SubSeqProperties
      <3> QED
        BY <1>7, <2>1, <2>2, <3>3
    <2>4. PopBack(s) = <<g>> \o rest
      BY <1>1, <1>4, <1>7, <2>2 DEF PopBack
    <2>5. PICK one \in Seq(AnyReply) : one = <<g>> /\ Len(one) = 1 /\ one[1] = g
      <3>1. <<g>> \in Seq(AnyReply) /\ Len(<<g>>) = 1 /\ <<g>>[1] = g
        BY <1>5
      <3> QED
        BY <3>1
    <2>6. /\ one \o rest \in Seq(AnyReply) /\ Len(one \o rest) = 1 + m
          /\ \A i \in 1..(1 + m) : (one \o rest)[i] = IF i <= 1 THEN one[i] ELSE rest[i - 1]
      BY <2>3, <2>5, ConcatProperties
    <2>7. ASSUME NEW i \in 1..(1 + m) PROVE \E j \in 1..n : (one \o rest)[i].no = s[j].no
      <3>1. CASE i = 1
        BY <1>5, <2>5, <2>6, <3>1
      <3>2. CASE i # 1
        <4>1. i - 1 \in 1..m /\ (i - 1) + 1 = i /\ i \in 1..n
          BY <2>1, <3>2
        <4>2. (one \o rest)[i] = s[i]
          BY <2>3, <2>6, <3>2, <4>1
        <4> QED
          BY <4>1, <4>2
      <3> QED
        BY <3>1, <3>2
    <2>8. PICK left : left = PopBack(s)
      OBVIOUS
    <2>9. /\ left \in Seq(AnyReply)
          /\ \A i \in 1..Len(left) : \E j \in 1..Len(s) : left[i].no = s[j].no
      BY <1>1, <2>4, <2>5, <2>6, <2>7, <2>8
    <2> QED
      BY <1>1, <1>3, <2>8, <2>9
  <1> QED
    BY <1>6, <1>7


\* The numbers of the messages in a channel, and of those of a client that are on
\* their way, wherever they are.
NosIn(s) == {s[i].no : i \in 1..Len(s)}
QueuedNos(c) == {deq_message_in[i].msg.no : i \in {j \in 1..Len(deq_message_in) : IsOf(c, j)}}
InFlight(c) == NosIn(toServer[c]) \cup QueuedNos(c)
                   \cup NosIn(toClient[c]) \cup NosIn(deq_messages_in[c])
Told(c) == {request[c].no, result[c].call.no, result[c].reply.no}

\* A call that ended was told something, and nothing that was not asked before.
NumberInv(c) ==
    /\ request[c].no <= calls
    /\ result[c].call.no <= request[c].no
    /\ result[c].reply.no <= result[c].call.no
    /\ result[c].call.no > 0 => result[c].reply.no > 0
    /\ \A n \in InFlight(c) : n > 0 /\ n <= request[c].no

\* No number is used by two clients.
OwnInv == \A c, d \in Clients : \A n \in InFlight(c) \cup Told(c) :
              c # d /\ n \in InFlight(d) \cup Told(d) => n = 0

IInvF == /\ TypeOK /\ PopInv
         /\ (\A c \in Clients : NumberInv(c)) /\ OwnInv

\* The answer a call ends with is one to a request the client had made by then, and
\* no other client is given it.
AnswersOnlyItsClient ==
    \A c \in Clients :
        LET n == result[c].reply.no
        IN /\ result[c].call.no > 0 => n > 0 /\ n <= result[c].call.no
           /\ n > 0 => \A d \in Clients \ {c} : n \notin InFlight(d) \cup Told(d)

LEMMA InitF == Init => IInvF
  <1> SUFFICES ASSUME Init PROVE IInvF
    OBVIOUS
  <1>1. TypeOK
    BY LibraryAssumption, BoundAssumption
       DEF Init, TypeOK, RequestSet, AnyReply, States, Indices, ListRequest, NoResult
  <1>2. PopInv
    BY DEF Init, PopInv, Popping
  <1>3. ASSUME NEW c \in Clients
        PROVE  InFlight(c) = {} /\ Told(c) = {0} /\ NumberInv(c)
    <2>1. InFlight(c) = {}
      BY DEF Init, InFlight, NosIn, QueuedNos
    <2>2. Told(c) = {0}
      BY DEF Init, Told, ListRequest, NoResult
    <2>3. result[c].call.no = 0 /\ result[c].reply.no = 0 /\ request[c].no = 0 /\ calls = 0
      BY DEF Init, ListRequest, NoResult
    <2> QED
      BY <2>1, <2>2, <2>3 DEF NumberInv
  <1>4. OwnInv
    BY <1>3 DEF OwnInv
  <1> QED
    BY <1>1, <1>2, <1>3, <1>4 DEF IInvF

\* What a client returns with comes from the front of its queue.
LEMMA ReturnTypeF ==
  ASSUME TypeOK, PopInv, NEW c \in Clients, NEW reply \in AnyReply, Return(c, reply),
         deq_messages_in[c] # <<>>,
         deq_messages_in' = [deq_messages_in EXCEPT ![c] = PopBack(@)],
         seen' \in [Clients -> Seq(Tracks)],
         UNCHANGED <<request, channels, library, uploaded, calls>>
  PROVE  TypeOK' /\ PopInv'
  <1> USE DEF TypeOK, channels
  <1>1. PopBack(deq_messages_in[c]) \in Seq(AnyReply)
    BY PopBackFacts
  <1>2. deq_messages_in' \in [Clients -> Seq(AnyReply)]
    BY <1>1
  <1>3. [call |-> request[c], reply |-> reply] \in [call : RequestSet, reply : AnyReply]
    OBVIOUS
  <1>4. result' \in [Clients -> [call : RequestSet, reply : AnyReply]]
    BY <1>3 DEF Return
  <1>5. at' \in [Clients -> States \cup {"Error404"}] /\ at'[c] = "idle"
        /\ \A d \in Clients \ {c} : at'[d] = at[d]
    BY DEF Return, States
  <1>6. TypeOK'
    BY <1>2, <1>4, <1>5
  <1>7. PopInv'
    BY <1>5 DEF PopInv, Popping
  <1> QED
    BY <1>6, <1>7

\* What the server may answer.
LEMMA RepliesF ==
  ASSUME library \in Seq(Tracks), NEW r \in RequestSet
  PROVE  /\ Replies(r) \in Seq(AnyReply)
         /\ <<Answer(r, "Error404", <<>>)>> \in Seq(AnyReply)
         /\ NosIn(Replies(r)) \subseteq {r.no}
         /\ NosIn(<<Answer(r, "Error404", <<>>)>>) \subseteq {r.no}
  <1>1. ASSUME NEW k \in {"DownloadTrack", "GetList", "NoTrackExists", "Error404"},
               NEW ts \in Seq(Tracks)
        PROVE  /\ <<Answer(r, k, ts)>> \in Seq(AnyReply)
               /\ NosIn(<<Answer(r, k, ts)>>) \subseteq {r.no}
    <2>1. PICK a : a = Answer(r, k, ts)
      OBVIOUS
    <2>2. a \in AnyReply /\ a.no = r.no
      BY <2>1 DEF Answer, AnyReply, RequestSet
    <2>3. <<a>> \in Seq(AnyReply) /\ Len(<<a>>) = 1 /\ <<a>>[1] = a
      BY <2>2
    <2> QED
      BY <2>1, <2>2, <2>3 DEF NosIn
  <1>2. <<>> \in Seq(Tracks) /\ <<>> \in Seq(AnyReply) /\ NosIn(<<>>) = {}
    BY DEF NosIn
  <1>3. CASE r.kind = "DownloadTrack"
    <2>1. Replies(r) = OnDownloadRequest(r)
      BY <1>3 DEF Replies
    <2>2. CASE Exists(r.index)
      <3>1. <<library[r.index + 1]>> \in Seq(Tracks)
        BY <2>2, BoundAssumption DEF Exists, RequestSet, Indices
      <3>2. OnDownloadRequest(r) = <<Answer(r, "DownloadTrack", <<library[r.index + 1]>>)>>
        BY <2>2 DEF OnDownloadRequest
      <3> QED
        BY <1>1, <1>2, <2>1, <3>1, <3>2
    <2>3. CASE ~Exists(r.index)
      <3>1. OnDownloadRequest(r) = <<Answer(r, "NoTrackExists", <<>>)>>
        BY <2>3 DEF OnDownloadRequest
      <3> QED
        BY <1>1, <1>2, <2>1, <3>1
    <2> QED
      BY <2>2, <2>3
  <1>4. CASE r.kind = "GetList"
    <2>1. Replies(r) = <<Answer(r, "GetList", library)>>
      BY <1>4 DEF Replies, SendTracksList
    <2> QED
      BY <1>1, <1>2, <2>1
  <1>5. CASE r.kind = "UploadTrack"
    <2>1. Replies(r) = <<>>
      BY <1>5 DEF Replies
    <2> QED
      BY <1>1, <1>2, <2>1
  <1> QED
    BY <1>3, <1>4, <1>5 DEF RequestSet

LEMMA StepTypeF == TypeOK /\ PopInv /\ [Next]_vars => TypeOK' /\ PopInv'
  <1> SUFFICES ASSUME TypeOK, PopInv, [Next]_vars PROVE TypeOK' /\ PopInv'
    OBVIOUS
  <1> USE DEF TypeOK, channels, history
  <1>0. calls \in Nat
    OBVIOUS
  <1>1. ASSUME NEW c \in Clients, NEW r \in RequestSet,
               NEW then \in {"wait", "spin", "idle"}, SendRequest(c, r, then),
               uploaded' \in [Clients -> SUBSET Tracks]
        PROVE  TypeOK' /\ PopInv'
    <2>1. TypeOK'
      BY <1>1 DEF SendRequest, States
    <2>2. PopInv'
      BY <1>1 DEF SendRequest, PopInv, Popping
    <2> QED
      BY <2>1, <2>2
  <1>2. ASSUME NEW c \in Clients, NEW index \in Indices, Download(c, index)
        PROVE  TypeOK' /\ PopInv'
    BY <1>0, <1>1, <1>2, Requests DEF Download
  <1>3. ASSUME NEW c \in Clients, GetTracksList(c) PROVE TypeOK' /\ PopInv'
    BY <1>0, <1>1, <1>3, Requests DEF GetTracksList
  <1>4. ASSUME NEW c \in Clients, NEW track \in Tracks, Upload(c, track)
        PROVE  TypeOK' /\ PopInv'
    <2>1. uploaded' \in [Clients -> SUBSET Tracks]
      BY <1>4 DEF Upload
    <2> QED
      BY <1>0, <1>1, <1>4, <2>1, Requests DEF Upload
  <1>5. ASSUME NEW c \in Clients, at[c] \in Popping
        PROVE  /\ deq_messages_in[c] # <<>>
               /\ Head(deq_messages_in[c]) \in AnyReply
               /\ Head(deq_messages_in[c]).tracks \in Seq(Tracks)
    <2>1. deq_messages_in[c] # <<>> /\ deq_messages_in[c] \in Seq(AnyReply)
      BY <1>5 DEF PopInv
    <2>2. Head(deq_messages_in[c]) \in AnyReply
      BY <2>1, PopBackFacts
    <2> QED
      BY <2>1, <2>2 DEF AnyReply
  <1>6. ASSUME NEW c \in Clients, LookAtAnswer(c) PROVE TypeOK' /\ PopInv'
    <2>1. /\ at' \in [Clients -> States \cup {"Error404"}]
          /\ \A d \in Clients : at'[d] = at[d] \/ (d = c /\ deq_messages_in[c] # <<>>)
      BY <1>6 DEF LookAtAnswer, States
    <2> QED
      BY <1>6, <2>1 DEF LookAtAnswer, PopInv
  <1>7. ASSUME NEW c \in Clients, DownloadFails(c) PROVE TypeOK' /\ PopInv'
    <2>1. /\ at[c] \in {"NoTrackExists", "Error404"}
          /\ Return(c, Answer(Head(deq_messages_in[c]), at[c], <<>>))
          /\ deq_messages_in' = [deq_messages_in EXCEPT ![c] = PopBack(@)]
          /\ UNCHANGED <<request, channels, library, seen, uploaded, calls>>
      BY <1>7 DEF DownloadFails
    <2>2. at[c] \in Popping
      BY <2>1 DEF Popping
    <2>3. <<>> \in Seq(Tracks)
      OBVIOUS
    <2>4. Answer(Head(deq_messages_in[c]), at[c], <<>>) \in AnyReply
      BY <1>5, <2>1, <2>2, <2>3 DEF Answer, AnyReply
    <2> QED
      BY <1>5, <2>1, <2>2, <2>4, ReturnTypeF
  <1>8. ASSUME NEW c \in Clients, InstallTrack(c) PROVE TypeOK' /\ PopInv'
    <2>1. at[c] \in Popping
      BY <1>8 DEF InstallTrack, Popping
    <2> QED
      BY <1>5, <1>8, <2>1, ReturnTypeF DEF InstallTrack
  <1>9. ASSUME NEW c \in Clients, SpinEnds(c) PROVE TypeOK' /\ PopInv'
    <2>1. TypeOK'
      BY <1>9 DEF SpinEnds, States
    <2>2. PopInv'
      BY <1>9 DEF SpinEnds, PopInv
    <2> QED
      BY <2>1, <2>2
  <1>10. ASSUME NEW c \in Clients, DecodeList(c) PROVE TypeOK' /\ PopInv'
    <2>1. at[c] \in Popping
      BY <1>10 DEF DecodeList, Popping
    <2>2. CASE Return(c, Head(deq_messages_in[c]))
                 /\ seen' = [seen EXCEPT ![c] = Head(deq_messages_in[c]).tracks]
      <3>1. seen' \in [Clients -> Seq(Tracks)]
        BY <1>5, <2>1, <2>2
      <3>2. /\ deq_messages_in' = [deq_messages_in EXCEPT ![c] = PopBack(@)]
            /\ UNCHANGED <<request, channels, library, uploaded, calls>>
        BY <1>10 DEF DecodeList
      <3> QED
        BY <1>5, <2>1, <2>2, <3>1, <3>2, ReturnTypeF
    <2>3. CASE at' = [at EXCEPT ![c] = "dead"] /\ UNCHANGED <<result, seen>>
      <3>1. PopBack(deq_messages_in[c]) \in Seq(AnyReply)
        BY <1>5, <2>1, PopBackFacts
      <3>2. /\ deq_messages_in' = [deq_messages_in EXCEPT ![c] = PopBack(@)]
            /\ UNCHANGED <<request, channels, library, uploaded, calls>>
        BY <1>10 DEF DecodeList
      <3>3. deq_messages_in' \in [Clients -> Seq(AnyReply)]
        BY <3>1, <3>2
      <3>4. at' \in [Clients -> States \cup {"Error404"}]
        BY <2>3 DEF States
      <3>5. PopInv'
        BY <2>3, <3>2 DEF PopInv, Popping
      <3> QED
        BY <2>3, <3>2, <3>3, <3>4, <3>5
    <2> QED
      BY <1>10, <2>2, <2>3 DEF DecodeList
  <1>11. ASSUME NEW c \in Clients, ReadReply(c) PROVE TypeOK' /\ PopInv'
    <2>1. Tail(toClient[c]) \in Seq(AnyReply) /\ Head(toClient[c]) \in AnyReply
      BY <1>11 DEF ReadReply
    <2>2. PICK q : q = Append(deq_messages_in[c], Head(toClient[c]))
      OBVIOUS
    <2>3. q \in Seq(AnyReply) /\ q # <<>>
      BY <2>1, <2>2
    <2>4. deq_messages_in' = [deq_messages_in EXCEPT ![c] = q]
      BY <1>11, <2>2 DEF ReadReply
    <2>5. TypeOK'
      BY <1>11, <2>1, <2>3, <2>4 DEF ReadReply
    <2>6. PopInv'
      BY <1>11, <2>3, <2>4 DEF ReadReply, PopInv
    <2> QED
      BY <2>5, <2>6
  <1>12. ASSUME NEW c \in Clients, ReadRequest(c) PROVE TypeOK' /\ PopInv'
    <2>1. Tail(toServer[c]) \in Seq(RequestSet) /\ Head(toServer[c]) \in RequestSet
      BY <1>12 DEF ReadRequest
    <2>2. [client |-> c, msg |-> Head(toServer[c])] \in Queued
      BY <2>1 DEF Queued
    <2>3. TypeOK'
      BY <1>12, <2>1, <2>2 DEF ReadRequest
    <2>4. PopInv'
      BY <1>12 DEF ReadRequest, PopInv
    <2> QED
      BY <2>3, <2>4
  <1>13. ASSUME NEW c \in Clients, LoseConnection(c) PROVE TypeOK' /\ PopInv'
    <2>1. TypeOK'
      BY <1>13 DEF LoseConnection, States
    <2>2. PopInv'
      BY <1>13 DEF LoseConnection, PopInv, Popping
    <2> QED
      BY <2>1, <2>2
  <1>14. CASE OnMessageRecieved
    <2>1. deq_message_in # <<>> /\ deq_message_in \in Seq(Queued)
      BY <1>14 DEF OnMessageRecieved
    <2>2. Head(deq_message_in) \in Queued /\ Tail(deq_message_in) \in Seq(Queued)
      BY <2>1
    <2>3. PICK c \in Clients, r \in RequestSet :
              c = Head(deq_message_in).client /\ r = Head(deq_message_in).msg
      BY <2>2 DEF Queued
    <2>4. /\ \/ toClient' = [toClient EXCEPT ![c] = Replies(r)]
                    /\ library' = library \o r.tracks
             \/ toClient' = [toClient EXCEPT ![c] = <<Answer(r, "Error404", <<>>)>>]
                    /\ library' = library
          /\ deq_message_in' = Tail(deq_message_in)
          /\ UNCHANGED <<at, request, toServer, deq_messages_in, history, calls>>
      BY <1>14, <2>3 DEF OnMessageRecieved, LibraryAfter
    <2>5. library' \in Seq(Tracks)
      <3>1. library \in Seq(Tracks) /\ r.tracks \in Seq(Tracks)
        BY DEF RequestSet
      <3>2. library \o r.tracks \in Seq(Tracks)
        BY <3>1, ConcatFacts
      <3> QED
        BY <2>4, <3>1, <3>2
    <2>6. toClient' \in [Clients -> Seq(AnyReply)]
      <3>1. library \in Seq(Tracks)
        OBVIOUS
      <3>2. /\ Replies(r) \in Seq(AnyReply)
            /\ <<Answer(r, "Error404", <<>>)>> \in Seq(AnyReply)
        BY <3>1, RepliesF
      <3>3. PICK q \in Seq(AnyReply) : toClient' = [toClient EXCEPT ![c] = q]
        BY <2>4, <3>2
      <3> QED
        BY <3>3
    <2>7. TypeOK'
      BY <2>2, <2>4, <2>5, <2>6
    <2>8. PopInv'
      BY <2>4 DEF PopInv
    <2> QED
      BY <2>7, <2>8
  <1>15. CASE UNCHANGED vars
    BY <1>15 DEF vars, PopInv
  <1> QED
    BY <1>2, <1>3, <1>4, <1>6, <1>7, <1>8, <1>9, <1>10, <1>11, <1>12, <1>13, <1>14, <1>15
       DEF Next

\* The types of what the program keeps, for any failures of the server: a client that
\* takes what is not its answer still only ever has messages and tracks in its hands.
THEOREM TypeCorrect == Spec => []TypeOK
  <1>1. TypeOK /\ PopInv /\ [Next]_vars => TypeOK' /\ PopInv'
    BY StepTypeF
  <1>2. Init => TypeOK /\ PopInv
    BY InitF DEF IInvF
  <1> QED
    BY <1>1, <1>2, PTL DEF Spec

\* The numbers of a channel that takes or gives a message.
LEMMA NosAppend ==
  ASSUME NEW S, NEW s \in Seq(S), NEW e \in S
  PROVE  NosIn(Append(s, e)) = NosIn(s) \cup {e.no}
  <1>1. PICK n \in Nat : n = Len(s)
    OBVIOUS
  <1>1a. PICK t : t = Append(s, e)
    OBVIOUS
  <1>2. Len(t) = n + 1 /\ t[n + 1] = e /\ \A i \in 1..n : t[i] = s[i]
    BY <1>1, <1>1a
  <1>3. 1..(n + 1) = 1..n \cup {n + 1}
    BY <1>1
  <1> QED
    BY <1>1, <1>1a, <1>2, <1>3 DEF NosIn

LEMMA NosTail ==
  ASSUME NEW S, NEW s \in Seq(S), s # <<>>
  PROVE  NosIn(Tail(s)) \subseteq NosIn(s) /\ Head(s).no \in NosIn(s) /\ Head(s) \in S
  <1>1. PICK t : t = Tail(s)
    OBVIOUS
  <1>2. PICK n \in Nat : n = Len(s)
    OBVIOUS
  <1>3. /\ Len(t) = n - 1 /\ (\A i \in 1..(n - 1) : t[i] = s[i + 1])
        /\ n > 0 /\ Head(s) = s[1] /\ s[1] \in S
    BY <1>1, <1>2, EmptySeq, ElementOfSeq, HeadTailProperties
  <1>4. \A i \in 1..(n - 1) : i + 1 \in 1..n
    OBVIOUS
  <1>5. 1 \in 1..n
    BY <1>3
  <1> QED
    BY <1>1, <1>2, <1>3, <1>4, <1>5 DEF NosIn

\* The same of the queue of the server, in which the requests of all clients meet.
LEMMA QueuedAppend ==
  ASSUME deq_message_in \in Seq(Queued), NEW c \in Clients, NEW r \in RequestSet,
         deq_message_in' = Append(deq_message_in, [client |-> c, msg |-> r])
  PROVE  \A d \in Clients :
             QueuedNos(d)' \subseteq QueuedNos(d) \cup IF d = c THEN {r.no} ELSE {}
  <1>1. PICK n \in Nat : n = Len(deq_message_in)
    OBVIOUS
  <1>2. PICK e \in Queued : e = [client |-> c, msg |-> r]
    BY DEF Queued
  <1>3. /\ Len(deq_message_in') = n + 1 /\ deq_message_in'[n + 1] = e
        /\ \A i \in 1..n : deq_message_in'[i] = deq_message_in[i]
    BY <1>1, <1>2
  <1>4. 1..(n + 1) = 1..n \cup {n + 1}
    BY <1>1
  <1>5. e.client = c /\ e.msg = r
    BY <1>2
  <1> QED
    BY <1>1, <1>3, <1>4, <1>5 DEF QueuedNos, IsOf

LEMMA QueuedTail ==
  ASSUME deq_message_in \in Seq(Queued), deq_message_in # <<>>,
         deq_message_in' = Tail(deq_message_in)
  PROVE  /\ \A d \in Clients : QueuedNos(d)' \subseteq QueuedNos(d)
         /\ Head(deq_message_in) \in Queued
         /\ Head(deq_message_in).msg.no \in QueuedNos(Head(deq_message_in).client)
  <1>1. PICK n \in Nat : n = Len(deq_message_in)
    OBVIOUS
  <1>2. /\ n > 0 /\ Head(deq_message_in) = deq_message_in[1]
        /\ deq_message_in[1] \in Queued
        /\ Len(deq_message_in') = n - 1
        /\ \A i \in 1..(n - 1) : deq_message_in'[i] = deq_message_in[i + 1]
    BY <1>1, EmptySeq, ElementOfSeq, HeadTailProperties
  <1>3. (\A i \in 1..(n - 1) : i + 1 \in 1..n) /\ 1 \in 1..n
    BY <1>2
  <1> QED
    BY <1>1, <1>2, <1>3 DEF QueuedNos, IsOf

\* What a step does with the numbers: a call takes a new one, the end of a call reads
\* one that is on its way to the client, and all others only move them.
Moved(c) == InFlight(c)' \subseteq InFlight(c)

Begun(c) == /\ calls' = calls + 1 /\ result' = result
            /\ request'[c].no = calls + 1
            /\ InFlight(c)' \subseteq InFlight(c) \cup {calls + 1}
            /\ \A d \in Clients \ {c} : request'[d] = request[d] /\ Moved(d)

Ended(c) == /\ UNCHANGED <<calls, request>>
            /\ \A d \in Clients : Moved(d)
            /\ result'[c].call = request[c] /\ result'[c].reply.no \in InFlight(c)
            /\ \A d \in Clients \ {c} : result'[d] = result[d]

Went == UNCHANGED <<calls, request, result>> /\ \A d \in Clients : Moved(d)

LEMMA SendNumbers ==
  ASSUME TypeOK, NEW c \in Clients, NEW r \in RequestSet, NEW then,
         r.no = calls + 1, SendRequest(c, r, then)
  PROVE  Begun(c)
  <1> USE DEF TypeOK
  <1>1. /\ calls' = calls + 1 /\ result' = result
        /\ request' = [request EXCEPT ![c] = r]
        /\ toServer' = [toServer EXCEPT ![c] = Append(@, r)]
        /\ UNCHANGED <<deq_message_in, toClient, deq_messages_in>>
    BY DEF SendRequest
  <1>2. NosIn(Append(toServer[c], r)) = NosIn(toServer[c]) \cup {r.no}
    BY NosAppend
  <1>3. request'[c] = r /\ toServer'[c] = Append(toServer[c], r)
        /\ \A d \in Clients \ {c} : request'[d] = request[d] /\ toServer'[d] = toServer[d]
    BY <1>1
  <1>4. \A d \in Clients : QueuedNos(d)' = QueuedNos(d)
    BY <1>1 DEF QueuedNos, IsOf
  <1> QED
    BY <1>1, <1>2, <1>3, <1>4 DEF Begun, Moved, InFlight

\* The end of a call, and the end of a client that decodes nonsense.
LEMMA PopNumbers ==
  ASSUME TypeOK, NEW c \in Clients, deq_messages_in[c] # <<>>,
         deq_messages_in' = [deq_messages_in EXCEPT ![c] = PopBack(@)],
         UNCHANGED <<request, toServer, deq_message_in, toClient, calls>>
  PROVE  /\ UNCHANGED result => Went
         /\ \A reply : Return(c, reply) /\ reply.no = Head(deq_messages_in[c]).no
                           => Ended(c)
  <1> USE DEF TypeOK
  <1>0. PICK s \in Seq(AnyReply) : s = deq_messages_in[c]
    OBVIOUS
  <1>0a. /\ PopBack(s) \in Seq(AnyReply)
         /\ \A i \in 1..Len(PopBack(s)) : \E j \in 1..Len(s) : PopBack(s)[i].no = s[j].no
         /\ Head(s) = s[1] /\ 1 \in 1..Len(s)
    <2>1. s # <<>>
      BY <1>0
    <2> HIDE DEF TypeOK
    <2> QED
      BY <2>1, PopBackFacts
  <1>0b. PICK left \in Seq(AnyReply) : left = PopBack(s)
    BY <1>0a
  <1>1. s = deq_messages_in[c] /\ left = PopBack(s)
    BY <1>0, <1>0b
  <1>2. /\ \A i \in 1..Len(left) : \E j \in 1..Len(s) : left[i].no = s[j].no
        /\ Head(s) = s[1] /\ 1 \in 1..Len(s)
    BY <1>0a, <1>0b
  <1>3. NosIn(left) \subseteq NosIn(s) /\ Head(s).no \in NosIn(s)
    <2>1. ASSUME NEW n \in NosIn(left) PROVE n \in NosIn(s)
      <3>1. PICK i \in 1..Len(left) : left[i].no = n
        BY <2>1 DEF NosIn
      <3>2. PICK j \in 1..Len(s) : s[j].no = n
        BY <1>2, <3>1
      <3> QED
        BY <3>2 DEF NosIn
    <2>2. s[1].no \in NosIn(s)
      BY <1>2 DEF NosIn
    <2> QED
      BY <1>2, <2>1, <2>2
  <1>4. deq_messages_in'[c] = left
        /\ \A d \in Clients \ {c} : deq_messages_in'[d] = deq_messages_in[d]
    BY <1>1
  <1>5. \A d \in Clients : QueuedNos(d)' = QueuedNos(d)
    BY DEF QueuedNos, IsOf
  <1>6. \A d \in Clients : Moved(d)
    BY <1>1, <1>3, <1>4, <1>5 DEF Moved, InFlight
  <1>7. Head(deq_messages_in[c]).no \in InFlight(c)
    BY <1>1, <1>3 DEF InFlight
  <1>8. ASSUME NEW reply, Return(c, reply), reply.no = Head(deq_messages_in[c]).no
        PROVE  Ended(c)
    <2>1. result'[c] = [call |-> request[c], reply |-> reply]
          /\ \A d \in Clients \ {c} : result'[d] = result[d]
      BY <1>8 DEF Return
    <2> QED
      BY <1>6, <1>7, <1>8, <2>1 DEF Ended
  <1> QED
    BY <1>6, <1>8 DEF Went

LEMMA StepNumbers ==
  ASSUME TypeOK, PopInv, [Next]_vars
  PROVE  Went \/ \E c \in Clients : Begun(c) \/ Ended(c)
  <1> USE DEF TypeOK, channels, history
  <1>1. ASSUME NEW c \in Clients, NEW index \in Indices, Download(c, index) PROVE Begun(c)
    <2>1. /\ DownloadRequest(calls + 1, index) \in RequestSet
          /\ DownloadRequest(calls + 1, index).no = calls + 1
      BY Requests DEF DownloadRequest
    <2> QED
      BY <1>1, <2>1, SendNumbers DEF Download
  <1>2. ASSUME NEW c \in Clients, GetTracksList(c) PROVE Begun(c)
    <2>1. ListRequest(calls + 1) \in RequestSet /\ ListRequest(calls + 1).no = calls + 1
      BY Requests DEF ListRequest
    <2> QED
      BY <1>2, <2>1, SendNumbers DEF GetTracksList
  <1>3. ASSUME NEW c \in Clients, NEW track \in Tracks, Upload(c, track) PROVE Begun(c)
    <2>1. /\ UploadRequest(calls + 1, track) \in RequestSet
          /\ UploadRequest(calls + 1, track).no = calls + 1
      BY Requests DEF UploadRequest
    <2> QED
      BY <1>3, <2>1, SendNumbers DEF Upload
  <1>4. ASSUME UNCHANGED <<request, result, channels, deq_messages_in, calls>> PROVE Went
    BY <1>4 DEF Went, Moved, InFlight, QueuedNos, IsOf
  <1>5. ASSUME NEW c \in Clients, LookAtAnswer(c) \/ SpinEnds(c) \/ LoseConnection(c)
        PROVE  Went
    BY <1>4, <1>5 DEF LookAtAnswer, SpinEnds, LoseConnection
  <1>6. ASSUME NEW c \in Clients, DownloadFails(c) PROVE Ended(c)
    <2>1. deq_messages_in[c] # <<>>
      BY <1>6 DEF DownloadFails, PopInv, Popping
    <2>2. PICK reply : /\ reply = Answer(Head(deq_messages_in[c]), at[c], <<>>)
                       /\ Return(c, reply)
      BY <1>6 DEF DownloadFails
    <2>3. reply.no = Head(deq_messages_in[c]).no
      BY <2>2 DEF Answer
    <2> QED
      BY <1>6, <2>1, <2>2, <2>3, PopNumbers DEF DownloadFails
  <1>7. ASSUME NEW c \in Clients, InstallTrack(c) PROVE Ended(c)
    <2>1. deq_messages_in[c] # <<>>
      BY <1>7 DEF InstallTrack, PopInv, Popping
    <2> QED
      BY <1>7, <2>1, PopNumbers DEF InstallTrack
  <1>8. ASSUME NEW c \in Clients, DecodeList(c) PROVE Went \/ Ended(c)
    <2>1. deq_messages_in[c] # <<>>
      BY <1>8 DEF DecodeList, PopInv, Popping
    <2>2. Return(c, Head(deq_messages_in[c])) \/ UNCHANGED result
      BY <1>8 DEF DecodeList
    <2>3. /\ deq_messages_in' = [deq_messages_in EXCEPT ![c] = PopBack(@)]
          /\ UNCHANGED <<request, toServer, deq_message_in, toClient, calls>>
      BY <1>8 DEF DecodeList
    <2> QED
      BY <2>1, <2>2, <2>3, PopNumbers
  <1>9. ASSUME NEW c \in Clients, ReadReply(c) PROVE Went
    <2>1. PICK s \in Seq(AnyReply), q \in Seq(AnyReply) :
              s = toClient[c] /\ q = deq_messages_in[c]
      OBVIOUS
    <2>2. NosIn(Tail(s)) \subseteq NosIn(s) /\ Head(s).no \in NosIn(s) /\ Head(s) \in AnyReply
      BY <1>9, <2>1, NosTail DEF ReadReply
    <2>3. NosIn(Append(q, Head(s))) = NosIn(q) \cup {Head(s).no}
      BY <2>2, NosAppend
    <2>4. /\ toClient'[c] = Tail(s) /\ deq_messages_in'[c] = Append(q, Head(s))
          /\ \A d \in Clients \ {c} : /\ toClient'[d] = toClient[d]
                                      /\ deq_messages_in'[d] = deq_messages_in[d]
          /\ UNCHANGED <<calls, request, result, toServer, deq_message_in>>
      BY <1>9, <2>1 DEF ReadReply
    <2>5. \A d \in Clients : QueuedNos(d)' = QueuedNos(d)
      BY <2>4 DEF QueuedNos, IsOf
    <2> QED
      BY <2>1, <2>2, <2>3, <2>4, <2>5 DEF Went, Moved, InFlight
  <1>10. ASSUME NEW c \in Clients, ReadRequest(c) PROVE Went
    <2>1. PICK s \in Seq(RequestSet) : s = toServer[c]
      OBVIOUS
    <2>2. PICK r : r = Head(s)
      OBVIOUS
    <2>3. NosIn(Tail(s)) \subseteq NosIn(s) /\ r.no \in NosIn(s) /\ r \in RequestSet
      BY <1>10, <2>1, <2>2, NosTail DEF ReadRequest
    <2>4. /\ toServer'[c] = Tail(s)
          /\ deq_message_in' = Append(deq_message_in, [client |-> c, msg |-> r])
          /\ \A d \in Clients \ {c} : toServer'[d] = toServer[d]
          /\ UNCHANGED <<calls, request, result, toClient, deq_messages_in>>
      BY <1>10, <2>1, <2>2 DEF ReadRequest
    <2>5. \A d \in Clients :
              QueuedNos(d)' \subseteq QueuedNos(d) \cup IF d = c THEN {r.no} ELSE {}
      BY <2>3, <2>4, QueuedAppend
    <2>6. Moved(c)
      BY <2>1, <2>3, <2>4, <2>5 DEF Moved, InFlight
    <2>7. \A d \in Clients \ {c} : Moved(d)
      BY <2>4, <2>5 DEF Moved, InFlight
    <2> QED
      BY <2>4, <2>6, <2>7 DEF Went
  <1>11. CASE OnMessageRecieved
    <2>1. /\ deq_message_in # <<>> /\ deq_message_in \in Seq(Queued)
          /\ deq_message_in' = Tail(deq_message_in)
          /\ UNCHANGED <<at, request, toServer, deq_messages_in, history, calls>>
      BY <1>11 DEF OnMessageRecieved
    <2>2. /\ \A d \in Clients : QueuedNos(d)' \subseteq QueuedNos(d)
          /\ Head(deq_message_in) \in Queued
          /\ Head(deq_message_in).msg.no \in QueuedNos(Head(deq_message_in).client)
      BY <2>1, QueuedTail
    <2>3. PICK c \in Clients, r \in RequestSet :
              c = Head(deq_message_in).client /\ r = Head(deq_message_in).msg
      BY <2>2 DEF Queued
    <2>4. r.no \in QueuedNos(c)
      BY <2>2, <2>3
    <2>5. library \in Seq(Tracks)
      OBVIOUS
    <2>6. PICK q : NosIn(q) \subseteq {r.no} /\ toClient' = [toClient EXCEPT ![c] = q]
      <3>1. \/ toClient' = [toClient EXCEPT ![c] = Replies(r)]
            \/ toClient' = [toClient EXCEPT ![c] = <<Answer(r, "Error404", <<>>)>>]
        BY <1>11, <2>3 DEF OnMessageRecieved
      <3> QED
        BY <2>5, <3>1, RepliesF
    <2>7. toClient'[c] = q /\ \A d \in Clients \ {c} : toClient'[d] = toClient[d]
      BY <2>6
    <2>8. Moved(c)
      BY <2>1, <2>2, <2>4, <2>6, <2>7 DEF Moved, InFlight
    <2>9. \A d \in Clients \ {c} : Moved(d)
      BY <2>1, <2>2, <2>7 DEF Moved, InFlight
    <2> QED
      BY <2>1, <2>8, <2>9 DEF Went
  <1>12. CASE UNCHANGED vars
    BY <1>4, <1>12 DEF vars
  <1> QED
    BY <1>1, <1>2, <1>3, <1>5, <1>6, <1>7, <1>8, <1>9, <1>10, <1>11, <1>12 DEF Next

\* The numbers are natural ones.
LEMMA NumbersAreNat ==
  ASSUME TypeOK, NEW c \in Clients
  PROVE  /\ calls \in Nat /\ InFlight(c) \subseteq Nat
         /\ request[c].no \in Nat /\ result[c].call.no \in Nat /\ result[c].reply.no \in Nat
  <1>1. ASSUME NEW S, \A m \in S : m.no \in Nat, NEW s \in Seq(S) PROVE NosIn(s) \subseteq Nat
    <2>1. \A i \in 1..Len(s) : s[i] \in S
      BY ElementOfSeq
    <2> QED
      BY <1>1, <2>1 DEF NosIn
  <1>2. (\A m \in RequestSet : m.no \in Nat) /\ (\A m \in AnyReply : m.no \in Nat)
    BY DEF RequestSet, AnyReply
  <1>3. QueuedNos(c) \subseteq Nat
    <2>1. deq_message_in \in Seq(Queued)
      BY DEF TypeOK
    <2>2. \A i \in 1..Len(deq_message_in) : deq_message_in[i] \in Queued
      BY <2>1, ElementOfSeq
    <2> QED
      BY <1>2, <2>2 DEF QueuedNos, Queued
  <1>4. /\ toServer[c] \in Seq(RequestSet) /\ toClient[c] \in Seq(AnyReply)
        /\ deq_messages_in[c] \in Seq(AnyReply)
        /\ request[c] \in RequestSet /\ calls \in Nat
        /\ result[c] \in [call : RequestSet, reply : AnyReply]
    BY DEF TypeOK
  <1>5. result[c].call \in RequestSet /\ result[c].reply \in AnyReply
    BY <1>4
  <1>6. NosIn(toServer[c]) \subseteq Nat
    BY <1>1, <1>2, <1>4
  <1>7. NosIn(toClient[c]) \subseteq Nat /\ NosIn(deq_messages_in[c]) \subseteq Nat
    BY <1>1, <1>2, <1>4
  <1> QED
    BY <1>2, <1>3, <1>4, <1>5, <1>6, <1>7 DEF InFlight

\* A number that is new is no one's, and one that moves stays its client's.
LEMMA StepF == IInvF /\ [Next]_vars => IInvF'
  <1> SUFFICES ASSUME IInvF, [Next]_vars PROVE IInvF'
    OBVIOUS
  <1>1. /\ TypeOK /\ PopInv /\ TypeOK' /\ PopInv'
        /\ (\A c \in Clients : NumberInv(c)) /\ OwnInv
    BY StepTypeF DEF IInvF
  <1>2. \A c \in Clients :
            /\ calls \in Nat /\ InFlight(c) \subseteq Nat
            /\ request[c].no \in Nat /\ result[c].call.no \in Nat
            /\ result[c].reply.no \in Nat
    BY <1>1, NumbersAreNat
  <1>3. CASE Went
    <2>1. \A c \in Clients : /\ InFlight(c)' \subseteq InFlight(c) /\ Told(c)' = Told(c)
      BY <1>3 DEF Went, Moved, Told
    <2>2. ASSUME NEW c \in Clients PROVE NumberInv(c)'
      BY <1>1, <1>3, <2>1 DEF Went, NumberInv
    <2>3. OwnInv'
      BY <1>1, <2>1 DEF OwnInv
    <2> QED
      BY <1>1, <2>2, <2>3 DEF IInvF
  <1>4. ASSUME NEW c \in Clients, Begun(c) PROVE IInvF'
    <2>1. /\ calls' = calls + 1 /\ result' = result /\ request'[c].no = calls + 1
          /\ InFlight(c)' \subseteq InFlight(c) \cup {calls + 1}
          /\ \A d \in Clients \ {c} : /\ request'[d] = request[d]
                                      /\ InFlight(d)' \subseteq InFlight(d)
      BY <1>4 DEF Begun, Moved
    <2>2. /\ Told(c)' \subseteq Told(c) \cup {calls + 1}
          /\ \A d \in Clients \ {c} : Told(d)' = Told(d)
      BY <2>1 DEF Told
    <2>3. \A d \in Clients : \A n \in InFlight(d) \cup Told(d) : n <= calls
      BY <1>1, <1>2 DEF NumberInv, Told
    <2>4. ASSUME NEW d \in Clients PROVE NumberInv(d)'
      <3>1. CASE d = c
        <4>1. \A n \in InFlight(c)' : n > 0 /\ n <= calls + 1
          BY <1>1, <1>2, <2>1 DEF NumberInv
        <4> QED
          BY <1>1, <1>2, <2>1, <3>1, <4>1 DEF NumberInv
      <3>2. CASE d # c
        BY <1>1, <1>2, <2>1, <3>2 DEF NumberInv
      <3> QED
        BY <3>1, <3>2
    <2>5. OwnInv'
      <3>1. ASSUME NEW d \in Clients, NEW e \in Clients, d # e,
                   NEW n \in (InFlight(d) \cup Told(d))', n \in (InFlight(e) \cup Told(e))'
            PROVE  n = 0
        <4>1. ASSUME NEW f \in Clients, n \in (InFlight(f) \cup Told(f))'
              PROVE  n \in InFlight(f) \cup Told(f) \/ (f = c /\ n = calls + 1)
          BY <2>1, <2>2, <4>1
        <4>2. \A f \in Clients : calls + 1 \notin InFlight(f) \cup Told(f)
          BY <1>2, <2>3
        <4> QED
          BY <1>1, <3>1, <4>1, <4>2 DEF OwnInv
      <3> QED
        BY <3>1 DEF OwnInv
    <2> QED
      BY <1>1, <2>4, <2>5 DEF IInvF
  <1>5. ASSUME NEW c \in Clients, Ended(c) PROVE IInvF'
    <2>1. /\ UNCHANGED <<calls, request>>
          /\ \A d \in Clients : InFlight(d)' \subseteq InFlight(d)
          /\ result'[c].call = request[c] /\ result'[c].reply.no \in InFlight(c)
          /\ \A d \in Clients \ {c} : result'[d] = result[d]
      BY <1>5 DEF Ended, Moved
    <2>2. /\ Told(c)' \subseteq Told(c) \cup InFlight(c)
          /\ \A d \in Clients \ {c} : Told(d)' = Told(d)
      BY <2>1 DEF Told
    <2>3. ASSUME NEW d \in Clients PROVE NumberInv(d)'
      <3>1. CASE d = c
        BY <1>1, <1>2, <2>1, <3>1 DEF NumberInv
      <3>2. CASE d # c
        BY <1>1, <2>1, <3>2 DEF NumberInv
      <3> QED
        BY <3>1, <3>2
    <2>4. \A d \in Clients : (InFlight(d) \cup Told(d))' \subseteq InFlight(d) \cup Told(d)
      BY <2>1, <2>2
    <2>5. OwnInv'
      BY <1>1, <2>4 DEF OwnInv
    <2> QED
      BY <1>1, <2>3, <2>5 DEF IInvF
  <1> QED
    BY <1>1, <1>3, <1>4, <1>5, StepNumbers

\* What is left of a call when requests fail: the answers that stay behind in
\* deq_messages_in, of which client.cpp takes the first for that of its last request,
\* mislead only the client that caused them, and only with what it had asked before.
THEOREM OnlyOwnAnswers == Spec => []AnswersOnlyItsClient
  <1>1. IInvF => AnswersOnlyItsClient
    <2> SUFFICES ASSUME IInvF, NEW c \in Clients
                 PROVE  /\ result[c].call.no > 0
                               => result[c].reply.no > 0
                                     /\ result[c].reply.no <= result[c].call.no
                        /\ result[c].reply.no > 0 =>
                               \A d \in Clients \ {c} :
                                   result[c].reply.no \notin InFlight(d) \cup Told(d)
      BY DEF AnswersOnlyItsClient
    <2>1. NumberInv(c)
      BY DEF IInvF
    <2>2. result[c].reply.no \in Told(c)
      BY DEF Told
    <2>3. ASSUME NEW d \in Clients \ {c}, result[c].reply.no \in InFlight(d) \cup Told(d)
          PROVE  result[c].reply.no = 0
      BY <2>2, <2>3 DEF IInvF, OwnInv
    <2> QED
      BY <2>1, <2>3 DEF NumberInv
  <1> QED
    BY <1>1, InitF, StepF, PTL DEF Spec
=============================================================================
