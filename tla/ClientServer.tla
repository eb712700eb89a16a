---------------------------- MODULE ClientServer ----------------------------
(***************************************************************************)
(* lib/networking/client.cpp against server.cpp: the calls of some clients *)
(* (download_track, get_tracks_list, upload_track) and the answers of      *)
(* on_message_recieved to them.                                            *)
(*                                                                         *)
(* Requests of all clients meet in one queue of the server; answers carry  *)
(* no name of the request they belong to, so a client takes whatever is in *)
(* its queue for the answer to its last call, and an upload is answered    *)
(* only if it failed.                                                      *)
(*                                                                         *)
(* The connections are FIFO channels, which MessageStream shows for one    *)
(* message in flight in each direction; the guards named Settled keep to   *)
(* that.  The library is the sequence of tracks by index that an indexed   *)
(* directory is in TrackLibrary.  A wakeup lost by wait() delays a step    *)
(* for ever, so nothing here is said to happen in the end.                 *)
(***************************************************************************)
EXTENDS Naturals, Sequences, SequencesExt

CONSTANTS Clients,
          Tracks,    \* the tracks clients upload, and those of Library
          Library,   \* the tracks the server starts with, by index
          Failures,  \* whether the server may fail, for want of descriptors say
          MaxIndex,  \* bound on the indices asked for
          MaxCalls   \* bound on the calls of all clients

ASSUME LibraryAssumption == Library \in Seq(Tracks)
ASSUME FailuresAssumption == Failures \in BOOLEAN
ASSUME BoundAssumption == MaxIndex \in Nat /\ MaxCalls \in Nat

VARIABLES at,               \* where each client's main thread is
          request,          \* the last request it sent
          toServer,         \* the requests on its connection
          deq_message_in,   \* the requests waiting for the server's main thread
          library,          \* the tracks, by index
          toClient,         \* the answers on each client's connection
          deq_messages_in,  \* each client's queue of answers
          result,           \* history: how its last download or list ended
          seen,             \* history: the last list it was shown
          uploaded,         \* history: what it had uploaded before its last call
          calls             \* the number of calls so far

channels == <<toServer, deq_message_in, toClient>>
history == <<result, seen, uploaded>>
vars == <<at, request, channels, library, deq_messages_in, history, calls>>

Indices == 0..MaxIndex

\* Requests and answers.  "no" is the number of the call, which the messages of
\* the program do not carry: it is there for the properties.
DownloadRequest(n, index) ==
    [no |-> n, kind |-> "DownloadTrack", index |-> index, tracks |-> <<>>]
ListRequest(n) == [no |-> n, kind |-> "GetList", index |-> 0, tracks |-> <<>>]
UploadRequest(n, track) ==
    [no |-> n, kind |-> "UploadTrack", index |-> 0, tracks |-> <<track>>]

Answer(r, kind, tracks) == [no |-> r.no, kind |-> kind, tracks |-> tracks]

NoResult == [call |-> ListRequest(0), reply |-> [no |-> 0, kind |-> "GetList",
                                                 tracks |-> <<>>]]

Init == /\ at = [c \in Clients |-> "idle"]
        /\ request = [c \in Clients |-> ListRequest(0)]
        /\ toServer = [c \in Clients |-> <<>>]
        /\ deq_message_in = <<>>
        /\ library = Library
        /\ toClient = [c \in Clients |-> <<>>]
        /\ deq_messages_in = [c \in Clients |-> <<>>]
        /\ result = [c \in Clients |-> NoResult]
        /\ seen = [c \in Clients |-> <<>>]
        /\ uploaded = [c \in Clients |-> {}]
        /\ calls = 0
-----------------------------------------------------------------------------
(* The client's calls *)

\* What was sent on the connection before has arrived.
Settled(channel) == channel = <<>>

\* The beginning of each call: a request is sent and its number taken.
SendRequest(c, r, then) ==
    /\ at[c] = "idle" /\ calls < MaxCalls
    /\ Settled(toServer[c])
    /\ calls' = calls + 1
    /\ request' = [request EXCEPT ![c] = r]
    /\ toServer' = [toServer EXCEPT ![c] = Append(@, r)]
    /\ at' = [at EXCEPT ![c] = then]
    /\ UNCHANGED <<deq_message_in, library, toClient, deq_messages_in, result, seen>>

Download(c, index) == /\ SendRequest(c, DownloadRequest(calls + 1, index), "wait")
                      /\ UNCHANGED uploaded

GetTracksList(c) == /\ SendRequest(c, ListRequest(calls + 1), "spin")
                    /\ UNCHANGED uploaded

\* upload_track returns without an answer.
Upload(c, track) == /\ SendRequest(c, UploadRequest(calls + 1, track), "idle")
                    /\ uploaded' = [uploaded EXCEPT ![c] = @ \cup {track}]

\* pop_back moves the front out and removes the back.
Gutted(reply) == [reply EXCEPT !.tracks = <<>>]
PopBack(queue) == IF Len(queue) = 1 THEN <<>>
                  ELSE <<Gutted(Head(queue))>> \o SubSeq(queue, 2, Len(queue) - 1)

Return(c, reply) ==
    /\ at' = [at EXCEPT ![c] = "idle"]
    /\ result' = [result EXCEPT ![c] = [call |-> request[c], reply |-> reply]]

\* deq_messages_in.wait() returned, and back() is looked at; between the two
\* calls of the queue and the next, another answer may be pushed.
LookAtAnswer(c) ==
    /\ at[c] = "wait" /\ deq_messages_in[c] # <<>>
    /\ at' = [at EXCEPT ![c] =
                  IF Last(deq_messages_in[c]).kind \in {"NoTrackExists", "Error404"}
                  THEN Last(deq_messages_in[c]).kind ELSE "install"]
    /\ UNCHANGED <<request, channels, library, deq_messages_in, history, calls>>

\* The answer that was looked at is dropped and an exception reports it.
DownloadFails(c) ==
    /\ at[c] \in {"NoTrackExists", "Error404"}
    /\ deq_messages_in' = [deq_messages_in EXCEPT ![c] = PopBack(@)]
    /\ Return(c, Answer(Head(deq_messages_in[c]), at[c], <<>>))
    /\ UNCHANGED <<request, channels, library, seen, uploaded, calls>>

\* The answer is not removed when it was installed.
InstallTrackKeeps(c) ==
    /\ at[c] = "install"
    /\ Return(c, Head(deq_messages_in[c]))
    /\ UNCHANGED <<deq_messages_in, request, channels, library, seen, uploaded, calls>>

\* Whatever pop_back returns is installed under the path it carries.
InstallTrack(c) ==
    /\ at[c] = "install"
    /\ deq_messages_in' = [deq_messages_in EXCEPT ![c] = PopBack(@)]
    /\ Return(c, Head(deq_messages_in[c]))
    /\ UNCHANGED <<request, channels, library, seen, uploaded, calls>>

\* The busy wait of get_tracks_list ends when the last answer is a list.
SpinEnds(c) ==
    /\ at[c] = "spin" /\ deq_messages_in[c] # <<>>
    /\ Last(deq_messages_in[c]).kind = "GetList"
    /\ at' = [at EXCEPT ![c] = "decode"]
    /\ UNCHANGED <<request, channels, library, deq_messages_in, history, calls>>

\* pop_back and the decoding of what it returned.  If that is no list, an
\* assertion fails or nonsense is decoded.
DecodeList(c) ==
    /\ at[c] = "decode"
    /\ deq_messages_in' = [deq_messages_in EXCEPT ![c] = PopBack(@)]
    /\ LET reply == Head(deq_messages_in[c])
       IN \/ /\ Return(c, reply)
             /\ seen' = [seen EXCEPT ![c] = reply.tracks]
          \/ /\ reply.kind # "GetList"
             /\ at' = [at EXCEPT ![c] = "dead"]
             /\ UNCHANGED <<result, seen>>
    /\ UNCHANGED <<request, channels, library, uploaded, calls>>

\* add_to_incomming_queue on the client's side.
ReadReply(c) ==
    /\ at[c] # "dead"
    /\ toClient[c] # <<>>
    /\ toClient' = [toClient EXCEPT ![c] = Tail(@)]
    /\ deq_messages_in' = [deq_messages_in EXCEPT ![c] = Append(@, Head(toClient[c]))]
    /\ UNCHANGED <<at, request, toServer, deq_message_in, library, history, calls>>

\* A read or write of the client fails: the exception leaves its io_context
\* thread, and the process ends.
LoseConnection(c) ==
    /\ at[c] # "dead"
    /\ at' = [at EXCEPT ![c] = "dead"]
    /\ UNCHANGED <<request, channels, library, deq_messages_in, history, calls>>
-----------------------------------------------------------------------------
(* The server *)

\* add_to_incomming_queue on the server's side.
ReadRequest(c) ==
    /\ toServer[c] # <<>>
    /\ toServer' = [toServer EXCEPT ![c] = Tail(@)]
    /\ deq_message_in' = Append(deq_message_in, [client |-> c, msg |-> Head(toServer[c])])
    /\ UNCHANGED <<at, request, library, toClient, deq_messages_in, history, calls>>

Exists(index) == index < Len(library)

\* The answers of on_message_recieved, none or one.
OnDownloadRequest(r) ==
    IF Exists(r.index) THEN <<Answer(r, "DownloadTrack", <<library[r.index + 1]>>)>>
                       ELSE <<Answer(r, "NoTrackExists", <<>>)>>
SendTracksList(r) == <<Answer(r, "GetList", library)>>

\* An upload that is acknowledged with a list.
RepliesAcknowledged(r) == IF r.kind = "DownloadTrack" THEN OnDownloadRequest(r)
                          ELSE SendTracksList(r)

Replies(r) == CASE r.kind = "DownloadTrack" -> OnDownloadRequest(r)
                [] r.kind = "GetList" -> SendTracksList(r)
                [] r.kind = "UploadTrack" -> <<>>

\* A new track takes the first index.
LibraryShifted(r) == r.tracks \o library

\* my_hash++ forgotten: a new track takes the index of the last upload.
LibraryKept(r) == IF r.kind = "UploadTrack" /\ Len(library) > Len(Library)
                  THEN Front(library) \o r.tracks ELSE library \o r.tracks

\* index_new_track: the new track gets the next index.
LibraryAfter(r) == library \o r.tracks

\* The main thread handles a request; a handler that fails changes nothing and is
\* answered with Error404.
OnMessageRecieved ==
    /\ deq_message_in # <<>>
    /\ LET c == Head(deq_message_in).client
           r == Head(deq_message_in).msg
       IN /\ Settled(toClient[c])
          /\ \/ /\ library' = LibraryAfter(r)
                /\ toClient' = [toClient EXCEPT ![c] = Replies(r)]
             \/ /\ Failures
                /\ toClient' = [toClient EXCEPT ![c] = <<Answer(r, "Error404", <<>>)>>]
                /\ UNCHANGED library
    /\ deq_message_in' = Tail(deq_message_in)
    /\ UNCHANGED <<at, request, toServer, deq_messages_in, history, calls>>
-----------------------------------------------------------------------------
Next == \/ OnMessageRecieved
        \/ \E c \in Clients :
              \/ \E index \in Indices : Download(c, index)
              \/ GetTracksList(c)
              \/ \E track \in Tracks : Upload(c, track)
              \/ LookAtAnswer(c) \/ DownloadFails(c) \/ InstallTrack(c)
              \/ SpinEnds(c) \/ DecodeList(c)
              \/ ReadReply(c) \/ ReadRequest(c) \/ LoseConnection(c)

Spec == Init /\ [][Next]_vars
-----------------------------------------------------------------------------
\* Answers are not marked with the call they belong to.  As long as no request
\* fails, a call ends with the answer to its own request, whatever was uploaded
\* before it and whatever other clients do.
AnswersOwnRequest == \A c \in Clients : result[c].reply.no = result[c].call.no

\* pop_back returns the front and removes the back.  As long as no request fails,
\* no more than one answer is ever in a client's queue, so they are the same; and
\* the one that was looked at is still there when it is popped.
OneAnswerQueued ==
    \A c \in Clients :
        /\ Len(deq_messages_in[c]) <= 1
        /\ at[c] \in {"NoTrackExists", "Error404", "install", "decode"}
               => deq_messages_in[c] # <<>>

\* A list shows the client everything it uploaded before, although no upload is
\* acknowledged.
ListShowsOwnUploads ==
    \A c \in Clients :
        result[c].call.kind = "GetList" /\ result[c].call.no > 0
            => uploaded[c] \subseteq ToSet(seen[c]) \/ request[c] # result[c].call

\* What a client saw in a list it gets under that index, however many tracks it
\* and the others uploaded in between.
DownloadsWhatItSaw ==
    \A c \in Clients :
        LET call == result[c].call
        IN call.kind = "DownloadTrack" /\ call.index < Len(seen[c])
               => result[c].reply.tracks = <<seen[c][call.index + 1]>>

\* client.cpp:142 tells the user of a download "No track on server with index {}".
\* There is none, then, of the tracks the server had from the beginning.
NoTrackMeansNone ==
    \A c \in Clients :
        result[c].call.kind = "DownloadTrack" /\ result[c].reply.kind = "NoTrackExists"
            => result[c].call.index >= Len(Library)
=============================================================================
