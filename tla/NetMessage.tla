----------------------------- MODULE NetMessage -----------------------------
(***************************************************************************)
(* The bytes of a message: the << and >> of net_message.h, and the three   *)
(* calls of the client down to the bytes they exchange with the server.    *)
(*                                                                         *)
(* A body is written at its end and read from its end, so a reader has to  *)
(* mirror the writer without any mark in the message that would tell it    *)
(* to.  One call is followed from one side to the other and back; who      *)
(* calls when is the subject of ClientServer, the wire of MessageStream,   *)
(* and the message is here handed from one side to the other as it is.     *)
(***************************************************************************)
EXTENDS Integers, Sequences, FiniteSets, SequencesExt

CONSTANTS Base, Width,   \* a size_t is Width bytes of Base values each
          HeaderBytes,   \* sizeof(message_header)
          IntLimit,      \* one more than the largest int
          Tracks,        \* the FLAC_track_info of the files of a directory
          Library,       \* the files a download can find, by index
          Indices,       \* the indices asked for
          Paths,         \* the dest_path of downloads
          Uploads,       \* the files to be uploaded
          MaxListed      \* bound on the length of a list

SizeLimit == 2 * IntLimit   \* header.size is a uint32_t
Byte == 0..Base - 1
NUL == 0

\* A number as its bytes are taken off, the least significant first; a size_t is
\* one of which nothing is left then.
Shifted(value) ==
    LET shifted[i \in 0..Width] == IF i = 0 THEN value ELSE shifted[i - 1] \div Base
    IN shifted

Scalar == {value \in Nat : Shifted(value)[Width] = 0}

ASSUME ByteAssumption == Base \in Nat \ {0, 1} /\ Width \in Nat \ {0}
ASSUME LimitAssumption ==
    /\ IntLimit \in Nat
    /\ HeaderBytes \in 0..IntLimit - 1 /\ Width < IntLimit
    /\ \A path \in Paths : path \in Seq(Byte) /\ HeaderBytes + Len(path) <= IntLimit
ASSUME FileAssumption ==
    /\ \A index \in DOMAIN Library : Library[index] \in Seq(Byte)
    /\ Uploads \subseteq Seq(Byte)
ASSUME IndexAssumption == DOMAIN Library \subseteq Indices /\ Indices \subseteq Scalar
ASSUME BoundAssumption == MaxListed \in Scalar

\* The strings of a FLAC_track_info in the order in which << writes them, and
\* in the order in which >> reads them.
WriteOrder == <<"title", "artist", "album", "comment", "date", "genre", "album_artist">>

\* Two neighbours exchanged.
ReadOrderSwapped ==
    <<"album_artist", "genre", "comment", "date", "album", "artist", "title">>

ReadOrder == <<"album_artist", "genre", "date", "comment", "album", "artist", "title">>

Tags == ToSet(WriteOrder)

ASSUME TrackAssumption ==
    /\ Tracks \subseteq [hash : Scalar, tags : [Tags -> Seq(Byte)]]
    /\ \A t \in Tracks : \A tag \in Tags : Len(t.tags[tag]) \in Scalar
-----------------------------------------------------------------------------
(* Messages.  size is header.size, which wraps. *)

Message(body) == [size |-> (HeaderBytes + Len(body)) % SizeLimit, body |-> body]

\* A message nothing was written into.
NewMessage == [size |-> 0, body |-> <<>>]

\* memcpy of a size_t, the least significant byte first.
Bytes(value) == [i \in 1..Width |-> Shifted(value)[i - 1] % Base]

\* The number its last i bytes stand for, then one more, up to all of them.
Value(bytes) ==
    LET high[i \in 0..Len(bytes)] ==
            IF i = 0 THEN 0 ELSE bytes[Len(bytes) - i + 1] + Base * high[i - 1]
    IN high[Len(bytes)]

PutBytes(msg, bytes) == Message(msg.body \o bytes)
PutScalar(msg, value) == PutBytes(msg, Bytes(value))

\* What a >> does: the last n bytes, if there are as many; else assert fails.
Holds(msg, n) == Len(msg.body) >= n
Drop(msg, n) == Message(SubSeq(msg.body, 1, Len(msg.body) - n))
Top(msg, n) == SubSeq(msg.body, Len(msg.body) - n + 1, Len(msg.body))

\* A string is written before its size, so that its size is read first.
PutString(msg, string) == PutScalar(PutBytes(msg, string), Len(string))

PutTrack(msg, track) ==
    LET put[i \in 0..Len(WriteOrder)] ==
            IF i = 0 THEN PutScalar(msg, track.hash)
                     ELSE PutString(put[i - 1], track.tags[WriteOrder[i]])
    IN put[Len(WriteOrder)]

\* A reader in the middle of a message: what is left of it, what was read, and
\* whether no assert failed so far.
Reader(msg, read, ok) == [msg |-> msg, read |-> read, ok |-> ok]

TakeString(r, tag) ==
    LET n == Value(Top(r.msg, Width))
        rest == Drop(r.msg, Width)
    IN  IF r.ok /\ Holds(r.msg, Width) /\ Holds(rest, n)
        THEN Reader(Drop(rest, n), [r.read EXCEPT !.tags[tag] = Top(rest, n)], TRUE)
        ELSE [r EXCEPT !.ok = FALSE]

\* >> into a FLAC_track_info that holds no strings yet.
TakeTrack(msg) ==
    LET blank == [hash |-> 0, tags |-> [tag \in Tags |-> <<>>]]
        take[i \in 0..Len(ReadOrder)] ==
            IF i = 0 THEN Reader(msg, blank, TRUE)
                     ELSE TakeString(take[i - 1], ReadOrder[i])
        strings == take[Len(ReadOrder)]
    IN  IF strings.ok /\ Holds(strings.msg, Width)
        THEN Reader(Drop(strings.msg, Width),
                    [strings.read EXCEPT !.hash = Value(Top(strings.msg, Width))], TRUE)
        ELSE [strings EXCEPT !.ok = FALSE]
-----------------------------------------------------------------------------
VARIABLES phase,          \* how far the call has come
          asked,          \* history: what the client called for
          msg,            \* the message being written, on its way or being read
          listed,         \* history: the tracks the server put in the list
          count,          \* their number, as the server counts
          num_of_tracks,  \* what the client takes the number to be
          track_list,     \* what the client has decoded
          file            \* what the last step left on the disk: of an upload at
                          \* the server, of a download at the client

list == <<listed, count, num_of_tracks, track_list>>
vars == <<phase, asked, msg, list, file>>

NoFile == [path |-> <<>>, content |-> <<>>]

Init == /\ phase = "idle"
        /\ asked = [call |-> "none"]
        /\ msg = NewMessage
        /\ listed = <<>> /\ count = 0
        /\ num_of_tracks = 0 /\ track_list = <<>>
        /\ file = NoFile

\* get_file_size without the int.
SizeFromFileWide(bytes) == Len(bytes)

\* get_file_size: the position at the end of the file goes through an int.
SizeFromFile(bytes) == ((Len(bytes) + IntLimit) % SizeLimit) - IntLimit

\* The file as it was read: not at all if the vector cannot be made that large.
Readable(bytes) == SizeFromFile(bytes) >= 0
ReadFile(bytes) == SubSeq(bytes, 1, SizeFromFile(bytes))
-----------------------------------------------------------------------------
(* get_tracks_list *)

\* The server begins the answer to a GetList.
ListTracks == /\ phase = "idle"
              /\ phase' = "listing"
              /\ asked' = [call |-> "get_tracks_list"]
              /\ UNCHANGED <<msg, list, file>>

\* One entry of send_tracks_list's loop.
PutEntry(track) == /\ phase = "listing"
                   /\ Len(listed) < MaxListed
                   /\ msg' = PutTrack(msg, track)
                   /\ listed' = Append(listed, track)
                   /\ count' = count + 1
                   /\ UNCHANGED <<phase, asked, num_of_tracks, track_list, file>>

SendTracksList == /\ phase = "listing"
                  /\ msg' = PutScalar(msg, count)
                  /\ phase' = "list_arrived"
                  /\ UNCHANGED <<asked, list, file>>

\* reply.msg >> num_of_tracks
TakeCount == /\ phase = "list_arrived"
             /\ IF Holds(msg, Width)
                THEN /\ num_of_tracks' = Value(Top(msg, Width))
                     /\ msg' = Drop(msg, Width)
                     /\ phase' = "decoding"
                ELSE phase' = "aborted" /\ UNCHANGED <<num_of_tracks, msg>>
             /\ UNCHANGED <<asked, listed, count, track_list, file>>

\* The loop goes on to i = num_of_tracks.
TakeEntryTooMany == /\ phase = "decoding"
                    /\ Len(track_list) <= num_of_tracks
                    /\ LET r == TakeTrack(msg) IN
                         /\ msg' = r.msg
                         /\ track_list' = Append(track_list, r.read)
                         /\ phase' = IF r.ok THEN "decoding" ELSE "aborted"
                    /\ UNCHANGED <<asked, listed, count, num_of_tracks, file>>

\* One round of the client's loop.
TakeEntry == /\ phase = "decoding"
             /\ Len(track_list) < num_of_tracks
             /\ LET r == TakeTrack(msg) IN
                  /\ msg' = r.msg
                  /\ track_list' = Append(track_list, r.read)
                  /\ phase' = IF r.ok THEN "decoding" ELSE "aborted"
             /\ UNCHANGED <<asked, listed, count, num_of_tracks, file>>

ReturnList == /\ phase = "decoding"
              /\ Len(track_list) = num_of_tracks
              /\ phase' = "list_returned"
              /\ UNCHANGED <<asked, msg, list, file>>
-----------------------------------------------------------------------------
(* download_track *)

RequestDownload(path, index) ==
    /\ phase = "idle"
    /\ asked' = [call |-> "download_track", path |-> path, index |-> index]
    /\ msg' = PutScalar(PutBytes(NewMessage, path), index)
    /\ phase' = "download_requested"
    /\ UNCHANGED <<list, file>>

\* The index is not put back for send_track.
OnDownloadRequestTakes ==
    /\ phase = "download_requested"
    /\ IF Holds(msg, Width)
       THEN LET index == Value(Top(msg, Width)) IN
            \/ /\ index \in DOMAIN Library
               /\ phase' = "track_found"
               /\ msg' = Drop(msg, Width)
            \/ /\ index \notin DOMAIN Library
               /\ phase' = "no_track"
               /\ msg' = NewMessage
       ELSE phase' = "aborted" /\ UNCHANGED msg
    /\ UNCHANGED <<asked, list, file>>

\* on_download_request looks for the file of the index it takes from the
\* request, and puts the index back for send_track.
OnDownloadRequest ==
    /\ phase = "download_requested"
    /\ IF Holds(msg, Width)
       THEN LET index == Value(Top(msg, Width)) IN
            \/ /\ index \in DOMAIN Library
               /\ phase' = "track_found"
               /\ msg' = PutScalar(Drop(msg, Width), index)
            \/ /\ index \notin DOMAIN Library
               /\ phase' = "no_track"
               /\ msg' = NewMessage
       ELSE phase' = "aborted" /\ UNCHANGED msg
    /\ UNCHANGED <<asked, list, file>>

\* send_track: what is left of the request, which is the path, and the file.
\* What throws is answered with an Error404.
SendTrack ==
    /\ phase = "track_found"
    /\ IF Holds(msg, Width)
       THEN LET index == Value(Top(msg, Width))
                request == Drop(msg, Width)
            IN  \/ /\ index \in DOMAIN Library /\ Readable(Library[index])
                   /\ phase' = "track_arrived"
                   /\ msg' = PutBytes(PutBytes(NewMessage, request.body),
                                      ReadFile(Library[index]))
                \/ /\ index \notin DOMAIN Library \/ ~Readable(Library[index])
                   /\ phase' = "failed"
                   /\ msg' = NewMessage
       ELSE phase' = "aborted" /\ UNCHANGED msg
    /\ UNCHANGED <<asked, list, file>>

\* The byte after the path is taken for the first of the track.
InstallTrackKeepsNul ==
    /\ phase = "track_arrived"
    /\ \E pos \in DOMAIN msg.body :
         /\ msg.body[pos] = NUL /\ \A i \in 1..pos - 1 : msg.body[i] # NUL
         /\ pos > 1
         /\ phase' = "installed"
         /\ file' = [path |-> SubSeq(msg.body, 1, pos - 1),
                     content |-> SubSeq(msg.body, pos, Len(msg.body))]
    /\ UNCHANGED <<asked, msg, list>>

\* install_track: the path is what comes before the first NUL, the track what
\* comes after.  fopen may always fail, and does with an empty path.
\* Without a NUL the loop reads the byte behind the vector.  Is it a NUL, what
\* is written is undefined; otherwise the file is made, empty, before the call
\* throws.
InstallTrack ==
    /\ phase = "track_arrived"
    /\ \/ /\ phase' = "failed"
          /\ UNCHANGED file
       \/ \E pos \in DOMAIN msg.body :
            /\ msg.body[pos] = NUL /\ \A i \in 1..pos - 1 : msg.body[i] # NUL
            /\ pos > 1
            /\ phase' = "installed"
            /\ file' = [path |-> SubSeq(msg.body, 1, pos - 1),
                        content |-> SubSeq(msg.body, pos + 1, Len(msg.body))]
       \/ /\ NUL \notin ToSet(msg.body)
          /\ \/ /\ phase' = "failed"
                /\ file' = [path |-> msg.body, content |-> <<>>]
             \/ /\ phase' = "undefined"
                /\ UNCHANGED file
    /\ UNCHANGED <<asked, msg, list>>
-----------------------------------------------------------------------------
(* upload_track *)

\* The header is filled in by hand, since nothing is written with <<.
UploadTrack(bytes) ==
    /\ phase = "idle"
    /\ asked' = [call |-> "upload_track", content |-> bytes]
    /\ \/ /\ Readable(bytes)
          /\ phase' = "upload_arrived"
          /\ msg' = Message(ReadFile(bytes))
       \/ /\ ~Readable(bytes)
          /\ phase' = "failed"
          /\ UNCHANGED msg
    /\ UNCHANGED <<list, file>>

\* add_to_library writes the body as it came.
AddToLibrary == /\ phase = "upload_arrived"
                /\ phase' = "uploaded"
                /\ file' = [file EXCEPT !.content = msg.body]
                /\ UNCHANGED <<asked, msg, list>>
-----------------------------------------------------------------------------
GetTracksList == \/ ListTracks \/ SendTracksList \/ TakeCount \/ TakeEntry \/ ReturnList
                 \/ \E track \in Tracks : PutEntry(track)

DownloadTrack == \/ OnDownloadRequest \/ SendTrack \/ InstallTrack
                 \/ \E path \in Paths, index \in Indices : RequestDownload(path, index)

Upload == AddToLibrary \/ \E bytes \in Uploads : UploadTrack(bytes)

Next == GetTracksList \/ DownloadTrack \/ Upload

Spec == Init /\ [][Next]_vars
-----------------------------------------------------------------------------
\* No >> asks for more bytes than the message has left: every reader takes what
\* its writer put, whatever was taken before.
AssertionsHold == phase # "aborted"

\* The client gets the tracks of send_tracks_list, all of them, each with its own
\* strings and hash, the last one first.
DecodesListReversed ==
    /\ phase \in {"decoding", "list_returned"} =>
          /\ num_of_tracks = Len(listed)
          /\ \A i \in DOMAIN track_list :
                track_list[i] = listed[Len(listed) + 1 - i]
    /\ phase = "list_returned" => track_list = Reverse(listed)

\* Below the largest int a file is sent whole.
Sendable(index) == Len(Library[index]) < IntLimit

\* The reply to a download is the path of the request and the file of the index
\* the client asked for, or says that there is none, and only then.
ServesWhatWasAsked ==
    /\ phase = "track_arrived" =>
          /\ asked.index \in DOMAIN Library
          /\ Sendable(asked.index) => msg.body = asked.path \o Library[asked.index]
    /\ phase = "no_track" => asked.index \notin DOMAIN Library

\* A path that ends where install_track looks for its end.
Terminated(path) == /\ path # <<>>
                    /\ Last(path) = NUL
                    /\ NUL \notin ToSet(Front(path))

\* A download whose caller ended the path with a NUL installs the whole track
\* under this path or fails; nothing undefined happens.
InstallsTerminated ==
    (asked.call = "download_track" /\ Terminated(asked.path)) =>
        /\ phase # "undefined"
        /\ (phase = "installed" /\ Sendable(asked.index)) =>
              file = [path |-> Front(asked.path), content |-> Library[asked.index]]

\* header.size, of 32 bits, announces the body to the receiver exactly: a file
\* that would make it wrap is refused or cut by the int it passes through first.
AnnouncesItsBody ==
    phase \in {"list_arrived", "download_requested", "track_arrived", "upload_arrived"}
        => msg.size = HeaderBytes + Len(msg.body)
=============================================================================
