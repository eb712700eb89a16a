---------------------------- MODULE TrackLibrary ----------------------------
(***************************************************************************)
(* lib/networking/server.cpp: the directory of tracks as the server leaves *)
(* it on disk.  index_track_library renames what it finds to numbers when  *)
(* the server starts on a directory that is not signed yet; then the main  *)
(* thread serves uploads, downloads and lists.                             *)
(*                                                                         *)
(* The main thread is the only one that touches the directory, so a        *)
(* request that changes nothing on disk is one action; one that does is    *)
(* cut where the process can die between two changes.  my_hash lives in    *)
(* memory, the directory and the signature in it on disk.                  *)
(***************************************************************************)
EXTENDS Naturals

CONSTANTS Tracks,      \* what the files contain
          NoTrack,     \* the content of a file that is no track
          Uploads,     \* the tracks clients upload
          Extensions,  \* the extensions of the files, FLAC among them
          FLAC,        \* ".flac", the default of header.ex_flag
          Libraries,   \* directories the server is started on
          MaxFds,      \* how many files the process may have open
          MaxIndex,    \* bound on my_hash
          MaxRuns      \* bound on the starts of the server

\* A file name: an index, one of the user's own, or one of those the code knows.
Number(n, e) == [kind |-> "number", id |-> n, ext |-> e]
Own(t, e) == [kind |-> "own", id |-> t, ext |-> e]
New == [kind |-> "new", id |-> NoTrack, ext |-> FLAC]
Indexed == [kind |-> "indexed", id |-> NoTrack, ext |-> "txt"]
DSStore == [kind |-> "DS_Store", id |-> NoTrack, ext |-> ""]

Numbers == {Number(n, e) : n \in 0..MaxIndex, e \in Extensions}
Names == Numbers \cup {Own(t, e) : t \in Tracks, e \in Extensions}
             \cup {New, Indexed, DSStore}

\* What a file holds: a track or its beginning.
Content == [track : Tracks \cup {NoTrack}, whole : BOOLEAN]
Whole(t) == [track |-> t, whole |-> TRUE]
Part(t) == [track |-> t, whole |-> FALSE]

ASSUME LibraryAssumption ==
    \A library \in Libraries :
        /\ DOMAIN library \subseteq Names \ {New, Indexed}
        /\ \A name \in DOMAIN library : library[name] \in Content
\* A track that was uploaded is told from one the user had in the directory, even if
\* both sound the same; no server had signed the directory, so it held no uploads.
ASSUME UploadAssumption ==
    \A library \in Libraries : \A name \in DOMAIN library :
        library[name].track \notin Uploads
ASSUME ConstantAssumption == /\ NoTrack \notin Tracks
                             /\ Uploads \subseteq Tracks
                             /\ FLAC \in Extensions
                             /\ {MaxFds, MaxIndex, MaxRuns} \subseteq Nat

VARIABLES dir,      \* the files of the directory, by name
          my_hash,  \* the next index
          pc,       \* what the main thread does next
          pending,  \* the names the directory iterator has still to return
          entry,    \* the file being indexed
          upload,   \* the track being uploaded, and its extension
          fds,      \* the descriptors never closed
          reply,    \* the last reply sent
          runs,     \* how often the server was started
          fresh,    \* history: this run indexed the directory itself
          short,    \* history: uploads of which the disk did not take everything
          buffered  \* the iterator in use reads the whole directory at once

memory == <<my_hash, pending, entry, upload, fds, reply>>
vars == <<dir, pc, memory, runs, fresh, short, buffered>>

NoReply == [kind |-> "none", what |-> {}]

\* CHECK_NOT_SYSTEM
CheckNotSystem(name) == name \notin {Indexed, DSStore}

Put(d, name, content) ==
    [n \in DOMAIN d \cup {name} |-> IF n = name THEN content ELSE d[n]]
Remove(d, name) == [n \in DOMAIN d \ {name} |-> d[n]]

NoUpload == Own(NoTrack, FLAC)

Init == /\ dir \in Libraries
        /\ pc = "down"
        /\ my_hash = 0 /\ pending = {} /\ entry = New /\ upload = NoUpload
        /\ fds = 0 /\ reply = NoReply
        /\ runs = 0 /\ fresh = FALSE /\ short = {}
        /\ buffered = FALSE
\* No process runs: none was started, it died, or nobody caught an exception.
Off == pc \in {"down", "aborted"}

\* The process ends: what is on disk stays, nothing else.
Ends(state) == /\ pc' = state
               /\ my_hash' = 0 /\ pending' = {} /\ entry' = New /\ upload' = NoUpload
               /\ fds' = 0 /\ reply' = NoReply /\ buffered' = FALSE
-----------------------------------------------------------------------------
(* index_track_library *)

\* CHECK_IF_INDEXED
CheckIfIndexed == Indexed \in DOMAIN dir

\* The constructor, then CHECK_IF_INDEXED and the directory iterator.
Start == /\ Off /\ runs < MaxRuns
         /\ runs' = runs + 1
         /\ IF CheckIfIndexed
            THEN pc' = "serving" /\ fresh' = FALSE /\ UNCHANGED <<pending, buffered>>
            ELSE /\ pc' = "scan" /\ fresh' = TRUE
                 /\ pending' = DOMAIN dir /\ buffered' \in BOOLEAN
         /\ UNCHANGED <<dir, my_hash, entry, upload, fds, reply, short>>

\* The loop goes on without the next entry.
SkipSystemStays(name) == /\ pc = "scan" /\ name \in pending
                         /\ ~CheckNotSystem(name)
                         /\ UNCHANGED vars

SkipSystem(name) == /\ pc = "scan" /\ name \in pending
                    /\ ~CheckNotSystem(name)
                    /\ pending' = pending \ {name}
                    /\ UNCHANGED <<dir, my_hash, pc, entry, upload, fds, reply, runs,
                                   fresh, short, buffered>>

\* The directory iterator may or may not return a file made after it was opened.
Noticed(name) == IF buffered THEN {{}} ELSE {{}, {name}}

\* copy_file with overwrite_existing.
IndexEntryOverwrites(name) ==
    /\ pc = "scan" /\ name \in pending
    /\ CheckNotSystem(name)
    /\ my_hash < MaxIndex
    /\ my_hash' = my_hash + 1
    /\ LET new_path == Number(my_hash, name.ext)
       IN /\ dir' = Put(dir, new_path, Part(dir[name].track))
          /\ pc' = "copy" /\ entry' = name
          /\ \E more \in Noticed(new_path) : pending' = (pending \cup more) \ {name}
    /\ UNCHANGED <<upload, fds, reply, runs, fresh, short, buffered>>

\* One entry: the index is taken and copy_file creates the new file, or throws
\* if there is one, and nobody catches what index_track_library throws.
IndexEntry(name) ==
    /\ pc = "scan" /\ name \in pending
    /\ CheckNotSystem(name)
    /\ my_hash < MaxIndex
    /\ LET new_path == Number(my_hash, name.ext)
       IN IF new_path \in DOMAIN dir
          THEN Ends("aborted") /\ UNCHANGED dir
          ELSE /\ my_hash' = my_hash + 1
               /\ dir' = Put(dir, new_path, Part(dir[name].track))
               /\ pc' = "copy" /\ entry' = name
               /\ \E more \in Noticed(new_path) : pending' = (pending \ {name}) \cup more
               /\ UNCHANGED <<upload, fds, reply, buffered>>
    /\ UNCHANGED <<runs, fresh, short>>

\* The copy is as good as the file it was made from.
CopyFile == /\ pc = "copy"
            /\ dir' = Put(dir, Number(my_hash - 1, entry.ext), dir[entry])
            /\ pc' = "remove"
            /\ UNCHANGED <<memory, runs, fresh, short, buffered>>

RemoveOld == /\ pc = "remove"
             /\ dir' = Remove(dir, entry)
             /\ pc' = "scan"
             /\ UNCHANGED <<memory, runs, fresh, short, buffered>>

\* Serves without signing.
ServeUnsigned == /\ pc = "scan" /\ pending = {}
                 /\ pc' = "serving" /\ buffered' = FALSE
                 /\ UNCHANGED <<dir, memory, runs, fresh, short>>

SignAsIndexed == /\ pc = "scan" /\ pending = {}
                 /\ dir' = Put(dir, Indexed, Whole(NoTrack))
                 /\ pc' = "serving" /\ buffered' = FALSE
                 /\ UNCHANGED <<memory, runs, fresh, short>>
-----------------------------------------------------------------------------
(* on_message_recieved.  What a handler throws is answered with Error404. *)

FilesCanOpen(n) == fds + n <= MaxFds

\* send of a reply: its header.id, and the tracks it carries.
Answer(kind, what) == reply' = [kind |-> kind, what |-> what]

SendUser404 == Answer("Error404", {})
SendNoTrack == Answer("NoTrackExists", {})

\* on_upload_request, add_to_library: new.flac is created or emptied, then
\* written and closed.
OnUploadRequest(t, e) ==
    /\ pc = "serving"
    /\ my_hash < MaxIndex
    /\ IF FilesCanOpen(1)
       THEN /\ dir' = Put(dir, New, Part(t))
            /\ pc' = "write" /\ upload' = Own(t, e)
            /\ UNCHANGED reply
       ELSE /\ SendUser404
            /\ UNCHANGED <<dir, pc, upload>>
    /\ UNCHANGED <<my_hash, pending, entry, fds, runs, fresh, short, buffered>>

\* What fwrite returns is not looked at: when the disk is full, the beginning of the
\* upload is all there is of it.
AddToLibrary == /\ pc = "write"
                /\ \/ dir' = Put(dir, New, Whole(upload.id)) /\ UNCHANGED short
                   \/ short' = short \cup {upload.id} /\ UNCHANGED dir
                /\ pc' = "rename"
                /\ UNCHANGED <<memory, runs, fresh, buffered>>

\* new.flac is copied instead of renamed.
IndexNewTrackCopies ==
    /\ pc = "rename"
    /\ dir' = Put(dir, Number(my_hash, upload.ext), dir[New])
    /\ my_hash' = my_hash + 1
    /\ pc' = "serving" /\ upload' = NoUpload
    /\ UNCHANGED <<pending, entry, fds, reply, runs, fresh, short, buffered>>

\* check_if_exists(extension) is always false, and rename replaces the file
\* that has the name already.
IndexNewTrack ==
    /\ pc = "rename"
    /\ dir' = Remove(Put(dir, Number(my_hash, upload.ext), dir[New]), New)
    /\ my_hash' = my_hash + 1
    /\ pc' = "serving" /\ upload' = NoUpload
    /\ UNCHANGED <<pending, entry, fds, reply, runs, fresh, short, buffered>>

\* check_if_exists(index, extension) opens the file and leaves it open.
CheckIfExists(file) == file \in DOMAIN dir /\ FilesCanOpen(1)

\* send_track opens it once more, to read it.
SendTrack(index, file) ==
    IF FilesCanOpen(2)
    THEN Answer("DownloadTrack", {[index |-> index, content |-> dir[file]]})
    ELSE SendUser404

\* A download request of this program always has ex_flag FLAC.
OnDownloadRequest(index) ==
    /\ pc = "serving"
    /\ LET file == Number(index, FLAC)
       IN IF CheckIfExists(file)
          THEN fds' = fds + 1 /\ SendTrack(index, file)
          ELSE SendNoTrack /\ UNCHANGED fds
    /\ UNCHANGED <<dir, my_hash, pc, pending, entry, upload, runs, fresh, short, buffered>>

\* atoi of the file name.
Hash(name) == IF name.kind = "number" THEN name.id ELSE 0

\* The iterator of send_tracks_list; it leaves out what the system keeps there.
SendTracksList ==
    /\ pc = "serving"
    /\ IF FilesCanOpen(1)
       THEN Answer("GetList",
                   {[index |-> Hash(name), content |-> dir[name]] :
                        name \in {n \in DOMAIN dir : CheckNotSystem(n)}})
       ELSE SendUser404
    /\ UNCHANGED <<dir, my_hash, pc, pending, entry, upload, fds, runs, fresh, short, buffered>>
-----------------------------------------------------------------------------
\* The process dies, at any point: it is killed, or a copy or the signature does not fit
\* on the disk, an exception nobody catches either.
Crash == /\ ~Off /\ runs < MaxRuns
         /\ Ends("down")
         /\ UNCHANGED <<dir, runs, fresh, short>>

Indexing == \/ Start
            \/ \E name \in pending : SkipSystem(name) \/ IndexEntry(name)
            \/ CopyFile \/ RemoveOld \/ SignAsIndexed

Requests == \/ \E t \in Uploads, e \in Extensions : OnUploadRequest(t, e)
            \/ \E index \in 0..MaxIndex : OnDownloadRequest(index)
            \/ SendTracksList

Handling == AddToLibrary \/ IndexNewTrack

Next == Indexing \/ Requests \/ Handling \/ Crash

Spec == Init /\ [][Next]_vars

\* The main thread goes on with what it does; nobody has to send a request.
FairSpec == Spec /\ WF_vars(Indexing) /\ WF_vars(Handling)
-----------------------------------------------------------------------------
\* Some file holds the whole track.
Stored(t) == \E name \in DOMAIN dir : dir[name] = Whole(t)

\* No track is lost to the indexing of a directory, wherever the process dies in the
\* middle of it, whatever the iterator returns and however often it is started again;
\* nor to an upload in the run that indexed the directory.  In a later run, where
\* my_hash is 0 again, an upload replaces the file whose name it is renamed to, or the
\* new.flac a crash left behind, and nothing but that is lost.
LostToUploadsOnly ==
    [][ \A t \in Tracks : Stored(t) /\ ~(Stored(t))' =>
            /\ ~fresh
            /\ \/ /\ pc = "rename" /\ Number(my_hash, upload.ext) \in DOMAIN dir
                  /\ dir[Number(my_hash, upload.ext)] = Whole(t)
               \/ /\ pc = "serving" /\ New \in DOMAIN dir
                  /\ dir[New] = Whole(t) ]_vars

\* An upload goes through new.flac, so whenever the process dies no download is
\* answered with the beginning of an upload, but of one the disk had no room for.
UploadIsServedWhole ==
    reply.kind = "DownloadTrack" =>
        \A track \in reply.what :
            track.content.track \in Uploads \ short => track.content.whole

OnlyFlac == \A name \in DOMAIN dir : CheckNotSystem(name) => name.ext = FLAC

\* In the run that indexed the directory, what the list said is what a download finds:
\* the file of an index is the track listed with it (so no index is listed with two),
\* whatever was uploaded since and whatever crashes left.  A download looks for FLAC
\* files only; the index of a file of another kind leads to none, never to another
\* track.
ListedIsDownloadable ==
    reply.kind = "GetList" /\ fresh =>
        \A track \in reply.what :
            /\ Number(track.index, FLAC) \in DOMAIN dir
                   => dir[Number(track.index, FLAC)] = track.content
            /\ OnlyFlac => Number(track.index, FLAC) \in DOMAIN dir

\* If the iterator does not return the files the loop makes, indexing ends, unless the
\* process dies in it; and copy_file, whose exception nobody catches, finds its names
\* free, so that the server starts, once no numbered file of an earlier run is left
\* to be returned.
IndexingFinishes ==
    /\ (pc = "scan" /\ buffered) ~> (pc = "serving" \/ Off)
    /\ (pc = "scan" /\ buffered /\ \A name \in pending : name.kind # "number")
           ~> (pc \in {"serving", "down"})
=============================================================================
