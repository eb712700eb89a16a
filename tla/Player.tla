------------------------------- MODULE Player -------------------------------
(***************************************************************************)
(* The player: src/spotivar.cpp, which builds the GTK view, quick_backend  *)
(* and its spotivar_net_client and runs the view; the client's constructor *)
(* and get_tracks_list (lib/networking/client.cpp); the client's side of   *)
(* the handshake (lib/networking/connection.cpp); quick_backend; and the   *)
(* view's list of entries.                                                 *)
(*                                                                         *)
(* Two threads: the main one, which is in the constructor, then in the     *)
(* view's startup signal, then in the GTK loop; and the thread that runs   *)
(* the io_context.  An exception that leaves either ends the process: main *)
(* has no handler, and the io thread's only rethrows.                      *)
(***************************************************************************)
EXTENDS TrackTags, SequencesExt

CONSTANTS Libraries,  \* bound: the libraries the server may have, as its
                      \* directory yields them
          MaxClicks   \* bound on the rows activated

ASSUME LibrariesAssumption == Libraries \subseteq Seq(Seq(Comments))
ASSUME ClicksAssumption == MaxClicks \in Nat

VARIABLES app,       \* where the main thread is, or how the process ended
          context,   \* handlers the io_context has ready, in order
          io,        \* the io thread: "none", "running", or "returned" from run()
          reading,   \* a read_header is outstanding
          link,      \* the socket: "none", "open", "lost" (by the other end), "closed"
          toServer,  \* what the client wrote and the server has not read
          server,    \* what the server has done for this client
          answer,    \* its answer on the way, at most one
          deq_messages_in,
          tracks_,   \* the titles in quick_backend's tracks_
          rows,      \* entries_store_model
          clicked,   \* history: the row last activated and the title printed
          clicks,    \* how many were
          library    \* the server's

client == <<context, io, reading, deq_messages_in>>
view == <<tracks_, rows, clicked, clicks>>
network == <<link, toServer, server, answer>>
vars == <<app, client, view, network, library>>

\* What std::move leaves of a std::string in libstdc++.
MovedFrom == ""

NotClicked == [row |-> 0, title |-> MovedFrom]

Init == /\ app = "connecting"
        /\ context = <<>> /\ io = "none" /\ reading = FALSE
        /\ link = "none" /\ toServer = <<>> /\ server = "listening" /\ answer = <<>>
        /\ deq_messages_in = <<>>
        /\ tracks_ = <<>> /\ rows = <<>> /\ clicked = NotClicked /\ clicks = 0
        /\ library \in Libraries

Ended == app \in {"failed", "terminated", "quit"}
-----------------------------------------------------------------------------
(* The main thread *)

\* connect_to_server, which throws when nobody listens.
Connect ==
    /\ app = "connecting"
    /\ \/ /\ app' = "validating" /\ link' = "open" /\ server' = "accepted"
       \/ /\ app' = "failed"
          /\ UNCHANGED <<link, server>>
    /\ UNCHANGED <<client, view, toServer, answer, library>>

\* The constructor's read_server_validation: a blocking read, then the
\* asynchronous write of the answer, which asio attempts at once; then the io
\* thread.  The write to a connection that the server closed may still succeed.
ReadServerValidation ==
    /\ app = "validating" /\ server # "accepted"
    /\ \/ /\ app' = "linked" /\ io' = "running"
          /\ context' = <<"validation written">>
          /\ toServer' = <<"validation">>
       \/ /\ link = "lost"
          /\ app' = "linked" /\ io' = "running"
          /\ context' = <<"validation failed">>
          /\ UNCHANGED toServer
       \/ /\ link = "lost"
          /\ app' = "failed"
          /\ UNCHANGED <<io, context, toServer>>
    /\ UNCHANGED <<reading, deq_messages_in, view, link, server, answer, library>>

\* The server's connection is gone before its puzzle arrived.
ValidationUnread ==
    /\ app = "validating" /\ server = "accepted" /\ link = "lost"
    /\ app' = "failed"
    /\ UNCHANGED <<client, view, network, library>>

\* run and signal_startup: the window is shown, the stores are made, the rows
\* connected, and init calls get_tracks_list, which sends the request.  From here
\* on the main thread spins over deq_messages_in.
Startup ==
    /\ app = "linked"
    /\ app' = "spinning"
    /\ context' = Append(context, "send list")
    /\ rows' = <<>>
    /\ UNCHANGED <<io, reading, deq_messages_in, tracks_, clicked, clicks, network, library>>

\* update_entries that leaves out its last entry.
ShowAllButLast(list) ==
    /\ rows' = Front(list)
    /\ tracks_' = [i \in DOMAIN list |-> MovedFrom]

\* init moves each title out of tracks_ into the strings it gives to update_entries,
\* which clears the list and appends a row for each.
ShowTracks(list) ==
    /\ rows' = list
    /\ tracks_' = [i \in DOMAIN list |-> MovedFrom]

\* The end of the spin, and the rest of get_tracks_list and of init.  pop_back
\* hands out the front; the tracks come off the end of the message.
GetTracksList ==
    /\ app = "spinning"
    /\ deq_messages_in # <<>> /\ Last(deq_messages_in).id = "GetList"
    /\ deq_messages_in' = Front(deq_messages_in)
    /\ ShowTracks(Reverse(Head(deq_messages_in).tracks))
    /\ app' = "shown"
    /\ UNCHANGED <<context, io, reading, clicked, clicks, network, library>>

\* row_activated, then on_entry_clicked(path.front()).
OnEntryClicked(row) ==
    /\ app = "shown" /\ clicks < MaxClicks
    /\ clicks' = clicks + 1
    /\ clicked' = [row |-> row, title |-> tracks_[row]]
    /\ UNCHANGED <<app, client, tracks_, rows, network, library>>

\* The window is closed: run returns, ~spotivar_net_client stops the context.
Quit ==
    /\ app = "shown"
    /\ app' = "quit" /\ io' = "returned" /\ link' = "closed"
    /\ UNCHANGED <<context, reading, deq_messages_in, view, toServer, server, answer, library>>
-----------------------------------------------------------------------------
(* The io thread *)

\* run() returns when a handler leaves neither another one nor a read.
RunAfter(handlers, isReading) ==
    /\ context' = handlers
    /\ reading' = isReading
    /\ io' = IF handlers = <<>> /\ ~isReading THEN "returned" ELSE "running"

Handles(handler) == ~Ended /\ io = "running" /\ context # <<>> /\ Head(context) = handler

\* The handler of write_validation without its read_header.
ValidationWrittenOnly ==
    /\ Handles("validation written")
    /\ RunAfter(Tail(context), FALSE)
    /\ UNCHANGED <<app, deq_messages_in, view, network, library>>

\* The handler of write_validation, which starts to read messages.
ValidationWritten ==
    /\ Handles("validation written")
    /\ RunAfter(Tail(context), TRUE)
    /\ UNCHANGED <<app, deq_messages_in, view, network, library>>

\* The same for a failed write: the socket is closed and nobody is told.
ValidationFailed ==
    /\ Handles("validation failed")
    /\ link' = "closed"
    /\ RunAfter(Tail(context), FALSE)
    /\ UNCHANGED <<app, deq_messages_in, view, toServer, server, answer, library>>

\* The lambda of send: the header goes out, or its handler throws.
SendList ==
    /\ Handles("send list")
    /\ \/ /\ link \in {"open", "lost"}
          /\ toServer' = Append(toServer, "list")
          /\ RunAfter(Tail(context), reading)
          /\ UNCHANGED app
       \/ /\ link \in {"lost", "closed"}
          /\ app' = "terminated"
          /\ UNCHANGED <<context, io, reading, toServer>>
    /\ UNCHANGED <<deq_messages_in, view, link, server, answer, library>>

\* add_to_incomming_queue, and the next read_header.
Receive ==
    /\ ~Ended /\ io = "running" /\ reading /\ answer # <<>>
    /\ deq_messages_in' = deq_messages_in \o answer
    /\ answer' = <<>>
    /\ UNCHANGED <<app, context, io, reading, view, link, toServer, server, library>>

\* A read that fails closes the socket and throws; so ends the process.
ReadFails ==
    /\ ~Ended /\ io = "running" /\ reading /\ link = "lost" /\ answer = <<>>
    /\ app' = "terminated"
    /\ UNCHANGED <<client, view, network, library>>
-----------------------------------------------------------------------------
(* The other end, as ServerLoop and ClientServer have it *)

SendPuzzle ==
    /\ server = "accepted" /\ link = "open"
    /\ server' = "puzzled"
    /\ UNCHANGED <<app, client, view, link, toServer, answer, library>>

\* The first thing the server reads it takes for the solved puzzle.
ReadClientValidation ==
    /\ server = "puzzled" /\ link = "open" /\ toServer # <<>>
    /\ toServer' = Tail(toServer)
    /\ IF Head(toServer) = "validation"
       THEN server' = "validated" /\ UNCHANGED link
       ELSE server' = "refused" /\ link' = "lost"
    /\ UNCHANGED <<app, client, view, answer, library>>

\* send_tracks_list, or the answer to an exception in it.
AnswerList ==
    /\ server = "validated" /\ link = "open" /\ toServer # <<>>
    /\ toServer' = Tail(toServer)
    /\ \/ /\ server' = "listed"
          /\ answer' = <<[id |-> "GetList",
                          tracks |-> [i \in DOMAIN library |->
                                         ReadTrackInfo(library[i])["TITLE"]]]>>
       \/ /\ server' = "apologised"
          /\ answer' = <<[id |-> "Error404", tracks |-> <<>>]>>
    /\ UNCHANGED <<app, client, view, link, library>>

\* The server stops or drops the client; what is on the way may be lost with it.
LoseLink ==
    /\ link = "open" /\ ~Ended
    /\ link' = "lost"
    /\ answer' \in {answer, <<>>}
    /\ UNCHANGED <<app, client, view, toServer, server, library>>
-----------------------------------------------------------------------------
MainThread == Connect \/ ReadServerValidation \/ ValidationUnread \/ Startup \/ GetTracksList
IoThread == \/ ValidationWritten \/ ValidationFailed \/ SendList
            \/ Receive \/ ReadFails
Server == SendPuzzle \/ ReadClientValidation \/ AnswerList
User == (\E row \in DOMAIN rows : OnEntryClicked(row)) \/ Quit

Next == MainThread \/ IoThread \/ Server \/ User \/ LoseLink

Spec == Init /\ [][Next]_vars

\* The operating system runs both threads.  Nothing is assumed of the server, of the
\* user or of the network.
FairSpec == Spec /\ WF_vars(MainThread) /\ WF_vars(IoThread)
-----------------------------------------------------------------------------
\* Once the list is shown there is a row for every track of the server, the last of
\* its directory first, with the value of the file's last TITLE comment; and every
\* row has its element of tracks_, so a click never reads past the end.  What it
\* finds there is no title any more: init moved it into the row.
ShowsTitlesOnce ==
    /\ app \in {"shown", "quit"} =>
          /\ rows = Reverse([i \in DOMAIN library |-> Title(library[i])])
          /\ Len(tracks_) = Len(rows)
    /\ clicked.title = MovedFrom

\* A startup that waits for the list ends, with the rows or with the process, when
\* the server sent the list or the connection is lost.  It does not when the answer
\* is an Error404 and the connection stays, and when the validation could not be
\* written and the client closed the socket: if run() returned before the request
\* was posted, nobody handles it and the window stays as it is.
StartupEnds ==
    (app = "spinning" /\ (server = "listed" \/ link = "lost"))
        ~> (app # "spinning" \/ link = "closed")

\* The server lists with one reader of tags and the desktop library has another: they
\* agree on the members both have for every file whose comments have names in
\* capitals, as the tag editors write them.
ReadersAgree ==
    \A i \in DOMAIN library : InCapitals(library[i]) =>
        \A f \in fields \cap audio_fields :
            ReadTrackInfo(library[i])[f] = FlacData(library[i])[f]
=============================================================================
