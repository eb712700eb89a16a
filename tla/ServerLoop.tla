----------------------------- MODULE ServerLoop -----------------------------
(***************************************************************************)
(* The life of the server's connections: spotivar_server's constructor and *)
(* async_new_connection (server.cpp), connection's validation and          *)
(* disconnect paths and the three on_client_ handlers (connection.cpp).    *)
(*                                                                         *)
(* One thread runs the io_context, so every handler is one action.  The    *)
(* main thread takes messages from deq_message_in and posts its answers.   *)
(* A connection object lives as long as a shared_ptr to it does: in        *)
(* connections_map, in a posted on_client_ lambda, in a queued message or  *)
(* in the hands of the main thread.  The handlers of its reads and writes  *)
(* and the lambda posted by send hold only a raw pointer to it.            *)
(***************************************************************************)
EXTENDS Naturals, Sequences, FiniteSets

CONSTANTS Conns,         \* the connections clients open, each once
          PortOf,        \* the client's port, which keys connections_map
          NoConn,        \* no entry in the map, no message in hand
          MaxConnects,   \* bound on the connections opened in one behaviour
          MaxMessages    \* bound on the messages received in one behaviour

ASSUME ConnAssumption == NoConn \notin Conns
ASSUME BoundAssumption == MaxConnects \in Nat /\ MaxMessages \in Nat

Ports == {PortOf[c] : c \in Conns}

VARIABLES peer,             \* the client's end of each connection
          sock,             \* the server's socket of each connection
          reading,          \* the async_read outstanding on it
          writing,          \* whether a message write is outstanding on it
          queued,           \* the length of its deq_messages_out
          validated,        \* history: it solved the puzzle
          connections_map,  \* by port
          events,           \* the handlers posted to the io_context, in order
          accepts,          \* async_accepts outstanding
          loop,             \* what thread_context is doing
          deq_message_in,   \* whose messages wait for the main thread
          handling,         \* whose message the main thread handles
          received,         \* messages received so far
          faults            \* history: what the properties make exceptions for

connection == <<sock, reading, writing, queued, validated>>
main == <<deq_message_in, handling, received>>
vars == <<peer, connection, connections_map, events, accepts, loop, main, faults>>

Init == /\ peer = [c \in Conns |-> "away"]
        /\ sock = [c \in Conns |-> "none"]
        /\ reading = [c \in Conns |-> "none"]
        /\ writing = [c \in Conns |-> FALSE]
        /\ queued = [c \in Conns |-> 0]
        /\ validated = [c \in Conns |-> FALSE]
        /\ connections_map = [p \in Ports |-> NoConn]
        /\ events = <<>>
        /\ accepts = 1
        /\ loop = "running"
        /\ deq_message_in = <<>>
        /\ handling = NoConn
        /\ received = 0
        /\ faults = {}
-----------------------------------------------------------------------------
(* Lifetime *)

Event(kind, c) == [kind |-> kind, conn |-> c]
OwningKinds == {"validated", "failed", "disconnect"}
RawKinds == {"validation_written", "validation_write_failed", "send"}

Referenced(c) ==
    \/ \E p \in Ports : connections_map[p] = c
    \/ \E i \in 1..Len(events) : events[i].kind \in OwningKinds /\ events[i].conn = c
    \/ \E i \in 1..Len(deq_message_in) : deq_message_in[i] = c
    \/ handling = c

Freed(c) == sock[c] # "none" /\ ~Referenced(c)

\* An async_read is outstanding.  Once a header was "lost" none is.
Reads(c) == reading[c] \in {"validation", "message"}

\* A handler with a raw pointer to the connection is still to run.
HandlerPending(c) ==
    \/ Reads(c)
    \/ writing[c]
    \/ \E i \in 1..Len(events) : events[i].kind \in RawKinds /\ events[i].conn = c

Runs == loop \in {"running", "restarted"}

\* m_socket.remote_endpoint() throws on a closed or reset socket.
PortKnown(c) == sock[c] = "open" /\ peer[c] # "reset"

\* The restart that forgets to accept again.
ThrowNoAccept(left) ==
    /\ loop' = IF loop = "running" THEN "restarted" ELSE "terminated"
    /\ accepts' = left

\* An exception leaves context.run().  The first is caught: the loop is reset,
\* a new accept is started and run is called again, inside the catch block,
\* where the second one ends the thread and the process.
Throw(left) ==
    /\ loop' = IF loop = "running" THEN "restarted" ELSE "terminated"
    /\ accepts' = IF loop = "running" THEN left + 1 ELSE left

NoThrow == UNCHANGED <<loop, accepts>>

\* The history of what the properties make exceptions for: an answer the client
\* does not wait for, and an entry of the map that is overwritten.
AnswerPending(c) ==
    \/ queued[c] > 0
    \/ \E i \in 1..Len(events) : events[i] = Event("send", c)

UnreadAnswer(c) == IF AnswerPending(c) THEN {"unread"} ELSE {}
PortTaken(c) == IF connections_map[PortOf[c]] = NoConn THEN {} ELSE {"port"}
-----------------------------------------------------------------------------
(* Clients *)

Connect(c) == /\ peer[c] = "away"
              /\ Cardinality({d \in Conns : peer[d] # "away"}) < MaxConnects
              /\ peer' = [peer EXCEPT ![c] = "up"]
              /\ UNCHANGED <<faults, connection, connections_map, events, accepts, loop, main>>

Leave(c) == /\ peer[c] = "up"
            /\ peer' = [peer EXCEPT ![c] = "gone"]
            /\ faults' = faults \cup UnreadAnswer(c)
            /\ UNCHANGED <<connection, connections_map, events, accepts, loop, main>>

Reset(c) == /\ peer[c] \in {"up", "gone"}
            /\ peer' = [peer EXCEPT ![c] = "reset"]
            /\ faults' = faults \cup {"reset"} \cup UnreadAnswer(c)
            /\ UNCHANGED <<connection, connections_map, events, accepts, loop, main>>
-----------------------------------------------------------------------------
(* async_new_connection and the validation handshake *)

\* The handler of async_accept, without error: a connection is made, entered in
\* the map, sent its puzzle, and the next accept is started.  The write of the
\* puzzle is carried out at once; its handler is posted.
Accept(c) ==
    /\ Runs
    /\ accepts > 0
    /\ sock[c] = "none" /\ peer[c] \in {"up", "gone"}
    /\ sock' = [sock EXCEPT ![c] = "open"]
    /\ connections_map' = [connections_map EXCEPT ![PortOf[c]] = c]
    /\ reading' = [reading EXCEPT ![c] = "validation"]
    /\ \/ /\ events' = Append(events, Event("validation_written", c))
          /\ faults' = faults \cup PortTaken(c)
          /\ UNCHANGED peer
       \/ /\ events' = Append(events, Event("validation_write_failed", c))
          /\ peer' = [peer EXCEPT ![c] = "reset"]
          /\ faults' = faults \cup {"reset"} \cup PortTaken(c)
    /\ NoThrow
    /\ UNCHANGED <<writing, queued, validated, main>>

\* The client reset the connection before it was accepted: remote_endpoint
\* throws before anything was done.
AcceptReset(c) ==
    /\ Runs
    /\ accepts > 0
    /\ sock[c] = "none" /\ peer[c] = "reset"
    /\ sock' = [sock EXCEPT ![c] = "closed"]
    /\ Throw(accepts - 1)
    /\ UNCHANGED <<faults, peer, reading, writing, queued, validated, connections_map,
                   events, main>>

\* The handler of async_accept with an error (no descriptor is free) always
\* throws.
AcceptFails ==
    /\ Runs
    /\ accepts > 0
    /\ Throw(accepts - 1)
    /\ faults' = faults \cup {"accept"}
    /\ UNCHANGED <<peer, connection, connections_map, events, main>>

\* The handler of write_validation, owner server: an error closes the socket.
ValidationWritten(c) ==
    /\ Runs /\ ~Freed(c)
    /\ events # <<>>
    /\ Head(events) \in {Event("validation_written", c),
                         Event("validation_write_failed", c)}
    /\ events' = Tail(events)
    /\ sock' = IF Head(events).kind = "validation_write_failed"
               THEN [sock EXCEPT ![c] = "closed"] ELSE sock
    /\ NoThrow
    /\ UNCHANGED <<faults, peer, reading, writing, queued, validated, connections_map, main>>

\* Reads messages from a client that failed.
ReadValidationIgnored(c, solved) ==
    /\ Runs /\ ~Freed(c)
    /\ reading[c] = "validation" /\ PortKnown(c)
    /\ events' = Append(events, Event(IF solved THEN "validated" ELSE "failed", c))
    /\ reading' = [reading EXCEPT ![c] = "message"]
    /\ validated' = [validated EXCEPT ![c] = solved]
    /\ NoThrow
    /\ UNCHANGED <<faults, peer, sock, writing, queued, connections_map, main>>

\* The handler of read_client_validation, without error.
ReadValidation(c, solved) ==
    /\ Runs /\ ~Freed(c)
    /\ reading[c] = "validation" /\ PortKnown(c)
    /\ events' = Append(events, Event(IF solved THEN "validated" ELSE "failed", c))
    /\ reading' = [reading EXCEPT ![c] = IF solved THEN "message" ELSE "none"]
    /\ validated' = [validated EXCEPT ![c] = solved]
    /\ NoThrow
    /\ UNCHANGED <<faults, peer, sock, writing, queued, connections_map, main>>
-----------------------------------------------------------------------------
(* Messages and errors of a validated connection *)

\* The handlers of read_header and read_body, where no size throws, up to
\* add_to_incomming_queue, which queues the message with a shared_ptr and reads
\* on.
ReadMessage(c) ==
    /\ Runs /\ ~Freed(c)
    /\ reading[c] = "message" /\ PortKnown(c)
    /\ received < MaxMessages
    /\ received' = received + 1
    /\ deq_message_in' = Append(deq_message_in, c)
    /\ NoThrow
    /\ UNCHANGED <<faults, peer, connection, connections_map, events, handling>>

\* The handler of read_header, when the size in the header is less than a header
\* or more than memory holds: resize throws, and nothing reads on.  The entry in
\* the map stays.
ReadThrows(c) ==
    /\ Runs /\ ~Freed(c)
    /\ reading[c] = "message" /\ PortKnown(c)
    /\ reading' = [reading EXCEPT ![c] = "lost"]
    /\ faults' = faults \cup {"header"}
    /\ Throw(accepts)
    /\ UNCHANGED <<peer, sock, writing, queued, validated, connections_map, events, main>>

\* The error branch reports the client twice.
ReadErrorTwice(c) ==
    /\ Runs /\ ~Freed(c)
    /\ Reads(c)
    /\ peer[c] \in {"gone", "reset"} \/ sock[c] = "closed"
    /\ reading' = [reading EXCEPT ![c] = "none"]
    /\ events' = events \o <<Event("disconnect", c), Event("disconnect", c)>>
    /\ NoThrow
    /\ UNCHANGED <<faults, peer, sock, writing, queued, validated, connections_map, main>>

\* The error branch of any read of the server: on_client_disconnect posts.
ReadError(c) ==
    /\ Runs /\ ~Freed(c)
    /\ Reads(c)
    /\ peer[c] \in {"gone", "reset"} \/ sock[c] = "closed"
    /\ reading' = [reading EXCEPT ![c] = "none"]
    /\ events' = Append(events, Event("disconnect", c))
    /\ NoThrow
    /\ UNCHANGED <<faults, peer, sock, writing, queued, validated, connections_map, main>>

\* The lambda that writes without queueing.
RunSendUnqueued(c) ==
    /\ Runs /\ ~Freed(c)
    /\ events # <<>> /\ Head(events) = Event("send", c)
    /\ events' = Tail(events)
    /\ writing' = [writing EXCEPT ![c] = @ \/ queued[c] = 0]
    /\ NoThrow
    /\ UNCHANGED <<faults, peer, sock, reading, queued, validated, connections_map, main>>

\* The lambda posted by send.
RunSend(c) ==
    /\ Runs /\ ~Freed(c)
    /\ events # <<>> /\ Head(events) = Event("send", c)
    /\ events' = Tail(events)
    /\ queued' = [queued EXCEPT ![c] = @ + 1]
    /\ writing' = [writing EXCEPT ![c] = @ \/ queued[c] = 0]
    /\ NoThrow
    /\ UNCHANGED <<faults, peer, sock, reading, validated, connections_map, main>>

\* The handlers of write_header and write_body, without error.
WriteDone(c) ==
    /\ Runs /\ ~Freed(c)
    /\ writing[c] /\ PortKnown(c)
    /\ queued' = [queued EXCEPT ![c] = @ - 1]
    /\ writing' = [writing EXCEPT ![c] = queued[c] > 1]
    /\ NoThrow
    /\ UNCHANGED <<faults, peer, sock, reading, validated, connections_map, events, main>>

\* The error branch of any write of a message by the server.  A client that has
\* only closed its end answers the write with a reset first.
WriteError(c) ==
    /\ Runs /\ ~Freed(c)
    /\ writing[c]
    /\ peer[c] = "reset" \/ sock[c] = "closed"
    /\ writing' = [writing EXCEPT ![c] = FALSE]
    /\ events' = Append(events, Event("disconnect", c))
    /\ NoThrow
    /\ UNCHANGED <<faults, peer, sock, reading, queued, validated, connections_map, main>>

\* A handler that runs on a connection that was freed: anything may happen, and
\* the model stops here.
DanglingHandler(c) ==
    /\ Runs /\ Freed(c)
    /\ HandlerPending(c)
    /\ loop' = "undefined"
    /\ UNCHANGED <<faults, peer, connection, connections_map, events, accepts, main>>
-----------------------------------------------------------------------------
(* The posted on_client_ lambdas.  Each begins with get_port. *)

\* on_client_validated reads through the map; a missing entry is a null pointer.
ClientValidated(c) ==
    /\ Runs
    /\ events # <<>> /\ Head(events) = Event("validated", c)
    /\ events' = Tail(events)
    /\ IF ~PortKnown(c) THEN Throw(accepts)
       ELSE /\ loop' = IF connections_map[PortOf[c]] = NoConn
                       THEN "undefined" ELSE loop
            /\ UNCHANGED accepts
    /\ UNCHANGED <<faults, peer, connection, connections_map, main>>

\* The entry is left in the map.
ClientDisconnectKeepsEntry(c) ==
    /\ Runs
    /\ events # <<>>
    /\ Head(events) \in {Event("failed", c), Event("disconnect", c)}
    /\ events' = Tail(events)
    /\ sock' = [sock EXCEPT ![c] = "closed"]
    /\ NoThrow
    /\ UNCHANGED <<faults, peer, reading, writing, queued, validated, connections_map, main>>

\* on_client_failed_validation and on_client_disconnect: close the socket and
\* erase the entry of its port, unless the port is no longer known.
ClientDisconnect(c) ==
    /\ Runs
    /\ events # <<>>
    /\ Head(events) \in {Event("failed", c), Event("disconnect", c)}
    /\ events' = Tail(events)
    /\ IF ~PortKnown(c) THEN Throw(accepts) /\ UNCHANGED <<sock, connections_map>>
       ELSE /\ sock' = [sock EXCEPT ![c] = "closed"]
            /\ connections_map' = [connections_map EXCEPT ![PortOf[c]] = NoConn]
            /\ NoThrow
    /\ UNCHANGED <<faults, peer, reading, writing, queued, validated, main>>
-----------------------------------------------------------------------------
(* The main thread *)

TakeMessage == /\ Runs
               /\ handling = NoConn /\ deq_message_in # <<>>
               /\ handling' = Head(deq_message_in)
               /\ deq_message_in' = Tail(deq_message_in)
               /\ UNCHANGED <<faults, peer, connection, connections_map, events, accepts,
                              loop, received>>

\* on_message_recieved answers through client->send, which only posts, or does
\* not answer; then the shared_ptr to the client goes out of scope.
HandleMessage == /\ Runs
                 /\ handling # NoConn
                 /\ \/ UNCHANGED <<events, faults>>
                    \/ /\ events' = Append(events, Event("send", handling))
                       /\ faults' = IF peer[handling] = "up" THEN faults
                                    ELSE faults \cup {"unread"}
                 /\ handling' = NoConn
                 /\ UNCHANGED <<peer, connection, connections_map, accepts, loop,
                                deq_message_in, received>>
-----------------------------------------------------------------------------
Clients == \E c \in Conns : Connect(c) \/ Leave(c) \/ Reset(c)

Handlers == \E c \in Conns :
               \/ Accept(c) \/ AcceptReset(c)
               \/ ValidationWritten(c)
               \/ \E solved \in BOOLEAN : ReadValidation(c, solved)
               \/ ReadMessage(c) \/ ReadError(c)
               \/ RunSend(c) \/ WriteDone(c) \/ WriteError(c)
               \/ ClientValidated(c) \/ ClientDisconnect(c)
               \/ DanglingHandler(c)

WrongHeader == \E c \in Conns : ReadThrows(c)

Main == TakeMessage \/ HandleMessage

Next == Clients \/ Handlers \/ AcceptFails \/ WrongHeader \/ Main

Spec == Init /\ [][Next]_vars

\* The io_context runs every handler that is ready, and the main thread works;
\* no client has to do anything, no accept has to fail and no header to be wrong.
FairSpec == Spec /\ WF_vars(Handlers) /\ WF_vars(Main)
-----------------------------------------------------------------------------
TypeOK ==
    /\ peer \in [Conns -> {"away", "up", "gone", "reset"}]
    /\ sock \in [Conns -> {"none", "open", "closed"}]
    /\ reading \in [Conns -> {"none", "validation", "message", "lost"}]
    /\ writing \in [Conns -> BOOLEAN]
    /\ queued \in [Conns -> Nat]
    /\ validated \in [Conns -> BOOLEAN]
    /\ connections_map \in [Ports -> Conns \cup {NoConn}]
    /\ events \in Seq([kind : OwningKinds \cup RawKinds, conn : Conns])
    /\ accepts \in Nat
    /\ loop \in {"running", "restarted", "terminated", "undefined"}
    /\ deq_message_in \in Seq(Conns)
    /\ handling \in Conns \cup {NoConn}
    /\ received \in 0..MaxMessages
    /\ faults \subseteq {"reset", "unread", "accept", "header", "port"}

\* The server never goes deaf: whatever handler threw, including the accept's
\* own, an accept is outstanding while the loop runs, and never more than two.
AcceptOutstanding == Runs => accepts \in 1..2

\* No client took a port of which the map still had an entry, and none left
\* without waiting for its answer.
Tolerated == faults \cap {"port", "unread"} = {}

\* Until then a connection object is never freed under a handler that still
\* points to it: not when connections are reset, not when accept fails or a header
\* throws, and not after the restart of the loop.
NoDanglingHandler == Tolerated => \A c \in Conns : Freed(c) => ~HandlerPending(c)

\* Until then no handler uses a missing entry or a freed connection; and if no
\* connection was reset, no accept failed and no header threw either, every
\* connection is disconnected at most once, while its port is known, so that no
\* handler throws.
LoopUndisturbed ==
    /\ Tolerated => loop # "undefined"
    /\ faults = {} => loop = "running"

\* The main thread is handed messages of validated clients only, and no answer
\* is queued for any other.
OnlyValidatedServed ==
    /\ \A i \in 1..Len(deq_message_in) : validated[deq_message_in[i]]
    /\ \A c \in Conns : queued[c] > 0 => validated[c]

\* The server's side of the connection is closed and out of the map.
Erased(c) == sock[c] = "closed" /\ connections_map[PortOf[c]] # c

\* A client that closes its end, at whatever point of the handshake or of its
\* requests, is closed and erased from the map in the end, whatever happened to
\* other connections and to the loop, as long as that runs; unless its own
\* connection is reset, where get_port throws, or a header of its own threw, after
\* which nothing is read that could tell.
LeaverIsErased ==
    \A c \in Conns :
        (peer[c] = "gone" /\ sock[c] = "open" /\ reading[c] # "lost")
            ~> (Erased(c) \/ peer[c] = "reset" \/ reading[c] = "lost" \/ ~Runs)
=============================================================================
