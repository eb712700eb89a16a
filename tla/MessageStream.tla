--------------------------- MODULE MessageStream ---------------------------
(***************************************************************************)
(* lib/networking/connection.cpp: one direction of a connection.  The      *)
(* sending side is send, write_header and write_body over the queue        *)
(* deq_messages_out; the receiving side is read_header, read_body and      *)
(* add_to_incomming_queue over the one buffer temp_message.  Between them  *)
(* is a TCP byte stream.                                                   *)
(*                                                                         *)
(* Every handler runs on the thread of the io_context, so every handler is *)
(* one action; send itself is called from the main thread and only posts.  *)
(* A header is one unit of the stream and a body BodySize[m] units.  A     *)
(* write puts its units on the stream when its handler runs: the thread    *)
(* that made the system call runs the handler before it polls for anything *)
(* the other side could answer.                                            *)
(***************************************************************************)
EXTENDS Naturals, Sequences, SequencesExt

CONSTANTS Messages,   \* the message objects, each sent at most once
          BodySize,   \* the size of the body of each
          Bare,       \* those never written to with <<, whose header.size is 0
          Pipelined,  \* whether send may be called before the last message arrived
          Garbage,    \* a header whose bytes are no header
          GarbageSizes  \* bound: the sizes such a header is made to claim

ASSUME MessageAssumption == /\ BodySize \in [Messages -> Nat]
                            /\ Bare \subseteq {m \in Messages : BodySize[m] = 0}
                            /\ Pipelined \in BOOLEAN
                            /\ Garbage \notin Messages
                            /\ GarbageSizes \subseteq Nat

VARIABLES sent,              \* history: the messages given to send
          posted,            \* the lambdas send has posted to the io_context
          deq_messages_out,  \* front first
          writing,           \* the async_writes in progress
          wire,              \* history: every unit written to the socket
          readPos,           \* how many of them have been read
          reading,           \* which async_read is outstanding, or "failed"
          temp_message,      \* the buffer both reads share
          deq_messages_in,   \* history: what add_to_incomming_queue pushed
          broken             \* the connection was reset or closed

writer == <<posted, deq_messages_out, writing>>
reader == <<readPos, reading, temp_message, deq_messages_in>>
vars == <<sent, writer, wire, reader, broken>>

\* Unit 0 of a message is its header; units 1..BodySize are its body.
Unit == [msg : Messages, part : Nat]
Header(m) == [msg |-> m, part |-> 0]
Body(m) == [i \in 1..BodySize[m] |-> [msg |-> m, part |-> i]]

\* header.size: the size of the header and the body, or 0 if nothing was
\* ever written into the message.
HeaderSize(m) == IF m \in Bare THEN 0 ELSE 1 + BodySize[m]

Init == /\ sent = <<>>
        /\ posted = <<>>
        /\ deq_messages_out = <<>>
        /\ writing = <<>>
        /\ wire = <<>>
        /\ readPos = 0
        /\ reading = "header"
        /\ temp_message = [id |-> Garbage, size |-> 0, body |-> <<>>]
        /\ deq_messages_in = <<>>
        /\ broken = FALSE
-----------------------------------------------------------------------------
(* The sending side *)

\* A caller that waits for the answer to each request before the next one
\* leaves nothing in flight; a caller of upload_track need not wait.
MayCallSend == Pipelined \/ Len(deq_messages_in) = Len(sent)

Send(m) == /\ \A i \in 1..Len(sent) : sent[i] # m
           /\ MayCallSend
           /\ sent' = Append(sent, m)
           /\ posted' = Append(posted, m)
           /\ UNCHANGED <<deq_messages_out, writing, wire, reader, broken>>

WriteHeader(queue) == [part |-> "header", msg |-> Head(queue)]
WriteBody(queue) == [part |-> "body", msg |-> Head(queue)]

\* The lambda without the test of writing_message.
RunSendAlwaysWrites ==
    /\ posted # <<>>
    /\ posted' = Tail(posted)
    /\ deq_messages_out' = <<Head(posted)>> \o deq_messages_out
    /\ writing' = Append(writing, WriteHeader(deq_messages_out'))
    /\ UNCHANGED <<sent, wire, reader, broken>>

\* The lambda posted by send: the new message becomes the front of the queue,
\* and is written at once only if nothing was queued before it.
RunSend ==
    /\ posted # <<>>
    /\ posted' = Tail(posted)
    /\ deq_messages_out' = <<Head(posted)>> \o deq_messages_out
    /\ writing' = IF deq_messages_out = <<>>
                  THEN Append(writing, WriteHeader(deq_messages_out'))
                  ELSE writing
    /\ UNCHANGED <<sent, wire, reader, broken>>

\* A completion that never starts the next write.
PopStops ==
    /\ deq_messages_out' = Tail(deq_messages_out)
    /\ writing' = Tail(writing)

\* pop_front, and write_header again if a message is left.
PopAndContinue ==
    /\ deq_messages_out' = Tail(deq_messages_out)
    /\ writing' = IF Tail(deq_messages_out) # <<>>
                  THEN Append(Tail(writing), WriteHeader(Tail(deq_messages_out)))
                  ELSE Tail(writing)

\* The header handler forgetting that a message may have a body.
HeaderWrittenNoBody ==
    /\ writing # <<>> /\ writing[1].part = "header"
    /\ wire' = Append(wire, Header(writing[1].msg))
    /\ PopAndContinue
    /\ UNCHANGED <<sent, posted, reader, broken>>

\* The message leaves the queue when its header is written.
HeaderWrittenPops ==
    /\ writing # <<>> /\ writing[1].part = "header"
    /\ wire' = Append(wire, Header(writing[1].msg))
    /\ IF BodySize[Head(deq_messages_out)] > 0
       THEN /\ writing' = Append(Tail(writing), WriteBody(deq_messages_out))
            /\ deq_messages_out' = Tail(deq_messages_out)
       ELSE PopAndContinue
    /\ UNCHANGED <<sent, posted, reader, broken>>

\* The handler of write_header, without error.  It looks at the front of the
\* queue, which need not be the message whose header was written.
HeaderWritten ==
    /\ writing # <<>> /\ writing[1].part = "header"
    /\ wire' = Append(wire, Header(writing[1].msg))
    /\ IF BodySize[Head(deq_messages_out)] > 0
       THEN /\ writing' = Append(Tail(writing), WriteBody(deq_messages_out))
            /\ UNCHANGED deq_messages_out
       ELSE PopAndContinue
    /\ UNCHANGED <<sent, posted, reader, broken>>

\* The handler of write_body, without error.
BodyWritten ==
    /\ writing # <<>> /\ writing[1].part = "body"
    /\ wire' = wire \o Body(writing[1].msg)
    /\ PopAndContinue
    /\ UNCHANGED <<sent, posted, reader, broken>>

\* Either handler with an error: the connection is given up and no further
\* write is started, so what is queued stays queued.
WriteFails == /\ broken
              /\ writing # <<>>
              /\ writing' = Tail(writing)
              /\ UNCHANGED <<sent, posted, deq_messages_out, wire, reader, broken>>
-----------------------------------------------------------------------------
(* The receiving side *)

Unread == Len(wire) - readPos

\* add_to_incomming_queue pushes a copy of temp_message.
Deliver(message) == deq_messages_in' = Append(deq_messages_in, message)

\* What read_header makes of the next unit.  The bytes of a body taken for a
\* header may claim any size, also one that makes body.resize throw.
Claims(unit) ==
    IF unit.part = 0 THEN {[id |-> unit.msg, size |-> HeaderSize(unit.msg)]}
    ELSE {[id |-> Garbage, size |-> n] : n \in GarbageSizes}

\* A header delivered before its body was read.
ReadHeaderDelivers ==
    /\ reading = "header" /\ Unread > 0
    /\ readPos' = readPos + 1
    /\ \E claim \in Claims(wire[readPos + 1]) :
          /\ temp_message' = [id |-> claim.id, size |-> claim.size,
                              body |-> temp_message.body]
          /\ Deliver(temp_message')
    /\ UNCHANGED <<sent, writer, wire, reading, broken>>

\* The handler of read_header, without error.  A header of size 0 is delivered
\* with whatever body the previous message left in the buffer.
ReadHeader ==
    /\ reading = "header" /\ Unread > 0
    /\ readPos' = readPos + 1
    /\ \E claim \in Claims(wire[readPos + 1]) :
          /\ temp_message' = [id |-> claim.id, size |-> claim.size,
                              body |-> temp_message.body]
          /\ IF claim.size > 0
             THEN reading' = "body" /\ UNCHANGED deq_messages_in
             ELSE reading' = "header" /\ Deliver(temp_message')
    /\ UNCHANGED <<sent, writer, wire, broken>>

\* body.resize with a size below that of the header throws out of the handler.
ResizeThrows ==
    /\ reading = "header" /\ Unread > 0
    /\ wire[readPos + 1].part # 0
    /\ readPos' = readPos + 1
    /\ reading' = "failed"
    /\ UNCHANGED <<sent, writer, wire, temp_message, deq_messages_in, broken>>

\* The header, read already, is counted with the body.
ReadBodyCountsHeader ==
    /\ reading = "body" /\ Unread >= temp_message.size - 1
    /\ readPos' = readPos + temp_message.size
    /\ temp_message' = [temp_message EXCEPT
                            !.body = SubSeq(wire, readPos + 1, readPos' - 1)]
    /\ Deliver(temp_message')
    /\ reading' = "header"
    /\ UNCHANGED <<sent, writer, wire, broken>>

\* No read_header() after the message was delivered.
ReadBodyStops ==
    /\ reading = "body" /\ Unread >= temp_message.size - 1
    /\ readPos' = readPos + (temp_message.size - 1)
    /\ temp_message' = [temp_message EXCEPT
                            !.body = SubSeq(wire, readPos + 1, readPos')]
    /\ Deliver(temp_message')
    /\ reading' = "failed"
    /\ UNCHANGED <<sent, writer, wire, broken>>

\* The handler of read_body, without error.
ReadBody ==
    /\ reading = "body" /\ Unread >= temp_message.size - 1
    /\ readPos' = readPos + (temp_message.size - 1)
    /\ temp_message' = [temp_message EXCEPT
                            !.body = SubSeq(wire, readPos + 1, readPos')]
    /\ Deliver(temp_message')
    /\ reading' = "header"
    /\ UNCHANGED <<sent, writer, wire, broken>>

\* Either handler with an error: no further read is started.
ReadFails == /\ broken
             /\ reading \in {"header", "body"}
             /\ reading' = "failed"
             /\ UNCHANGED <<sent, writer, wire, readPos, temp_message,
                            deq_messages_in, broken>>
-----------------------------------------------------------------------------
\* The peer or the network ends the connection, at any time.
Break == /\ ~broken
         /\ broken' = TRUE
         /\ UNCHANGED <<sent, writer, wire, reader>>

Writer == RunSend \/ HeaderWritten \/ BodyWritten \/ WriteFails
Reader == ReadHeader \/ ResizeThrows \/ ReadBody \/ ReadFails

Next == (\E m \in Messages : Send(m)) \/ Writer \/ Reader \/ Break

\* The io_context threads of both ends keep running their handlers; nobody is
\* obliged to call send or to break the connection.
Fairness == WF_vars(Writer) /\ WF_vars(Reader)

Spec == Init /\ [][Next]_vars

FairSpec == Spec /\ Fairness
-----------------------------------------------------------------------------
Write == [part : {"header", "body"}, msg : Messages]
TempMessage == [id : Messages \cup {Garbage}, size : Nat, body : Seq(Unit)]

TypeOK ==
    /\ sent \in Seq(Messages)
    /\ posted \in Seq(Messages)
    /\ deq_messages_out \in Seq(Messages)
    /\ writing \in Seq(Write)
    /\ wire \in Seq(Unit)
    /\ readPos \in 0..Len(wire)
    /\ reading \in {"header", "body", "failed"}
    /\ temp_message \in TempMessage
    /\ deq_messages_in \in Seq(TempMessage)
    /\ broken \in BOOLEAN

\* Two async_writes on one socket may interleave their bytes.  However many
\* messages are sent, one write is in progress, and one is as long as anything
\* is queued on a connection that works.
OneWriteAtATime ==
    /\ Len(writing) <= 1
    /\ writing # <<>> => deq_messages_out # <<>>
    /\ deq_messages_out # <<>> /\ ~broken => writing # <<>>

\* The buffer of the write in progress belongs to a message in the queue: a
\* handler that pops another message than the one written never frees memory
\* the kernel still reads from.
WrittenBufferIsQueued ==
    \A i \in 1..Len(writing) : Contains(deq_messages_out, writing[i].msg)

\* Whatever is pushed in front of it, the message that found the queue empty
\* leaves it last, and its header and body are the last thing on the wire then.
BurstOpenerIsWritten ==
    [][ deq_messages_out # <<>> /\ deq_messages_out' = <<>>
          => LET m == Head(deq_messages_out)
             IN IsSuffix(<<Header(m)>> \o Body(m), wire') ]_vars

\* The queue of a working connection is always written out in the end.
QueueDrains == (deq_messages_out # <<>>) ~> (deq_messages_out = <<>> \/ broken)

\* A delivered message is the one whose header it has; a bare message has no
\* body of its own to compare.
Intact(message) == /\ message.id # Garbage
                   /\ message.id \notin Bare => message.body = Body(message.id)

Received == [i \in 1..Len(deq_messages_in) |->
                 IF Intact(deq_messages_in[i]) THEN deq_messages_in[i].id ELSE Garbage]

\* With one message in flight, each end receives the messages of the other in
\* order, complete and once, and a broken connection only cuts the sequence.
Fifo == INSTANCE FifoChannel WITH Items <- Messages, received <- Received
StreamImplementsFifo == Fifo!Spec

\* With one message in flight, a message sent on a working connection arrives.
SentArrives == (Len(deq_messages_in) < Len(sent))
                   ~> (Len(deq_messages_in) = Len(sent) \/ broken)

\* The whole message is somewhere on the wire, its body after its header.
OnWire(m) == \E i \in 1..(Len(wire) - BodySize[m]) :
                 SubSeq(wire, i, i + BodySize[m]) = <<Header(m)>> \o Body(m)

\* connection.h:75 says of deq_messages_out: "this queue consists only messages
\* that are need to be sent to the remote side of connection".  A message that
\* has left the queue was then sent: its header and its body are on the wire.
LeavesQueueOnlyWritten ==
    \A i \in 1..Len(sent) :
        \/ Contains(posted \o deq_messages_out, sent[i])
        \/ OnWire(sent[i])
=============================================================================
