-------------------------- MODULE ServerLoop_proofs --------------------------
(***************************************************************************)
(* Proofs about ServerLoop for any set of clients, any ports and any       *)
(* sequence of resets, answers, failing accepts and wrong headers: type    *)
(* correctness, that the server never goes deaf, and that it serves        *)
(* validated clients only.  And, until a port is accepted a second time    *)
(* while its entry stands or a client ends with an answer on its way, that *)
(* no handler outlives its connection and the loop is not disturbed:       *)
(* Calm says that whatever is still to run for a connection finds it in    *)
(* the map, and that its end is the last that is posted for it.            *)
(***************************************************************************)
EXTENDS ServerLoop, TLAPS

\* A write in progress writes a message of the queue.
WriteInv == \A c \in Conns : writing[c] => queued[c] > 0

\* One accept while nothing was thrown, one or two after the restart.
AcceptInv == /\ loop = "running" => accepts = 1
             /\ loop = "restarted" => accepts \in 1..2

\* How far a connection has come in the handshake.
HandshakeInv ==
    \A c \in Conns :
        /\ sock[c] = "none" => ~validated[c]
        /\ reading[c] = "validation" => ~validated[c]
        /\ reading[c] = "message" => validated[c]

\* Where the messages of a connection, and the answers to them, can be.
Valid == {c \in Conns : validated[c]}
EventSet == [kind : OwningKinds \cup RawKinds, conn : Conns]
Allowed == {e \in EventSet : e.kind = "send" => e.conn \in Valid}

ServedInv ==
    /\ deq_message_in \in Seq(Valid)
    /\ handling \in Valid \cup {NoConn}
    /\ events \in Seq(Allowed)
    /\ \A c \in Conns : queued[c] > 0 => c \in Valid

\* The types of all but the queues, which ServedInv gives.
ScalarsOK ==
    /\ peer \in [Conns -> {"away", "up", "gone", "reset"}]
    /\ sock \in [Conns -> {"none", "open", "closed"}]
    /\ reading \in [Conns -> {"none", "validation", "message", "lost"}]
    /\ writing \in [Conns -> BOOLEAN]
    /\ queued \in [Conns -> Nat]
    /\ validated \in [Conns -> BOOLEAN]
    /\ connections_map \in [Ports -> Conns \cup {NoConn}]
    /\ accepts \in Nat
    /\ loop \in {"running", "restarted", "terminated", "undefined"}
    /\ received \in 0..MaxMessages
    /\ faults \subseteq {"reset", "unread", "accept", "header", "port"}

LocalInv == ScalarsOK /\ WriteInv /\ AcceptInv /\ HandshakeInv

IInv == LocalInv /\ ServedInv

\* What the post of a handler and a push_back do to a queue of S.
LEMMA AppendFacts ==
  ASSUME NEW S, NEW s \in Seq(S), NEW x \in S
  PROVE  Append(s, x) \in Seq(S)
  OBVIOUS

\* What a pop_front does.
LEMMA TailFacts ==
  ASSUME NEW S, NEW s \in Seq(S), s # <<>>
  PROVE  Tail(s) \in Seq(S) /\ Head(s) \in S
  OBVIOUS

\* A queue of S is a queue of any larger set.
LEMMA SeqMonotone ==
  ASSUME NEW S, NEW T, S \subseteq T, NEW s \in Seq(S)
  PROVE  s \in Seq(T)
  OBVIOUS

LEMMA InitIInv == Init => IInv
  BY ConnAssumption, BoundAssumption
     DEF Init, IInv, LocalInv, ScalarsOK, WriteInv, AcceptInv, HandshakeInv, ServedInv,
         Ports

\* The part of the invariant that does not look into the queues.  What was
\* taken from them is a connection.
LEMMA StepLocalInv == IInv /\ [Next]_vars => LocalInv'
  <1> SUFFICES ASSUME IInv, [Next]_vars PROVE LocalInv'
    OBVIOUS
  <1> USE ConnAssumption, BoundAssumption
         DEF IInv, LocalInv, ScalarsOK, WriteInv, AcceptInv, HandshakeInv, Ports,
             connection, main, Runs, NoThrow, Throw, UnreadAnswer, PortTaken
  <1>1. ASSUME NEW c \in Conns, Connect(c) \/ Leave(c) \/ Reset(c) PROVE LocalInv'
    <2>1. CASE Connect(c)
      BY <2>1 DEF Connect
    <2>2. CASE Leave(c)
      BY <2>2 DEF Leave
    <2>3. CASE Reset(c)
      BY <2>3 DEF Reset
    <2> QED
      BY <1>1, <2>1, <2>2, <2>3
  <1>2. CASE AcceptFails
    BY <1>2 DEF AcceptFails
  <1>3. ASSUME NEW c \in Conns, Accept(c) PROVE LocalInv'
    BY <1>3 DEF Accept
  <1>4. ASSUME NEW c \in Conns, AcceptReset(c) PROVE LocalInv'
    BY <1>4 DEF AcceptReset
  <1>5. ASSUME NEW c \in Conns, ValidationWritten(c) PROVE LocalInv'
    BY <1>5 DEF ValidationWritten
  <1>6. ASSUME NEW c \in Conns, NEW solved \in BOOLEAN, ReadValidation(c, solved)
        PROVE  LocalInv'
    <2>1. ScalarsOK' /\ WriteInv' /\ AcceptInv'
      BY <1>6 DEF ReadValidation
    <2>2. ASSUME NEW d \in Conns, d # c
          PROVE  sock'[d] = sock[d] /\ reading'[d] = reading[d]
                    /\ validated'[d] = validated[d]
      BY <1>6, <2>2 DEF ReadValidation
    <2>3. sock'[c] = sock[c] /\ validated'[c] = solved /\ sock[c] = "open"
             /\ reading'[c] = IF solved THEN "message" ELSE "none"
      BY <1>6 DEF ReadValidation, PortKnown
    <2>4. HandshakeInv'
      BY <2>2, <2>3
    <2> QED
      BY <2>1, <2>4
  <1>7. ASSUME NEW c \in Conns, ReadMessage(c) PROVE LocalInv'
    BY <1>7 DEF ReadMessage
  <1>8. ASSUME NEW c \in Conns, ReadError(c) PROVE LocalInv'
    BY <1>8 DEF ReadError
  <1>9. ASSUME NEW c \in Conns, RunSend(c) PROVE LocalInv'
    BY <1>9 DEF RunSend
  <1>10. ASSUME NEW c \in Conns, WriteDone(c) PROVE LocalInv'
    <2>0. /\ queued[c] \in Nat /\ queued[c] > 0
          /\ queued' = [queued EXCEPT ![c] = queued[c] - 1]
          /\ writing' = [writing EXCEPT ![c] = queued[c] > 1]
      BY <1>10 DEF WriteDone
    <2>1. queued' \in [Conns -> Nat]
      BY <2>0
    <2>3. ASSUME NEW d \in Conns, writing'[d] PROVE queued'[d] > 0
      <3>1. CASE d = c
        <4>1. writing'[c] = (queued[c] > 1)
          BY <2>0, Zenon
        <4>2. queued[c] > 1
          BY <2>3, <3>1, <4>1, Zenon
        <4>3. queued'[c] = queued[c] - 1
          BY <2>0
        <4> QED
          BY <2>0, <3>1, <4>2, <4>3
      <3>2. CASE d # c
        BY <2>0, <2>3, <3>2
      <3> QED
        BY <3>1, <3>2
    <2>2. writing' \in [Conns -> BOOLEAN]
      BY <1>10 DEF WriteDone
    <2> QED
      BY <1>10, <2>1, <2>2, <2>3 DEF WriteDone
  <1>11. ASSUME NEW c \in Conns, WriteError(c) PROVE LocalInv'
    BY <1>11 DEF WriteError
  <1>12. ASSUME NEW c \in Conns, ClientValidated(c) PROVE LocalInv'
    BY <1>12 DEF ClientValidated
  <1>13. ASSUME NEW c \in Conns, ClientDisconnect(c) PROVE LocalInv'
    <2>1. sock' \in [Conns -> {"none", "open", "closed"}]
      BY <1>13 DEF ClientDisconnect
    <2>2. connections_map' \in [Ports -> Conns \cup {NoConn}]
      BY <1>13 DEF ClientDisconnect
    <2>3. \A d \in Conns : sock'[d] = "none" => sock[d] = "none"
      BY <1>13 DEF ClientDisconnect
    <2>4. accepts' \in Nat /\ AcceptInv'
             /\ loop' \in {"running", "restarted", "terminated", "undefined"}
      BY <1>13 DEF ClientDisconnect
    <2> QED
      BY <1>13, <2>1, <2>2, <2>3, <2>4 DEF ClientDisconnect
  <1>14. ASSUME NEW c \in Conns, DanglingHandler(c) PROVE LocalInv'
    BY <1>14 DEF DanglingHandler
  <1>15. CASE TakeMessage
    BY <1>15 DEF TakeMessage
  <1>16. CASE HandleMessage
    BY <1>16 DEF HandleMessage
  <1>17. ASSUME NEW c \in Conns, ReadThrows(c) PROVE LocalInv'
    BY <1>17 DEF ReadThrows
  <1>18. CASE UNCHANGED vars
    BY <1>18 DEF vars
  <1> HIDE DEF IInv, LocalInv
  <1> QED
    BY <1>1, <1>2, <1>3, <1>4, <1>5, <1>6, <1>7, <1>8, <1>9, <1>10, <1>11, <1>12,
       <1>13, <1>14, <1>15, <1>16, <1>17, <1>18
       DEF Next, Clients, Handlers, WrongHeader, Main

\* Only ReadValidation changes who is validated, and nobody stops being so.
LEMMA StepValid ==
  IInv /\ [Next]_vars => Valid \subseteq Valid' /\ Allowed \subseteq Allowed'
  <1> SUFFICES ASSUME IInv, [Next]_vars PROVE Valid \subseteq Valid'
    BY DEF Allowed
  <1> USE DEF IInv, LocalInv, ScalarsOK, HandshakeInv, Valid, connection
  <1>1. ASSUME NEW c \in Conns, Connect(c) \/ Leave(c) \/ Reset(c) PROVE Valid \subseteq Valid'
    BY <1>1 DEF Connect, Leave, Reset
  <1>2. CASE AcceptFails
    BY <1>2 DEF AcceptFails
  <1>3. ASSUME NEW c \in Conns, Accept(c) PROVE Valid \subseteq Valid'
    BY <1>3 DEF Accept
  <1>4. ASSUME NEW c \in Conns, AcceptReset(c) PROVE Valid \subseteq Valid'
    BY <1>4 DEF AcceptReset
  <1>5. ASSUME NEW c \in Conns, ValidationWritten(c) PROVE Valid \subseteq Valid'
    BY <1>5 DEF ValidationWritten
  <1>6. ASSUME NEW c \in Conns, NEW solved \in BOOLEAN, ReadValidation(c, solved)
        PROVE  Valid \subseteq Valid'
    BY <1>6 DEF ReadValidation
  <1>7. ASSUME NEW c \in Conns, ReadMessage(c) PROVE Valid \subseteq Valid'
    BY <1>7 DEF ReadMessage
  <1>8. ASSUME NEW c \in Conns, ReadError(c) PROVE Valid \subseteq Valid'
    BY <1>8 DEF ReadError
  <1>9. ASSUME NEW c \in Conns, RunSend(c) PROVE Valid \subseteq Valid'
    BY <1>9 DEF RunSend
  <1>10. ASSUME NEW c \in Conns, WriteDone(c) PROVE Valid \subseteq Valid'
    BY <1>10 DEF WriteDone
  <1>11. ASSUME NEW c \in Conns, WriteError(c) PROVE Valid \subseteq Valid'
    BY <1>11 DEF WriteError
  <1>12. ASSUME NEW c \in Conns, ClientValidated(c) PROVE Valid \subseteq Valid'
    BY <1>12 DEF ClientValidated
  <1>13. ASSUME NEW c \in Conns, ClientDisconnect(c) PROVE Valid \subseteq Valid'
    BY <1>13 DEF ClientDisconnect
  <1>14. ASSUME NEW c \in Conns, DanglingHandler(c) PROVE Valid \subseteq Valid'
    BY <1>14 DEF DanglingHandler
  <1>15. CASE TakeMessage
    BY <1>15 DEF TakeMessage
  <1>16. CASE HandleMessage
    BY <1>16 DEF HandleMessage
  <1>17. ASSUME NEW c \in Conns, ReadThrows(c) PROVE Valid \subseteq Valid'
    BY <1>17 DEF ReadThrows
  <1>18. CASE UNCHANGED vars
    BY <1>18 DEF vars
  <1> HIDE DEF IInv, Valid
  <1> QED
    BY <1>1, <1>2, <1>3, <1>4, <1>5, <1>6, <1>7, <1>8, <1>9, <1>10, <1>11, <1>12,
       <1>13, <1>14, <1>15, <1>16, <1>17, <1>18
       DEF Next, Clients, Handlers, WrongHeader, Main

\* The part about the queues.  What is in an unchanged queue
\* is validated in the next state too.
LEMMA StepServedInv == IInv /\ [Next]_vars => ServedInv'
  <1> SUFFICES ASSUME IInv, [Next]_vars PROVE ServedInv'
    OBVIOUS
  <1>0. /\ Valid \subseteq Valid' /\ Allowed \subseteq Allowed'
        /\ deq_message_in \in Seq(Valid') /\ events \in Seq(Allowed')
        /\ handling \in Valid' \cup {NoConn}
        /\ \A c \in Conns : queued[c] > 0 => c \in Valid'
    BY StepValid, SeqMonotone DEF IInv, ServedInv
  <1>00. ASSUME NEW c \in Conns, NEW k \in OwningKinds \cup RawKinds,
                k = "send" => c \in Valid'
         PROVE  Append(events, Event(k, c)) \in Seq(Allowed')
    BY <1>0, <1>00, AppendFacts DEF Event, Allowed, EventSet
  <1> USE <1>0 DEF ServedInv, connection, main, NoThrow
  <1>1. ASSUME NEW c \in Conns, Connect(c) \/ Leave(c) \/ Reset(c) PROVE ServedInv'
    BY <1>1 DEF Connect, Leave, Reset
  <1>2. CASE AcceptFails
    BY <1>2 DEF AcceptFails
  <1>3. ASSUME NEW c \in Conns, Accept(c) PROVE ServedInv'
    BY <1>3, <1>00 DEF Accept, OwningKinds, RawKinds
  <1>4. ASSUME NEW c \in Conns, AcceptReset(c) PROVE ServedInv'
    BY <1>4 DEF AcceptReset
  <1>5. ASSUME NEW c \in Conns, ValidationWritten(c) PROVE ServedInv'
    BY <1>5 DEF ValidationWritten
  <1>6. ASSUME NEW c \in Conns, NEW solved \in BOOLEAN, ReadValidation(c, solved)
        PROVE  ServedInv'
    BY <1>6, <1>00 DEF ReadValidation, OwningKinds, RawKinds
  <1>7. ASSUME NEW c \in Conns, ReadMessage(c) PROVE ServedInv'
    <2>1. c \in Valid'
      BY <1>7 DEF ReadMessage, IInv, LocalInv, ScalarsOK, HandshakeInv, Valid
    <2> QED
      BY <1>7, <2>1, AppendFacts DEF ReadMessage
  <1>8. ASSUME NEW c \in Conns, ReadError(c) PROVE ServedInv'
    BY <1>8, <1>00 DEF ReadError, OwningKinds, RawKinds
  <1>9. ASSUME NEW c \in Conns, RunSend(c) PROVE ServedInv'
    <2>1. Tail(events) \in Seq(Allowed') /\ Head(events) \in Allowed'
      BY <1>9, <1>0, TailFacts DEF RunSend
    <2>2. c \in Valid'
      BY <1>9, <2>1 DEF RunSend, Event, Allowed
    <2> QED
      BY <1>9, <2>1, <2>2 DEF RunSend, IInv, LocalInv, ScalarsOK
  <1>10. ASSUME NEW c \in Conns, WriteDone(c) PROVE ServedInv'
    <2>1. \A d \in Conns : queued'[d] > 0 => queued[d] > 0
      BY <1>10 DEF WriteDone, IInv, LocalInv, ScalarsOK
    <2> QED
      BY <1>10, <2>1 DEF WriteDone
  <1>11. ASSUME NEW c \in Conns, WriteError(c) PROVE ServedInv'
    BY <1>11, <1>00 DEF WriteError, OwningKinds, RawKinds
  <1>12. ASSUME NEW c \in Conns, ClientValidated(c) PROVE ServedInv'
    BY <1>12 DEF ClientValidated
  <1>13. ASSUME NEW c \in Conns, ClientDisconnect(c) PROVE ServedInv'
    BY <1>13 DEF ClientDisconnect
  <1>14. ASSUME NEW c \in Conns, DanglingHandler(c) PROVE ServedInv'
    BY <1>14 DEF DanglingHandler
  <1>15. CASE TakeMessage
    BY <1>15 DEF TakeMessage
  <1>16. CASE HandleMessage
    <2>1. handling \in Valid' /\ handling \in Conns
      BY <1>16 DEF HandleMessage, Valid, IInv
    <2>2. Append(events, Event("send", handling)) \in Seq(Allowed')
      BY <2>1, <1>00 DEF RawKinds
    <2> QED
      BY <1>16, <2>2 DEF HandleMessage
  <1>17. ASSUME NEW c \in Conns, ReadThrows(c) PROVE ServedInv'
    BY <1>17 DEF ReadThrows
  <1>18. CASE UNCHANGED vars
    BY <1>18 DEF vars
  <1> HIDE DEF ServedInv
  <1> QED
    BY <1>1, <1>2, <1>3, <1>4, <1>5, <1>6, <1>7, <1>8, <1>9, <1>10, <1>11, <1>12,
       <1>13, <1>14, <1>15, <1>16, <1>17, <1>18
       DEF Next, Clients, Handlers, WrongHeader, Main

LEMMA StepIInv == IInv /\ [Next]_vars => IInv'
  BY StepLocalInv, StepServedInv DEF IInv

LEMMA Invariance == Spec => []IInv
  BY InitIInv, StepIInv, PTL DEF Spec

\* The state of the server keeps its types (TypeOK), for any set of clients.
THEOREM TypeCorrect == Spec => []TypeOK
  <1>1. ASSUME IInv PROVE TypeOK
    <2>1. deq_message_in \in Seq(Conns) /\ handling \in Conns \cup {NoConn}
      BY <1>1, SeqMonotone DEF IInv, ServedInv, Valid
    <2>2. events \in Seq(EventSet)
      BY <1>1, SeqMonotone DEF IInv, ServedInv, Allowed
    <2> QED
      BY <1>1, <2>1, <2>2 DEF IInv, LocalInv, ScalarsOK, TypeOK, EventSet
  <1> QED
    BY <1>1, Invariance, PTL

\* async_new_connection is always started again, after a connection as after an
\* exception, so the loop never runs without accepting.
THEOREM NeverDeaf == Spec => []AcceptOutstanding
  <1>1. IInv => AcceptOutstanding
    BY DEF IInv, LocalInv, AcceptInv, AcceptOutstanding, Runs
  <1> QED
    BY <1>1, Invariance, PTL

\* Only a client that solved the puzzle of read_client_validation has messages
\* handed to the main thread or answers queued for it.
THEOREM ValidatedOnly == Spec => []OnlyValidatedServed
  <1>1. IInv => OnlyValidatedServed
    BY DEF IInv, ServedInv, Valid, OnlyValidatedServed
  <1> QED
    BY <1>1, Invariance, PTL
-----------------------------------------------------------------------------
(* Until a port is taken while its entry stands, or an answer goes unread *)

\* The handlers posted, whatever their order, and the last one of a connection.
PostedEvents == {events[i] : i \in 1..Len(events)}
Ends == {"failed", "disconnect"}

\* Nothing of a connection is posted behind its end.
OrderInv == \A i, j \in 1..Len(events) :
                i < j /\ events[i].conn = events[j].conn => events[i].kind \notin Ends

\* What is true of a connection as long as a handler of each kind is posted for it.
EventInv(c) ==
    \A e \in PostedEvents :
        e.conn = c =>
            /\ e.kind \in Ends => ~Reads(c)
            /\ e.kind = "failed" => ~validated[c]
            /\ e.kind = "disconnect" => peer[c] \in {"gone", "reset"}
            /\ e.kind = "validation_write_failed" => peer[c] = "reset"

\* A handler of the connection is still to run.
InUse(c) == Reads(c) \/ writing[c] \/ \E e \in PostedEvents : e.conn = c

\* A connection is in the map as long as its socket is open, and as long as
\* something is read, written or posted for it, which may outlast its socket only if
\* the client was reset.
PlaceInv(c) ==
    /\ InUse(c) => sock[c] = "open" \/ (sock[c] = "closed" /\ peer[c] = "reset")
    /\ sock[c] = "open" \/ InUse(c) => connections_map[PortOf[c]] = c

\* A client waits for its answers, and a validated one is closed only after it left.
PeerInv(c) ==
    /\ peer[c] = "away" => sock[c] = "none"
    /\ AnswerPending(c) => peer[c] = "up"
    /\ sock[c] = "closed" => peer[c] # "up" \/ ~validated[c]

ConnInv(c) == EventInv(c) /\ PlaceInv(c) /\ PeerInv(c)

Calm == OrderInv /\ \A c \in Conns : ConnInv(c)

ResetInv == "reset" \notin faults => \A c \in Conns : peer[c] # "reset"

CalmInv == /\ Tolerated => Calm /\ loop # "undefined"
           /\ ResetInv
           /\ faults = {} => loop = "running"

\* The types of what is posted, as the invariant of the queues gives them.
LEMMA PostedTypes ==
  ASSUME IInv
  PROVE  /\ events \in Seq(EventSet)
         /\ \A e \in PostedEvents :
                /\ e \in EventSet /\ e.conn \in Conns
                /\ e.kind = "send" => validated[e.conn]
  <1>1. events \in Seq(EventSet) /\ events \in Seq(Allowed)
    BY SeqMonotone DEF IInv, ServedInv, Allowed
  <1>2. ASSUME NEW e \in PostedEvents PROVE e \in Allowed
    BY <1>1 DEF PostedEvents
  <1> QED
    BY <1>1, <1>2 DEF Allowed, Valid, EventSet

LEMMA EventFacts ==
  ASSUME NEW c \in Conns, NEW k \in OwningKinds \cup RawKinds
  PROVE  /\ Event(k, c) \in EventSet
         /\ Event(k, c).kind = k /\ Event(k, c).conn = c
  BY DEF Event, EventSet

\* What a post adds, and when it keeps the order.
LEMMA PostFacts ==
  ASSUME IInv, NEW e \in EventSet, events' = Append(events, e)
  PROVE  /\ PostedEvents' = PostedEvents \cup {e}
         /\ OrderInv /\ (\A f \in PostedEvents : f.conn = e.conn => f.kind \notin Ends)
               => OrderInv'
  <1>1. events \in Seq(EventSet)
    BY PostedTypes
  <1>2. PICK n \in Nat : n = Len(events)
    BY <1>1
  <1>3. /\ Len(events') = n + 1 /\ events'[n + 1] = e
        /\ \A i \in 1..n : events'[i] = events[i]
    BY <1>1, <1>2
  <1>4. \A i \in 1..n + 1 : i \in 1..n \/ i = n + 1
    OBVIOUS
  <1>5. PostedEvents' = PostedEvents \cup {e}
    <2>1. \A f \in PostedEvents' : f \in PostedEvents \cup {e}
      BY <1>2, <1>3, <1>4 DEF PostedEvents
    <2>2. \A f \in PostedEvents : f \in PostedEvents'
      <3>1. \A i \in 1..n : i \in 1..n + 1
        OBVIOUS
      <3> QED
        BY <1>2, <1>3, <3>1 DEF PostedEvents
    <2>3. e \in PostedEvents'
      <3>1. n + 1 \in 1..n + 1
        OBVIOUS
      <3> QED
        BY <1>3, <3>1 DEF PostedEvents
    <2> QED
      BY <2>1, <2>2, <2>3
  <1>6. ASSUME OrderInv, \A f \in PostedEvents : f.conn = e.conn => f.kind \notin Ends,
               NEW i \in 1..n + 1, NEW j \in 1..n + 1, i < j,
               events'[i].conn = events'[j].conn
        PROVE  events'[i].kind \notin Ends
    <2>1. i \in 1..n
      BY <1>6
    <2>2. CASE j \in 1..n
      BY <1>2, <1>3, <1>6, <2>1, <2>2 DEF OrderInv
    <2>3. CASE j = n + 1
      BY <1>2, <1>3, <1>6, <2>1, <2>3 DEF PostedEvents
    <2> QED
      BY <1>4, <2>2, <2>3
  <1> QED
    BY <1>3, <1>5, <1>6 DEF OrderInv

\* What is left when the first handler has run.
LEMMA RunFacts ==
  ASSUME IInv, OrderInv, events # <<>>, events' = Tail(events)
  PROVE  /\ Head(events) \in PostedEvents /\ PostedEvents' \subseteq PostedEvents
         /\ OrderInv'
         /\ Head(events).kind \in Ends
               => \A f \in PostedEvents' : f.conn # Head(events).conn
  <1>1. events \in Seq(EventSet) /\ Len(events) \in Nat
    BY PostedTypes
  <1>2. PICK n \in Nat : n + 1 = Len(events)
    <2>1. Len(events) > 0
      BY <1>1
    <2>2. Len(events) - 1 \in Nat /\ (Len(events) - 1) + 1 = Len(events)
      BY <1>1, <2>1
    <2> QED
      BY <2>2
  <1>3. /\ Len(events') = n /\ Head(events) = events[1]
        /\ \A i \in 1..n : events'[i] = events[i + 1]
    BY <1>1, <1>2
  <1>4. /\ 1 \in 1..n + 1
        /\ \A i \in 1..n : i + 1 \in 1..n + 1 /\ 1 < i + 1
    OBVIOUS
  <1>5. Head(events) \in PostedEvents /\ PostedEvents' \subseteq PostedEvents
    BY <1>2, <1>3, <1>4 DEF PostedEvents
  <1>6. OrderInv'
    <2> SUFFICES ASSUME NEW i \in 1..n, NEW j \in 1..n, i < j,
                        events'[i].conn = events'[j].conn
                 PROVE  events'[i].kind \notin Ends
      BY <1>3 DEF OrderInv
    <2>1. i + 1 < j + 1
      OBVIOUS
    <2> QED
      BY <1>2, <1>3, <1>4, <2>1 DEF OrderInv
  <1>7. ASSUME Head(events).kind \in Ends, NEW f \in PostedEvents'
        PROVE  f.conn # Head(events).conn
    <2>1. PICK i \in 1..n : f = events'[i]
      BY <1>3 DEF PostedEvents
    <2> QED
      BY <1>2, <1>3, <1>4, <1>7, <2>1 DEF OrderInv
  <1> QED
    BY <1>5, <1>6, <1>7

\* The parts of the invariants that the steps below use.
LEMMA ConnTypes ==
  ASSUME IInv
  PROVE  /\ peer \in [Conns -> {"away", "up", "gone", "reset"}]
         /\ sock \in [Conns -> {"none", "open", "closed"}]
         /\ reading \in [Conns -> {"none", "validation", "message", "lost"}]
         /\ writing \in [Conns -> BOOLEAN]
         /\ queued \in [Conns -> Nat]
         /\ validated \in [Conns -> BOOLEAN]
         /\ connections_map \in [Ports -> Conns \cup {NoConn}]
         /\ \A c \in Conns : PortOf[c] \in Ports
  BY DEF IInv, LocalInv, ScalarsOK, Ports

\* An answer is queued or posted; then the client solved the puzzle.
LEMMA PendingFacts ==
  ASSUME IInv, NEW c \in Conns
  PROVE  /\ AnswerPending(c) <=> queued[c] > 0 \/ Event("send", c) \in PostedEvents
         /\ AnswerPending(c)' <=> queued'[c] > 0 \/ Event("send", c) \in PostedEvents'
         /\ AnswerPending(c) => validated[c]
         /\ writing[c] => AnswerPending(c)
  <1>1. AnswerPending(c) <=> queued[c] > 0 \/ Event("send", c) \in PostedEvents
    BY DEF AnswerPending, PostedEvents
  <1>2. AnswerPending(c)' <=> queued'[c] > 0 \/ Event("send", c) \in PostedEvents'
    BY DEF AnswerPending, PostedEvents
  <1>3. AnswerPending(c) => validated[c]
    <2>1. queued[c] > 0 => validated[c]
      BY DEF IInv, ServedInv, Valid
    <2>2. Event("send", c) \in PostedEvents => validated[c]
      BY PostedTypes, EventFacts DEF RawKinds
    <2> QED
      BY <1>1, <2>1, <2>2
  <1>4. writing[c] => AnswerPending(c)
    BY <1>1 DEF IInv, LocalInv, WriteInv
  <1> QED
    BY <1>1, <1>2, <1>3, <1>4

\* The handler that has its turn was posted.
LEMMA HeadFacts ==
  ASSUME IInv, events # <<>>, NEW c \in Conns, NEW k \in OwningKinds \cup RawKinds,
         Head(events) = Event(k, c)
  PROVE  /\ Event(k, c) \in PostedEvents
         /\ Head(events).kind = k /\ Head(events).conn = c
  <1>1. events \in Seq(EventSet) /\ Len(events) \in Nat
    BY PostedTypes
  <1>2. 1 \in 1..Len(events) /\ events[1] = Event(k, c)
    BY <1>1
  <1> QED
    BY <1>2, EventFacts DEF PostedEvents

\* A connection of which nothing changes, and no entry it needs.
LEMMA OthersKeep ==
  ASSUME IInv, NEW d \in Conns, ConnInv(d),
         peer'[d] = peer[d], sock'[d] = sock[d], reading'[d] = reading[d],
         writing'[d] = writing[d], queued'[d] = queued[d], validated'[d] = validated[d],
         \A e \in PostedEvents' : e.conn = d => e \in PostedEvents,
         sock[d] = "open" \/ InUse(d)
            => connections_map'[PortOf[d]] = connections_map[PortOf[d]]
  PROVE  ConnInv(d)'
  <1>1. EventInv(d)'
    BY DEF ConnInv, EventInv, Reads
  <1>2. InUse(d)' => InUse(d)
    BY DEF InUse, Reads
  <1>3. PlaceInv(d)'
    BY <1>2 DEF ConnInv, PlaceInv
  <1>4. AnswerPending(d)' => AnswerPending(d)
    BY PendingFacts, EventFacts DEF RawKinds
  <1>5. PeerInv(d)'
    BY <1>4 DEF ConnInv, PeerInv
  <1> QED
    BY <1>1, <1>3, <1>5 DEF ConnInv

\* The faults are a history.
LEMMA FaultsStay == [Next]_vars => faults \subseteq faults'
  BY DEF Next, Clients, Handlers, WrongHeader, Main, Connect, Leave, Reset, Accept, AcceptReset,
         AcceptFails, ValidationWritten, ReadValidation, ReadMessage, ReadThrows, ReadError,
         RunSend, WriteDone, WriteError, ClientValidated, ClientDisconnect, DanglingHandler,
         TakeMessage, HandleMessage, vars

\* Each action, while a calm state follows: what it does to its own connection, the
\* others keeping what they had.
LEMMA StepCalm ==
  ASSUME IInv, Calm, Tolerated', [Next]_vars
  PROVE  Calm'
  <1>t. /\ peer \in [Conns -> {"away", "up", "gone", "reset"}]
        /\ sock \in [Conns -> {"none", "open", "closed"}]
        /\ reading \in [Conns -> {"none", "validation", "message", "lost"}]
        /\ writing \in [Conns -> BOOLEAN]
        /\ queued \in [Conns -> Nat]
        /\ validated \in [Conns -> BOOLEAN]
        /\ connections_map \in [Ports -> Conns \cup {NoConn}]
        /\ \A c \in Conns : PortOf[c] \in Ports
    BY ConnTypes
  <1>o. OrderInv /\ \A c \in Conns : ConnInv(c)
    BY DEF Calm
  <1>n. "unread" \notin faults' /\ "port" \notin faults'
    BY DEF Tolerated
  <1>0. ASSUME UNCHANGED <<peer, connection, connections_map, events>> PROVE Calm'
    <2>1. \A c \in Conns : ConnInv(c)'
      BY <1>0, <1>o, OthersKeep DEF connection, PostedEvents
    <2> QED
      BY <1>0, <1>o, <2>1 DEF Calm, OrderInv
  \* An action of connection c: the rest is OthersKeep's.
  <1>c. ASSUME NEW c \in Conns, OrderInv', ConnInv(c)',
               \A d \in Conns : d # c => /\ peer'[d] = peer[d] /\ sock'[d] = sock[d]
                                         /\ reading'[d] = reading[d]
                                         /\ writing'[d] = writing[d]
                                         /\ queued'[d] = queued[d]
                                         /\ validated'[d] = validated[d],
               \A e \in PostedEvents' : e.conn # c => e \in PostedEvents,
               \A d \in Conns : d # c /\ (sock[d] = "open" \/ InUse(d))
                  => connections_map'[PortOf[d]] = connections_map[PortOf[d]]
        PROVE  Calm'
    <2>1. ASSUME NEW d \in Conns, d # c PROVE ConnInv(d)'
      BY <1>c, <1>o, <2>1, OthersKeep
    <2> QED
      BY <1>c, <2>1 DEF Calm
  <1>1. ASSUME NEW c \in Conns, Connect(c) \/ Leave(c) \/ Reset(c) PROVE Calm'
    <2>1. /\ peer' = [peer EXCEPT ![c] = peer'[c]]
          /\ UNCHANGED <<sock, reading, writing, queued, validated, connections_map, events>>
      BY <1>1, <1>t DEF Connect, Leave, Reset, connection
    <2>2. \/ peer[c] = "away" /\ peer'[c] = "up"
          \/ ~AnswerPending(c) /\ peer[c] \in {"up", "gone"} /\ peer'[c] = "gone"
          \/ ~AnswerPending(c) /\ peer[c] \in {"up", "gone"} /\ peer'[c] = "reset"
      BY <1>1, <1>t, <1>n DEF Connect, Leave, Reset, UnreadAnswer
    <2>3. PostedEvents' = PostedEvents /\ AnswerPending(c)' = AnswerPending(c) /\ OrderInv'
             /\ InUse(c)' = InUse(c) /\ Reads(c)' = Reads(c)
      BY <1>o, <2>1 DEF PostedEvents, AnswerPending, OrderInv, InUse, Reads
    <2>4. EventInv(c)'
      BY <1>o, <2>1, <2>2, <2>3 DEF ConnInv, EventInv
    <2>5. PlaceInv(c)'
      BY <1>o, <2>1, <2>2, <2>3 DEF ConnInv, PlaceInv
    <2>6. PeerInv(c)'
      BY <1>o, <2>1, <2>2, <2>3 DEF ConnInv, PeerInv
    <2>7. \A d \in Conns : d # c => peer'[d] = peer[d]
      BY <1>t, <2>1
    <2> QED
      BY <1>c, <2>1, <2>3, <2>4, <2>5, <2>6, <2>7 DEF ConnInv
  <1>2. CASE AcceptFails \/ TakeMessage \/ UNCHANGED vars
    BY <1>0, <1>2 DEF AcceptFails, TakeMessage, vars
  <1>3. ASSUME NEW c \in Conns, Accept(c) PROVE Calm'
    <2>1. /\ sock[c] = "none" /\ peer[c] \in {"up", "gone"}
          /\ connections_map[PortOf[c]] = NoConn
          /\ sock' = [sock EXCEPT ![c] = "open"]
          /\ connections_map' = [connections_map EXCEPT ![PortOf[c]] = c]
          /\ reading' = [reading EXCEPT ![c] = "validation"]
          /\ UNCHANGED <<writing, queued, validated>>
      BY <1>3, <1>n DEF Accept, PortTaken
    <2>2. PICK k \in {"validation_written", "validation_write_failed"} :
             /\ events' = Append(events, Event(k, c))
             /\ peer' = [peer EXCEPT ![c] = peer'[c]]
             /\ peer'[c] \in {peer[c], "reset"}
             /\ k = "validation_write_failed" => peer'[c] = "reset"
      BY <1>3, <1>t DEF Accept
    <2>3. ~Reads(c) /\ ~writing[c] /\ \A e \in PostedEvents : e.conn # c
      BY <1>o, <2>1 DEF ConnInv, PlaceInv, InUse
    <2>4. /\ Event(k, c) \in EventSet
          /\ Event(k, c).kind = k /\ Event(k, c).conn = c
      BY EventFacts DEF RawKinds
    <2>5. PostedEvents' = PostedEvents \cup {Event(k, c)} /\ OrderInv'
      BY <1>o, <2>2, <2>3, <2>4, PostFacts
    <2>6. sock'[c] = "open" /\ reading'[c] = "validation" /\ connections_map'[PortOf[c]] = c
      BY <1>t, <2>1
    <2>7. EventInv(c)'
      BY <2>2, <2>3, <2>4, <2>5 DEF EventInv, Ends
    <2>8. PlaceInv(c)'
      BY <2>6 DEF PlaceInv
    <2>9. ~AnswerPending(c)'
      <3>1. queued'[c] = 0 \/ validated[c]
        BY <1>t, <2>1, PendingFacts
      <3>2. ~validated[c]
        BY <2>1 DEF IInv, LocalInv, HandshakeInv
      <3>3. Event("send", c) \notin PostedEvents'
        BY <2>3, <2>4, <2>5, EventFacts DEF RawKinds
      <3> QED
        BY <1>t, <3>1, <3>2, <3>3, PendingFacts
    <2>10. PeerInv(c)'
      BY <2>1, <2>2, <2>6, <2>9 DEF PeerInv
    <2>11. ASSUME NEW d \in Conns, d # c, sock[d] = "open" \/ InUse(d)
           PROVE  connections_map'[PortOf[d]] = connections_map[PortOf[d]]
      <3>1. connections_map[PortOf[d]] # NoConn
        BY <1>o, <2>11, ConnAssumption DEF ConnInv, PlaceInv
      <3> QED
        BY <1>t, <2>1, <3>1
    <2>12. \A d \in Conns : d # c => /\ peer'[d] = peer[d] /\ sock'[d] = sock[d]
                                     /\ reading'[d] = reading[d]
      BY <1>t, <2>1, <2>2
    <2> QED
      BY <1>c, <2>1, <2>4, <2>5, <2>7, <2>8, <2>10, <2>11, <2>12 DEF ConnInv
  <1>4. ASSUME NEW c \in Conns, AcceptReset(c) PROVE Calm'
    <2>1. /\ sock[c] = "none" /\ peer[c] = "reset"
          /\ sock' = [sock EXCEPT ![c] = "closed"]
          /\ UNCHANGED <<peer, reading, writing, queued, validated, connections_map, events>>
      BY <1>4 DEF AcceptReset
    <2>2. PostedEvents' = PostedEvents /\ AnswerPending(c)' = AnswerPending(c) /\ OrderInv'
             /\ InUse(c)' = InUse(c) /\ Reads(c)' = Reads(c) /\ sock'[c] = "closed"
      BY <1>o, <1>t, <2>1 DEF PostedEvents, AnswerPending, OrderInv, InUse, Reads
    <2>3. ~InUse(c)
      BY <1>o, <2>1 DEF ConnInv, PlaceInv
    <2>4. EventInv(c)' /\ PlaceInv(c)' /\ PeerInv(c)'
      BY <1>o, <2>1, <2>2, <2>3 DEF ConnInv, EventInv, PlaceInv, PeerInv
    <2>5. \A d \in Conns : d # c => sock'[d] = sock[d]
      BY <1>t, <2>1
    <2> QED
      BY <1>c, <2>1, <2>2, <2>4, <2>5 DEF ConnInv
  <1>5. ASSUME NEW c \in Conns, ValidationWritten(c) PROVE Calm'
    <2>1. PICK k \in {"validation_written", "validation_write_failed"} :
             /\ events # <<>> /\ Head(events) = Event(k, c) /\ events' = Tail(events)
             /\ sock' = IF Head(events).kind = "validation_write_failed"
                        THEN [sock EXCEPT ![c] = "closed"] ELSE sock
             /\ UNCHANGED <<peer, reading, writing, queued, validated, connections_map>>
      BY <1>5 DEF ValidationWritten
    <2>2. Event(k, c) \in PostedEvents /\ Head(events).kind = k /\ Head(events).conn = c
             /\ Event(k, c).kind = k /\ Event(k, c).conn = c
      BY <2>1, HeadFacts, EventFacts DEF RawKinds
    <2>3. PostedEvents' \subseteq PostedEvents /\ OrderInv'
      BY <1>o, <2>1, RunFacts
    <2>4. sock'[c] = sock[c] \/ (sock'[c] = "closed" /\ peer[c] = "reset")
      BY <1>o, <1>t, <2>1, <2>2 DEF ConnInv, EventInv
    <2>5. InUse(c) /\ (InUse(c)' => InUse(c))
      BY <2>1, <2>2, <2>3 DEF InUse, Reads
    <2>6. AnswerPending(c)' => AnswerPending(c)
      BY <2>1, <2>3, PendingFacts
    <2>7. EventInv(c)'
      BY <1>o, <2>1, <2>3 DEF ConnInv, EventInv, Reads
    <2>8. PlaceInv(c)' /\ PeerInv(c)'
      BY <1>o, <2>1, <2>4, <2>5, <2>6 DEF ConnInv, PlaceInv, PeerInv
    <2>9. \A d \in Conns : d # c => sock'[d] = sock[d]
      BY <1>t, <2>1
    <2> QED
      BY <1>c, <2>1, <2>3, <2>7, <2>8, <2>9 DEF ConnInv
  <1>6. ASSUME NEW c \in Conns, NEW solved \in BOOLEAN, ReadValidation(c, solved)
        PROVE  Calm'
    <2>1. PICK k \in {"validated", "failed"} : k = IF solved THEN "validated" ELSE "failed"
      OBVIOUS
    <2>2. /\ reading[c] = "validation" /\ sock[c] = "open"
          /\ events' = Append(events, Event(k, c))
          /\ reading' = [reading EXCEPT ![c] = IF solved THEN "message" ELSE "none"]
          /\ validated' = [validated EXCEPT ![c] = solved]
          /\ UNCHANGED <<peer, sock, writing, queued, connections_map>>
      BY <1>6, <2>1 DEF ReadValidation, PortKnown
    <2>3. /\ reading'[c] = IF solved THEN "message" ELSE "none"
          /\ validated'[c] = solved
      BY <1>t, <2>2
    <2>4. Reads(c) /\ InUse(c)
      BY <2>2 DEF Reads, InUse
    <2>5. \A e \in PostedEvents : e.conn = c => e.kind \notin Ends
      BY <1>o, <2>4 DEF ConnInv, EventInv
    <2>6. /\ Event(k, c) \in EventSet
          /\ Event(k, c).kind = k /\ Event(k, c).conn = c
      BY EventFacts DEF OwningKinds
    <2>7. PostedEvents' = PostedEvents \cup {Event(k, c)} /\ OrderInv'
      BY <1>o, <2>2, <2>5, <2>6, PostFacts
    <2>8. EventInv(c)'
      BY <1>o, <2>1, <2>2, <2>3, <2>5, <2>6, <2>7 DEF ConnInv, EventInv, Ends, Reads
    <2>9. PlaceInv(c)'
      BY <1>o, <2>2, <2>4 DEF ConnInv, PlaceInv
    <2>10. AnswerPending(c)' => AnswerPending(c)
      BY <2>1, <2>2, <2>6, <2>7, PendingFacts, EventFacts DEF RawKinds
    <2>11. PeerInv(c)'
      BY <1>o, <2>2, <2>10 DEF ConnInv, PeerInv
    <2>12. \A d \in Conns : d # c => reading'[d] = reading[d] /\ validated'[d] = validated[d]
      BY <1>t, <2>2
    <2> QED
      BY <1>c, <2>2, <2>6, <2>7, <2>8, <2>9, <2>11, <2>12 DEF ConnInv
  <1>7. ASSUME NEW c \in Conns, ReadMessage(c) PROVE Calm'
    BY <1>0, <1>7 DEF ReadMessage
  <1>8. ASSUME NEW c \in Conns, ReadThrows(c) PROVE Calm'
    <2>1. /\ reading' = [reading EXCEPT ![c] = "lost"]
          /\ UNCHANGED <<peer, sock, writing, queued, validated, connections_map, events>>
      BY <1>8 DEF ReadThrows
    <2>2. /\ PostedEvents' = PostedEvents /\ OrderInv' /\ AnswerPending(c)' = AnswerPending(c)
          /\ ~Reads(c)' /\ (InUse(c)' => InUse(c))
      BY <1>o, <1>t, <2>1 DEF PostedEvents, OrderInv, AnswerPending, Reads, InUse
    <2>3. EventInv(c)' /\ PlaceInv(c)' /\ PeerInv(c)'
      BY <1>o, <2>1, <2>2 DEF ConnInv, EventInv, PlaceInv, PeerInv
    <2>4. \A d \in Conns : d # c => reading'[d] = reading[d]
      BY <1>t, <2>1
    <2> QED
      BY <1>c, <2>1, <2>2, <2>3, <2>4 DEF ConnInv
  <1>9. ASSUME NEW c \in Conns, ReadError(c) PROVE Calm'
    <2>1. /\ Reads(c) /\ (peer[c] \in {"gone", "reset"} \/ sock[c] = "closed")
          /\ reading' = [reading EXCEPT ![c] = "none"]
          /\ events' = Append(events, Event("disconnect", c))
          /\ UNCHANGED <<peer, sock, writing, queued, validated, connections_map>>
      BY <1>9 DEF ReadError
    <2>2. InUse(c) /\ reading'[c] = "none"
      BY <1>t, <2>1 DEF InUse
    <2>3. peer[c] \in {"gone", "reset"}
      BY <1>o, <2>1, <2>2 DEF ConnInv, PlaceInv
    <2>4. \A e \in PostedEvents : e.conn = c => e.kind \notin Ends
      BY <1>o, <2>1 DEF ConnInv, EventInv
    <2>5. /\ Event("disconnect", c) \in EventSet
          /\ Event("disconnect", c).kind = "disconnect" /\ Event("disconnect", c).conn = c
      BY EventFacts DEF OwningKinds
    <2>6. PostedEvents' = PostedEvents \cup {Event("disconnect", c)} /\ OrderInv'
      BY <1>o, <2>1, <2>4, <2>5, PostFacts
    <2>7. EventInv(c)'
      BY <1>o, <2>1, <2>2, <2>3, <2>5, <2>6 DEF ConnInv, EventInv, Reads
    <2>8. PlaceInv(c)'
      BY <1>o, <2>1, <2>2 DEF ConnInv, PlaceInv
    <2>9. AnswerPending(c)' => AnswerPending(c)
      BY <2>1, <2>5, <2>6, PendingFacts, EventFacts DEF RawKinds
    <2>10. PeerInv(c)'
      BY <1>o, <2>1, <2>9 DEF ConnInv, PeerInv
    <2>11. \A d \in Conns : d # c => reading'[d] = reading[d]
      BY <1>t, <2>1
    <2> QED
      BY <1>c, <2>1, <2>5, <2>6, <2>7, <2>8, <2>10, <2>11 DEF ConnInv
  <1>10. ASSUME NEW c \in Conns, RunSend(c) PROVE Calm'
    <2>1. /\ events # <<>> /\ Head(events) = Event("send", c) /\ events' = Tail(events)
          /\ queued' = [queued EXCEPT ![c] = queued[c] + 1]
          /\ writing' = [writing EXCEPT ![c] = writing[c] \/ queued[c] = 0]
          /\ UNCHANGED <<peer, sock, reading, validated, connections_map>>
      BY <1>10 DEF RunSend
    <2>2. Event("send", c) \in PostedEvents /\ Event("send", c).conn = c
      BY <2>1, HeadFacts, EventFacts DEF RawKinds
    <2>3. PostedEvents' \subseteq PostedEvents /\ OrderInv'
      BY <1>o, <2>1, RunFacts
    <2>4. InUse(c) /\ AnswerPending(c)
      BY <2>2, PendingFacts DEF InUse
    <2>5. EventInv(c)'
      BY <1>o, <2>1, <2>3 DEF ConnInv, EventInv, Reads
    <2>6. PlaceInv(c)' /\ PeerInv(c)'
      BY <1>o, <2>1, <2>4 DEF ConnInv, PlaceInv, PeerInv
    <2>7. \A d \in Conns : d # c => queued'[d] = queued[d] /\ writing'[d] = writing[d]
      BY <1>t, <2>1
    <2> QED
      BY <1>c, <2>1, <2>3, <2>5, <2>6, <2>7 DEF ConnInv
  <1>11. ASSUME NEW c \in Conns, WriteDone(c) PROVE Calm'
    <2>1. /\ writing[c]
          /\ queued' = [queued EXCEPT ![c] = queued[c] - 1]
          /\ writing' = [writing EXCEPT ![c] = queued[c] > 1]
          /\ UNCHANGED <<peer, sock, reading, validated, connections_map, events>>
      BY <1>11 DEF WriteDone
    <2>2. InUse(c) /\ AnswerPending(c)
      BY <2>1, PendingFacts DEF InUse
    <2>3. PostedEvents' = PostedEvents /\ OrderInv' /\ Reads(c)' = Reads(c)
      BY <1>o, <2>1 DEF PostedEvents, OrderInv, Reads
    <2>4. EventInv(c)' /\ PlaceInv(c)' /\ PeerInv(c)'
      BY <1>o, <2>1, <2>2, <2>3 DEF ConnInv, EventInv, PlaceInv, PeerInv
    <2>5. \A d \in Conns : d # c => queued'[d] = queued[d] /\ writing'[d] = writing[d]
      BY <1>t, <2>1
    <2> QED
      BY <1>c, <2>1, <2>3, <2>4, <2>5 DEF ConnInv
  <1>12. ASSUME NEW c \in Conns, WriteError(c) PROVE FALSE
    <2>1. writing[c] /\ (peer[c] = "reset" \/ sock[c] = "closed")
      BY <1>12 DEF WriteError
    <2>2. peer[c] = "up" /\ validated[c]
      BY <1>o, <2>1, PendingFacts DEF ConnInv, PeerInv
    <2> QED
      BY <1>o, <2>1, <2>2 DEF ConnInv, PeerInv
  <1>13. ASSUME NEW c \in Conns, ClientValidated(c) PROVE Calm'
    <2>1. /\ events # <<>> /\ events' = Tail(events)
          /\ UNCHANGED <<peer, connection, connections_map>>
      BY <1>13 DEF ClientValidated
    <2>2. PostedEvents' \subseteq PostedEvents /\ OrderInv'
      BY <1>o, <2>1, RunFacts
    <2>3. \A d \in Conns : ConnInv(d)'
      BY <1>o, <2>1, <2>2, OthersKeep DEF connection
    <2> QED
      BY <2>2, <2>3 DEF Calm
  <1>14. ASSUME NEW c \in Conns, ClientDisconnect(c) PROVE Calm'
    <2>1. PICK k \in Ends :
             Head(events) = Event(k, c) /\ events # <<>> /\ events' = Tail(events)
      BY <1>14 DEF ClientDisconnect, Ends
    <2>2. Event(k, c) \in PostedEvents /\ Head(events).kind = k /\ Head(events).conn = c
             /\ Event(k, c).kind = k /\ Event(k, c).conn = c
      BY <2>1, HeadFacts, EventFacts DEF OwningKinds, Ends
    <2>3. PostedEvents' \subseteq PostedEvents /\ OrderInv'
             /\ \A e \in PostedEvents' : e.conn # c
      BY <1>o, <2>1, <2>2, RunFacts
    <2>4. CASE ~PortKnown(c)
      <3>1. UNCHANGED <<peer, sock, reading, writing, queued, validated, connections_map>>
        BY <1>14, <2>4 DEF ClientDisconnect
      <3>2. \A d \in Conns : ConnInv(d)'
        BY <1>o, <2>3, <3>1, OthersKeep
      <3> QED
        BY <2>3, <3>2 DEF Calm
    <2>5. CASE PortKnown(c)
      <3>1. /\ sock' = [sock EXCEPT ![c] = "closed"]
            /\ connections_map' = [connections_map EXCEPT ![PortOf[c]] = NoConn]
            /\ UNCHANGED <<peer, reading, writing, queued, validated>>
        BY <1>14, <2>5 DEF ClientDisconnect
      <3>2. InUse(c) /\ connections_map[PortOf[c]] = c
        BY <1>o, <2>2 DEF ConnInv, PlaceInv, InUse
      <3>3. ~Reads(c) /\ (~validated[c] \/ peer[c] # "up")
        BY <1>o, <2>2 DEF ConnInv, EventInv, Ends
      <3>4. ~AnswerPending(c)
        BY <1>o, <3>3, PendingFacts DEF ConnInv, PeerInv
      <3>5. ~InUse(c)' /\ ~AnswerPending(c)'
        BY <2>3, <3>1, <3>3, <3>4, PendingFacts DEF InUse, Reads
      <3>6. sock'[c] = "closed" /\ peer[c] # "away"
        BY <1>o, <1>t, <2>5, <3>1 DEF ConnInv, PeerInv, PortKnown
      <3>7. EventInv(c)' /\ PlaceInv(c)' /\ PeerInv(c)'
        BY <2>3, <3>1, <3>3, <3>5, <3>6 DEF EventInv, PlaceInv, PeerInv
      <3>8. ASSUME NEW d \in Conns, d # c, sock[d] = "open" \/ InUse(d)
            PROVE  connections_map'[PortOf[d]] = connections_map[PortOf[d]]
        <4>1. connections_map[PortOf[d]] = d
          BY <1>o, <3>8 DEF ConnInv, PlaceInv
        <4> QED
          BY <1>t, <3>1, <3>2, <3>8, <4>1
      <3>9. \A d \in Conns : d # c => sock'[d] = sock[d]
        BY <1>t, <3>1
      <3> QED
        BY <1>c, <2>3, <3>1, <3>7, <3>8, <3>9 DEF ConnInv
    <2> QED
      BY <2>4, <2>5
  <1>15. ASSUME NEW c \in Conns, DanglingHandler(c) PROVE Calm'
    BY <1>0, <1>15 DEF DanglingHandler
  <1>16. CASE HandleMessage
    <2>1. PICK c \in Conns : c = handling /\ validated[c]
      BY <1>16 DEF HandleMessage, IInv, ServedInv, Valid
    <2>2. CASE UNCHANGED events
      BY <1>0, <1>16, <2>2 DEF HandleMessage
    <2>3. CASE events' = Append(events, Event("send", c)) /\ peer[c] = "up"
      <3>1. UNCHANGED <<peer, sock, reading, writing, queued, validated, connections_map>>
        BY <1>16 DEF HandleMessage, connection
      <3>2. sock[c] = "open"
        BY <1>o, <1>t, <2>1, <2>3 DEF ConnInv, PeerInv, IInv, LocalInv, HandshakeInv
      <3>3. /\ Event("send", c) \in EventSet
            /\ Event("send", c).kind = "send" /\ Event("send", c).conn = c
        BY EventFacts DEF RawKinds
      <3>4. \A e \in PostedEvents : e.conn = c => e.kind \notin Ends
        BY <1>o, <2>1, <2>3 DEF ConnInv, EventInv, Ends
      <3>5. PostedEvents' = PostedEvents \cup {Event("send", c)} /\ OrderInv'
        BY <1>o, <2>3, <3>3, <3>4, PostFacts
      <3>6. EventInv(c)'
        BY <1>o, <3>1, <3>3, <3>5 DEF ConnInv, EventInv, Ends, Reads
      <3>7. PlaceInv(c)' /\ PeerInv(c)'
        BY <1>o, <2>3, <3>1, <3>2 DEF ConnInv, PlaceInv, PeerInv
      <3> QED
        BY <1>c, <3>1, <3>3, <3>5, <3>6, <3>7 DEF ConnInv
    <2> QED
      BY <1>16, <1>n, <2>1, <2>2, <2>3 DEF HandleMessage
  <1> QED
    BY <1>1, <1>2, <1>3, <1>4, <1>5, <1>6, <1>7, <1>8, <1>9, <1>10, <1>11, <1>12, <1>13,
       <1>14, <1>15, <1>16
       DEF Next, Clients, Handlers, WrongHeader, Main

\* What still points at a connection keeps it in the map.
LEMMA CalmNoDangling ==
  ASSUME IInv, Calm, NEW c \in Conns, Freed(c)
  PROVE  ~HandlerPending(c)
  <1>1. PortOf[c] \in Ports /\ connections_map[PortOf[c]] # c
    BY ConnTypes DEF Freed, Referenced
  <1>2. ~InUse(c)
    BY <1>1 DEF Calm, ConnInv, PlaceInv
  <1>3. \A i \in 1..Len(events) : events[i].conn # c
    BY <1>2 DEF InUse, PostedEvents
  <1> QED
    BY <1>2, <1>3 DEF HandlerPending, InUse

\* A handler that has its turn finds the entry of its connection, and its port unless
\* the client was reset.
LEMMA CalmHead ==
  ASSUME IInv, Calm, events # <<>>, NEW c \in Conns, NEW k \in OwningKinds \cup RawKinds,
         Head(events) = Event(k, c)
  PROVE  /\ connections_map[PortOf[c]] # NoConn
         /\ peer[c] # "reset" => PortKnown(c)
  <1>1. Event(k, c) \in PostedEvents /\ Event(k, c).conn = c
    BY HeadFacts, EventFacts
  <1>2. InUse(c)
    BY <1>1 DEF InUse
  <1> QED
    BY <1>2, ConnAssumption DEF Calm, ConnInv, PlaceInv, PortKnown

\* What each step does to the loop, in a calm state.
LEMMA StepLoop ==
  ASSUME IInv, Calm, [Next]_vars
  PROVE  /\ loop # "undefined" => loop' # "undefined"
         /\ ResetInv /\ faults' = {} /\ loop = "running" => loop' = "running"
  <1>1. ASSUME NEW c \in Conns, DanglingHandler(c) PROVE FALSE
    BY <1>1, CalmNoDangling DEF DanglingHandler
  <1>2. ASSUME NEW c \in Conns, AcceptReset(c)
        PROVE  loop' # "undefined" /\ (ResetInv => faults' # {})
    BY <1>2 DEF AcceptReset, Throw, ResetInv
  <1>3. ASSUME AcceptFails \/ WrongHeader PROVE loop' # "undefined" /\ faults' # {}
    BY <1>3 DEF AcceptFails, WrongHeader, ReadThrows, Throw
  <1>4. ASSUME NEW c \in Conns, ClientValidated(c)
        PROVE  /\ loop # "undefined" => loop' # "undefined"
               /\ ResetInv /\ faults' = {} => loop' = loop
    <2>1. events # <<>> /\ Head(events) = Event("validated", c) /\ faults' = faults
      BY <1>4 DEF ClientValidated
    <2>2. connections_map[PortOf[c]] # NoConn /\ (peer[c] # "reset" => PortKnown(c))
      BY <2>1, CalmHead DEF OwningKinds
    <2> QED
      BY <1>4, <2>1, <2>2 DEF ClientValidated, Throw, ResetInv
  <1>5. ASSUME NEW c \in Conns, ClientDisconnect(c)
        PROVE  /\ loop # "undefined" => loop' # "undefined"
               /\ ResetInv /\ faults' = {} => loop' = loop
    <2>1. PICK k \in Ends : events # <<>> /\ Head(events) = Event(k, c) /\ faults' = faults
      BY <1>5 DEF ClientDisconnect, Ends
    <2>2. peer[c] # "reset" => PortKnown(c)
      BY <2>1, CalmHead DEF OwningKinds, Ends
    <2> QED
      BY <1>5, <2>1, <2>2 DEF ClientDisconnect, Throw, NoThrow, ResetInv
  <1>6. \/ \E c \in Conns : \/ AcceptReset(c) \/ DanglingHandler(c)
                            \/ ClientValidated(c) \/ ClientDisconnect(c)
        \/ AcceptFails \/ WrongHeader \/ loop' = loop
    BY DEF Next, Clients, Handlers, Main, Connect, Leave, Reset, Accept, ValidationWritten,
           ReadValidation, ReadMessage, ReadError, RunSend, WriteDone, WriteError,
           TakeMessage, HandleMessage, NoThrow, vars
  <1> QED
    BY <1>1, <1>2, <1>3, <1>4, <1>5, <1>6

\* A reset is entered in the history when it happens.
LEMMA StepReset ==
  ASSUME IInv, ResetInv, [Next]_vars
  PROVE  ResetInv'
  <1>1. peer \in [Conns -> {"away", "up", "gone", "reset"}] /\ faults \subseteq faults'
    BY ConnTypes, FaultsStay
  <1>2. ASSUME NEW c \in Conns, Connect(c) \/ Leave(c) \/ Reset(c) \/ Accept(c)
        PROVE  ResetInv'
    BY <1>1, <1>2 DEF Connect, Leave, Reset, Accept, ResetInv
  <1>3. ASSUME peer' = peer PROVE ResetInv'
    BY <1>1, <1>3 DEF ResetInv
  <1>4. \/ \E c \in Conns : Connect(c) \/ Leave(c) \/ Reset(c) \/ Accept(c)
        \/ peer' = peer
    BY DEF Next, Clients, Handlers, WrongHeader, Main, AcceptReset, AcceptFails,
           ValidationWritten, ReadValidation, ReadMessage, ReadThrows, ReadError, RunSend,
           WriteDone, WriteError, ClientValidated, ClientDisconnect, DanglingHandler,
           TakeMessage, HandleMessage, vars
  <1> QED
    BY <1>2, <1>3, <1>4

LEMMA InitCalmInv == Init => CalmInv
  <1> SUFFICES ASSUME Init PROVE CalmInv
    OBVIOUS
  <1>1. PostedEvents = {} /\ OrderInv
    BY DEF Init, PostedEvents, OrderInv
  <1>2. ASSUME NEW c \in Conns PROVE ConnInv(c)
    <2>1. ~InUse(c) /\ ~AnswerPending(c)
      BY <1>1 DEF Init, InUse, Reads, AnswerPending
    <2> QED
      BY <1>1, <2>1 DEF Init, ConnInv, EventInv, PlaceInv, PeerInv
  <1> QED
    BY <1>1, <1>2 DEF Init, CalmInv, Calm, ResetInv

LEMMA StepCalmInv == IInv /\ CalmInv /\ [Next]_vars => CalmInv'
  <1> SUFFICES ASSUME IInv, CalmInv, [Next]_vars PROVE CalmInv'
    OBVIOUS
  <1>1. faults \subseteq faults'
    BY FaultsStay
  <1>2. Tolerated' => Tolerated
    BY <1>1 DEF Tolerated
  <1>3. Tolerated' => Calm' /\ loop' # "undefined"
    BY <1>2, StepCalm, StepLoop DEF CalmInv
  <1>4. faults' = {} => loop' = "running"
    BY <1>1, StepLoop DEF CalmInv, Tolerated
  <1>5. ResetInv'
    BY StepReset DEF CalmInv
  <1> QED
    BY <1>3, <1>4, <1>5 DEF CalmInv

\* Whatever clients connect, are validated or fail, send, leave or are reset, and
\* whichever accepts and headers throw: on_client_disconnect (connection.cpp:276)
\* frees a connection only after the last handler that holds a raw pointer to it,
\* until a port is accepted while connections_map has its entry (server.cpp:115) or a
\* client ends before its answer is written.
THEOREM NoHandlerDangles == Spec => []NoDanglingHandler
  <1>1. IInv /\ CalmInv => NoDanglingHandler
    BY CalmNoDangling DEF CalmInv, NoDanglingHandler
  <1> QED
    BY <1>1, InitCalmInv, StepCalmInv, Invariance, PTL DEF Spec

\* Until then no handler uses an entry that is not there; and as long as nothing else
\* of the history happened, neither a reset, nor a failing accept, nor a header of a
\* size that resize throws at, no handler throws and the loop is never restarted.
THEOREM LoopStaysUp == Spec => []LoopUndisturbed
  <1>1. CalmInv => LoopUndisturbed
    BY DEF CalmInv, LoopUndisturbed
  <1> QED
    BY <1>1, InitCalmInv, StepCalmInv, Invariance, PTL DEF Spec
=============================================================================
