------------------------ MODULE MessageStream_proofs ------------------------
(***************************************************************************)
(* Proofs about MessageStream for any messages with bodies of any size.    *)
(* Pipelined or not: the types, one write at a time of a message that is   *)
(* in the queue (IInv), and the message that opens a burst ends it with    *)
(* its header and body together (BurstInv).  With one message in flight:   *)
(* the stream implements FifoChannel (SerialInv, the five stages of the    *)
(* message on its way), and what left the queue was written.               *)
(***************************************************************************)
EXTENDS MessageStream, SequenceTheorems, TLAPS

\* The types of what the write handlers work on.
WriterOK == /\ posted \in Seq(Messages)
            /\ deq_messages_out \in Seq(Messages)
            /\ writing \in Seq(Write)

IInv == WriterOK /\ OneWriteAtATime /\ WrittenBufferIsQueued

\* Of a queue with at most one element.
LEMMA ShortQueue ==
  ASSUME NEW S, NEW s \in Seq(S), Len(s) <= 1, s # <<>>
  PROVE  Len(s) = 1 /\ Tail(s) = <<>> /\ s[1] \in S
  <1>0. Len(s) \in Nat \ {0}
    BY EmptySeq, Zenon
  <1>1. Len(s) = 1
    BY <1>0
  <1>2. Tail(s) \in Seq(S) /\ Len(Tail(s)) = 0
    BY <1>1, HeadTailProperties
  <1>3. Tail(s) = <<>>
    BY <1>2, EmptySeq
  <1>4. s[1] \in S
    BY <1>1, ElementOfSeq
  <1> QED
    BY <1>1, <1>3, <1>4

\* What is in the deque stays in it when a message is pushed to its front.
LEMMA PushFrontKeeps ==
  ASSUME NEW S, NEW s \in Seq(S), NEW x \in S, NEW y, Contains(s, y)
  PROVE  /\ <<x>> \o s \in Seq(S)
         /\ Len(<<x>> \o s) = 1 + Len(s)
         /\ Contains(<<x>> \o s, y)
  <1>0. <<x>> \o s \in Seq(S) /\ Len(<<x>> \o s) = 1 + Len(s)
    <2>1. <<x>> \in Seq(S) /\ Len(<<x>>) = 1
      OBVIOUS
    <2> QED
      BY <2>1, ConcatProperties
  <1>1. PICK i \in 1..Len(s) : s[i] = y
    BY DEF Contains
  <1>2. (<<x>> \o s)[i + 1] = y /\ i + 1 \in 1..Len(<<x>> \o s)
    BY <1>0, <1>1
  <1> QED
    BY <1>0, <1>2 DEF Contains

\* The front of a deque is in it.
LEMMA FrontIsIn ==
  ASSUME NEW S, NEW s \in Seq(S), s # <<>>
  PROVE  Head(s) \in S /\ Contains(s, Head(s)) /\ Tail(s) \in Seq(S)
  BY DEF Contains

\* A write handler that ends its write and starts one of part p for the front of
\* the deque, if there is one.
StartsNext(q, w) ==
    \/ q = <<>> /\ w = <<>>
    \/ q # <<>> /\ \E p \in {"header", "body"} : w = <<[part |-> p, msg |-> Head(q)]>>

LEMMA StartsNextInv ==
  ASSUME NEW q \in Seq(Messages), NEW w, StartsNext(q, w)
  PROVE  /\ w \in Seq(Write) /\ Len(w) <= 1
         /\ w # <<>> <=> q # <<>>
         /\ \A i \in 1..Len(w) : Contains(q, w[i].msg)
  <1>1. CASE q = <<>>
    BY <1>1 DEF StartsNext
  <1>2. CASE q # <<>>
    <2>1. PICK p \in {"header", "body"} : w = <<[part |-> p, msg |-> Head(q)]>>
      BY <1>2 DEF StartsNext
    <2>2. Head(q) \in Messages /\ Contains(q, Head(q))
      BY <1>2, FrontIsIn
    <2> QED
      BY <1>2, <2>1, <2>2 DEF Write
  <1> QED
    BY <1>1, <1>2

LEMMA InitIInv == Init => IInv
  BY DEF Init, IInv, WriterOK, OneWriteAtATime, WrittenBufferIsQueued

LEMMA PopStartsNext ==
  ASSUME IInv, PopAndContinue, writing # <<>>
  PROVE  deq_messages_out' \in Seq(Messages) /\ StartsNext(deq_messages_out', writing')
  <1>1. deq_messages_out \in Seq(Messages) /\ deq_messages_out # <<>>
           /\ Tail(writing) = <<>>
    BY ShortQueue DEF IInv, WriterOK, OneWriteAtATime
  <1>2. deq_messages_out' \in Seq(Messages)
    BY <1>1, FrontIsIn DEF PopAndContinue
  <1>3. CASE deq_messages_out' = <<>>
    BY <1>1, <1>3 DEF PopAndContinue, StartsNext
  <1>4. CASE deq_messages_out' # <<>>
    <2>1. writing' = Append(<<>>, WriteHeader(deq_messages_out'))
      BY <1>1, <1>4 DEF PopAndContinue
    <2>2. writing' = <<[part |-> "header", msg |-> Head(deq_messages_out')]>>
      BY <2>1 DEF WriteHeader
    <2> QED
      BY <1>2, <1>4, <2>2 DEF StartsNext
  <1> QED
    BY <1>2, <1>3, <1>4

LEMMA StepIInv == IInv /\ [Next]_vars => IInv'
  <1> SUFFICES ASSUME IInv, [Next]_vars PROVE IInv'
    OBVIOUS
  <1>0. ASSUME posted' \in Seq(Messages), deq_messages_out' \in Seq(Messages),
               StartsNext(deq_messages_out', writing')
        PROVE  IInv'
    <2>1. /\ writing' \in Seq(Write) /\ Len(writing') <= 1
          /\ writing' # <<>> <=> deq_messages_out' # <<>>
          /\ \A i \in 1..Len(writing') : Contains(deq_messages_out', writing'[i].msg)
      BY <1>0, StartsNextInv
    <2>2. WriterOK'
      BY <1>0, <2>1 DEF WriterOK
    <2>3. OneWriteAtATime'
      BY <2>1 DEF OneWriteAtATime
    <2>4. WrittenBufferIsQueued'
      BY <2>1 DEF WrittenBufferIsQueued, Contains
    <2> QED
      BY <2>2, <2>3, <2>4 DEF IInv
  <1>t. posted \in Seq(Messages) /\ deq_messages_out \in Seq(Messages)
           /\ writing \in Seq(Write)
    BY DEF IInv, WriterOK
  <1>1. ASSUME NEW m \in Messages, Send(m) PROVE IInv'
    BY <1>1, <1>t DEF Send, reader, IInv, WriterOK, OneWriteAtATime,
                      WrittenBufferIsQueued
  <1>2. CASE RunSend
    <2>1. posted' \in Seq(Messages) /\ Head(posted) \in Messages
      BY <1>2, <1>t, FrontIsIn DEF RunSend
    <2>2. CASE deq_messages_out = <<>>
      <3>1. writing = <<>>
        BY <2>2 DEF IInv, OneWriteAtATime
      <3>2. deq_messages_out' = <<Head(posted)>>
        BY <1>2, <2>1, <2>2 DEF RunSend
      <3>3. writing' = <<WriteHeader(deq_messages_out')>>
        BY <1>2, <2>2, <3>1 DEF RunSend
      <3>4. deq_messages_out' \in Seq(Messages)
               /\ StartsNext(deq_messages_out', writing')
        BY <2>1, <3>2, <3>3 DEF StartsNext, WriteHeader
      <3> QED
        BY <1>0, <2>1, <3>4
    <2>3. CASE deq_messages_out # <<>>
      <3>1. writing' = writing /\ broken' = broken
               /\ deq_messages_out' = <<Head(posted)>> \o deq_messages_out
        BY <1>2, <2>3 DEF RunSend
      <3>2. deq_messages_out' \in Seq(Messages) /\ deq_messages_out' # <<>>
        BY <1>t, <2>1, <3>1
      <3>3. WrittenBufferIsQueued'
        BY <1>t, <2>1, <3>1, PushFrontKeeps DEF IInv, WrittenBufferIsQueued
      <3> QED
        BY <1>t, <2>1, <2>3, <3>1, <3>2, <3>3 DEF IInv, WriterOK, OneWriteAtATime
    <2> QED
      BY <2>2, <2>3
  <1>3. CASE HeaderWritten
    <2>1. CASE BodySize[Head(deq_messages_out)] > 0
      <3>1. deq_messages_out # <<>> /\ Tail(writing) = <<>>
        BY <1>3, <1>t, ShortQueue DEF HeaderWritten, IInv, OneWriteAtATime
      <3>2. writing' = Append(<<>>, WriteBody(deq_messages_out))
               /\ deq_messages_out' = deq_messages_out
        BY <1>3, <2>1, <3>1 DEF HeaderWritten
      <3>3. writing' = <<[part |-> "body", msg |-> Head(deq_messages_out')]>>
        BY <3>2 DEF WriteBody
      <3>4. StartsNext(deq_messages_out', writing')
        BY <3>1, <3>2, <3>3 DEF StartsNext
      <3> QED
        BY <1>0, <1>3, <1>t, <3>2, <3>4 DEF HeaderWritten
    <2>2. CASE ~(BodySize[Head(deq_messages_out)] > 0)
      BY <1>0, <1>3, <1>t, <2>2, PopStartsNext DEF HeaderWritten
    <2> QED
      BY <2>1, <2>2
  <1>4. CASE BodyWritten
    BY <1>0, <1>4, <1>t, PopStartsNext DEF BodyWritten
  <1>5. CASE WriteFails
    <2>1. writing' = <<>>
      BY <1>5, <1>t, ShortQueue DEF WriteFails, IInv, OneWriteAtATime
    <2> QED
      BY <1>5, <1>t, <2>1 DEF WriteFails, IInv, WriterOK, OneWriteAtATime,
                              WrittenBufferIsQueued
  <1>6. CASE Reader \/ Break \/ UNCHANGED vars
    <2>1. UNCHANGED writer /\ (broken' = broken \/ broken' = TRUE)
      BY <1>6 DEF Reader, Break, vars, ReadHeader, ResizeThrows, ReadBody, ReadFails
    <2> QED
      BY <2>1 DEF writer, IInv, WriterOK, OneWriteAtATime, WrittenBufferIsQueued
  <1> QED
    BY <1>1, <1>2, <1>3, <1>4, <1>5, <1>6 DEF Next, Writer

LEMMA Invariance == Spec => []IInv
  BY InitIInv, StepIInv, PTL DEF Spec

\* send starts a write on an empty queue only and the handlers start the next one
\* only when theirs is over, so no two writes are in progress on one socket.
THEOREM SingleWrite == Spec => []OneWriteAtATime
  BY Invariance, PTL DEF IInv

\* The bytes being written belong to a message the queue still holds, although
\* the handlers may pop another one than they wrote.
THEOREM BufferQueued == Spec => []WrittenBufferIsQueued
  BY Invariance, PTL DEF IInv
-----------------------------------------------------------------------------
(* Types *)

\* A body is read only of a message with at least a header.
TypeInv == TypeOK /\ (reading = "body" => temp_message.size > 0)

LEMMA BodyFacts ==
  ASSUME NEW m \in Messages
  PROVE  /\ BodySize[m] \in Nat
         /\ Header(m) \in Unit
         /\ Body(m) \in Seq(Unit) /\ Len(Body(m)) = BodySize[m]
         /\ \A i \in 1..BodySize[m] : Body(m)[i] = [msg |-> m, part |-> i]
         /\ HeaderSize(m) \in Nat
  <1>1. BodySize[m] \in Nat
    BY MessageAssumption
  <1>2. Body(m) \in [1..BodySize[m] -> Unit]
    BY <1>1 DEF Body, Unit
  <1>3. Body(m) \in Seq(Unit) /\ Len(Body(m)) = BodySize[m]
    BY <1>1, <1>2
  <1>4. \A i \in 1..BodySize[m] : Body(m)[i] = [msg |-> m, part |-> i]
    BY DEF Body
  <1>5. Header(m) \in Unit
    BY DEF Header, Unit
  <1>6. HeaderSize(m) \in Nat
    BY <1>1 DEF HeaderSize
  <1> QED
    BY <1>1, <1>3, <1>4, <1>5, <1>6

LEMMA InitTypeInv == Init => TypeInv
  <1> SUFFICES ASSUME Init PROVE TypeInv
    OBVIOUS
  <1>1. \A S : <<>> \in Seq(S)
    BY EmptySeq
  <1>2. Len(wire) = 0 /\ readPos \in 0..Len(wire)
    BY EmptySeq DEF Init
  <1>3. temp_message \in TempMessage
    BY <1>1 DEF Init, TempMessage
  <1> QED
    BY <1>1, <1>2, <1>3 DEF Init, TypeInv, TypeOK

LEMMA ReadHeaderTypes ==
  ASSUME TypeInv, ReadHeader
  PROVE  TypeInv'
  <1>1. /\ reading = "header" /\ Len(wire) - readPos > 0
        /\ readPos' = readPos + 1
        /\ UNCHANGED <<sent, posted, deq_messages_out, writing, wire, broken>>
    BY DEF ReadHeader, Unread, writer
  <1>2. PICK claim \in Claims(wire[readPos + 1]) :
          /\ temp_message' = [id |-> claim.id, size |-> claim.size,
                              body |-> temp_message.body]
          /\ IF claim.size > 0
             THEN reading' = "body" /\ UNCHANGED deq_messages_in
             ELSE reading' = "header" /\ Deliver(temp_message')
    BY DEF ReadHeader
  <1>3. /\ readPos \in Nat /\ Len(wire) \in Nat /\ readPos + 1 \in 1..Len(wire)
        /\ wire \in Seq(Unit)
    BY <1>1, LenProperties DEF TypeInv, TypeOK
  <1>4. wire[readPos + 1] \in Unit
    BY <1>3, ElementOfSeq
  <1>5. claim.id \in Messages \cup {Garbage} /\ claim.size \in Nat
    <2>1. CASE wire[readPos + 1].part = 0
      BY <1>2, <1>4, <2>1, BodyFacts DEF Claims, Unit
    <2>2. CASE wire[readPos + 1].part # 0
      BY <1>2, <2>2, MessageAssumption DEF Claims
    <2> QED
      BY <2>1, <2>2
  <1>6. temp_message' \in TempMessage /\ temp_message'.size = claim.size
    BY <1>2, <1>5 DEF TypeInv, TypeOK, TempMessage
  <1>7. deq_messages_in' \in Seq(TempMessage)
    <2>1. deq_messages_in \in Seq(TempMessage)
      BY DEF TypeInv, TypeOK
    <2>2. Append(deq_messages_in, temp_message') \in Seq(TempMessage)
      BY <1>6, <2>1, AppendProperties
    <2> QED
      BY <1>2, <2>1, <2>2 DEF Deliver
  <1>8. reading' \in {"header", "body"} /\ (reading' = "body" => temp_message'.size > 0)
    BY <1>2, <1>6
  <1>9. readPos' \in 0..Len(wire')
    BY <1>1, <1>3
  <1> QED
    BY <1>1, <1>6, <1>7, <1>8, <1>9 DEF TypeInv, TypeOK

LEMMA ReadBodyTypes ==
  ASSUME TypeInv, ReadBody
  PROVE  TypeInv'
  <1> DEFINE size == temp_message.size - 1
             body == SubSeq(wire, readPos + 1, readPos + size)
  <1>1. /\ reading = "body" /\ Len(wire) - readPos >= size
        /\ readPos' = readPos + size
        /\ temp_message' = [temp_message EXCEPT !.body = body]
        /\ deq_messages_in' = Append(deq_messages_in, temp_message')
        /\ reading' = "header"
        /\ UNCHANGED <<sent, posted, deq_messages_out, writing, wire, broken>>
    BY DEF ReadBody, Unread, writer, Deliver
  <1>2. /\ temp_message \in TempMessage /\ temp_message.size \in Nat
        /\ temp_message.size > 0 /\ size \in Nat
    BY <1>1 DEF TypeInv, TypeOK, TempMessage
  <1>3. wire \in Seq(Unit) /\ Len(wire) \in Nat /\ readPos \in Nat
    BY LenProperties DEF TypeInv, TypeOK
  <1> HIDE DEF size
  <1>4. body \in Seq(Unit)
    <2>1. \A i \in readPos + 1..readPos + size : wire[i] \in Unit
      BY <1>1, <1>2, <1>3, ElementOfSeq
    <2> QED
      BY <1>2, <1>3, <2>1, SubSeqProperties
  <1> HIDE DEF body
  <1>5. temp_message' \in TempMessage
    BY <1>1, <1>2, <1>4 DEF TempMessage
  <1>6. deq_messages_in' \in Seq(TempMessage)
    BY <1>1, <1>5, AppendProperties DEF TypeInv, TypeOK
  <1>7. readPos' \in 0..Len(wire')
    BY <1>1, <1>2, <1>3
  <1> QED
    BY <1>1, <1>5, <1>6, <1>7 DEF TypeInv, TypeOK

\* What a write handler puts on the wire leaves the reader as it is.
LEMMA WriteTypes ==
  ASSUME TypeInv, WriterOK', NEW units \in Seq(Unit), wire' = wire \o units,
         UNCHANGED <<sent, reader>>, broken' \in BOOLEAN
  PROVE  TypeInv'
  <1>1. /\ wire \in Seq(Unit) /\ Len(wire) \in Nat /\ Len(units) \in Nat
        /\ readPos \in 0..Len(wire)
    BY LenProperties DEF TypeInv, TypeOK
  <1>2. wire' \in Seq(Unit) /\ Len(wire') = Len(wire) + Len(units)
    BY <1>1, ConcatProperties
  <1>3. readPos' \in 0..Len(wire')
    BY <1>1, <1>2 DEF reader
  <1> QED
    BY <1>2, <1>3 DEF TypeInv, TypeOK, WriterOK, reader

LEMMA StepTypeInv == TypeInv /\ IInv /\ [Next]_vars => TypeInv'
  <1> SUFFICES ASSUME TypeInv, IInv, [Next]_vars PROVE TypeInv'
    OBVIOUS
  <1>1. WriterOK'
    BY StepIInv DEF IInv
  <1>2. ASSUME NEW m \in Messages, Send(m) PROVE TypeInv'
    BY <1>1, <1>2 DEF Send, TypeInv, TypeOK, reader, WriterOK
  <1>3. wire \in Seq(Unit) /\ wire \o <<>> = wire /\ <<>> \in Seq(Unit) /\ broken \in BOOLEAN
    BY ConcatEmptySeq, EmptySeq DEF TypeInv, TypeOK
  <1>4. CASE RunSend
    BY <1>1, <1>3, <1>4, WriteTypes DEF RunSend
  <1>5. ASSUME writing # <<>> PROVE writing[1].msg \in Messages
    <2>1. writing[1] \in Write
      BY <1>5, ShortQueue DEF IInv, WriterOK, OneWriteAtATime
    <2> QED
      BY <2>1 DEF Write
  <1>6. CASE HeaderWritten
    <2> DEFINE m == writing[1].msg
    <2>1. m \in Messages
      BY <1>5, <1>6 DEF HeaderWritten
    <2>2. Header(m) \in Unit
      BY <2>1, BodyFacts
    <2>3. wire' = wire \o <<Header(m)>> /\ <<Header(m)>> \in Seq(Unit)
      BY <1>3, <1>6, <2>2, AppendIsConcat DEF HeaderWritten
    <2>4. UNCHANGED <<sent, reader, broken>>
      BY <1>6 DEF HeaderWritten
    <2> QED
      BY <1>1, <1>3, <2>3, <2>4, WriteTypes
  <1>7. CASE BodyWritten
    <2>1. Body(writing[1].msg) \in Seq(Unit)
      BY <1>5, <1>7, BodyFacts DEF BodyWritten
    <2> QED
      BY <1>1, <1>3, <1>7, <2>1, WriteTypes DEF BodyWritten
  <1>8. CASE WriteFails
    BY <1>1, <1>3, <1>8, WriteTypes DEF WriteFails
  <1>9. CASE ResizeThrows
    <2>1. /\ readPos \in Nat /\ Len(wire) \in Nat /\ Len(wire) - readPos > 0
          /\ readPos' = readPos + 1 /\ wire' = wire
      BY <1>9, LenProperties DEF ResizeThrows, Unread, TypeInv, TypeOK
    <2>2. readPos' \in 0..Len(wire')
      BY <2>1
    <2> QED
      BY <1>9, <2>2 DEF ResizeThrows, TypeInv, TypeOK, writer
  <1>10. CASE ReadFails
    BY <1>10 DEF ReadFails, TypeInv, TypeOK, writer
  <1>11. CASE Break \/ UNCHANGED vars
    BY <1>11 DEF Break, vars, TypeInv, TypeOK, writer, reader
  <1> QED
    BY <1>2, <1>4, <1>6, <1>7, <1>8, <1>9, <1>10, <1>11, ReadHeaderTypes, ReadBodyTypes
       DEF Next, Writer, Reader

LEMMA TypeInvariance == Spec => []TypeInv
  BY InitTypeInv, StepTypeInv, Invariance, PTL DEF Spec

\* The types of all variables.  What is not obvious is that the reader never runs past
\* the end of the wire, whatever size a header it takes from garbage claims.
THEOREM TypesAreKept == Spec => []TypeOK
  BY TypeInvariance, PTL DEF TypeInv
-----------------------------------------------------------------------------
(* The opener of a burst *)

\* No message is twice in the two queues, and what is in them was sent.
Distinct(queue) == \A i, j \in 1..Len(queue) : queue[i] = queue[j] => i = j

QueuedOnce ==
    /\ Distinct(posted) /\ Distinct(deq_messages_out)
    /\ \A m \in Messages :
          /\ Contains(posted, m) => Contains(sent, m) /\ ~Contains(deq_messages_out, m)
          /\ Contains(deq_messages_out, m) => Contains(sent, m)

\* A body that is written of the last message of the queue follows its own header.
\* Of the others this is not so.
OpenerInv ==
    (writing # <<>> /\ writing[1].part = "body"
        /\ writing[1].msg = deq_messages_out[Len(deq_messages_out)]) =>
            wire # <<>> /\ wire[Len(wire)] = Header(writing[1].msg)

BurstInv == QueuedOnce /\ OpenerInv

LEMMA TailContains ==
  ASSUME NEW S, NEW s \in Seq(S), s # <<>>
  PROVE  /\ Contains(s, Head(s))
         /\ \A x : Contains(Tail(s), x) => Contains(s, x)
         /\ Distinct(s) => Distinct(Tail(s)) /\ ~Contains(Tail(s), Head(s))
  <1>1. /\ Len(s) \in Nat \ {0} /\ Head(s) = s[1]
        /\ Len(Tail(s)) = Len(s) - 1
        /\ \A i \in 1..Len(s) - 1 : Tail(s)[i] = s[i + 1]
    BY HeadTailProperties, EmptySeq
  <1>2. \A i \in 1..Len(s) - 1 : i + 1 \in 1..Len(s) /\ i + 1 # 1
    BY <1>1
  <1>3. 1 \in 1..Len(s)
    BY <1>1
  <1>4. Contains(s, Head(s))
    BY <1>1, <1>3 DEF Contains
  <1>5. \A x : Contains(Tail(s), x) => Contains(s, x)
    BY <1>1, <1>2 DEF Contains
  <1>6. ASSUME Distinct(s) PROVE Distinct(Tail(s)) /\ ~Contains(Tail(s), Head(s))
    <2>1. ASSUME NEW i \in 1..Len(s) - 1, NEW j \in 1..Len(s) - 1, Tail(s)[i] = Tail(s)[j]
          PROVE  i = j
      <3>1. i + 1 = j + 1
        BY <1>1, <1>2, <1>6, <2>1 DEF Distinct
      <3> QED
        BY <3>1
    <2>2. ASSUME NEW i \in 1..Len(s) - 1 PROVE Tail(s)[i] # Head(s)
      BY <1>1, <1>2, <1>3, <1>6 DEF Distinct
    <2> QED
      BY <1>1, <2>1, <2>2 DEF Distinct, Contains
  <1> QED
    BY <1>4, <1>5, <1>6

LEMMA PushContains ==
  ASSUME NEW S, NEW s \in Seq(S), NEW x \in S
  PROVE  /\ \A y : Contains(<<x>> \o s, y) <=> y = x \/ Contains(s, y)
         /\ Distinct(s) /\ ~Contains(s, x) => Distinct(<<x>> \o s)
  <1> DEFINE t == <<x>> \o s
  <1>1. <<x>> \in Seq(S) /\ Len(<<x>>) = 1 /\ <<x>>[1] = x /\ Len(s) \in Nat
    BY LenProperties
  <1>2. /\ Len(t) = 1 + Len(s)
        /\ \A i \in 1..1 + Len(s) : t[i] = IF i <= 1 THEN x ELSE s[i - 1]
    BY <1>1, ConcatProperties
  <1> HIDE DEF t
  <1>3. t[1] = x /\ \A i \in 1..Len(s) : t[i + 1] = s[i]
    BY <1>1, <1>2
  <1>4. \A i \in 1..Len(t) : i = 1 \/ (i - 1 \in 1..Len(s) /\ t[i] = s[i - 1])
    BY <1>1, <1>2
  <1>5. 1 \in 1..Len(t) /\ \A i \in 1..Len(s) : i + 1 \in 1..Len(t)
    BY <1>1, <1>2
  <1>6. ASSUME NEW y PROVE Contains(t, y) <=> y = x \/ Contains(s, y)
    BY <1>3, <1>4, <1>5 DEF Contains
  <1>7. ASSUME Distinct(s), ~Contains(s, x) PROVE Distinct(t)
    <2> SUFFICES ASSUME NEW i \in 1..Len(t), NEW j \in 1..Len(t), t[i] = t[j]
                 PROVE  i = j
      BY DEF Distinct
    <2>1. i - 1 \in 1..Len(s) /\ j - 1 \in 1..Len(s) => i - 1 = j - 1
      BY <1>2, <1>4, <1>7 DEF Distinct
    <2>2. i = 1 \/ i - 1 \in 1..Len(s)
      BY <1>4
    <2>3. j = 1 \/ j - 1 \in 1..Len(s)
      BY <1>4
    <2>4. i = 1 => ~(j - 1 \in 1..Len(s) /\ t[j] = s[j - 1])
      BY <1>3, <1>7 DEF Contains
    <2>5. j = 1 => ~(i - 1 \in 1..Len(s) /\ t[i] = s[i - 1])
      BY <1>3, <1>7 DEF Contains
    <2> QED
      BY <1>4, <2>1, <2>2, <2>3, <2>4, <2>5
  <1> QED
    BY <1>6, <1>7 DEF t

LEMMA AppendContains ==
  ASSUME NEW S, NEW s \in Seq(S), NEW x \in S
  PROVE  /\ \A y : Contains(Append(s, x), y) <=> y = x \/ Contains(s, y)
         /\ Distinct(s) /\ ~Contains(s, x) => Distinct(Append(s, x))
  <1> DEFINE t == Append(s, x)
  <1>1. /\ Len(s) \in Nat /\ Len(t) = Len(s) + 1
        /\ t[Len(s) + 1] = x /\ \A i \in 1..Len(s) : t[i] = s[i]
    BY LenProperties, AppendProperties
  <1> HIDE DEF t
  <1>2. \A i \in 1..Len(t) : i = Len(s) + 1 \/ i \in 1..Len(s)
    BY <1>1
  <1>3. Len(s) + 1 \in 1..Len(t) /\ \A i \in 1..Len(s) : i \in 1..Len(t)
    BY <1>1
  <1>4. ASSUME NEW y PROVE Contains(t, y) <=> y = x \/ Contains(s, y)
    BY <1>1, <1>2, <1>3 DEF Contains
  <1>5. ASSUME Distinct(s), ~Contains(s, x) PROVE Distinct(t)
    BY <1>1, <1>2, <1>5 DEF Distinct, Contains
  <1> QED
    BY <1>4, <1>5 DEF t

LEMMA InitBurstInv == Init => BurstInv
  BY EmptySeq DEF Init, BurstInv, QueuedOnce, OpenerInv, Distinct, Contains

LEMMA OneQueued ==
  ASSUME IInv, QueuedOnce, writing # <<>>
  PROVE  /\ deq_messages_out \in Seq(Messages) /\ deq_messages_out # <<>>
         /\ Len(deq_messages_out) \in Nat \ {0}
         /\ Head(deq_messages_out) = deq_messages_out[1]
         /\ writing[1] \in Write /\ Tail(writing) = <<>>
         /\ Contains(deq_messages_out, writing[1].msg)
  <1>1. /\ deq_messages_out \in Seq(Messages) /\ deq_messages_out # <<>>
        /\ writing[1] \in Write /\ Tail(writing) = <<>> /\ Len(writing) = 1
    BY ShortQueue DEF IInv, WriterOK, OneWriteAtATime
  <1>2. Contains(deq_messages_out, writing[1].msg)
    BY <1>1 DEF IInv, WrittenBufferIsQueued
  <1> QED
    BY <1>1, <1>2, EmptySeq

\* A handler that pops leaves the messages queued once, and writes no body.
LEMMA PopBurst ==
  ASSUME IInv, QueuedOnce, writing # <<>>, PopAndContinue, UNCHANGED <<sent, posted>>
  PROVE  QueuedOnce' /\ (writing' # <<>> => writing'[1].part = "header")
  <1>1. deq_messages_out \in Seq(Messages) /\ deq_messages_out # <<>> /\ Tail(writing) = <<>>
    BY OneQueued
  <1>2. deq_messages_out' = Tail(deq_messages_out)
    BY DEF PopAndContinue
  <1>3. /\ \A x : Contains(deq_messages_out', x) => Contains(deq_messages_out, x)
        /\ Distinct(deq_messages_out')
    BY <1>1, <1>2, TailContains DEF QueuedOnce
  <1>4. QueuedOnce'
    BY <1>3 DEF QueuedOnce
  <1>5. writing' # <<>> => writing'[1].part = "header"
    <2>1. writing' = <<>> \/ writing' = Append(<<>>, WriteHeader(Tail(deq_messages_out)))
      BY <1>1 DEF PopAndContinue
    <2>2. writing' = <<>> \/ writing' = <<WriteHeader(Tail(deq_messages_out))>>
      BY <2>1
    <2> QED
      BY <2>2 DEF WriteHeader
  <1> QED
    BY <1>4, <1>5

LEMMA RunSendBurst ==
  ASSUME TypeInv, IInv, BurstInv, RunSend
  PROVE  BurstInv'
  <1> DEFINE m == Head(posted)
             q == deq_messages_out
  <1>1. /\ posted \in Seq(Messages) /\ posted # <<>> /\ q \in Seq(Messages)
        /\ posted' = Tail(posted) /\ deq_messages_out' = <<m>> \o q
        /\ UNCHANGED <<sent, wire>>
    BY DEF RunSend, IInv, WriterOK
  <1>2. m \in Messages
    BY <1>1, FrontIsIn
  <1>3. /\ Contains(posted, m)
        /\ \A x : Contains(posted', x) => Contains(posted, x)
        /\ Distinct(posted') /\ ~Contains(posted', m)
    BY <1>1, TailContains DEF BurstInv, QueuedOnce
  <1>4. Contains(sent, m) /\ ~Contains(q, m)
    BY <1>2, <1>3 DEF BurstInv, QueuedOnce
  <1> HIDE DEF m
  <1>5. /\ \A y : Contains(deq_messages_out', y) <=> y = m \/ Contains(q, y)
        /\ Distinct(deq_messages_out')
    BY <1>1, <1>2, <1>4, PushContains DEF BurstInv, QueuedOnce
  <1>6. QueuedOnce'
    BY <1>1, <1>3, <1>4, <1>5 DEF BurstInv, QueuedOnce
  <1>7. OpenerInv'
    <2>1. CASE q = <<>>
      <3>1. writing = <<>>
        BY <2>1 DEF IInv, OneWriteAtATime
      <3>2. writing' = Append(<<>>, WriteHeader(deq_messages_out'))
        BY <2>1, <3>1 DEF RunSend
      <3>3. writing'[1].part = "header"
        BY <3>2 DEF WriteHeader
      <3> QED
        BY <3>3 DEF OpenerInv
    <2>2. CASE q # <<>>
      <3>1. writing' = writing
        BY <2>2 DEF RunSend
      <3>2. deq_messages_out'[Len(deq_messages_out')] = q[Len(q)]
        <4>1. <<m>> \in Seq(Messages) /\ Len(<<m>>) = 1 /\ Len(q) \in Nat \ {0}
          BY <1>1, <1>2, <2>2, EmptySeq
        <4>2. /\ Len(<<m>> \o q) = 1 + Len(q)
              /\ (<<m>> \o q)[1 + Len(q)] = q[1 + Len(q) - 1]
          BY <1>1, <4>1, ConcatProperties
        <4>3. 1 + Len(q) - 1 = Len(q)
          BY <4>1
        <4> QED
          BY <1>1, <4>2, <4>3
      <3> QED
        BY <1>1, <3>1, <3>2 DEF BurstInv, OpenerInv
    <2> QED
      BY <2>1, <2>2
  <1> QED
    BY <1>6, <1>7 DEF BurstInv

\* When the body of the last message starts, no other message is queued: the header
\* before it was its own.
LEMMA HeaderWrittenBurst ==
  ASSUME TypeInv, IInv, BurstInv, HeaderWritten
  PROVE  BurstInv'
  <1> DEFINE q == deq_messages_out
             m == writing[1].msg
  <1>1. writing # <<>> /\ wire' = Append(wire, Header(m)) /\ UNCHANGED <<sent, posted>>
    BY DEF HeaderWritten
  <1>2. CASE BodySize[Head(q)] > 0
    <2>1. /\ deq_messages_out' = q
          /\ writing' = Append(Tail(writing), WriteBody(q))
      BY <1>2 DEF HeaderWritten
    <2>2. /\ q \in Seq(Messages) /\ Len(q) \in Nat \ {0} /\ Head(q) = q[1]
          /\ Tail(writing) = <<>> /\ writing[1] \in Write /\ Contains(q, m)
      BY <1>1, OneQueued DEF BurstInv
    <2>3. writing' = <<[part |-> "body", msg |-> q[1]]>>
      <3>1. writing' = Append(<<>>, WriteBody(q))
        BY <2>1, <2>2
      <3>2. WriteBody(q) = [part |-> "body", msg |-> q[1]]
        BY <2>2 DEF WriteBody
      <3> QED
        BY <3>1, <3>2
    <2>4. QueuedOnce'
      BY <1>1, <2>1 DEF BurstInv, QueuedOnce
    <2>5. OpenerInv'
      <3> SUFFICES ASSUME q[1] = q[Len(q)]
                   PROVE  wire' # <<>> /\ wire'[Len(wire')] = Header(q[1])
        BY <2>1, <2>3 DEF OpenerInv
      <3>1. Len(q) = 1
        <4>1. 1 \in 1..Len(q) /\ Len(q) \in 1..Len(q)
          BY <2>2
        <4>2. \A i, j \in 1..Len(q) : q[i] = q[j] => i = j
          BY DEF BurstInv, QueuedOnce, Distinct
        <4> QED
          BY <4>1, <4>2
      <3>2. m = q[1]
        BY <2>2, <3>1 DEF Contains
      <3>3. wire \in Seq(Unit) /\ Header(m) \in Unit
        BY <2>2, BodyFacts DEF TypeInv, TypeOK, Write
      <3>4. wire' # <<>> /\ Len(wire') = Len(wire) + 1 /\ wire'[Len(wire) + 1] = Header(m)
        BY <1>1, <3>3, AppendProperties
      <3> QED
        BY <3>2, <3>4
    <2> QED
      BY <2>4, <2>5 DEF BurstInv
  <1>3. CASE ~(BodySize[Head(q)] > 0)
    <2>1. PopAndContinue
      BY <1>3 DEF HeaderWritten
    <2>2. QueuedOnce' /\ (writing' # <<>> => writing'[1].part = "header")
      BY <1>1, <2>1, PopBurst DEF BurstInv
    <2> QED
      BY <2>2 DEF BurstInv, OpenerInv
  <1> QED
    BY <1>2, <1>3

LEMMA StepBurstInv == TypeInv /\ IInv /\ BurstInv /\ [Next]_vars => BurstInv'
  <1> SUFFICES ASSUME TypeInv, IInv, BurstInv, [Next]_vars PROVE BurstInv'
    OBVIOUS
  <1>1. ASSUME NEW m \in Messages, Send(m) PROVE BurstInv'
    <2>1. /\ sent \in Seq(Messages) /\ posted \in Seq(Messages)
          /\ sent' = Append(sent, m) /\ posted' = Append(posted, m)
          /\ UNCHANGED <<deq_messages_out, writing, wire>>
          /\ ~Contains(sent, m)
      BY <1>1 DEF Send, TypeInv, TypeOK, reader, Contains
    <2>2. /\ \A y : Contains(sent', y) <=> y = m \/ Contains(sent, y)
          /\ \A y : Contains(posted', y) <=> y = m \/ Contains(posted, y)
      BY <2>1, AppendContains
    <2>3. Distinct(posted')
      BY <2>1, AppendContains DEF BurstInv, QueuedOnce
    <2>4. QueuedOnce'
      BY <2>1, <2>2, <2>3 DEF BurstInv, QueuedOnce
    <2>5. OpenerInv'
      BY <2>1 DEF BurstInv, OpenerInv
    <2> QED
      BY <2>4, <2>5 DEF BurstInv
  <1>2. CASE BodyWritten
    <2>1. QueuedOnce' /\ (writing' # <<>> => writing'[1].part = "header")
      BY <1>2, PopBurst DEF BodyWritten, BurstInv
    <2> QED
      BY <2>1 DEF BurstInv, OpenerInv
  <1>3. CASE WriteFails
    <2>1. writing' = <<>> /\ UNCHANGED <<sent, posted, deq_messages_out>>
      BY <1>3, OneQueued DEF WriteFails, BurstInv
    <2> QED
      BY <2>1 DEF BurstInv, QueuedOnce, OpenerInv
  <1>4. CASE Reader \/ Break \/ UNCHANGED vars
    <2>1. UNCHANGED <<sent, writer, wire>>
      BY <1>4 DEF Reader, Break, vars, ReadHeader, ResizeThrows, ReadBody, ReadFails
    <2> QED
      BY <2>1 DEF writer, BurstInv, QueuedOnce, OpenerInv
  <1> QED
    BY <1>1, <1>2, <1>3, <1>4, RunSendBurst, HeaderWrittenBurst DEF Next, Writer

LEMMA BurstInvariance == Spec => []BurstInv
  BY InitBurstInv, StepBurstInv, TypeInvariance, Invariance, PTL DEF Spec

\* What ends with all of s has s as a suffix.
LEMMA SuffixOf ==
  ASSUME NEW S, NEW s \in Seq(S), NEW t \in Seq(S), Len(s) <= Len(t),
         \A i \in 1..Len(s) : t[Len(t) - Len(s) + i] = s[i]
  PROVE  IsSuffix(s, t)
  <1>1. Len(s) \in Nat /\ Len(t) \in Nat
    BY LenProperties
  <1> DEFINE back(u) == [i \in 1..Len(u) |-> u[(Len(u) - i) + 1]]
             k == Len(s)
             bs == back(s)
             bt == back(t)
  <1>2. bs \in Seq(S) /\ Len(bs) = k /\ \A i \in 1..k : bs[i] = s[(k - i) + 1]
    <2>1. \A i \in 1..k : s[(k - i) + 1] \in S
      BY <1>1, ElementOfSeq
    <2>2. bs \in [1..k -> S]
      BY <2>1
    <2> QED
      BY <1>1, <2>2
  <1>3. /\ bt \in Seq(S) /\ Len(bt) = Len(t)
        /\ \A i \in 1..Len(t) : bt[i] = t[(Len(t) - i) + 1]
    <2>1. \A i \in 1..Len(t) : t[(Len(t) - i) + 1] \in S
      BY <1>1, ElementOfSeq
    <2>2. bt \in [1..Len(t) -> S]
      BY <2>1
    <2> QED
      BY <1>1, <2>2
  <1>4. Reverse(s) = bs /\ Reverse(t) = bt
    BY DEF Reverse
  <1> HIDE DEF bs, bt
  <1>5. /\ SubSeq(bs, 1, k) = bs
    BY <1>2, SubSeqFull
  <1> DEFINE st == SubSeq(bt, 1, k)
  <1>6. st \in Seq(S) /\ Len(st) = k /\ \A i \in 1..k : st[i] = bt[i]
    <2>1. \A i \in 1..k : bt[i] \in S
      BY <1>1, <1>3, ElementOfSeq
    <2> QED
      BY <1>1, <2>1, SubSeqProperties
  <1> HIDE DEF st
  <1>7. ASSUME NEW i \in 1..k PROVE bs[i] = st[i]
    <2>1. (k - i) + 1 \in 1..k /\ i \in 1..Len(t)
      BY <1>1
    <2>2. Len(t) - k + ((k - i) + 1) = (Len(t) - i) + 1
      BY <1>1
    <2>3. t[(Len(t) - i) + 1] = s[(k - i) + 1]
      BY <2>1, <2>2
    <2> QED
      BY <1>2, <1>3, <1>6, <2>1, <2>3
  <1>8. bs = st
    BY <1>2, <1>6, <1>7, SeqEqual
  <1> QED
    BY <1>2, <1>3, <1>4, <1>5, <1>8 DEF IsSuffix, IsPrefix, st

LEMMA EndsWithMessage ==
  ASSUME NEW m \in Messages, NEW w \in Seq(Unit), w # <<>>, w[Len(w)] = Header(m)
  PROVE  IsSuffix(<<Header(m)>> \o Body(m), w \o Body(m))
  <1> DEFINE b == Body(m)
             h == <<Header(m)>>
             n == BodySize[m]
  <1>1. /\ n \in Nat /\ b \in Seq(Unit) /\ Len(b) = n
        /\ h \in Seq(Unit) /\ Len(h) = 1 /\ h[1] = Header(m)
    BY BodyFacts
  <1>2. Len(w) \in Nat \ {0}
    BY EmptySeq
  <1> HIDE DEF b, h, n
  <1>3. /\ h \o b \in Seq(Unit) /\ Len(h \o b) = 1 + n
        /\ \A i \in 1..1 + n : (h \o b)[i] = IF i <= 1 THEN h[i] ELSE b[i - 1]
    <2>1. /\ h \o b \in Seq(Unit) /\ Len(h \o b) = Len(h) + Len(b)
          /\ \A i \in 1..Len(h) + Len(b) :
                (h \o b)[i] = IF i <= Len(h) THEN h[i] ELSE b[i - Len(h)]
      BY <1>1, ConcatProperties
    <2> QED
      BY <1>1, <2>1
  <1>4. /\ w \o b \in Seq(Unit) /\ Len(w \o b) = Len(w) + n
        /\ \A i \in 1..Len(w) + n :
              (w \o b)[i] = IF i <= Len(w) THEN w[i] ELSE b[i - Len(w)]
    BY <1>1, ConcatProperties
  <1>5. ASSUME NEW i \in 1..1 + n
        PROVE  (w \o b)[(Len(w) + n) - (1 + n) + i] = (h \o b)[i]
    <2>1. (Len(w) + n) - (1 + n) + i = Len(w) + (i - 1)
      BY <1>1, <1>2
    <2>2. CASE i = 1
      <3>1. (w \o b)[Len(w) + (i - 1)] = w[Len(w)]
        BY <1>1, <1>2, <1>4, <2>2
      <3> QED
        BY <1>1, <1>3, <2>1, <2>2, <3>1 DEF h
    <2>3. CASE i # 1
      <3>1. /\ i - 1 \in 1..n /\ ~(i <= 1)
            /\ Len(w) + (i - 1) \in 1..Len(w) + n /\ ~(Len(w) + (i - 1) <= Len(w))
            /\ Len(w) + (i - 1) - Len(w) = i - 1
        BY <1>1, <1>2, <2>3
      <3>2. (w \o b)[Len(w) + (i - 1)] = b[i - 1]
        BY <1>4, <3>1
      <3>3. (h \o b)[i] = b[i - 1]
        BY <1>3, <3>1
      <3> QED
        BY <2>1, <3>2, <3>3
    <2> QED
      BY <2>2, <2>3
  <1>6. Len(h \o b) <= Len(w \o b)
    BY <1>1, <1>2, <1>3, <1>4
  <1>7. IsSuffix(h \o b, w \o b)
    BY <1>3, <1>4, <1>5, <1>6, SuffixOf
  <1> QED
    BY <1>7 DEF h, b

\* Each burst ends with the message that opened it, header and body together, however
\* many messages of whatever size were pushed before it.
THEOREM BurstEndsWithOpener == Spec => BurstOpenerIsWritten
  <1> DEFINE q == deq_messages_out
             m == Head(q)
             Written == IsSuffix(<<Header(m)>> \o Body(m), wire')
  <1>1. ASSUME TypeInv, IInv, BurstInv, [Next]_vars, q # <<>>, deq_messages_out' = <<>>
        PROVE  Written
    <2>1. HeaderWritten \/ BodyWritten
      <3>1. ASSUME RunSend PROVE FALSE
        <4>1. posted \in Seq(Messages) /\ posted # <<>> /\ q \in Seq(Messages)
          BY <1>1, <3>1 DEF RunSend, IInv, WriterOK
        <4>2. Head(posted) \in Messages
          BY <4>1, FrontIsIn
        <4>3. <<Head(posted)>> \o q # <<>>
          BY <4>1, <4>2, ConcatEqualIffEmpty
        <4> QED
          BY <1>1, <3>1, <4>3 DEF RunSend
      <3>2. \/ HeaderWritten \/ BodyWritten \/ RunSend
            \/ UNCHANGED deq_messages_out
        BY <1>1 DEF Next, Writer, Send, WriteFails, Reader, Break, vars, writer, ReadHeader,
                    ResizeThrows, ReadBody, ReadFails
      <3> QED
        BY <1>1, <3>1, <3>2
    <2>2. writing # <<>>
      BY <2>1 DEF HeaderWritten, BodyWritten
    <2>3. /\ q \in Seq(Messages) /\ Len(q) \in Nat \ {0} /\ m = q[1]
          /\ writing[1] \in Write /\ Contains(q, writing[1].msg)
      BY <1>1, <2>2, OneQueued DEF BurstInv
    <2>4. PopAndContinue
      BY <1>1, <2>1 DEF HeaderWritten, BodyWritten
    <2>5. Len(q) = 1
      <3>1. Tail(q) = <<>>
        BY <1>1, <2>4 DEF PopAndContinue
      <3>2. Len(Tail(q)) = Len(q) - 1
        BY <1>1, <2>3, HeadTailProperties
      <3>3. Len(Tail(q)) = 0
        BY <3>1, EmptySeq
      <3>4. Len(q) - 1 = 0
        BY <3>2, <3>3
      <3>5. Len(q) \in Nat
        BY <2>3
      <3> HIDE DEF q
      <3> QED
        BY <3>4, <3>5
    <2>6. writing[1].msg = m /\ m = q[Len(q)] /\ m \in Messages
      BY <2>3, <2>5 DEF Contains, Write
    <2>7. wire \in Seq(Unit) /\ Header(m) \in Unit
      BY <1>1, <2>6, BodyFacts DEF TypeInv, TypeOK
    <2>8. CASE HeaderWritten
      <3> DEFINE w == Append(wire, Header(m))
      <3>1. w \in Seq(Unit) /\ w # <<>> /\ w[Len(w)] = Header(m)
        <4>1. /\ w \in Seq(Unit) /\ w # <<>> /\ Len(w) = Len(wire) + 1
              /\ w[Len(wire) + 1] = Header(m)
          BY <2>7, AppendProperties
        <4> QED
          BY <4>1
      <3>2. Body(m) = <<>>
        <4>1. ~(BodySize[m] > 0)
          BY <1>1, <2>3, <2>8 DEF HeaderWritten
        <4>2. Body(m) \in Seq(Unit) /\ Len(Body(m)) = 0
          BY <2>6, <4>1, BodyFacts
        <4> QED
          BY <4>2, EmptySeq
      <3>3. wire' = w
        BY <2>6, <2>8 DEF HeaderWritten
      <3> HIDE DEF w
      <3>4. w \o Body(m) = w
        BY <3>1, <3>2, ConcatEmptySeq
      <3>5. IsSuffix(<<Header(m)>> \o Body(m), w \o Body(m))
        BY <2>6, <3>1, EndsWithMessage
      <3> QED
        BY <3>3, <3>4, <3>5
    <2>9. CASE BodyWritten
      <3>1. wire # <<>> /\ wire[Len(wire)] = Header(m)
        BY <1>1, <2>6, <2>9 DEF BodyWritten, BurstInv, OpenerInv
      <3>2. wire' = wire \o Body(m)
        BY <2>6, <2>9 DEF BodyWritten
      <3> QED
        BY <2>6, <2>7, <3>1, <3>2, EndsWithMessage
    <2> QED
      BY <2>1, <2>8, <2>9
  <1>2. TypeInv /\ IInv /\ BurstInv /\ [Next]_vars
            => [ q # <<>> /\ deq_messages_out' = <<>> => Written ]_vars
    BY <1>1
  <1> QED
    BY <1>2, TypeInvariance, Invariance, BurstInvariance, PTL DEF Spec, BurstOpenerIsWritten
-----------------------------------------------------------------------------
(* One message in flight: the stream implements FifoChannel *)

\* The body of m is all that follows position p of the wire.
BodyAfter(m, p) ==
    /\ Len(wire) = p + BodySize[m]
    /\ \A i \in 1..BodySize[m] : wire[p + i] = [msg |-> m, part |-> i]

\* How far the reader is with m: nothing of it written, its header to be read, or its
\* header read.
NothingOf(m) == reading = "header" /\ Len(wire) = readPos
HeaderUnread(m) == reading = "header" /\ Len(wire) > readPos /\ wire[readPos + 1] = Header(m)
HeaderRead(m) == /\ reading = "body" /\ m \notin Bare
                 /\ temp_message.id = m /\ temp_message.size = 1 + BodySize[m]

\* How far the writer is with m, the only message on its way; a write of a broken
\* connection may be gone.  A reader that failed is as far as it got.
Posted(m) == /\ posted = <<m>> /\ deq_messages_out = <<>> /\ writing = <<>>
             /\ reading = "failed" \/ NothingOf(m)

WritingHeader(m) ==
    /\ posted = <<>> /\ deq_messages_out = <<m>>
    /\ writing = <<>> \/ writing = <<[part |-> "header", msg |-> m]>>
    /\ reading = "failed" \/ NothingOf(m)

WritingBody(m) ==
    /\ posted = <<>> /\ deq_messages_out = <<m>> /\ BodySize[m] > 0
    /\ writing = <<>> \/ writing = <<[part |-> "body", msg |-> m]>>
    /\ \/ reading = "failed"
       \/ HeaderUnread(m) /\ Len(wire) = readPos + 1
       \/ HeaderRead(m) /\ Len(wire) = readPos

AllWritten(m) ==
    /\ posted = <<>> /\ deq_messages_out = <<>> /\ writing = <<>>
    /\ \/ reading = "failed"
       \/ HeaderUnread(m) /\ BodyAfter(m, readPos + 1)
       \/ HeaderRead(m) /\ BodyAfter(m, readPos)

Quiet == /\ posted = <<>> /\ deq_messages_out = <<>> /\ writing = <<>>
         /\ reading = "failed" \/ (reading = "header" /\ Len(wire) = readPos)

Underway(m) == Posted(m) \/ WritingHeader(m) \/ WritingBody(m) \/ AllWritten(m)

\* What was delivered is what was sent first, each as it was sent.
Delivered ==
    \A i \in 1..Len(deq_messages_in) :
        deq_messages_in[i].id = sent[i] /\ Intact(deq_messages_in[i])

SerialInv ==
    /\ Delivered
    /\ \/ Len(deq_messages_in) = Len(sent) /\ Quiet
       \/ Len(deq_messages_in) + 1 = Len(sent) /\ Underway(sent[Len(sent)])

LEMMA InitSerialInv == Init => SerialInv
  BY DEF Init, SerialInv, Delivered, Quiet

LEMMA StaysUnderway ==
  ASSUME SerialInv, UNCHANGED <<sent, deq_messages_in>>,
         NEW m, m = sent[Len(sent)], Len(deq_messages_in) + 1 = Len(sent), Underway(m)'
  PROVE  SerialInv'
  <1>1. Underway(sent[Len(sent)])'
    <2>1. sent'[Len(sent')] = m
      OBVIOUS
    <2> QED
      BY <2>1 DEF Underway, Posted, WritingHeader, WritingBody, AllWritten, NothingOf,
                  HeaderUnread, HeaderRead, BodyAfter
  <1>2. Delivered'
    BY DEF SerialInv, Delivered
  <1> QED
    BY <1>1, <1>2 DEF SerialInv

LEMMA StaysAsItIs ==
  ASSUME SerialInv, UNCHANGED <<sent, deq_messages_in>>, Quiet => Quiet',
         \A m : Underway(m) => Underway(m)'
  PROVE  SerialInv'
  <1>1. CASE Len(deq_messages_in) = Len(sent) /\ Quiet
    BY <1>1 DEF SerialInv, Delivered
  <1>2. CASE Len(deq_messages_in) + 1 = Len(sent) /\ Underway(sent[Len(sent)])
    <2>1. PICK m : m = sent[Len(sent)]
      OBVIOUS
    <2>2. Underway(m)'
      BY <1>2, <2>1
    <2> QED
      BY <1>2, <2>1, <2>2, StaysUnderway
  <1> QED
    BY <1>1, <1>2 DEF SerialInv

\* The one message on its way arrives and nothing is on its way any more.
LEMMA Arrives ==
  ASSUME TypeInv, SerialInv, UNCHANGED sent,
         NEW x, deq_messages_in' = Append(deq_messages_in, x), Intact(x),
         Len(deq_messages_in) + 1 = Len(sent), x.id = sent[Len(sent)], Quiet'
  PROVE  SerialInv' /\ deq_messages_in'[Len(deq_messages_in) + 1] = x
  <1> DEFINE n == Len(deq_messages_in)
  <1>1. n \in Nat /\ deq_messages_in \in Seq(TempMessage)
    BY LenProperties DEF TypeInv, TypeOK
  <1>2. /\ Len(deq_messages_in') = n + 1 /\ deq_messages_in'[n + 1] = x
        /\ \A i \in 1..n : deq_messages_in'[i] = deq_messages_in[i]
    BY <1>1
  <1>3. 1..(n + 1) = 1..n \cup {n + 1}
    BY <1>1
  <1>4. \A i \in 1..n : deq_messages_in[i].id = sent[i] /\ Intact(deq_messages_in[i])
    BY DEF SerialInv, Delivered
  <1> HIDE DEF n
  <1>5. \A i \in 1..n + 1 : deq_messages_in'[i].id = sent[i] /\ Intact(deq_messages_in'[i])
    <2> SUFFICES ASSUME NEW i \in 1..n + 1
                 PROVE  deq_messages_in'[i].id = sent[i] /\ Intact(deq_messages_in'[i])
      OBVIOUS
    <2>1. CASE i = n + 1
      <3>1. x.id = sent[n + 1]
        BY DEF n
      <3> QED
        BY <1>2, <2>1, <3>1
    <2>2. CASE i # n + 1
      <3>1. i \in 1..n
        BY <1>3, <2>2
      <3> QED
        BY <1>2, <1>4, <3>1
    <2> QED
      BY <2>1, <2>2
  <1>6. Delivered'
    BY <1>2, <1>5 DEF Delivered
  <1>7. Len(deq_messages_in') = Len(sent')
    BY <1>2 DEF n
  <1> QED
    BY <1>2, <1>6, <1>7 DEF SerialInv, n

\* Unless the caller pipelines, send finds nothing on its way.
LEMMA SendSerial ==
  ASSUME ~Pipelined, TypeInv, SerialInv, NEW m \in Messages, Send(m)
  PROVE  SerialInv'
  <1>1. /\ sent' = Append(sent, m) /\ posted' = Append(posted, m)
        /\ UNCHANGED <<deq_messages_out, writing, wire, readPos, reading, temp_message,
                       deq_messages_in>>
        /\ Len(deq_messages_in) = Len(sent)
    BY DEF Send, MayCallSend, reader
  <1>2. /\ sent \in Seq(Messages) /\ Len(sent) \in Nat /\ deq_messages_in \in Seq(TempMessage)
    BY LenProperties DEF TypeInv, TypeOK
  <1>3. Quiet /\ Delivered
    BY <1>1, <1>2 DEF SerialInv
  <1>4. /\ Len(sent') = Len(sent) + 1 /\ sent'[Len(sent')] = m
        /\ \A i \in 1..Len(sent) : sent'[i] = sent[i]
    BY <1>1, <1>2
  <1>5. posted' = <<m>>
    <2>1. posted' = Append(<<>>, m)
      BY <1>1, <1>3 DEF Quiet
    <2> QED
      BY <2>1
  <1>6. Posted(m)'
    BY <1>1, <1>3, <1>5 DEF Posted, Quiet, NothingOf
  <1>7. Underway(sent[Len(sent)])'
    BY <1>4, <1>6 DEF Underway, Posted, NothingOf
  <1>8. Delivered'
    BY <1>1, <1>3, <1>4 DEF Delivered
  <1> QED
    BY <1>1, <1>4, <1>7, <1>8 DEF SerialInv

\* The handlers of the sender: the message under way gets one step further.
LEMMA WriterSerial ==
  ASSUME TypeInv, SerialInv, Writer
  PROVE  SerialInv'
  <1> DEFINE m == sent[Len(sent)]
  <1>0. UNCHANGED <<sent, readPos, reading, temp_message, deq_messages_in>>
    BY DEF Writer, RunSend, HeaderWritten, BodyWritten, WriteFails, reader
  <1>1. Len(deq_messages_in) + 1 = Len(sent) /\ Underway(m)
    <2>1. ~Quiet
      BY DEF Quiet, Writer, RunSend, HeaderWritten, BodyWritten, WriteFails
    <2> QED
      BY <2>1 DEF SerialInv
  <1>2. m \in Messages
    <2>1. /\ sent \in Seq(Messages) /\ Len(sent) \in Nat /\ deq_messages_in \in Seq(TempMessage)
          /\ Len(deq_messages_in) \in Nat
      BY LenProperties DEF TypeInv, TypeOK
    <2>2. Len(sent) \in 1..Len(sent)
      BY <1>1, <2>1
    <2> QED
      BY <2>1, <2>2, ElementOfSeq
  <1>3. PICK k \in Messages : k = m
    BY <1>2
  <1>4. Underway(k) /\ k = sent[Len(sent)]
    BY <1>1, <1>3
  <1>w. /\ wire \in Seq(Unit) /\ Len(wire) \in Nat /\ readPos \in Nat /\ readPos <= Len(wire)
        /\ BodySize[k] \in Nat /\ Header(k) \in Unit
        /\ Body(k) \in Seq(Unit) /\ Len(Body(k)) = BodySize[k]
        /\ \A i \in 1..BodySize[k] : Body(k)[i] = [msg |-> k, part |-> i]
    BY LenProperties, BodyFacts DEF TypeInv, TypeOK
  <1> HIDE DEF m
  <1>5. SUFFICES Underway(k)'
    BY <1>0, <1>1, <1>4, StaysUnderway
  <1>6. CASE RunSend
    <2>1. Posted(k)
      BY <1>4, <1>6 DEF RunSend, Underway, WritingHeader, WritingBody, AllWritten
    <2>2. posted' = <<>> /\ deq_messages_out' = <<k>> /\ wire' = wire
      <3>1. posted' = Tail(<<k>>) /\ deq_messages_out' = <<Head(<<k>>)>> \o <<>> /\ wire' = wire
        BY <1>6, <2>1 DEF RunSend, Posted
      <3>2. <<k>> \o <<>> = <<k>>
        BY ConcatEmptySeq
      <3> QED
        BY <3>1, <3>2
    <2>3. writing' = <<[part |-> "header", msg |-> k]>>
      <3>1. writing' = Append(<<>>, WriteHeader(deq_messages_out'))
        BY <1>6, <2>1 DEF RunSend, Posted
      <3>2. WriteHeader(deq_messages_out') = [part |-> "header", msg |-> k]
        BY <2>2 DEF WriteHeader
      <3> QED
        BY <3>1, <3>2
    <2> QED
      BY <1>0, <2>1, <2>2, <2>3 DEF Posted, WritingHeader, Underway, NothingOf
  <1>7. CASE HeaderWritten
    <2>1. /\ WritingHeader(k) /\ writing = <<[part |-> "header", msg |-> k]>>
      BY <1>4, <1>7 DEF HeaderWritten, Underway, Posted, WritingHeader, WritingBody, AllWritten
    <2>2. /\ posted' = <<>> /\ deq_messages_out = <<k>> /\ Head(deq_messages_out) = k
          /\ Tail(deq_messages_out) = <<>> /\ Tail(writing) = <<>>
      BY <1>7, <2>1 DEF HeaderWritten, WritingHeader
    <2>3. wire' = Append(wire, Header(k))
      BY <1>7, <2>1 DEF HeaderWritten
    <2>4. Len(wire') = Len(wire) + 1 /\ wire'[Len(wire) + 1] = Header(k)
      BY <1>w, <2>3, AppendProperties
    <2>5. reading = "failed" \/ (HeaderUnread(k)' /\ Len(wire') = readPos' + 1)
      BY <1>0, <1>w, <2>1, <2>4 DEF WritingHeader, NothingOf, HeaderUnread
    <2>6. CASE BodySize[k] > 0
      <3>1. deq_messages_out' = <<k>>
        BY <1>7, <2>2, <2>6 DEF HeaderWritten
      <3>2. writing' = <<[part |-> "body", msg |-> k]>>
        <4>1. writing' = Append(<<>>, WriteBody(deq_messages_out))
          BY <1>7, <2>2, <2>6 DEF HeaderWritten
        <4>2. WriteBody(deq_messages_out) = [part |-> "body", msg |-> k]
          BY <2>2 DEF WriteBody
        <4> QED
          BY <4>1, <4>2
      <3>3. WritingBody(k)'
        BY <1>0, <2>2, <2>5, <2>6, <3>1, <3>2 DEF WritingBody
      <3> QED
        BY <3>3 DEF Underway
    <2>7. CASE ~(BodySize[k] > 0)
      <3>1. deq_messages_out' = <<>> /\ writing' = <<>>
        BY <1>7, <2>2, <2>7 DEF HeaderWritten, PopAndContinue
      <3>2. BodySize[k] = 0
        BY <1>w, <2>7
      <3>3. Len(wire') = readPos' + 1 => BodyAfter(k, readPos + 1)'
        BY <1>0, <1>w, <3>2 DEF BodyAfter
      <3>4. AllWritten(k)'
        BY <1>0, <2>2, <2>5, <3>1, <3>3 DEF AllWritten
      <3> QED
        BY <3>4 DEF Underway
    <2> QED
      BY <2>6, <2>7
  <1>8. CASE BodyWritten
    <2>1. /\ WritingBody(k) /\ writing = <<[part |-> "body", msg |-> k]>>
      BY <1>4, <1>8 DEF BodyWritten, Underway, Posted, WritingHeader, WritingBody, AllWritten
    <2>2. posted' = <<>> /\ deq_messages_out' = <<>> /\ writing' = <<>>
      BY <1>8, <2>1 DEF BodyWritten, WritingBody, PopAndContinue
    <2>3. wire' = wire \o Body(k)
      BY <1>8, <2>1 DEF BodyWritten
    <2>4. /\ Len(wire') = Len(wire) + BodySize[k]
          /\ \A i \in 1..Len(wire) : wire'[i] = wire[i]
          /\ \A i \in 1..BodySize[k] : wire'[Len(wire) + i] = [msg |-> k, part |-> i]
      <3>1. /\ Len(wire') = Len(wire) + BodySize[k]
            /\ \A i \in 1..(Len(wire) + BodySize[k]) :
                  wire'[i] = IF i <= Len(wire) THEN wire[i] ELSE Body(k)[i - Len(wire)]
        <4>1. /\ Len(wire \o Body(k)) = Len(wire) + Len(Body(k))
              /\ \A i \in 1..(Len(wire) + Len(Body(k))) :
                    (wire \o Body(k))[i]
                       = IF i <= Len(wire) THEN wire[i] ELSE Body(k)[i - Len(wire)]
          BY <1>w, ConcatProperties
        <4>2. Len(Body(k)) = BodySize[k]
          BY <1>w
        <4> QED
          BY <2>3, <4>1, <4>2
      <3>2. PICK l \in Nat : l = Len(wire)
        BY <1>w
      <3>3. PICK b \in Nat : b = BodySize[k]
        BY <1>w
      <3>4. \A i \in 1..l : wire'[i] = wire[i]
        BY <3>1, <3>2, <3>3
      <3>5. ASSUME NEW i \in 1..b PROVE wire'[l + i] = Body(k)[i]
        <4>1. l + i \in 1..(l + b) /\ ~(l + i <= l) /\ (l + i) - l = i
          OBVIOUS
        <4> QED
          BY <3>1, <3>2, <3>3, <4>1
      <3> QED
        BY <1>w, <3>1, <3>2, <3>3, <3>4, <3>5
    <2>5. CASE reading = "failed"
      BY <1>0, <2>2, <2>5 DEF AllWritten, Underway
    <2>6. CASE HeaderUnread(k) /\ Len(wire) = readPos + 1
      <3>1. HeaderUnread(k)'
        BY <1>0, <1>w, <2>4, <2>6 DEF HeaderUnread
      <3>2. BodyAfter(k, readPos + 1)'
        BY <1>0, <2>4, <2>6 DEF BodyAfter
      <3> QED
        BY <2>2, <3>1, <3>2 DEF AllWritten, Underway
    <2>7. CASE HeaderRead(k) /\ Len(wire) = readPos
      <3>1. HeaderRead(k)'
        BY <1>0, <2>7 DEF HeaderRead
      <3>2. BodyAfter(k, readPos)'
        BY <1>0, <2>4, <2>7 DEF BodyAfter
      <3> QED
        BY <2>2, <3>1, <3>2 DEF AllWritten, Underway
    <2> QED
      BY <2>1, <2>5, <2>6, <2>7 DEF WritingBody
  <1>9. CASE WriteFails
    <2>1. UNCHANGED <<posted, deq_messages_out, wire>>
      BY <1>9 DEF WriteFails
    <2>2. WritingHeader(k) \/ WritingBody(k)
      BY <1>4, <1>9 DEF WriteFails, Underway, Posted, AllWritten
    <2>3. writing' = <<>>
      <3>1. PICK p : writing = <<p>>
        BY <1>9, <2>2 DEF WriteFails, WritingHeader, WritingBody
      <3>2. Tail(<<p>>) = <<>>
        OBVIOUS
      <3> QED
        BY <1>9, <3>1, <3>2 DEF WriteFails
    <2> QED
      BY <1>0, <2>1, <2>2, <2>3 DEF Underway, WritingHeader, WritingBody, NothingOf,
                                    HeaderUnread, HeaderRead
  <1> QED
    BY <1>6, <1>7, <1>8, <1>9 DEF Writer

\* What a read handler does when it delivers: the message under way, intact.
Delivers == /\ Len(deq_messages_in) + 1 = Len(sent)
            /\ deq_messages_in' = Append(deq_messages_in, temp_message')
            /\ Intact(temp_message') /\ temp_message'.id = sent[Len(sent)]

\* A read that does not fail is one of the message under way.
LEMMA ReadsUnderway ==
  ASSUME TypeInv, SerialInv, NEW n \in Nat, Unread >= n,
         (reading = "header" /\ n > 0) \/ reading = "body"
  PROVE  /\ Len(deq_messages_in) + 1 = Len(sent)
         /\ \E m \in Messages : /\ m = sent[Len(sent)]
                                /\ WritingBody(m) \/ AllWritten(m)
  <1> DEFINE m == sent[Len(sent)]
  <1>1. Len(wire) \in Nat /\ readPos \in Nat /\ Len(wire) - readPos >= n
    BY LenProperties DEF TypeInv, TypeOK, Unread
  <1>2. ~Quiet /\ ~(reading = "failed") /\ ~NothingOf(m)
    BY <1>1 DEF Quiet, NothingOf
  <1>3. Len(deq_messages_in) + 1 = Len(sent) /\ (WritingBody(m) \/ AllWritten(m))
    BY <1>2 DEF SerialInv, Underway, Posted, WritingHeader
  <1>4. m \in Messages
    <2>1. /\ sent \in Seq(Messages) /\ Len(sent) \in Nat /\ deq_messages_in \in Seq(TempMessage)
          /\ Len(deq_messages_in) \in Nat
      BY LenProperties DEF TypeInv, TypeOK
    <2>2. Len(sent) \in 1..Len(sent)
      BY <1>3, <2>1
    <2> QED
      BY <2>1, <2>2, ElementOfSeq
  <1> QED
    BY <1>3, <1>4

LEMMA ReadHeaderSerial ==
  ASSUME TypeInv, SerialInv, ReadHeader
  PROVE  SerialInv' /\ (UNCHANGED deq_messages_in \/ Delivers)
  <1>1. /\ reading = "header" /\ Unread > 0 /\ readPos' = readPos + 1
        /\ UNCHANGED <<sent, posted, deq_messages_out, writing, wire>>
    BY DEF ReadHeader, writer
  <1>2. Unread >= 1
    BY <1>1, LenProperties DEF Unread, TypeInv, TypeOK
  <1>3. PICK m \in Messages : m = sent[Len(sent)] /\ (WritingBody(m) \/ AllWritten(m))
    BY <1>1, <1>2, ReadsUnderway
  <1>4. Len(deq_messages_in) + 1 = Len(sent)
    BY <1>1, <1>2, ReadsUnderway
  <1>5. HeaderUnread(m)
    BY <1>1, <1>3 DEF WritingBody, AllWritten, HeaderRead
  <1>6. PICK claim \in Claims(wire[readPos + 1]) :
          /\ temp_message' = [id |-> claim.id, size |-> claim.size,
                              body |-> temp_message.body]
          /\ IF claim.size > 0
             THEN reading' = "body" /\ UNCHANGED deq_messages_in
             ELSE reading' = "header" /\ Deliver(temp_message')
    BY DEF ReadHeader
  <1>7. claim.id = m /\ claim.size = HeaderSize(m)
    BY <1>5, <1>6 DEF HeaderUnread, Claims, Header
  <1>w. Len(wire) \in Nat /\ readPos \in Nat /\ BodySize[m] \in Nat
    BY LenProperties, BodyFacts DEF TypeInv, TypeOK
  <1>8. CASE m \notin Bare
    <2>1. /\ temp_message'.id = m /\ temp_message'.size = 1 + BodySize[m]
          /\ reading' = "body" /\ deq_messages_in' = deq_messages_in
      BY <1>6, <1>7, <1>8, <1>w DEF HeaderSize
    <2>2. HeaderRead(m)'
      BY <1>8, <2>1 DEF HeaderRead
    <2>3. CASE WritingBody(m)
      <3>1. Len(wire) = readPos + 1
        BY <1>1, <2>3 DEF WritingBody, HeaderRead
      <3>2. WritingBody(m)'
        BY <1>1, <2>2, <2>3, <3>1 DEF WritingBody
      <3> QED
        BY <1>1, <1>3, <1>4, <2>1, <3>2, StaysUnderway DEF Underway
    <2>4. CASE AllWritten(m)
      <3>1. BodyAfter(m, readPos + 1)
        BY <1>1, <2>4 DEF AllWritten, HeaderRead
      <3>2. BodyAfter(m, readPos)'
        BY <1>1, <3>1 DEF BodyAfter
      <3>3. AllWritten(m)'
        BY <1>1, <2>2, <2>4, <3>2 DEF AllWritten
      <3> QED
        BY <1>1, <1>3, <1>4, <2>1, <3>3, StaysUnderway DEF Underway
    <2> QED
      BY <1>3, <2>3, <2>4
  <1>9. CASE m \in Bare
    <2>1. BodySize[m] = 0
      BY <1>9, MessageAssumption
    <2>2. /\ temp_message'.id = m /\ reading' = "header"
          /\ deq_messages_in' = Append(deq_messages_in, temp_message')
      BY <1>6, <1>7, <1>9 DEF HeaderSize, Deliver
    <2>3. AllWritten(m)
      BY <1>3, <2>1 DEF WritingBody
    <2>4. BodyAfter(m, readPos + 1)
      BY <1>1, <2>3 DEF AllWritten, HeaderRead
    <2>5. Quiet'
      BY <1>1, <1>w, <2>1, <2>2, <2>3, <2>4 DEF Quiet, AllWritten, BodyAfter
    <2>6. Intact(temp_message')
      BY <1>9, <2>2, MessageAssumption DEF Intact
    <2>7. Delivers
      BY <1>3, <1>4, <2>2, <2>6 DEF Delivers
    <2>8. SerialInv'
      BY <1>1, <1>3, <1>4, <2>2, <2>5, <2>6, Arrives
    <2> QED
      BY <2>7, <2>8
  <1> QED
    BY <1>8, <1>9

LEMMA ReadBodySerial ==
  ASSUME TypeInv, SerialInv, ReadBody
  PROVE  SerialInv' /\ Delivers
  <1> DEFINE size == temp_message.size - 1
             body == SubSeq(wire, readPos + 1, readPos + size)
  <1>1. /\ reading = "body" /\ Unread >= size /\ readPos' = readPos + size
        /\ temp_message' = [temp_message EXCEPT !.body = body]
        /\ deq_messages_in' = Append(deq_messages_in, temp_message')
        /\ reading' = "header"
        /\ UNCHANGED <<sent, posted, deq_messages_out, writing, wire, broken>>
    BY DEF ReadBody, writer, Deliver
  <1>2. /\ temp_message \in TempMessage /\ temp_message.size \in Nat
        /\ temp_message.size > 0 /\ size \in Nat
    BY <1>1 DEF TypeInv, TypeOK, TempMessage
  <1> HIDE DEF size
  <1>3. /\ Len(deq_messages_in) + 1 = Len(sent)
        /\ \E m \in Messages : m = sent[Len(sent)] /\ (WritingBody(m) \/ AllWritten(m))
    BY <1>1, <1>2, ReadsUnderway
  <1>4. PICK m \in Messages : m = sent[Len(sent)] /\ (WritingBody(m) \/ AllWritten(m))
    BY <1>3
  <1>w. /\ wire \in Seq(Unit) /\ Len(wire) \in Nat /\ readPos \in Nat /\ BodySize[m] \in Nat
        /\ Body(m) \in Seq(Unit) /\ Len(Body(m)) = BodySize[m]
        /\ \A i \in 1..BodySize[m] : Body(m)[i] = [msg |-> m, part |-> i]
    BY LenProperties, BodyFacts DEF TypeInv, TypeOK
  <1>5. HeaderRead(m)
    BY <1>1, <1>4 DEF WritingBody, AllWritten, HeaderUnread
  <1>6. size = BodySize[m] /\ temp_message.id = m
    BY <1>5, <1>w DEF HeaderRead, size
  <1>7. AllWritten(m)
    <2>1. ASSUME WritingBody(m) PROVE FALSE
      <3>1. Len(wire) = readPos /\ BodySize[m] > 0
        BY <1>1, <2>1 DEF WritingBody, HeaderUnread
      <3>2. Len(wire) - readPos >= BodySize[m]
        BY <1>1, <1>6 DEF Unread
      <3> QED
        BY <1>w, <3>1, <3>2
    <2> QED
      BY <1>4, <2>1
  <1>8. BodyAfter(m, readPos)
    BY <1>1, <1>7 DEF AllWritten, HeaderUnread
  <1>9. body = Body(m)
    <2>1. PICK k \in Nat : k = BodySize[m]
      BY <1>w
    <2>2. PICK p \in Nat : p = readPos
      BY <1>w
    <2>3. Len(wire) = p + k /\ size = k
      BY <1>6, <1>8, <2>1, <2>2 DEF BodyAfter
    <2>4. \A i \in p + 1..p + k : wire[i] \in Unit
      BY <1>w, <2>3, ElementOfSeq
    <2>5. /\ SubSeq(wire, p + 1, p + k) \in Seq(Unit)
          /\ Len(SubSeq(wire, p + 1, p + k)) = k
          /\ \A i \in 1..k : SubSeq(wire, p + 1, p + k)[i] = wire[p + i]
      <3>1. /\ SubSeq(wire, p + 1, p + k) \in Seq(Unit)
            /\ Len(SubSeq(wire, p + 1, p + k)) = IF p + 1 <= p + k THEN (p + k - (p + 1)) + 1 ELSE 0
            /\ \A i \in 1..(p + k - (p + 1)) + 1 :
                  SubSeq(wire, p + 1, p + k)[i] = wire[((p + 1) + i) - 1]
        BY <1>w, <2>4, SubSeqProperties
      <3>2. (p + k - (p + 1)) + 1 = k /\ (p + 1 <= p + k <=> k > 0)
        OBVIOUS
      <3>3. \A i \in 1..k : ((p + 1) + i) - 1 = p + i
        OBVIOUS
      <3> QED
        BY <3>1, <3>2, <3>3
    <2>6. body = SubSeq(wire, p + 1, p + k)
      BY <2>2, <2>3
    <2>7. \A i \in 1..k : wire[p + i] = Body(m)[i]
      BY <1>8, <1>w, <2>1, <2>2 DEF BodyAfter
    <2> HIDE DEF body
    <2>8. body \in Seq(Unit) /\ Len(body) = k /\ \A i \in 1..k : body[i] = Body(m)[i]
      BY <2>5, <2>6, <2>7
    <2> QED
      BY <1>w, <2>1, <2>8, SeqEqual
  <1> HIDE DEF body
  <1>10. temp_message'.id = m /\ temp_message'.body = Body(m)
    BY <1>1, <1>2, <1>6, <1>9 DEF TempMessage
  <1>11. Intact(temp_message')
    BY <1>10, MessageAssumption DEF Intact
  <1>12. Delivers
    BY <1>1, <1>3, <1>4, <1>10, <1>11 DEF Delivers
  <1>13. Len(wire') = readPos'
    BY <1>1, <1>6, <1>8 DEF BodyAfter
  <1>14. Quiet'
    BY <1>1, <1>7, <1>13 DEF Quiet, AllWritten
  <1>15. SerialInv'
    BY <1>1, <1>3, <1>4, <1>10, <1>11, <1>14, Arrives
  <1> QED
    BY <1>12, <1>15

\* With one message in flight a read handler never takes a body for a header.
LEMMA NoBodyForHeader ==
  ASSUME TypeInv, SerialInv, ResizeThrows
  PROVE  FALSE
  <1>1. /\ reading = "header" /\ Unread > 0 /\ wire[readPos + 1].part # 0
    BY DEF ResizeThrows
  <1>2. Unread >= 1
    BY <1>1, LenProperties DEF Unread, TypeInv, TypeOK
  <1>3. PICK m \in Messages : WritingBody(m) \/ AllWritten(m)
    BY <1>1, <1>2, ReadsUnderway
  <1> QED
    BY <1>1, <1>3 DEF WritingBody, AllWritten, HeaderRead, HeaderUnread, Header

LEMMA StepSerialInv ==
  ASSUME ~Pipelined, TypeInv, SerialInv, [Next]_vars
  PROVE  SerialInv' /\ (UNCHANGED deq_messages_in \/ (UNCHANGED sent /\ Delivers))
  <1>1. ASSUME NEW m \in Messages, Send(m)
        PROVE  SerialInv' /\ UNCHANGED deq_messages_in
    <2>1. UNCHANGED deq_messages_in
      BY <1>1 DEF Send, reader
    <2> QED
      BY <1>1, <2>1, SendSerial
  <1>2. CASE Writer
    <2>1. UNCHANGED deq_messages_in
      BY <1>2 DEF Writer, RunSend, HeaderWritten, BodyWritten, WriteFails, reader
    <2> QED
      BY <1>2, <2>1, WriterSerial
  <1>3. CASE ReadHeader
    <2>1. UNCHANGED sent
      BY <1>3 DEF ReadHeader
    <2> QED
      BY <1>3, <2>1, ReadHeaderSerial
  <1>4. CASE ReadBody
    BY <1>4, ReadBodySerial DEF ReadBody
  <1>5. CASE ResizeThrows
    BY <1>5, NoBodyForHeader
  <1>6. CASE ReadFails
    <2>1. /\ reading' = "failed"
          /\ UNCHANGED <<sent, posted, deq_messages_out, writing, wire, deq_messages_in>>
      BY <1>6 DEF ReadFails, writer
    <2>2. Quiet => Quiet'
      BY <2>1 DEF Quiet
    <2>3. ASSUME NEW m, Underway(m) PROVE Underway(m)'
      BY <2>1, <2>3 DEF Underway, Posted, WritingHeader, WritingBody, AllWritten
    <2> QED
      BY <2>1, <2>2, <2>3, StaysAsItIs
  <1>7. CASE Break \/ UNCHANGED vars
    <2>1. UNCHANGED <<sent, posted, deq_messages_out, writing, wire, readPos, reading,
                      temp_message, deq_messages_in>>
      BY <1>7 DEF Break, vars, writer, reader
    <2>2. Quiet => Quiet'
      BY <2>1 DEF Quiet
    <2>3. ASSUME NEW m, Underway(m) PROVE Underway(m)'
      BY <2>1, <2>3 DEF Underway, Posted, WritingHeader, WritingBody, AllWritten, NothingOf,
                        HeaderUnread, HeaderRead, BodyAfter
    <2> QED
      BY <2>1, <2>2, <2>3, StaysAsItIs
  <1> QED
    BY <1>1, <1>2, <1>3, <1>4, <1>5, <1>6, <1>7 DEF Next, Reader

\* What is delivered next is what was sent next.
LEMMA ReceivedGrows ==
  ASSUME TypeInv, Delivers, NEW S, deq_messages_in' \in Seq(S)
  PROVE  /\ Received' = Append(Received, sent[Len(Received) + 1])
         /\ Len(Received) < Len(sent)
  <1> DEFINE n == Len(deq_messages_in)
             Id(x) == IF Intact(x) THEN x.id ELSE Garbage
  <1>1. n \in Nat /\ deq_messages_in \in Seq(TempMessage) /\ Len(sent) \in Nat
    BY LenProperties DEF TypeInv, TypeOK
  <1>2. /\ Len(deq_messages_in') = n + 1
        /\ deq_messages_in'[n + 1] = temp_message'
        /\ \A i \in 1..n : deq_messages_in'[i] = deq_messages_in[i]
    BY <1>1 DEF Delivers
  <1>3. Id(temp_message') = sent[n + 1] /\ Len(sent) = n + 1
    BY <1>1 DEF Delivers
  <1>4. Received = [i \in 1..n |-> Id(deq_messages_in[i])]
    BY DEF Received
  <1>5. Received' = [i \in 1..n + 1 |-> Id(deq_messages_in'[i])]
    BY <1>2 DEF Received
  <1> HIDE DEF n, Id
  <1>6. Len(Received) = n
    BY <1>1, <1>4
  <1>7. Append(Received, sent[n + 1])
           = [i \in 1..n + 1 |-> IF i = n + 1 THEN sent[n + 1] ELSE Received[i]]
    BY <1>1, <1>4, <1>6
  <1>8. \A i \in 1..n + 1 : (IF i = n + 1 THEN sent[n + 1] ELSE Received[i])
                               = Id(deq_messages_in'[i])
    <2> SUFFICES ASSUME NEW i \in 1..n + 1
                 PROVE  (IF i = n + 1 THEN sent[n + 1] ELSE Received[i])
                           = Id(deq_messages_in'[i])
      OBVIOUS
    <2>1. CASE i = n + 1
      BY <1>2, <1>3, <2>1
    <2>2. CASE i # n + 1
      <3>1. i \in 1..n
        BY <1>1, <2>2
      <3> QED
        BY <1>2, <1>4, <2>2, <3>1
    <2> QED
      BY <2>1, <2>2
  <1>9. Received' = Append(Received, sent[n + 1])
    BY <1>5, <1>7, <1>8
  <1> QED
    BY <1>1, <1>3, <1>6, <1>9

LEMMA StepImplementsFifo ==
  ASSUME ~Pipelined, TypeInv, IInv, SerialInv, [Next]_vars
  PROVE  [Fifo!Next]_(Fifo!vars)
  <1> USE DEF Fifo!Next, Fifo!Put, Fifo!Take, Fifo!vars
  <1>1. CASE UNCHANGED sent /\ Delivers
    <2>1. deq_messages_in' \in Seq(TempMessage)
      BY StepTypeInv DEF TypeInv, TypeOK
    <2> QED
      BY <1>1, <2>1, ReceivedGrows
  <1>2. CASE UNCHANGED deq_messages_in
    <2>1. Received' = Received
      BY <1>2 DEF Received
    <2>2. UNCHANGED sent \/ \E m \in Messages : sent' = Append(sent, m)
      BY DEF Next, Writer, Reader, Send, RunSend, HeaderWritten, BodyWritten, WriteFails,
             ReadHeader, ResizeThrows, ReadBody, ReadFails, Break, vars
    <2> QED
      BY <2>1, <2>2
  <1> QED
    BY <1>1, <1>2, StepSerialInv

\* A caller that waits for each message to arrive before it sends the next one gets a
\* channel that delivers in order, complete and once, whatever the bodies and however
\* the handlers of the two ends alternate; a connection that breaks cuts it off.
THEOREM OneInFlightIsFifo ==
  ASSUME ~Pipelined
  PROVE  Spec => StreamImplementsFifo
  <1>1. Init => Fifo!Init
    BY DEF Init, Fifo!Init, Received
  <1>2. TypeInv /\ SerialInv /\ [Next]_vars => SerialInv'
    BY StepSerialInv
  <1>3. TypeInv /\ IInv /\ SerialInv /\ [Next]_vars => [Fifo!Next]_(Fifo!vars)
    BY StepImplementsFifo
  <1> QED
    BY <1>1, <1>2, <1>3, InitSerialInv, TypeInvariance, Invariance, PTL
       DEF Spec, StreamImplementsFifo, Fifo!Spec
-----------------------------------------------------------------------------
(* One message in flight: what leaves the queue was written *)

\* The header of m and its body after it lie in w at position i.
LiesAt(m, w, i) ==
    /\ i \in 1..(Len(w) - BodySize[m])
    /\ SubSeq(w, i, i + BodySize[m]) = <<Header(m)>> \o Body(m)

OnWireOf(m, w) == \E i \in 1..(Len(w) - BodySize[m]) : LiesAt(m, w, i)

LEMMA OnWireIs == \A m : OnWire(m) <=> OnWireOf(m, wire)
  BY DEF OnWire, OnWireOf, LiesAt

\* What is on the wire stays there: the wire is only ever appended to.
LEMMA OnWireStays ==
  ASSUME NEW m \in Messages, NEW w \in Seq(Unit), NEW x \in Seq(Unit), OnWireOf(m, w)
  PROVE  OnWireOf(m, w \o x)
  <1>1. PICK i \in 1..(Len(w) - BodySize[m]) : LiesAt(m, w, i)
    BY DEF OnWireOf
  <1>2. PICK n \in Nat : n = BodySize[m]
    BY BodyFacts
  <1>3. PICK l \in Nat : l = Len(w)
    BY LenProperties
  <1>4. Len(w \o x) = l + Len(x) /\ Len(x) \in Nat
    BY <1>3, ConcatProperties, LenProperties
  <1>5. PICK a \in Nat : a = i /\ 1 <= a /\ a + n <= l
    BY <1>1, <1>2, <1>3
  <1>6. \A j \in 1..l : (w \o x)[j] = w[j] /\ w[j] \in Unit
    <2>1. \A j \in 1..(Len(w) + Len(x)) :
              (w \o x)[j] = IF j <= Len(w) THEN w[j] ELSE x[j - Len(w)]
      BY ConcatProperties
    <2> QED
      BY <1>3, <1>4, <2>1, ElementOfSeq
  <1>7. \A j \in a..(a + n) : /\ (w \o x)[j] = w[j]
                              /\ w[j] \in Unit /\ (w \o x)[j] \in Unit
    <2>1. \A j \in a..(a + n) : j \in 1..l
      BY <1>5
    <2> QED
      BY <1>6, <2>1
  <1> DEFINE s == SubSeq(w, a, a + n)
             t == SubSeq(w \o x, a, a + n)
  <1>8. /\ s \in Seq(Unit) /\ Len(s) = n + 1
        /\ \A j \in 1..(n + 1) : s[j] = w[a + j - 1]
    <2>1. /\ SubSeq(w, a, a + n) \in Seq(Unit)
          /\ Len(SubSeq(w, a, a + n)) = IF a <= a + n THEN (a + n) - a + 1 ELSE 0
          /\ \A j \in 1..((a + n) - a + 1) : SubSeq(w, a, a + n)[j] = w[a + j - 1]
      BY <1>7, SubSeqProperties
    <2> QED
      BY <2>1
  <1>9. /\ t \in Seq(Unit) /\ Len(t) = n + 1
        /\ \A j \in 1..(n + 1) : t[j] = (w \o x)[a + j - 1]
    <2>1. PICK y : y = w \o x
      OBVIOUS
    <2>2. \A j \in a..(a + n) : y[j] \in Unit
      BY <1>7, <2>1
    <2>3. /\ SubSeq(y, a, a + n) \in Seq(Unit)
          /\ Len(SubSeq(y, a, a + n)) = IF a <= a + n THEN (a + n) - a + 1 ELSE 0
          /\ \A j \in 1..((a + n) - a + 1) : SubSeq(y, a, a + n)[j] = y[a + j - 1]
      BY <2>2, SubSeqProperties
    <2>4. (a + n) - a + 1 = n + 1 /\ a <= a + n
      OBVIOUS
    <2>5. t = SubSeq(y, a, a + n)
      BY <2>1
    <2> HIDE DEF t
    <2>6. t \in Seq(Unit) /\ Len(t) = n + 1 /\ \A j \in 1..(n + 1) : t[j] = y[a + j - 1]
      BY <2>3, <2>4, <2>5
    <2> QED
      BY <2>1, <2>6
  <1> HIDE DEF s, t
  <1>10. \A j \in 1..(n + 1) : s[j] = t[j]
    <2> SUFFICES ASSUME NEW j \in 1..(n + 1) PROVE s[j] = t[j]
      OBVIOUS
    <2>1. a + j - 1 \in a..(a + n)
      BY <1>5
    <2> QED
      BY <1>7, <1>8, <1>9, <2>1
  <1>11. t = s
    BY <1>8, <1>9, <1>10, SeqEqual
  <1>12. a \in 1..(Len(w \o x) - BodySize[m])
    BY <1>2, <1>4, <1>5
  <1>13. SubSeq(w \o x, a, a + BodySize[m]) = <<Header(m)>> \o Body(m)
    BY <1>1, <1>2, <1>5, <1>11 DEF LiesAt, s, t
  <1> QED
    BY <1>12, <1>13 DEF OnWireOf, LiesAt

\* A body that is written right behind its header.
LEMMA WholeMessage ==
  ASSUME NEW m \in Messages, NEW w \in Seq(Unit), w # <<>>, w[Len(w)] = Header(m)
  PROVE  OnWireOf(m, w \o Body(m))
  <1>1. PICK n \in Nat : n = BodySize[m]
    BY BodyFacts
  <1>2. PICK l \in Nat \ {0} : l = Len(w)
    BY EmptySeq
  <1>3. PICK b \in Seq(Unit) : b = Body(m) /\ Len(b) = n
    BY <1>1, BodyFacts
  <1>4. PICK h \in Seq(Unit) : h = <<Header(m)>> /\ Len(h) = 1 /\ h[1] = Header(m)
    <2>1. Header(m) \in Unit
      BY BodyFacts
    <2>2. <<Header(m)>> \in Seq(Unit) /\ Len(<<Header(m)>>) = 1
      BY <2>1
    <2> QED
      BY <2>2
  <1>5. PICK y \in Seq(Unit) :
            /\ y = w \o b /\ Len(y) = l + n
            /\ \A j \in 1..(l + n) : y[j] = IF j <= l THEN w[j] ELSE b[j - l]
    <2>1. /\ w \o b \in Seq(Unit) /\ Len(w \o b) = Len(w) + Len(b)
          /\ \A j \in 1..(Len(w) + Len(b)) :
                (w \o b)[j] = IF j <= Len(w) THEN w[j] ELSE b[j - Len(w)]
      BY ConcatProperties
    <2> QED
      BY <1>2, <1>3, <2>1
  <1>6. PICK z \in Seq(Unit) :
            /\ z = h \o b /\ Len(z) = 1 + n
            /\ \A j \in 1..(1 + n) : z[j] = IF j <= 1 THEN h[j] ELSE b[j - 1]
    <2>1. /\ h \o b \in Seq(Unit) /\ Len(h \o b) = Len(h) + Len(b)
          /\ \A j \in 1..(Len(h) + Len(b)) :
                (h \o b)[j] = IF j <= Len(h) THEN h[j] ELSE b[j - Len(h)]
      BY ConcatProperties
    <2> QED
      BY <1>3, <1>4, <2>1
  <1>7. PICK s : s = SubSeq(y, l, l + n)
    OBVIOUS
  <1>8. s \in Seq(Unit) /\ Len(s) = 1 + n /\ \A j \in 1..(1 + n) : s[j] = y[l + j - 1]
    <2>1. \A j \in l..(l + n) : y[j] \in Unit
      <3>1. \A j \in l..(l + n) : j \in 1..Len(y)
        BY <1>2, <1>5
      <3> QED
        BY <1>5, <3>1, ElementOfSeq
    <2>2. /\ SubSeq(y, l, l + n) \in Seq(Unit)
          /\ Len(SubSeq(y, l, l + n)) = IF l <= l + n THEN (l + n) - l + 1 ELSE 0
          /\ \A j \in 1..((l + n) - l + 1) : SubSeq(y, l, l + n)[j] = y[l + j - 1]
      BY <2>1, SubSeqProperties
    <2> QED
      BY <1>7, <2>2
  <1>9. ASSUME NEW j \in 1..(1 + n) PROVE s[j] = z[j]
    <2>1. l + j - 1 \in 1..(l + n) /\ j \in Nat
      BY <1>2
    <2>2. CASE j = 1
      <3>1. l + j - 1 = l /\ l <= l /\ l \in 1..(l + n)
        BY <2>2
      <3>1a. s[j] = w[l]
        BY <1>5, <1>8, <3>1
      <3>2. z[j] = h[1]
        BY <1>6, <2>2
      <3> QED
        BY <1>2, <1>4, <3>1a, <3>2
    <2>3. CASE j # 1
      <3>1. ~(l + j - 1 <= l) /\ (l + j - 1) - l = j - 1 /\ ~(j <= 1)
        BY <2>1, <2>3
      <3>2. s[j] = b[j - 1]
        BY <1>5, <1>8, <2>1, <3>1
      <3>3. z[j] = b[j - 1]
        BY <1>6, <3>1
      <3> QED
        BY <3>2, <3>3
    <2> QED
      BY <2>2, <2>3
  <1>10. s = z
    BY <1>6, <1>8, <1>9, SeqEqual
  <1>11. l \in 1..(Len(y) - BodySize[m])
    BY <1>1, <1>2, <1>5
  <1>12. SubSeq(y, l, l + BodySize[m]) = <<Header(m)>> \o Body(m)
    BY <1>1, <1>3, <1>4, <1>6, <1>7, <1>10
  <1> QED
    BY <1>3, <1>5, <1>11, <1>12 DEF OnWireOf, LiesAt

\* The message is the only one that is posted or queued.
StillQueued(m) == \/ posted = <<m>> /\ deq_messages_out = <<>>
                  \/ posted = <<>> /\ deq_messages_out = <<m>>

\* All but the last message are on the wire, and so is the last if it has left the queue.
WrittenInv ==
    \A i \in 1..Len(sent) : \/ OnWireOf(sent[i], wire)
                            \/ i = Len(sent) /\ StillQueued(sent[i])

LEMMA InitWritten == Init => WrittenInv
  BY DEF Init, WrittenInv

LEMMA WireGrows ==
  ASSUME TypeInv, IInv, [Next]_vars
  PROVE  \E x \in Seq(Unit) : wire' = wire \o x
  <1>0. wire \in Seq(Unit)
    BY DEF TypeInv, TypeOK
  <1>1. CASE HeaderWritten \/ BodyWritten
    <2>1. writing[1] \in Write
      <3>1. writing # <<>>
        BY <1>1 DEF HeaderWritten, BodyWritten
      <3> QED
        BY <3>1, ShortQueue DEF IInv, WriterOK, OneWriteAtATime
    <2>2. PICK k \in Messages : k = writing[1].msg
      BY <2>1 DEF Write
    <2>3. /\ Header(k) \in Unit /\ Body(k) \in Seq(Unit) /\ <<Header(k)>> \in Seq(Unit)
          /\ Append(wire, Header(k)) = wire \o <<Header(k)>>
      BY <1>0, BodyFacts, AppendIsConcat
    <2>4. wire' = wire \o <<Header(k)>> \/ wire' = wire \o Body(k)
      BY <1>1, <2>2, <2>3 DEF HeaderWritten, BodyWritten
    <2> QED
      BY <2>3, <2>4
  <1>2. CASE UNCHANGED wire
    <2>1. wire = wire \o <<>> /\ <<>> \in Seq(Unit)
      BY <1>0, ConcatEmptySeq
    <2> QED
      BY <1>2, <2>1
  <1>3. HeaderWritten \/ BodyWritten \/ UNCHANGED wire
    BY DEF Next, Writer, Reader, Send, RunSend, WriteFails, ReadHeader, ResizeThrows,
           ReadBody, ReadFails, Break, vars
  <1> QED
    BY <1>1, <1>2, <1>3

\* A sender's handler takes the message under way out of the queue only when the last of
\* it is on the wire.
LEMMA WriterWrites ==
  ASSUME TypeInv, IInv, BurstInv, SerialInv, Writer,
         NEW k \in Messages, k = sent[Len(sent)], StillQueued(k)
  PROVE  StillQueued(k)' \/ OnWireOf(k, wire')
  <1>1. Underway(k)
    <2>1. ~Quiet
      BY DEF Quiet, Writer, RunSend, HeaderWritten, BodyWritten, WriteFails
    <2> QED
      BY <2>1 DEF SerialInv
  <1>2. wire \in Seq(Unit) /\ BodySize[k] \in Nat /\ Body(k) \in Seq(Unit)
        /\ Len(Body(k)) = BodySize[k] /\ Header(k) \in Unit
    BY BodyFacts DEF TypeInv, TypeOK
  <1>3. CASE RunSend
    <2>1. posted = <<k>> /\ deq_messages_out = <<>>
      BY <1>3 DEF RunSend, StillQueued
    <2>2. posted' = Tail(<<k>>) /\ deq_messages_out' = <<Head(<<k>>)>> \o <<>>
      BY <1>3, <2>1 DEF RunSend
    <2>3. <<k>> \o <<>> = <<k>> /\ Tail(<<k>>) = <<>> /\ Head(<<k>>) = k
      BY ConcatEmptySeq
    <2> QED
      BY <2>2, <2>3 DEF StillQueued
  <1>4. CASE HeaderWritten
    <2>1. writing = <<[part |-> "header", msg |-> k]>> /\ WritingHeader(k)
      BY <1>1, <1>4
         DEF HeaderWritten, Underway, Posted, WritingHeader, WritingBody, AllWritten
    <2>2. posted = <<>> /\ deq_messages_out = <<k>> /\ Head(deq_messages_out) = k
      BY <2>1 DEF WritingHeader
    <2>3. CASE BodySize[k] > 0
      BY <1>4, <2>2, <2>3 DEF HeaderWritten, StillQueued
    <2>4. CASE ~(BodySize[k] > 0)
      <3>1. Body(k) = <<>>
        BY <1>2, <2>4, EmptySeq
      <3>2. wire' = Append(wire, Header(k))
        BY <1>4, <2>1 DEF HeaderWritten
      <3>3. /\ wire' \in Seq(Unit) /\ wire' # <<>> /\ wire'[Len(wire')] = Header(k)
        <4>1. /\ Append(wire, Header(k)) \in Seq(Unit) /\ Append(wire, Header(k)) # <<>>
              /\ Len(Append(wire, Header(k))) = Len(wire) + 1
              /\ Append(wire, Header(k))[Len(wire) + 1] = Header(k)
          BY <1>2, AppendProperties
        <4> QED
          BY <3>2, <4>1
      <3>4. PICK y \in Seq(Unit) : y = wire'
        BY <3>3
      <3>5. OnWireOf(k, y \o Body(k))
        BY <3>3, <3>4, WholeMessage
      <3>6. y \o Body(k) = y
        BY <3>1, <3>4, ConcatEmptySeq
      <3> QED
        BY <3>4, <3>5, <3>6
    <2> QED
      BY <2>3, <2>4
  <1>5. CASE BodyWritten
    <2>1. writing = <<[part |-> "body", msg |-> k]>> /\ WritingBody(k)
      BY <1>1, <1>5
         DEF BodyWritten, Underway, Posted, WritingHeader, WritingBody, AllWritten
    <2>2. deq_messages_out = <<k>> /\ deq_messages_out[Len(deq_messages_out)] = k
      BY <2>1 DEF WritingBody
    <2>3. wire # <<>> /\ wire[Len(wire)] = Header(k)
      BY <2>1, <2>2 DEF BurstInv, OpenerInv
    <2>4. wire' = wire \o Body(k)
      BY <1>5, <2>1 DEF BodyWritten
    <2> QED
      BY <1>2, <2>3, <2>4, WholeMessage
  <1>6. CASE WriteFails
    BY <1>6 DEF WriteFails, StillQueued
  <1> QED
    BY <1>3, <1>4, <1>5, <1>6 DEF Writer

LEMMA StepWritten ==
  ~Pipelined /\ TypeInv /\ IInv /\ BurstInv /\ SerialInv /\ WrittenInv /\ [Next]_vars
      => WrittenInv'
  <1> SUFFICES ASSUME ~Pipelined, TypeInv, IInv, BurstInv, SerialInv, WrittenInv,
                      [Next]_vars
               PROVE  WrittenInv'
    OBVIOUS
  <1>0. /\ sent \in Seq(Messages) /\ Len(sent) \in Nat /\ wire \in Seq(Unit)
        /\ deq_messages_in \in Seq(TempMessage) /\ Len(deq_messages_in) \in Nat
    BY LenProperties DEF TypeInv, TypeOK
  <1>1. \A k \in Messages : OnWireOf(k, wire) => OnWireOf(k, wire')
    <2>1. PICK x \in Seq(Unit) : wire' = wire \o x
      BY WireGrows
    <2> QED
      BY <1>0, <2>1, OnWireStays
  <1>2. \A i \in 1..Len(sent) : sent[i] \in Messages
    BY <1>0, ElementOfSeq
  <1>3. ASSUME NEW m \in Messages, Send(m) PROVE WrittenInv'
    <2>1. /\ sent' = Append(sent, m) /\ posted' = Append(posted, m)
          /\ UNCHANGED <<deq_messages_out, wire>>
          /\ Len(deq_messages_in) = Len(sent)
      BY <1>3 DEF Send, MayCallSend
    <2>2. posted = <<>> /\ deq_messages_out = <<>>
      BY <1>0, <2>1 DEF SerialInv, Quiet
    <2>3. \A i \in 1..Len(sent) : OnWireOf(sent[i], wire)
      BY <2>2 DEF WrittenInv, StillQueued
    <2>4. /\ Len(sent') = Len(sent) + 1 /\ sent'[Len(sent) + 1] = m
          /\ \A i \in 1..Len(sent) : sent'[i] = sent[i]
      BY <1>0, <2>1
    <2>5. posted' = <<m>>
      <3>1. posted' = Append(<<>>, m)
        BY <2>1, <2>2
      <3> QED
        BY <3>1
    <2>6. StillQueued(m)'
      BY <2>1, <2>2, <2>5 DEF StillQueued
    <2>7. 1..Len(sent') = 1..Len(sent) \cup {Len(sent) + 1}
      BY <1>0, <2>4
    <2>8. ASSUME NEW i \in 1..Len(sent')
          PROVE  OnWireOf(sent'[i], wire') \/ (i = Len(sent') /\ StillQueued(sent[i])')
      <3>1. CASE i \in 1..Len(sent)
        BY <2>1, <2>3, <2>4, <3>1
      <3>2. CASE i = Len(sent) + 1
        <4>1. sent'[i] = m /\ i = Len(sent')
          BY <2>4, <3>2
        <4> QED
          BY <2>1, <2>2, <2>5, <4>1 DEF StillQueued
      <3> QED
        BY <2>7, <3>1, <3>2
    <2> QED
      BY <2>8 DEF WrittenInv
  <1>4. CASE Writer
    <2>1. UNCHANGED sent
      BY <1>4 DEF Writer, RunSend, HeaderWritten, BodyWritten, WriteFails
    <2>2. ASSUME NEW i \in 1..Len(sent)
          PROVE  OnWireOf(sent[i], wire') \/ (i = Len(sent) /\ StillQueued(sent[i])')
      <3>1. CASE OnWireOf(sent[i], wire)
        BY <1>1, <1>2, <3>1
      <3>2. CASE i = Len(sent) /\ StillQueued(sent[i])
        <4>1. PICK k \in Messages : k = sent[Len(sent)]
          BY <1>2, <3>2
        <4>2. StillQueued(k)
          BY <3>2, <4>1 DEF StillQueued
        <4>3. StillQueued(k)' \/ OnWireOf(k, wire')
          BY <1>4, <4>1, <4>2, WriterWrites
        <4> QED
          BY <2>1, <3>2, <4>1, <4>3 DEF StillQueued
      <3> QED
        BY <3>1, <3>2 DEF WrittenInv
    <2> QED
      BY <2>1, <2>2 DEF WrittenInv
  <1>5. CASE Reader \/ Break \/ UNCHANGED vars
    <2>1. UNCHANGED <<sent, posted, deq_messages_out, wire>>
      BY <1>5 DEF Reader, Break, vars, writer, ReadHeader, ResizeThrows, ReadBody, ReadFails
    <2> QED
      BY <2>1 DEF WrittenInv, StillQueued
  <1> QED
    BY <1>3, <1>4, <1>5 DEF Next

LEMMA SerialInvariance == ASSUME ~Pipelined PROVE Spec => []SerialInv
  BY StepSerialInv, InitSerialInv, TypeInvariance, PTL DEF Spec

\* What connection.h:75 says of its queue is true of a caller that waits for each
\* message to arrive: a message that is neither posted nor queued any more was written,
\* its header and its body behind it, also if the connection broke meanwhile.
THEOREM UnqueuedIsWritten == ASSUME ~Pipelined PROVE Spec => []LeavesQueueOnlyWritten
  <1>1. TypeInv /\ WrittenInv => LeavesQueueOnlyWritten
    <2> SUFFICES ASSUME TypeInv, WrittenInv, NEW i \in 1..Len(sent),
                        ~OnWire(sent[i])
                 PROVE  Contains(posted \o deq_messages_out, sent[i])
      BY DEF LeavesQueueOnlyWritten
    <2>1. StillQueued(sent[i])
      BY OnWireIs DEF WrittenInv
    <2>2. PICK k \in Messages : k = sent[i]
      BY ElementOfSeq DEF TypeInv, TypeOK
    <2>3. posted \o deq_messages_out = <<k>>
      <3>1. <<k>> \in Seq(Messages) /\ <<k>> \o <<>> = <<k>> /\ <<>> \o <<k>> = <<k>>
        BY ConcatEmptySeq
      <3> QED
        BY <2>1, <2>2, <3>1 DEF StillQueued
    <2> QED
      BY <2>2, <2>3 DEF Contains
  <1>2. Spec => []WrittenInv
    BY StepWritten, InitWritten, SerialInvariance, TypeInvariance, Invariance,
       BurstInvariance, PTL DEF Spec
  <1> QED
    BY <1>1, <1>2, TypeInvariance, PTL
=============================================================================
