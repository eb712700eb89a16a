---------------------------- MODULE FifoChannel ----------------------------
(***************************************************************************)
(* What a message carrier of this program promises to its two ends: what   *)
(* is received is what was sent, in the order it was sent, each item once. *)
(* The in-process queue between the event-loop thread and the main thread  *)
(* (TSQueue) and the byte stream of a connection (MessageStream) are both  *)
(* shown to implement it, the latter for one message in flight at a time.  *)
(***************************************************************************)
EXTENDS Naturals, Sequences

CONSTANT Items

VARIABLES sent,       \* everything given to the carrier so far
          received    \* everything it has handed out so far

vars == <<sent, received>>

Init == /\ sent = <<>>
        /\ received = <<>>

Put(x) == /\ sent' = Append(sent, x)
          /\ UNCHANGED received

Take == /\ Len(received) < Len(sent)
        /\ received' = Append(received, sent[Len(received) + 1])
        /\ UNCHANGED sent

Next == Take \/ \E x \in Items : Put(x)

Spec == Init /\ [][Next]_vars
=============================================================================
