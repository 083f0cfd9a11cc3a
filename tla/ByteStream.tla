----------------------------- MODULE ByteStream -----------------------------
(***************************************************************************)
(* What a connection-oriented interface object promises to the Octave      *)
(* program that reads from it.  Each source (the remote end of one         *)
(* connection) emits a stream of bytes, numbered 1, 2, 3, ...; each read   *)
(* or flush the program makes is answered once.  An answer "ok" hands over *)
(* the bytes that follow the last byte consumed from one source, with no   *)
(* gap, repetition or reordering and none from another source.  Bytes that *)
(* are consumed and never handed over are reported: the program asked for  *)
(* them to be dropped ("flushed") or the call raised an error ("error").   *)
(***************************************************************************)
EXTENDS Naturals, Sequences

CONSTANT Source      \* the remote ends a program may read from

VARIABLES
  sent,              \* sent[s]: number of bytes s has emitted
  mark,              \* mark[s]: bytes of s consumed by answered calls
  last               \* the answer to the latest call: [status, bytes]

svars == <<sent, mark, last>>

Status == {"none", "ok", "flushed", "error"}

Answer(status, bytes) == [status |-> status, bytes |-> bytes]

\* Bytes i+1 .. j of the stream of s, in order.
Segment(s, i, j) == [k \in 1 .. (j - i) |-> <<s, i + k>>]

Init ==
  /\ sent = [s \in Source |-> 0]
  /\ mark = [s \in Source |-> 0]
  /\ last = Answer("none", << >>)

\* More of the stream of s comes into being, as much as its carrier brings.
Emit(s) ==
  /\ sent' = [sent EXCEPT ![s] = sent'[s]]
  /\ sent'[s] > sent[s]
  /\ UNCHANGED <<mark, last>>

\* The program starts another call: the previous answer is no longer current.
Begin ==
  /\ last' = Answer("none", << >>)
  /\ UNCHANGED <<sent, mark>>

Deliver(s, j) ==
  /\ mark[s] <= j
  /\ j <= sent[s]
  /\ last' = Answer("ok", Segment(s, mark[s], j))
  /\ mark' = [mark EXCEPT ![s] = j]
  /\ UNCHANGED sent

Drop(s, j, status) ==
  /\ mark[s] <= j
  /\ j <= sent[s]
  /\ last' = Answer(status, << >>)
  /\ mark' = [mark EXCEPT ![s] = j]
  /\ UNCHANGED sent

Next ==
  \/ Begin
  \/ \E s \in Source : Emit(s)
  \/ \E s \in Source : \E j \in 0 .. sent[s] :
       \/ Deliver(s, j)
       \/ Drop(s, j, "flushed")
       \/ Drop(s, j, "error")

Spec == Init /\ [][Next]_svars

=============================================================================
