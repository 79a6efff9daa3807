------------------------------ MODULE ByteStream ------------------------------
(***************************************************************************)
(* What a connection promises the service that writes to it: the bytes     *)
(* leave in the order in which they were written, each once and when it    *)
(* suits the kernel; after CloseConn nothing is added, and the connection  *)
(* closes with the last byte, or earlier when the peer ends the stream;    *)
(* after that nothing leaves.  No queue, no epoll, no messages.            *)
(***************************************************************************)
EXTENDS Naturals, Sequences

CONSTANT
  Lens          \* the lengths of the strings that are written

VARIABLES
  written,      \* the bytes that were written, which are numbered from 1
  sent,         \* those that have left, in order
  received,     \* how many of these the peer has read
  closing,      \* CloseConn was called
  ended,        \* the peer has ended or reset the stream
  closed        \* the connection is closed

streamVars == <<written, sent, received, closing, ended, closed>>

StreamInit ==
  /\ written = 0 /\ sent = <<>> /\ received = 0
  /\ closing = FALSE /\ ended = FALSE /\ closed = FALSE

(* The next of the bytes that were written by now leave. *)
Leave ==
  \E n \in 0 .. written' - Len(sent) :
    sent' = sent \o [i \in 1 .. n |-> Len(sent) + i]

Write(len) ==
  /\ ~closing /\ ~closed
  /\ written' = written + len
  /\ Leave
  /\ UNCHANGED <<received, closing, ended, closed>>

Transmit ==
  /\ ~closed
  /\ written' = written
  /\ Leave
  /\ UNCHANGED <<received, closing, ended, closed>>

Receive ==
  /\ ~closed
  /\ received < Len(sent)
  /\ received' = received + 1
  /\ UNCHANGED <<written, sent, closing, ended, closed>>

CloseConn ==
  /\ ~closing /\ ~closed
  /\ closing' = TRUE
  /\ UNCHANGED <<written, sent, received, ended, closed>>

End ==
  /\ ended' = TRUE
  /\ UNCHANGED <<written, sent, received, closing, closed>>

Close ==
  /\ ~closed
  /\ ended \/ (closing /\ Len(sent) = written)
  /\ closed' = TRUE
  /\ UNCHANGED <<written, sent, received, closing, ended>>

StreamNext ==
  \/ \E len \in Lens : Write(len)
  \/ Transmit \/ Receive \/ CloseConn \/ End \/ Close

StreamSpec == StreamInit /\ [][StreamNext]_streamVars
=============================================================================
