------------------------------ MODULE Connection ------------------------------
(***************************************************************************)
(* One client connection, from accept to close: the reading and closing of *)
(* Service::OnRWMsg (src/Service.cpp), the write buffer of                 *)
(* src/ConnWriter.cpp, the events of src/SocketWorker.cpp, and the kernel  *)
(* and the peer on the other side of the system calls.                     *)
(*                                                                         *)
(* The worker that has the service, the thread of SocketWorker, the kernel *)
(* and the peer interleave between any two system calls.  What the worker  *)
(* does between two of them is one step.  The bytes that the service       *)
(* writes are numbered in the order of the calls of sunnet.Write, those    *)
(* that it reads are only counted.                                         *)
(*                                                                         *)
(* The kernel is external: a TCP socket with a bounded send buffer, and an *)
(* edge-triggered epoll that puts the socket on its ready list when        *)
(* something happens to it and tells its state when epoll_wait takes it    *)
(* off.                                                                    *)
(*                                                                         *)
(* A definition whose name ends in Slip is the one after it with a         *)
(* plausible programming slip; no specification uses it.                   *)
(***************************************************************************)
EXTENDS Integers, Sequences, FiniteSets

CONSTANTS
  BuffSize,     \* BUFFSIZE of OnRWMsg
  SendBuffer,   \* the bytes that the kernel buffers for the peer
  Lens,         \* the lengths of the strings that Lua writes
  Errnos,       \* what errno may be left at by an earlier call of the thread
  MaxBytes,     \* bound on the bytes that Lua writes
  MaxObjs,      \* bound on the queue of unfinished writes
  MaxData,      \* bound on the bytes that the peer sends
  MayReset      \* whether the peer may reset the connection

ASSUME ConnectionAssumption ==
  /\ {BuffSize, SendBuffer} \subseteq Nat \ {0}
  /\ {MaxBytes, MaxObjs, MaxData} \subseteq Nat
  /\ Lens \subseteq Nat
  /\ Errnos \subseteq {"EAGAIN", "other"} /\ Errnos # {}
  /\ MayReset \in BOOLEAN

VARIABLES
  (* the service *)
  writer,       \* whether Service::writers has the descriptor
  closed,       \* Conn::closed
  isClosing,    \* ConnWriter::isClosing
  objs,         \* ConnWriter::objs: what is left of each write, from .. to
  accepted,     \* the bytes that sunnet.Write has taken
  mailbox,      \* the messages about the connection, a set of flags each
  msg,          \* the message in hand
  pc,           \* where the worker is in it
  watch,        \* a write was cut short, and ModifyEvent is next
  missed,       \* not in the program: reads stopped at the end, unnoticed
  (* the kernel *)
  inbox,        \* the bytes to read
  wire,         \* the bytes that write has put in the send buffer, in order
  rdShut,       \* shutdown(SHUT_RD) was called
  noSpace,      \* the kernel owes an event when the send buffer has room
  interestOut,  \* EPOLLOUT is in the interest of epoll
  ready,        \* the socket is on epoll's ready list
  (* the peer *)
  came,         \* the bytes it has sent
  eof,          \* it has shut down its sending side
  reset,        \* it has reset the connection
  peerGot       \* the bytes of wire it has received

serviceVars == <<writer, closed, isClosing, objs, accepted, mailbox, msg, pc, watch, missed>>
kernelVars == <<inbox, wire, rdShut, noSpace, interestOut, ready>>
peerVars == <<came, eof, reset, peerGot>>
vars == <<serviceVars, kernelVars, peerVars>>

(* SocketWorker::OnAccept has stored and registered the connection, and    *)
(* has sent the service a SocketAcceptMsg.                                 *)
Init ==
  /\ writer = FALSE /\ closed = FALSE /\ isClosing = FALSE
  /\ objs = <<>> /\ accepted = 0
  /\ mailbox = <<{"accept"}>> /\ msg = {} /\ pc = "idle" /\ watch = FALSE /\ missed = FALSE
  /\ inbox = 0 /\ wire = <<>> /\ rdShut = FALSE
  /\ noSpace = FALSE /\ interestOut = FALSE /\ ready = FALSE
  /\ came = 0 /\ eof = FALSE /\ reset = FALSE /\ peerGot = 0

-----------------------------------------------------------------------------
(* The kernel.                                                             *)

(* Behind the bytes to read is the end of the stream. *)
Ended == eof \/ reset \/ rdShut

Readable == inbox > 0 \/ Ended

Room == SendBuffer - (Len(wire) - peerGot)

Writable == Room > 0 \/ reset

(* What epoll_wait reports, with EPOLLOUT of interest or not. *)
Events(out) ==
  (IF Readable THEN {"read"} ELSE {}) \cup
  (IF out /\ Writable THEN {"write"} ELSE {})

(* Polling a socket without room makes the kernel owe an event. *)
Polled == noSpace' = (noSpace \/ ~Writable)

(* EPOLL_CTL_MOD polls the socket and may make it ready. *)
ModifyEvent(out) ==
  /\ interestOut' = out
  /\ ready' = (ready \/ Events(out) # {})
  /\ Polled

(* The bytes that write() takes of len bytes; the call fails with EAGAIN   *)
(* when there is no room, with another error after a reset.                *)
Fails(len) == reset \/ len = 0

Taken(len) == IF len <= Room THEN len ELSE Room

Put(from, n) == wire' = wire \o [i \in 1 .. n |-> from + i - 1]

-----------------------------------------------------------------------------
(* The peer.                                                               *)

PeerSends ==
  /\ ~closed /\ ~eof /\ ~reset
  /\ came < MaxData
  /\ came' = came + 1
  /\ inbox' = inbox + 1
  /\ ready' = TRUE
  /\ UNCHANGED <<serviceVars, wire, rdShut, noSpace, interestOut, eof, reset, peerGot>>

(* It closes its sending side and goes on to read, or not. *)
PeerCloses ==
  /\ ~closed /\ ~eof /\ ~reset
  /\ eof' = TRUE
  /\ ready' = TRUE
  /\ UNCHANGED <<serviceVars, inbox, wire, rdShut, noSpace, interestOut, came, reset, peerGot>>

PeerResets ==
  /\ MayReset
  /\ ~closed /\ ~reset
  /\ reset' = TRUE
  /\ ready' = TRUE
  /\ UNCHANGED <<serviceVars, inbox, wire, rdShut, noSpace, interestOut, came, eof, peerGot>>

(* Reading makes room; epoll is told only if EPOLLOUT is of interest. *)
PeerReads ==
  /\ ~closed /\ ~reset
  /\ peerGot < Len(wire)
  /\ peerGot' = peerGot + 1
  /\ noSpace' = FALSE
  /\ ready' = (ready \/ (noSpace /\ interestOut))
  /\ UNCHANGED <<serviceVars, inbox, wire, rdShut, interestOut, came, eof, reset>>

-----------------------------------------------------------------------------
(* SocketWorker: epoll_wait, and OnEvent that sends a SocketRWMsg.  After  *)
(* Closeconn it finds no connection for the descriptor.                    *)
OnEvent ==
  /\ ready /\ ~closed
  /\ ready' = FALSE
  /\ Polled
  /\ mailbox' = IF Events(interestOut) = {} THEN mailbox
                ELSE Append(mailbox, Events(interestOut))
  /\ UNCHANGED <<writer, closed, isClosing, objs, accepted, msg, pc, watch, missed,
                 inbox, wire, rdShut, interestOut, peerVars>>

-----------------------------------------------------------------------------
(* The messages of the service.                                            *)

At(place) == pc = place /\ ~watch

(* Slip: the flag that LingerClose sends is not looked at. *)
MayReadSlip(m) == "read" \in m /\ ~isClosing

(* A read request counts unless the connection is being closed; the one    *)
(* that LingerClose sends always counts.                                   *)
MayRead(m) == "read" \in m /\ (~isClosing \/ "close" \in m)

(* What follows the reading of a message. *)
AfterRead(m) == IF "write" \in m THEN "write" ELSE "idle"

(* OnAcceptMsg, and the start of OnRWMsg, which ignores a message about a  *)
(* connection that was closed.                                             *)
TakeMessage ==
  /\ At("idle")
  /\ mailbox # <<>>
  /\ mailbox' = Tail(mailbox)
  /\ msg' = Head(mailbox)
  /\ writer' = (writer \/ "accept" \in Head(mailbox))
  /\ pc' = IF closed THEN "idle"
           ELSE IF MayRead(Head(mailbox)) THEN "read"
           ELSE AfterRead(Head(mailbox))
  /\ UNCHANGED <<closed, isClosing, objs, accepted, watch, missed, kernelVars, peerVars>>

(* read() finds bytes, and OnSocketData runs.  The loop goes on when the   *)
(* buffer was filled.                                                      *)
ReadData ==
  /\ At("read")
  /\ inbox > 0
  /\ IF inbox >= BuffSize
     THEN inbox' = inbox - BuffSize /\ pc' = "data" /\ UNCHANGED missed
     ELSE inbox' = 0 /\ pc' = "last data" /\ missed' = (missed \/ Ended)
  /\ UNCHANGED <<writer, closed, isClosing, objs, accepted, mailbox, msg, watch,
                 wire, rdShut, noSpace, interestOut, ready, peerVars>>

(* Slip: one read per message, as if epoll were level-triggered. *)
DataReturnsSlip ==
  /\ At("data") \/ At("last data")
  /\ pc' = AfterRead(msg)
  /\ UNCHANGED <<writer, closed, isClosing, objs, accepted, mailbox, msg, watch, missed,
                 kernelVars, peerVars>>

DataReturns ==
  /\ \/ At("data") /\ pc' = "read"
     \/ At("last data") /\ pc' = AfterRead(msg)
  /\ UNCHANGED <<writer, closed, isClosing, objs, accepted, mailbox, msg, watch, missed,
                 kernelVars, peerVars>>

(* read() has nothing: it fails with EAGAIN. *)
ReadNothing ==
  /\ At("read")
  /\ inbox = 0 /\ ~Ended
  /\ pc' = AfterRead(msg)
  /\ UNCHANGED <<writer, closed, isClosing, objs, accepted, mailbox, msg, watch, missed,
                 kernelVars, peerVars>>

(* Slip: only an error closes. *)
ReadEndSlip ==
  /\ At("read")
  /\ inbox = 0 /\ Ended
  /\ IF reset
     THEN pc' = "idle" /\ closed' = TRUE /\ writer' = FALSE
     ELSE pc' = AfterRead(msg) /\ UNCHANGED <<closed, writer>>
  /\ UNCHANGED <<isClosing, objs, accepted, mailbox, msg, watch, missed,
                 kernelVars, peerVars>>

(* read() is at the end and returns 0, which leaves errno as it was, or    *)
(* fails after a reset.  Unless errno is EAGAIN the connection is closed:  *)
(* Conn::closed, OnSocketClose and Closeconn.                              *)
ReadEnd ==
  /\ At("read")
  /\ inbox = 0 /\ Ended
  /\ \E errno \in Errnos \cup (IF reset THEN {"other"} ELSE {}) :
       IF errno = "EAGAIN"
       THEN pc' = AfterRead(msg) /\ missed' = TRUE /\ UNCHANGED <<closed, writer>>
       ELSE pc' = "idle" /\ closed' = TRUE /\ writer' = FALSE /\ UNCHANGED missed
  /\ UNCHANGED <<isClosing, objs, accepted, mailbox, msg, watch, kernelVars,
                 peerVars>>

-----------------------------------------------------------------------------
(* sunnet.Write and sunnet.CloseConn, in OnSocketData or, between the      *)
(* messages about the connection, in any other handler of the service.     *)
InLua == (At("idle") \/ At("data") \/ At("last data")) /\ writer

Obj(from, to) == [from |-> from, to |-> to]

(* Slip: EPOLLOUT is asked for only when a part was written. *)
WriteWhenEmptySlip(len) ==
  /\ objs = <<>> /\ ~Fails(len)
  /\ Put(accepted + 1, Taken(len))
  /\ accepted' = accepted + len
  /\ objs' = IF Taken(len) = len THEN <<>>
             ELSE <<Obj(accepted + 1 + Taken(len), accepted + len)>>
  /\ noSpace' = (noSpace \/ Taken(len) < len)
  /\ watch' = (Taken(len) \in 1 .. len - 1)

(* EntireWriteWhenEmpty: of a write that does not fit the rest goes to the *)
(* queue, and ModifyEvent follows; one that fails is dropped.              *)
WriteWhenEmpty(len) ==
  /\ objs = <<>>
  /\ IF Fails(len)
     THEN UNCHANGED <<objs, accepted, wire, noSpace, watch>>
     ELSE /\ Put(accepted + 1, Taken(len))
          /\ accepted' = accepted + len
          /\ IF Taken(len) = len
             THEN UNCHANGED <<objs, noSpace, watch>>
             ELSE /\ objs' = <<Obj(accepted + 1 + Taken(len), accepted + len)>>
                  /\ noSpace' = TRUE
                  /\ watch' = TRUE

WriteWhenNotEmpty(len) ==
  /\ objs # <<>>
  /\ objs' = Append(objs, Obj(accepted + 1, accepted + len))
  /\ accepted' = accepted + len
  /\ UNCHANGED <<wire, noSpace, watch>>

EntireWrite(len) == WriteWhenEmpty(len) \/ WriteWhenNotEmpty(len)

MayWrite(len) ==
  /\ InLua
  /\ accepted + len <= MaxBytes
  /\ Len(objs) < MaxObjs

WriteLeaves == <<writer, closed, isClosing, mailbox, msg, pc, missed, inbox, rdShut,
                 interestOut, ready, peerVars>>

(* Slip: a write that fits goes past the queue. *)
HastyWriteSlip(len) ==
  /\ MayWrite(len) /\ ~isClosing
  /\ IF ~Fails(len) /\ Taken(len) = len
     THEN /\ Put(accepted + 1, len)
          /\ accepted' = accepted + len
          /\ UNCHANGED <<objs, noSpace, watch>>
     ELSE EntireWrite(len)
  /\ UNCHANGED WriteLeaves

(* ConnWriter::EntireWrite.  While the connection is being closed it does  *)
(* nothing, although sunnet.Write then returns 1.                          *)
Write(len) ==
  /\ MayWrite(len) /\ ~isClosing
  /\ EntireWrite(len)
  /\ UNCHANGED WriteLeaves

Watch ==
  /\ watch
  /\ watch' = FALSE
  /\ ModifyEvent(TRUE)
  /\ UNCHANGED <<writer, closed, isClosing, objs, accepted, mailbox, msg, pc, missed,
                 inbox, wire, rdShut, peerVars>>

(* The end of the graceful close, when nothing is left to write: the       *)
(* reading side is shut down, which wakes epoll, and the service sends     *)
(* itself the request that closes.                                         *)
AskToClose ==
  /\ rdShut' = TRUE
  /\ ready' = TRUE
  /\ mailbox' = Append(mailbox, {"read", "close"})

(* ConnWriter::LingerClose. *)
CloseConn ==
  /\ InLua /\ ~isClosing
  /\ isClosing' = TRUE
  /\ IF objs = <<>> THEN AskToClose ELSE UNCHANGED <<rdShut, ready, mailbox>>
  /\ UNCHANGED <<writer, closed, objs, accepted, msg, pc, watch, missed, inbox, wire,
                 noSpace, interestOut, peerVars>>

-----------------------------------------------------------------------------
(* ConnWriter::OnWriteable.                                                *)

FrontLen == Head(objs).to - Head(objs).from + 1

(* WriteFrontObj writes all of the first write. *)
WriteFront ==
  /\ At("write")
  /\ objs # <<>> /\ ~Fails(FrontLen) /\ Taken(FrontLen) = FrontLen
  /\ Put(Head(objs).from, FrontLen)
  /\ objs' = Tail(objs)
  /\ UNCHANGED <<writer, closed, isClosing, accepted, mailbox, msg, pc, watch, missed,
                 inbox, rdShut, noSpace, interestOut, ready, peerVars>>

(* It writes a part, or nothing: the buffer is full. *)
WritePart ==
  /\ At("write")
  /\ objs # <<>> /\ ~Fails(FrontLen) /\ Taken(FrontLen) < FrontLen
  /\ Put(Head(objs).from, Taken(FrontLen))
  /\ objs' = [objs EXCEPT ![1].from = @ + Taken(FrontLen)]
  /\ noSpace' = TRUE
  /\ pc' = "idle"
  /\ UNCHANGED <<writer, closed, isClosing, accepted, mailbox, msg, watch, missed,
                 inbox, rdShut, interestOut, ready, peerVars>>

(* It fails, and leaves the queue as it is. *)
WriteError ==
  /\ At("write")
  /\ objs # <<>> /\ Fails(FrontLen)
  /\ pc' = "idle"
  /\ UNCHANGED <<writer, closed, isClosing, objs, accepted, mailbox, msg, watch, missed,
                 kernelVars, peerVars>>

(* Nothing is left: EPOLLOUT is dropped, and a close that waits goes on. *)
Drained ==
  /\ At("write")
  /\ objs = <<>>
  /\ pc' = "idle"
  /\ IF isClosing
     THEN AskToClose /\ interestOut' = FALSE /\ Polled
     ELSE ModifyEvent(FALSE) /\ UNCHANGED <<rdShut, mailbox>>
  /\ UNCHANGED <<writer, closed, isClosing, objs, accepted, msg, watch, missed, inbox,
                 wire, peerVars>>

-----------------------------------------------------------------------------
ServiceStep ==
  \/ TakeMessage \/ ReadData \/ DataReturns \/ ReadNothing \/ ReadEnd
  \/ Watch \/ WriteFront \/ WritePart \/ WriteError \/ Drained

LuaCall == CloseConn \/ \E len \in Lens : Write(len)

PeerStep == PeerSends \/ PeerCloses \/ PeerResets \/ PeerReads

Next == ServiceStep \/ LuaCall \/ OnEvent \/ PeerStep

Spec == Init /\ [][Next]_vars

(* Workers take the service and SocketWorker its events, handlers return,  *)
(* and the peer reads on.                                                  *)
FairSpec ==
  Spec /\ WF_vars(ServiceStep) /\ WF_vars(OnEvent) /\ WF_vars(PeerReads)

-----------------------------------------------------------------------------
(* Type invariant. *)
Objs == [from : 1 .. MaxBytes + 1, to : 0 .. MaxBytes]

TypeOK ==
  /\ {writer, closed, isClosing, watch, missed, rdShut, noSpace, interestOut, ready,
      eof, reset} \subseteq BOOLEAN
  /\ objs \in Seq(Objs) /\ Len(objs) <= MaxObjs
  /\ \A i \in 1 .. Len(objs) : objs[i].from <= objs[i].to + 1
  /\ accepted \in 0 .. MaxBytes
  /\ mailbox \in Seq(SUBSET {"accept", "read", "write", "close"})
  /\ msg \subseteq {"accept", "read", "write", "close"}
  /\ pc \in {"idle", "read", "data", "last data", "write"}
  /\ wire \in Seq(1 .. MaxBytes) /\ Len(wire) <= accepted
  /\ peerGot \in 0 .. Len(wire) /\ Room >= 0
  /\ {inbox, came} \subseteq 0 .. MaxData /\ inbox <= came

(* What Lua wrote reaches the socket in order, nothing twice and nothing   *)
(* left out, however the writes are cut and wherever they are queued.      *)
InOrder == \A i \in 1 .. Len(wire) : wire[i] = i

(* A write in the queue has an event to come: EPOLLOUT is registered, or   *)
(* about to be, and either the event is on its way to OnWriteable or the   *)
(* kernel owes it.  The edge that a read of the peer makes between the     *)
(* write that failed and the registration is the one that could be lost.   *)
(* An empty string at the head of the queue has none: write() of it        *)
(* returns 0, which OnWriteable takes for an error.                        *)
WriteOnItsWay ==
  \/ ready
  \/ pc = "write"
  \/ "write" \in msg /\ pc # "idle"
  \/ \E i \in 1 .. Len(mailbox) : "write" \in mailbox[i]

EmptyFirst == objs # <<>> /\ Head(objs).from > Head(objs).to

QueueIsWatched ==
  objs # <<>> /\ ~closed /\ ~reset /\ ~EmptyFirst =>
    watch \/ (interestOut /\ (WriteOnItsWay \/ (noSpace /\ Room = 0)))

(* Data to read is never forgotten: the edge that announced it is on its   *)
(* way, or the loop of OnRWMsg is not finished.                            *)
DataIsRead ==
  inbox > 0 /\ ~closed /\ ~isClosing =>
    \/ ready
    \/ pc \in {"read", "data"}
    \/ \E i \in 1 .. Len(mailbox) : "read" \in mailbox[i]

(* The request to close is sent when the queue is empty, and it stays      *)
(* empty: sunnet.CloseConn does not cut off what was written before it.    *)
CloseRequestIsLast ==
  (\E i \in 1 .. Len(mailbox) : "close" \in mailbox[i]) \/ "close" \in msg =>
    isClosing /\ rdShut /\ objs = <<>>

(* A close cuts off what the service wrote before CloseConn only if the    *)
(* peer ended or reset the stream: then the read loop that called          *)
(* OnSocketData, and CloseConn in it, may find the end and close at once.  *)
CloseWaits == closed /\ isClosing => objs = <<>> \/ eof \/ reset

(* No write, no data and no request to close is ever left without an event *)
(* or a message that will take care of it, or is taken care of too early.  *)
Inv == TypeOK /\ QueueIsWatched /\ DataIsRead /\ CloseRequestIsLast /\ CloseWaits

(* What holds besides, so that those hold after every step: the queue has, *)
(* in one piece, the bytes that Lua wrote and the socket has not taken.    *)
QueueGoesOn ==
  /\ objs = <<>> => Len(wire) = accepted
  /\ objs # <<>> => Head(objs).from = Len(wire) + 1 /\ objs[Len(objs)].to = accepted
  /\ \A i \in 1 .. Len(objs) - 1 : objs[i + 1].from = objs[i].to + 1
  /\ \A i \in 1 .. Len(objs) : objs[i].to <= accepted

(* Only the end of the stream closes, and the worker is done with it then; *)
(* and LingerClose ends the stream only when nothing is left to write.     *)
EndIsFirst ==
  /\ closed => Ended /\ pc = "idle"
  /\ rdShut => isClosing /\ objs = <<>>

(* SocketAcceptMsg is the first message and finds the connection new, so a *)
(* writer that has gone with its connection does not come back.            *)
AcceptIsFirst ==
  /\ closed => ~writer
  /\ \A i \in 1 .. Len(mailbox) : "accept" \in mailbox[i] =>
       i = 1 /\ ~writer /\ ~closed /\ pc = "idle"

IInv == Inv /\ InOrder /\ QueueGoesOn /\ EndIsFirst /\ AcceptIsFirst

(* A connection implements a stream of bytes: what Lua writes leaves in    *)
(* order and once, however the writes are cut and queued, and no step of   *)
(* the worker, the kernel or the peer closes before the last byte of a     *)
(* service that asked to close, or writes after the close.                 *)
Stream == INSTANCE ByteStream WITH
  written <- accepted,
  sent <- wire,
  received <- peerGot,
  closing <- isClosing,
  ended <- eof \/ reset

ImplementsByteStream == Stream!StreamSpec

-----------------------------------------------------------------------------
(* Liveness. *)

(* A close that waits for writes which fail waits for ever. *)
Abandoned == isClosing /\ reset /\ objs # <<>>

(* After the end of the stream, or a reset, the connection is closed,      *)
(* unless the reads stopped just before the end, or at it with errno left  *)
(* at EAGAIN: nothing else hides it.                                       *)
EndCloses ==
  eof \/ reset ~> closed \/ missed \/ Abandoned \/ (isClosing /\ EmptyFirst)

(* What sunnet.CloseConn promises: the connection is closed when the write *)
(* buffer is empty, with the same exceptions.                              *)
CloseConnCloses ==
  isClosing ~> closed \/ missed \/ Abandoned \/ EmptyFirst

(* What sunnet.Write promises: what does not fit is written when the       *)
(* socket is writable again.                                               *)
WritesDrain == objs # <<>> ~> objs = <<>> \/ closed \/ reset \/ EmptyFirst
=============================================================================
