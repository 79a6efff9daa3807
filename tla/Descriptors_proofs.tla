--------------------------- MODULE Descriptors_proofs ---------------------------
(***************************************************************************)
(* A descriptor that is used again leads to the connection that has it,    *)
(* for any services, descriptors and bounds.                               *)
(***************************************************************************)
EXTENDS Descriptors, TLAPS, WellFoundedInduction, NaturalsInduction

USE DescriptorsAssumption DEF DescriptorsAssumption
USE DEF NoFd, AnyFd, Conns, NoConn, NullConn, NoAccept, NoClose, NoListen

-----------------------------------------------------------------------------
(* The types of what the proofs look at. *)
LEMMA Typed ==
  ASSUME TypeOK
  PROVE  /\ made \in Nat /\ made <= MaxConns
         /\ \A c \in 1 .. made : c \in Conns
         /\ listeners \subseteq 1 .. made /\ closed \subseteq 1 .. made
         /\ closed \cap listeners = {}
         /\ \A d \in Fds : fds[d] \in Nat /\ conns[d] \in Nat
         /\ \A c \in Conns : fdOf[c] \in Fds \cup {-1}
         /\ accepting.conn \in Nat /\ accepting.next \in {"event", "add", "watch", "notify"}
         /\ \A s \in Services :
              /\ closing[s].fd \in Fds \cup {-1}
              /\ closing[s].next \in {"message", "read", "remove", "close", "close last",
                                  "unwatch"}
              /\ listening[s].conn \in Nat
              /\ listening[s].next \in {"message", "add", "watch"}
<1>1. made \in 0 .. MaxConns /\ fds \in [Fds -> Conns \cup {0}]
  BY DEF TypeOK
<1>2. conns \in [AnyFd -> Conns \cup {0}] /\ fdOf \in [Conns -> AnyFd]
  BY DEF TypeOK
<1>3. listeners \subseteq 1 .. made /\ closed \subseteq 1 .. made /\ closed \cap listeners = {}
  BY DEF TypeOK
<1>4. accepting \in [conn : Conns \cup {0}, on : Conns \cup {0},
                     next : {"event", "add", "watch", "notify"}]
  BY DEF TypeOK
<1>5. closing \in [Services -> [fd : AnyFd,
                   next : {"message", "read", "remove", "close", "close last", "unwatch"}]]
  BY DEF TypeOK
<1>6. listening \in [Services -> [conn : Conns \cup {0}, next : {"message", "add", "watch"}]]
  BY DEF TypeOK
<1>7. made \in Nat /\ made <= MaxConns /\ \A c \in 1 .. made : c \in Conns
  BY <1>1
<1>8. \A d \in Fds : fds[d] \in Nat /\ conns[d] \in Nat
  BY <1>1, <1>2
<1>9. accepting.conn \in Nat /\ accepting.next \in {"event", "add", "watch", "notify"}
  BY <1>4
<1>10. ASSUME NEW s \in Services
       PROVE  /\ closing[s].fd \in Fds \cup {-1}
              /\ closing[s].next \in {"message", "read", "remove", "close", "close last",
                                  "unwatch"}
              /\ listening[s].conn \in Nat
              /\ listening[s].next \in {"message", "add", "watch"}
  <2>1. closing[s] \in [fd : AnyFd,
                   next : {"message", "read", "remove", "close", "close last", "unwatch"}]
    BY <1>5
  <2>2. listening[s] \in [conn : Conns \cup {0}, next : {"message", "add", "watch"}]
    BY <1>6
  <2>3. /\ closing[s].fd \in Fds \cup {-1}
        /\ closing[s].next \in {"message", "read", "remove", "close", "close last",
                                  "unwatch"}
    BY <2>1
  <2>4. /\ listening[s].conn \in Nat
        /\ listening[s].next \in {"message", "add", "watch"}
    BY <2>2
  <2> QED
    BY <2>3, <2>4
<1>11. \A c \in Conns : fdOf[c] \in Fds \cup {-1}
  BY <1>2
<1> QED
  BY <1>3, <1>7, <1>8, <1>9, <1>10, <1>11

(* The connections that were made, and the descriptors, are numbers. *)
LEMMA Counted ==
  ASSUME IInv
  PROVE  /\ TypeOK /\ made \in Nat /\ \A c \in 1 .. made : c \in Conns
         /\ closed \subseteq 1 .. made /\ listeners \subseteq 1 .. made
         /\ closed \cap listeners = {} /\ 0 \notin closed /\ 0 \notin listeners
         /\ NoFd \notin Fds
<1>1. TypeOK
  BY DEF IInv, Inv
<1>2. /\ made \in Nat /\ \A c \in 1 .. made : c \in Conns
      /\ closed \subseteq 1 .. made /\ listeners \subseteq 1 .. made
      /\ closed \cap listeners = {}
  BY <1>1, Typed
<1>3. 0 \notin 1 .. made
  BY <1>2
<1>4. NoFd \notin Nat /\ Fds \subseteq Nat
  OBVIOUS
<1> QED
  BY <1>1, <1>2, <1>3, <1>4

-----------------------------------------------------------------------------
(* The kernel's choice of a descriptor. *)

(* A set of numbers has a lowest one. *)
LEMMA LowestOf ==
  ASSUME NEW D, D \subseteq Nat, D # {}
  PROVE  Lowest(D) \in D
<1> DEFINE Less == {p \in Nat \X Nat : p[1] < p[2]}
<1>1. IsWellFoundedOn(Less, Nat)
  BY NatLessThanWellFounded DEF OpToRel
<1>2. PICK d \in D : \A e \in D : <<e, d>> \notin Less
  BY <1>1, WFMin
<1>3. ASSUME NEW e \in D PROVE d <= e
  <2>1. e \in Nat /\ d \in Nat
    OBVIOUS
  <2>2. e < d => <<e, d>> \in Less
    BY <2>1
  <2> QED
    BY <1>2, <2>1, <2>2
<1> QED
  BY <1>3 DEF Lowest

(* The kernel hands out a descriptor that nobody has, in Conns neither. *)
LEMMA FreeDescriptor ==
  ASSUME TypeOK, ConnsAreOpen, Free # {}
  PROVE  /\ Lowest(Free) \in Fds
         /\ fds[Lowest(Free)] = NoConn /\ conns[Lowest(Free)] = NoConn
         /\ Lowest(Free) \notin watched
<1>1. Free \subseteq Nat
  BY DEF Free
<1>2. Lowest(Free) \in Free
  BY <1>1, LowestOf
<1> QED
  BY <1>2 DEF Free, ConnsAreOpen, TypeOK

-----------------------------------------------------------------------------
(* The mailboxes. *)

(* A message that is sent comes last, if the service is there. *)
LEMMA Sends ==
  ASSUME TypeOK, NEW s \in Services, NEW m \in Messages, Send(s, m)
  PROVE  /\ mailbox' \in [Services -> Seq(Messages)]
         /\ \A t \in Services \ {s} : mailbox'[t] = mailbox[t]
         /\ s \in gone => mailbox'[s] = mailbox[s]
         /\ s \notin gone =>
              /\ Len(mailbox'[s]) = Len(mailbox[s]) + 1
              /\ \A i \in 1 .. Len(mailbox[s]) : mailbox'[s][i] = mailbox[s][i]
              /\ mailbox'[s][Len(mailbox[s]) + 1] = m
<1>1. mailbox \in [Services -> Seq(Messages)] /\ mailbox[s] \in Seq(Messages)
  BY DEF TypeOK
<1>2. /\ Append(mailbox[s], m) \in Seq(Messages)
      /\ Len(Append(mailbox[s], m)) = Len(mailbox[s]) + 1
      /\ \A i \in 1 .. Len(mailbox[s]) : Append(mailbox[s], m)[i] = mailbox[s][i]
      /\ Append(mailbox[s], m)[Len(mailbox[s]) + 1] = m
  BY <1>1
<1> QED
  BY <1>1, <1>2 DEF Send

(* A service takes its first message. *)
LEMMA Handles ==
  ASSUME TypeOK, NEW s \in Services, mailbox[s] # <<>>, Handled(s)
  PROVE  /\ mailbox' \in [Services -> Seq(Messages)]
         /\ \A t \in Services \ {s} : mailbox'[t] = mailbox[t]
         /\ Len(mailbox[s]) \in Nat \ {0}
         /\ Len(mailbox'[s]) = Len(mailbox[s]) - 1
         /\ \A i \in 1 .. Len(mailbox'[s]) : mailbox'[s][i] = mailbox[s][i + 1]
         /\ Message(s) = mailbox[s][1] /\ Message(s) \in Messages
<1>1. mailbox \in [Services -> Seq(Messages)] /\ mailbox[s] \in Seq(Messages)
  BY DEF TypeOK
<1>2. /\ Tail(mailbox[s]) \in Seq(Messages)
      /\ Len(mailbox[s]) \in Nat \ {0}
      /\ Len(Tail(mailbox[s])) = Len(mailbox[s]) - 1
      /\ \A i \in 1 .. Len(Tail(mailbox[s])) : Tail(mailbox[s])[i] = mailbox[s][i + 1]
      /\ Head(mailbox[s]) = mailbox[s][1] /\ Head(mailbox[s]) \in Messages
  BY <1>1
<1> QED
  BY <1>1, <1>2 DEF Handled, Message

(* A service takes its first message and may ask itself to close the       *)
(* connection that it is about.                                            *)
LEMMA HandlesWrite ==
  ASSUME TypeOK, NEW s \in Services, mailbox[s] # <<>>, HandledWrite(s),
         RWMsg(Message(s).conn, "close") \in Messages
  PROVE  /\ mailbox' \in [Services -> Seq(Messages)]
         /\ \A t \in Services \ {s} : mailbox'[t] = mailbox[t]
         /\ Len(mailbox[s]) \in Nat \ {0} /\ Len(mailbox'[s]) \in Nat
         /\ \A i \in 1 .. Len(mailbox[s]) - 1 : mailbox'[s][i] = mailbox[s][i + 1]
         /\ \/ Len(mailbox'[s]) = Len(mailbox[s]) - 1
            \/ /\ Len(mailbox'[s]) = Len(mailbox[s])
               /\ mailbox'[s][Len(mailbox[s])] = RWMsg(Message(s).conn, "close")
         /\ Message(s) = mailbox[s][1] /\ Message(s) \in Messages
<1>1. mailbox \in [Services -> Seq(Messages)] /\ mailbox[s] \in Seq(Messages)
  BY DEF TypeOK
<1>2. /\ Tail(mailbox[s]) \in Seq(Messages)
      /\ Len(mailbox[s]) \in Nat \ {0}
      /\ Len(Tail(mailbox[s])) = Len(mailbox[s]) - 1
      /\ \A i \in 1 .. Len(Tail(mailbox[s])) : Tail(mailbox[s])[i] = mailbox[s][i + 1]
      /\ Head(mailbox[s]) = mailbox[s][1] /\ Head(mailbox[s]) \in Messages
  BY <1>1
<1>3. CASE Handled(s)
  <2>1. /\ mailbox' \in [Services -> Seq(Messages)]
        /\ \A t \in Services \ {s} : mailbox'[t] = mailbox[t]
        /\ Len(mailbox'[s]) = Len(mailbox[s]) - 1
        /\ \A i \in 1 .. Len(mailbox'[s]) : mailbox'[s][i] = mailbox[s][i + 1]
        /\ Message(s) = mailbox[s][1] /\ Message(s) \in Messages
    BY <1>3, Handles
  <2>2. Len(mailbox'[s]) \in Nat
    BY <1>2, <2>1
  <2> QED
    BY <1>2, <2>1, <2>2
<1>4. CASE ~Handled(s)
  <2>1. PICK m \in Messages : m = RWMsg(Message(s).conn, "close")
    OBVIOUS
  <2>2. PICK q \in Seq(Messages) : q = Tail(mailbox[s])
    BY <1>2
  <2>3. mailbox' = [mailbox EXCEPT ![s] = Append(q, m)]
    BY <1>4, <2>1, <2>2 DEF HandledWrite
  <2>4. /\ Append(q, m) \in Seq(Messages)
        /\ Len(Append(q, m)) = Len(q) + 1
        /\ \A i \in 1 .. Len(q) : Append(q, m)[i] = q[i]
        /\ Append(q, m)[Len(q) + 1] = m
    OBVIOUS
  <2>5. mailbox'[s] = Append(q, m) /\ \A t \in Services \ {s} : mailbox'[t] = mailbox[t]
    BY <1>1, <2>3
  <2>6. mailbox' \in [Services -> Seq(Messages)]
    BY <1>1, <2>3, <2>4
  <2>7. Len(q) = Len(mailbox[s]) - 1 /\ Len(q) + 1 = Len(mailbox[s])
    BY <1>2, <2>2
  <2> QED
    BY <1>2, <2>1, <2>2, <2>4, <2>5, <2>6, <2>7 DEF Message
<1> QED
  BY <1>3, <1>4

(* The messages that wait are messages. *)
LEMMA Waiting ==
  ASSUME TypeOK, NEW s \in Services, NEW i \in 1 .. Len(mailbox[s])
  PROVE  /\ mailbox[s][i] \in Messages /\ mailbox[s][i].conn \in Conns
         /\ mailbox[s][i].type \in {"accept", "rw"}
         /\ mailbox[s][i].type = "accept" => mailbox[s][i].fd \in AnyFd
         /\ Len(mailbox[s]) \in Nat
<1>1. mailbox[s] \in Seq(Messages)
  BY DEF TypeOK
<1>2. mailbox[s][i] \in Messages /\ Len(mailbox[s]) \in Nat
  BY <1>1
<1> QED
  BY <1>2 DEF Messages

-----------------------------------------------------------------------------
(* What the steps do, in a state where the invariant holds. *)

(* A connection of a service that is not closed is found in Conns. *)
LEMMA LiveIsFound ==
  ASSUME TypeOK, ConnsAreOpen, OpenUntilClosed, ClosesItsOwn,
         NEW c \in 1 .. made \ closed, fdOf[c] # NoFd, serviceOf[c] \in Services
  PROVE  fdOf[c] \in Fds /\ fds[fdOf[c]] = c /\ conns[fdOf[c]] = c
<1>1. IsOpen(c)
  BY DEF OpenUntilClosed
<1>2. ASSUME NEW s \in Services, closing[s].fd = fdOf[c],
             closing[s].next \in {"close", "close last"}
      PROVE  FALSE
  <2>1. fds[closing[s].fd] \in closed
    BY <1>2 DEF ClosesItsOwn
  <2> QED
    BY <1>1, <1>2, <2>1 DEF IsOpen
<1> QED
  BY <1>1, <1>2 DEF IsOpen, ConnsAreOpen, TypeOK

(* OnEvent finds a connection with a service, and OnAccept a listening one. *)
LEMMA EventIsFor ==
  ASSUME IInv, NEW d \in Fds, conns[d] # NoConn
  PROVE  /\ conns[d] \in 1 .. made /\ fdOf[conns[d]] = d /\ fds[d] = conns[d]
         /\ serviceOf[conns[d]] \in Services
<1>1. conns[d] \in Nat
  BY Typed DEF IInv, Inv
<1>2. conns[d] <= made /\ fdOf[conns[d]] = d /\ serviceOf[conns[d]] \in Services
  BY DEF IInv, Numbered
<1>3. fds[d] = conns[d]
  BY DEF IInv, Inv, ConnsAreOpen
<1>4. conns[d] \in 1 .. made
  <2>1. made \in Nat
    BY Typed DEF IInv, Inv
  <2> QED
    BY <1>1, <1>2, <2>1
<1> QED
  BY <1>2, <1>3, <1>4

(* OnAccept adds a connection that Conns does not have yet, under a        *)
(* descriptor that no other connection has.                                *)
LEMMA AddAcceptedAdds ==
  ASSUME IInv, AddAccepted
  PROVE  LET c == accepting.conn  d == fdOf[c]  s == serviceOf[accepting.on] IN
           /\ c \in 1 .. made /\ c \notin closed \cup listeners /\ s \in Services
           /\ serviceOf[c] = NoService
           /\ d # NoFd => d \in Fds /\ fds[d] = c /\ conns[d] = NoConn
           /\ serviceOf' = [serviceOf EXCEPT ![c] = s]
           /\ d # NoFd => conns' = [conns EXCEPT ![d] = c]
           /\ d = NoFd => conns' \in {conns, [conns EXCEPT ![NoFd] = c]}
           /\ accepting' = [accepting EXCEPT !.next = "watch"]
           /\ UNCHANGED <<kernelVars, batch, serviceVars, made, fdOf, closed, listeners>>
<1> DEFINE c == accepting.conn
           d == fdOf[c]
           s == serviceOf[accepting.on]
<1>1. c # NoConn /\ accepting.next = "add"
  BY DEF AddAccepted, Accepting
<1>2. /\ c \in 1 .. made /\ c \notin closed \cup listeners /\ s \in Services
      /\ serviceOf[c] = NoService
  <2>1. /\ c <= made /\ c \notin closed \cup listeners /\ s \in Services
        /\ serviceOf[c] = NoService
    BY <1>1 DEF IInv, AcceptsNew
  <2>2. c \in Nat /\ made \in Nat
    BY Typed DEF IInv, Inv
  <2> QED
    BY <1>1, <2>1, <2>2
<1>3. d # NoFd => d \in Fds /\ fds[d] = c
  BY <1>2 DEF IInv, OpenUntilClosed, IsOpen
<1>4. d # NoFd => conns[d] = NoConn
  BY <1>2, <1>3, EventIsFor
<1> QED
  BY <1>1, <1>2, <1>3, <1>4 DEF AddAccepted, AddConn, Then

(* Listen adds a socket that Conns does not have yet. *)
LEMMA AddListenerAdds ==
  ASSUME IInv, NEW s \in Services, AddListener(s)
  PROVE  LET c == listening[s].conn  d == fdOf[c] IN
           /\ c \in 1 .. made /\ c \in listeners /\ c \notin closed
           /\ serviceOf[c] = NoService
           /\ d \in Fds /\ fds[d] = c /\ conns[d] = NoConn
           /\ serviceOf' = [serviceOf EXCEPT ![c] = s]
           /\ conns' = [conns EXCEPT ![d] = c]
           /\ listening' = [listening EXCEPT ![s].next = "watch"]
           /\ UNCHANGED <<kernelVars, workerVars, made, fdOf, listeners, closed,
                          writers, lingering, mailbox, closing, gone, crashed>>
<1> DEFINE c == listening[s].conn
           d == fdOf[c]
<1>1. /\ c \in 1 .. made /\ c \in listeners /\ c \notin closed
      /\ serviceOf[c] = NoService
  BY DEF AddListener, IInv, Inv, TypeOK, ListensNew
<1>2. d \in Fds /\ fds[d] = c
  BY <1>1 DEF IInv, OpenUntilClosed, IsOpen
<1>3. conns[d] = NoConn
  BY <1>1, <1>2, EventIsFor
<1> QED
  BY <1>1, <1>2, <1>3 DEF AddListener, AddConn

(* A service that closes does so with its own descriptor, if it is not -1. *)
LEMMA ClosesOwn ==
  ASSUME IInv, NEW s \in Services, closing[s].fd # NoFd,
         closing[s].next \in {"remove", "close", "close last"}
  PROVE  LET d == closing[s].fd IN
           /\ d \in Fds /\ fds[d] \in 1 .. made /\ fds[d] \in closed
           /\ fds[d] \notin listeners /\ d \notin pulse /\ serviceOf[fds[d]] = s
           /\ closing[s].next = "remove" => conns[d] = fds[d]
           /\ closing[s].next # "remove" => closing[s].next = "close" /\ conns[d] = NoConn
<1> DEFINE d == closing[s].fd
<1>1. /\ d \in Fds /\ fds[d] \in closed /\ serviceOf[fds[d]] = s
      /\ \/ closing[s].next = "remove" /\ conns[d] = fds[d]
         \/ closing[s].next = "close" /\ conns[d] = NoConn
  BY Typed DEF IInv, Inv, ClosesItsOwn
<1>2. fds[d] \in 1 .. made /\ fds[d] \notin listeners
  BY <1>1, Typed DEF IInv, Inv
<1>3. d \notin pulse
  BY <1>2 DEF IInv, OpenUntilClosed
<1> QED
  BY <1>1, <1>2, <1>3

(* The first message is about a connection of the service. *)
LEMMA FirstMessage ==
  ASSUME IInv, NEW s \in Services, mailbox[s] # <<>>
  PROVE  /\ 1 \in 1 .. Len(mailbox[s]) /\ Message(s) = mailbox[s][1]
         /\ Message(s) \in Messages /\ Message(s).conn \in 1 .. made
         /\ Message(s).conn \in Conns
         /\ Arrives(s, Message(s))
         /\ RWMsg(Message(s).conn, "close") \in Messages
<1>1. mailbox[s] \in Seq(Messages)
  BY DEF IInv, Inv, TypeOK
<1>2. 1 \in 1 .. Len(mailbox[s]) /\ Message(s) = mailbox[s][1]
  BY <1>1 DEF Message
<1>3. Message(s) \in Messages /\ Message(s).conn \in Conns
  BY <1>2, Waiting DEF IInv, Inv
<1>4. Arrives(s, Message(s))
  BY <1>2 DEF IInv, MessagesArrive
<1>5. Message(s).conn \in 1 .. made
  <2>1. made \in Nat /\ Message(s).conn <= made
    BY <1>4, Counted DEF Arrives
  <2> QED
    BY <1>3, <2>1
<1>6. RWMsg(Message(s).conn, "close") \in Messages
  BY <1>3 DEF RWMsg, Messages
<1> QED
  BY <1>2, <1>3, <1>4, <1>5, <1>6

(* The connection that OnRWMsg closes is the service's and not closed yet, *)
(* and open if it has a descriptor.                                        *)
LEMMA EndsLive ==
  ASSUME IInv, NEW s \in Services, OnEnd(s)
  PROVE  LET c == Message(s).conn  d == fdOf[c] IN
           /\ mailbox[s] # <<>> /\ Handled(s) /\ Message(s).type = "rw"
           /\ c \in 1 .. made /\ c \in Conns /\ c \notin closed \cup listeners
           /\ serviceOf[c] = s /\ d \in AnyFd
           /\ d # NoFd => c # accepting.conn /\ d \in Fds /\ fds[d] = c /\ conns[d] = c
           /\ closed' = closed \cup {c}
           /\ writers' = [writers EXCEPT ![s][d] = NoConn]
           /\ lingering' = [lingering EXCEPT ![s] = @ \ {d}]
           /\ closing[s].next = "read" /\ closing[s].fd = d
           /\ closing' = [closing EXCEPT ![s].next = "remove"]
           /\ UNCHANGED <<kernelVars, workerVars, conns, made, fdOf, serviceOf,
                          listeners, listening, gone, crashed>>
<1> DEFINE c == Message(s).conn
           d == fdOf[c]
<1>1. closing[s].next = "read" /\ Handled(s)
  BY DEF OnEnd
<1>2. /\ mailbox[s] # <<>> /\ Message(s).type = "rw" /\ c \notin closed
      /\ closing[s].fd = d
  BY <1>1 DEF IInv, ReadsItsMessage, Subject
<1>3. c \in 1 .. made /\ c \in Conns /\ Arrives(s, Message(s))
  BY <1>2, FirstMessage
<1>4. c \notin listeners /\ serviceOf[c] = s /\ (d # NoFd => c # accepting.conn)
  BY <1>3 DEF Arrives
<1>5. d \in AnyFd
  BY <1>1, <1>2, Typed DEF IInv, Inv
<1>6. d # NoFd => d \in Fds /\ fds[d] = c /\ conns[d] = c
  BY <1>2, <1>3, <1>4, LiveIsFound DEF IInv, Inv
<1> QED
  BY <1>1, <1>2, <1>3, <1>4, <1>5, <1>6 DEF OnEnd

(* OnRWMsg handles its message and leaves the connection, or has nothing   *)
(* to do.                                                                  *)
Passes(s) == Ignore(s) \/ OnRWMsg(s) \/ OnKeep(s)

LEMMA PassesOver ==
  ASSUME IInv, NEW s \in Services, Passes(s)
  PROVE  /\ mailbox[s] # <<>> /\ HandledWrite(s) /\ Message(s).type = "rw"
         /\ UNCHANGED <<kernelVars, workerVars, connVars, writers, lingering, listening,
                        gone, crashed>>
<1>1. CASE Ignore(s)
  BY <1>1 DEF Ignore, MayHandle, HandledWrite
<1>2. CASE OnRWMsg(s)
  BY <1>2 DEF OnRWMsg, RWLive, MayHandle
<1>3. CASE OnKeep(s)
  BY <1>3 DEF OnKeep, IInv, ReadsItsMessage
<1> QED
  BY <1>1, <1>2, <1>3 DEF Passes

(* A service starts to read, and ends without closing anything. *)
LEMMA ReadTurns ==
  ASSUME TypeOK, NEW s \in Services, Read(s) \/ OnKeep(s)
  PROVE  /\ closing[s].next \in {"message", "read"}
         /\ closing'[s].next \in {"message", "read"}
         /\ closing'[s] \in [fd : AnyFd, next : {"message", "read"}]
         /\ closing' = [closing EXCEPT ![s] = closing'[s]]
         /\ \A t \in Services \ {s} : closing'[t] = closing[t]
         /\ UNCHANGED <<kernelVars, workerVars, connVars, writers, lingering, listening,
                        gone, crashed>>
<1>1. closing \in [Services -> [fd : AnyFd,
                   next : {"message", "read", "remove", "close", "close last", "unwatch"}]]
  BY DEF TypeOK
<1>2. CASE Read(s)
  <2>1. closing[s].next = "message" /\ mailbox[s] # <<>>
    BY <1>2 DEF Read, RWLive, MayHandle, Idle
  <2>2. Subject(s) \in AnyFd
    <3>1. mailbox[s] \in Seq(Messages)
      BY DEF TypeOK
    <3>2. Message(s) \in Messages
      BY <2>1, <3>1 DEF Message
    <3>3. Message(s).conn \in Conns
      BY <3>2 DEF Messages
    <3> QED
      BY <3>3, Typed DEF Subject
  <2>3. PICK x \in AnyFd : x = Subject(s)
    BY <2>2
  <2>4. closing' = [closing EXCEPT ![s] = [fd |-> x, next |-> "read"]]
    BY <1>2, <2>3 DEF Read
  <2>5. closing'[s] = [fd |-> x, next |-> "read"]
    BY <1>1, <2>4
  <2>6. /\ \A t \in Services \ {s} : closing'[t] = closing[t]
        /\ closing' = [closing EXCEPT ![s] = closing'[s]]
    BY <1>1, <2>4, <2>5
  <2>7. /\ closing'[s].next = "read"
        /\ closing'[s] \in [fd : AnyFd, next : {"message", "read"}]
    BY <2>5
  <2> QED
    BY <1>2, <2>1, <2>6, <2>7 DEF Read
<1>3. CASE OnKeep(s)
  BY <1>1, <1>3 DEF OnKeep
<1> QED
  BY <1>2, <1>3

(* sunnet.CloseConn asks the service of the writer's connection, or waits. *)
LEMMA CloseConnSends ==
  ASSUME IInv, NEW s \in Services, NEW d \in AnyFd, CloseConn(s, d)
  PROVE  LET c == writers[s][d]  m == RWMsg(writers[s][d], "close") IN
           /\ c \in 1 .. made /\ c \notin listeners /\ fdOf[c] = d
           /\ serviceOf[c] \in Services
           /\ d # NoFd => c # accepting.conn
           /\ m \in Messages
           /\ mailbox' = mailbox \/ Send(serviceOf[c], m)
           /\ lingering' = [lingering EXCEPT ![s] = @ \cup {d}]
           /\ UNCHANGED <<kernelVars, workerVars, connVars, writers, closing, listening,
                          gone, crashed>>
<1> DEFINE c == writers[s][d]
<1>1. c # NoConn /\ c # NullConn
  BY DEF CloseConn
<1>2. WritersAreLive
  BY DEF IInv
<1>3. CASE d # NoFd
  <2>1. /\ c \in 1 .. made /\ fdOf[c] = d /\ serviceOf[c] = s
        /\ c # accepting.conn /\ c \notin listeners
    BY <1>1, <1>2, <1>3 DEF WritersAreLive
  <2>2. RWMsg(c, "close") \in Messages
    BY <2>1, Counted DEF RWMsg, Messages
  <2> QED
    BY <2>1, <2>2 DEF CloseConn
<1>4. CASE d = NoFd
  <2>1. c \in 1 .. made /\ fdOf[c] = NoFd /\ serviceOf[c] \in Services
    BY <1>1, <1>2, <1>4 DEF WritersAreLive
  <2>2. c \notin listeners
    BY <2>1 DEF IInv, OpenUntilClosed
  <2>3. RWMsg(c, "close") \in Messages
    BY <2>1, Counted DEF RWMsg, Messages
  <2> QED
    BY <1>4, <2>1, <2>2, <2>3 DEF CloseConn
<1> QED
  BY <1>3, <1>4

(* The kernel gives a descriptor that is free to the new connection. *)
Takes(d) ==
  /\ d \in Fds /\ fds[d] = NoConn /\ conns[d] = NoConn /\ d \notin watched
  /\ fds' = [fds EXCEPT ![d] = made']
  /\ fdOf' = [fdOf EXCEPT ![made'] = d]

(* OnAccept makes a connection for a listening one, with a descriptor or   *)
(* without.                                                                *)
LEMMA AcceptMakes ==
  ASSUME IInv, NEW e \in [fd : Fds, in : BOOLEAN], Accept(e)
  PROVE  /\ made' = made + 1 /\ made' \in Conns
         /\ made \in Nat /\ made' \notin closed \cup listeners
         /\ conns[e.fd] \in listeners /\ conns[e.fd] \in 1 .. made
         /\ serviceOf[conns[e.fd]] \in Services
         /\ fdOf[made'] = NoFd /\ serviceOf[made'] = NoService
         /\ accepting = NoAccept
         /\ accepting' = [conn |-> made', on |-> conns[e.fd], next |-> "add"]
         /\ \/ UNCHANGED <<fds, fdOf, backlog>>
            \/ /\ \E d \in Fds : Takes(d)
               /\ backlog[conns[e.fd]] > 0
               /\ backlog' = [backlog EXCEPT ![conns[e.fd]] = @ - 1]
         /\ batch' \subseteq batch
         /\ UNCHANGED <<came, pulse, watched, conns, serviceOf, listeners, closed, serviceVars>>
<1>1. made \in Nat /\ made < MaxConns /\ made' = made + 1 /\ MaxConns \in Nat
  BY Typed DEF IInv, Inv, Accept
<1>2. made' \in Conns
  BY <1>1
<1>3. conns[e.fd] \in listeners /\ e.fd \in Fds
  BY DEF Accept
<1>4. conns[e.fd] \in 1 .. made
  BY <1>3, Typed DEF IInv, Inv
<1>5. serviceOf[conns[e.fd]] \in Services
  <2>1. conns[e.fd] # NoConn
    BY <1>4
  <2> QED
    BY <1>3, <2>1, EventIsFor
<1>6. made' > made
  BY <1>1
<1>7. fdOf[made'] = NoFd /\ serviceOf[made'] = NoService
  BY <1>2, <1>6 DEF IInv, Numbered
<1>8. made' \notin closed \cup listeners
  <2>1. made' \notin 1 .. made
    BY <1>1
  <2> QED
    BY <2>1, Typed DEF IInv, Inv
<1>9. CASE backlog[conns[e.fd]] > 0 /\ Free # {}
  <2>1. Takes(Lowest(Free))
    BY <1>9, FreeDescriptor DEF Takes, Accept, IInv, Inv
  <2> QED
    BY <1>1, <1>2, <1>3, <1>4, <1>5, <1>7, <1>8, <1>9, <2>1 DEF Accept, OnEvent, Takes
<1>10. CASE ~(backlog[conns[e.fd]] > 0 /\ Free # {})
  BY <1>1, <1>2, <1>3, <1>4, <1>5, <1>7, <1>8, <1>10 DEF Accept, OnEvent
<1> QED
  BY <1>9, <1>10

(* So does Listen, which keeps it for the next steps or leaves it open. *)
LEMMA SocketMakes ==
  ASSUME IInv, NEW s \in Services, Socket(s)
  PROVE  /\ made' = made + 1 /\ made' \in Conns
         /\ made \in Nat /\ made' \notin closed \cup listeners
         /\ fdOf[made'] = NoFd /\ serviceOf[made'] = NoService
         /\ \E d \in Fds : Takes(d)
         /\ \/ /\ listening' = [listening EXCEPT ![s] = [conn |-> made', next |-> "add"]]
               /\ listeners' = listeners \cup {made'}
            \/ UNCHANGED <<listening, listeners>>
         /\ UNCHANGED <<came, backlog, pulse, watched, workerVars, conns, serviceOf, closed,
                        writers, lingering, mailbox, closing, gone, crashed>>
<1>1. made \in Nat /\ made < MaxConns /\ made' = made + 1 /\ MaxConns \in Nat
  BY Typed DEF IInv, Inv, Socket
<1>2. made' \in Conns
  BY <1>1
<1>3. made' > made
  BY <1>1
<1>4. fdOf[made'] = NoFd /\ serviceOf[made'] = NoService
  BY <1>2, <1>3 DEF IInv, Numbered
<1>5. made' \notin closed \cup listeners
  <2>1. made' \notin 1 .. made
    BY <1>1
  <2> QED
    BY <2>1, Typed DEF IInv, Inv
<1>6. Takes(Lowest(Free))
  BY FreeDescriptor DEF Takes, Socket, IInv, Inv
<1> QED
  BY <1>1, <1>2, <1>4, <1>5, <1>6 DEF Socket, Takes

-----------------------------------------------------------------------------
(* Each part of the invariant after a step. *)

(* The steps that open or close a descriptor or that Conns sees. *)
LEMMA ConnSteps ==
  ASSUME Next
  PROVE  \/ \E d \in Fds, in \in BOOLEAN : Accept([fd |-> d, in |-> in])
         \/ AddAccepted
         \/ \E s \in Services :
              \/ Socket(s) \/ AddListener(s) \/ Read(s) \/ OnKeep(s) \/ OnEnd(s)
              \/ RemoveConn(s) \/ Close(s) \/ RemoveEvent(s)
         \/ UNCHANGED <<fds, connVars, closing>>
<1>1. CASE SocketWorkerStep
  BY <1>1 DEF SocketWorkerStep, EpollWait, OnRW, Watch, Notify, kernelVars, connVars,
              serviceVars
<1>2. ASSUME NEW s \in Services, ServiceStep(s)
      PROVE  \/ Socket(s) \/ AddListener(s) \/ Read(s) \/ OnKeep(s) \/ OnEnd(s)
             \/ RemoveConn(s) \/ Close(s) \/ RemoveEvent(s)
             \/ UNCHANGED <<fds, connVars, closing>>
  BY <1>2 DEF ServiceStep, AddEvent, OnAcceptMsg, Ignore, FollowNull, OnRWMsg, CloseConn,
              UseNull, Exit, kernelVars, connVars
<1>3. ASSUME NEW d \in Fds, Connect(d)
      PROVE  UNCHANGED <<fds, connVars, closing>>
  BY <1>3 DEF Connect, connVars, serviceVars
<1> QED
  BY <1>1, <1>2, <1>3 DEF Next

LEMMA NumberedStep ==
  ASSUME IInv, Next
  PROVE  Numbered'
<1>0. /\ fds \in [Fds -> Conns \cup {0}] /\ conns \in [AnyFd -> Conns \cup {0}]
      /\ fdOf \in [Conns -> AnyFd] /\ serviceOf \in [Conns -> Services \cup {NoService}]
  BY DEF IInv, Inv, TypeOK
<1>1. made \in Nat
  BY Typed DEF IInv, Inv
<1>2. Numbered
  BY DEF IInv
<1>3. ASSUME NEW d \in Fds, Takes(d), made' = made + 1, made' \in Conns,
             UNCHANGED <<conns, serviceOf>>
      PROVE  Numbered'
  BY <1>0, <1>1, <1>2, <1>3 DEF Numbered, Takes
<1>4. ASSUME NEW d \in Fds, NEW in \in BOOLEAN, Accept([fd |-> d, in |-> in])
      PROVE  Numbered'
  <2>1. made' = made + 1 /\ made' \in Conns /\ UNCHANGED <<conns, serviceOf>>
    BY <1>4, AcceptMakes
  <2>2. CASE UNCHANGED <<fds, fdOf>>
    BY <1>0, <1>1, <1>2, <2>1, <2>2 DEF Numbered
  <2>3. CASE \E x \in Fds : Takes(x)
    BY <1>3, <2>1, <2>3
  <2> QED
    BY <1>4, <2>2, <2>3, AcceptMakes
<1>5. ASSUME NEW s \in Services, Socket(s)
      PROVE  Numbered'
  BY <1>3, <1>5, SocketMakes
<1>6. ASSUME NEW c \in 1 .. made, NEW d \in AnyFd, NEW s \in Services,
             fdOf[c] = d,
             serviceOf' = [serviceOf EXCEPT ![c] = s],
             conns' \in {conns, [conns EXCEPT ![d] = c]},
             UNCHANGED <<made, fdOf, fds>>
      PROVE  Numbered'
  <2>1. c \in Conns /\ c <= made
    <3>1. \A b \in 1 .. made : b \in Conns
      BY Typed DEF IInv, Inv
    <3> QED
      BY <1>1, <1>6, <3>1
  <2>2. \A b \in Conns : b > made' => fdOf'[b] = NoFd /\ serviceOf'[b] = NoService
    BY <1>0, <1>1, <1>2, <1>6, <2>1 DEF Numbered
  <2>3. \A b \in Fds : fds'[b] # NoConn => fds'[b] <= made' /\ fdOf'[fds'[b]] = b
    BY <1>2, <1>6 DEF Numbered
  <2>4. ASSUME NEW b \in AnyFd, conns'[b] # NoConn
        PROVE  conns'[b] <= made' /\ fdOf'[conns'[b]] = b /\ serviceOf'[conns'[b]] \in Services
    <3>1. CASE conns'[b] = conns[b]
      BY <1>0, <1>2, <1>6, <2>1, <2>4, <3>1 DEF Numbered
    <3>2. CASE conns'[b] # conns[b]
      BY <1>0, <1>6, <2>1, <3>2
    <3> QED
      BY <3>1, <3>2
  <2> QED
    BY <2>2, <2>3, <2>4 DEF Numbered
<1>7. CASE AddAccepted
  BY <1>6, <1>7, AddAcceptedAdds DEF kernelVars
<1>8. ASSUME NEW s \in Services, AddListener(s)
      PROVE  Numbered'
  BY <1>6, <1>8, AddListenerAdds DEF kernelVars
<1>9. ASSUME NEW s \in Services, RemoveConn(s)
      PROVE  Numbered'
  BY <1>0, <1>2, <1>9 DEF RemoveConn, kernelVars, Numbered
<1>10. ASSUME NEW s \in Services, Close(s)
       PROVE  Numbered'
  <2>1. /\ \A d \in Fds : fds'[d] = fds[d] \/ fds'[d] = NoConn
        /\ UNCHANGED connVars
    BY <1>10 DEF Close, CloseFd
  <2> QED
    BY <1>0, <1>2, <2>1 DEF connVars, Numbered
<1>11. ASSUME NEW s \in Services, Read(s) \/ OnKeep(s) \/ OnEnd(s) \/ RemoveEvent(s)
       PROVE  Numbered'
  BY <1>2, <1>11 DEF Read, OnKeep, OnEnd, RemoveEvent, kernelVars, connVars, Numbered
<1>12. CASE UNCHANGED <<fds, connVars, closing>>
  BY <1>2, <1>12 DEF Numbered, connVars
<1> QED
  BY <1>4, <1>5, <1>7, <1>8, <1>9, <1>10, <1>11, <1>12, ConnSteps

LEMMA ClosesItsOwnStep ==
  ASSUME IInv, Next
  PROVE  ClosesItsOwn'
<1> DEFINE Busy(s) ==
             closing[s].fd # NoFd /\ closing[s].next \in {"remove", "close", "close last"}
           Own(s) == LET d == closing[s].fd IN
             Busy(s) =>
               /\ fds[d] \in closed /\ serviceOf[fds[d]] = s
               /\ \/ closing[s].next = "remove" /\ conns[d] = fds[d]
                  \/ closing[s].next = "close" /\ conns[d] = NoConn
<1>0. /\ fds \in [Fds -> Conns \cup {0}] /\ conns \in [AnyFd -> Conns \cup {0}]
      /\ serviceOf \in [Conns -> Services \cup {NoService}]
      /\ closing \in [Services -> [fd : AnyFd,
                   next : {"message", "read", "remove", "close", "close last", "unwatch"}]]
  BY DEF IInv, Inv, TypeOK
<1>1. /\ \A c \in 1 .. made : c \in Conns
      /\ closed \subseteq 1 .. made /\ closed \cap listeners = {} /\ 0 \notin closed
  BY Counted
<1>2. ClosesItsOwn /\ \A s \in Services : Busy(s) => closing[s].fd \in Fds
  BY Typed DEF IInv, Inv
<1>3. ASSUME NEW d \in Fds, Takes(d), UNCHANGED <<conns, serviceOf, closed, closing>>
      PROVE  ClosesItsOwn'
  <2>1. ASSUME NEW t \in Services, Busy(t)
        PROVE  fds'[closing[t].fd] = fds[closing[t].fd] /\ fds[closing[t].fd] \in Conns
    <3>1. closing[t].fd \in Fds /\ fds[closing[t].fd] \in closed
      BY <1>2, <2>1 DEF ClosesItsOwn
    <3>2. closing[t].fd # d
      BY <1>1, <1>3, <3>1 DEF Takes
    <3> QED
      BY <1>0, <1>1, <1>3, <3>1, <3>2 DEF Takes
  <2> QED
    BY <1>2, <1>3, <2>1 DEF ClosesItsOwn
<1>4. ASSUME NEW d \in Fds, NEW in \in BOOLEAN, Accept([fd |-> d, in |-> in])
      PROVE  ClosesItsOwn'
  <2>1. UNCHANGED <<conns, serviceOf, closed, closing>>
    BY <1>4, AcceptMakes DEF serviceVars
  <2>2. CASE UNCHANGED <<fds, fdOf>>
    BY <1>2, <2>1, <2>2 DEF ClosesItsOwn
  <2> QED
    BY <1>3, <1>4, <2>1, <2>2, AcceptMakes
<1>5. ASSUME NEW s \in Services, Socket(s)
      PROVE  ClosesItsOwn'
  BY <1>3, <1>5, SocketMakes
<1>6. ASSUME NEW c \in 1 .. made \ closed, NEW s \in Services, NEW d \in AnyFd,
             d # NoFd => fds[d] = c,
             serviceOf' = [serviceOf EXCEPT ![c] = s],
             conns' \in {conns, [conns EXCEPT ![d] = c]},
             UNCHANGED <<fds, closed, closing>>
      PROVE  ClosesItsOwn'
  <2> SUFFICES ASSUME NEW t \in Services, Busy(t)
               PROVE  LET b == closing[t].fd IN
                        /\ b \in Fds /\ fds[b] \in closed /\ serviceOf'[fds[b]] = t
                        /\ \/ closing[t].next = "remove" /\ conns'[b] = fds[b]
                           \/ closing[t].next = "close" /\ conns'[b] = NoConn
    BY <1>6 DEF ClosesItsOwn
  <2> DEFINE b == closing[t].fd
  <2>1. /\ b \in Fds /\ fds[b] \in closed /\ serviceOf[fds[b]] = t
        /\ \/ closing[t].next = "remove" /\ conns[b] = fds[b]
           \/ closing[t].next = "close" /\ conns[b] = NoConn
    BY <1>2 DEF ClosesItsOwn
  <2>2. b # d
    BY <1>6, <2>1, Counted
  <2>3. fds[b] \in Conns /\ fds[b] # c
    BY <1>1, <1>6, <2>1
  <2>4. serviceOf'[fds[b]] = serviceOf[fds[b]] /\ conns'[b] = conns[b]
    BY <1>0, <1>6, <2>2, <2>3
  <2> QED
    BY <2>1, <2>4
<1>7. CASE AddAccepted
  <2>1. fdOf[accepting.conn] \in AnyFd
    BY <1>7, AddAcceptedAdds
  <2> QED
    BY <1>6, <1>7, <2>1, AddAcceptedAdds DEF kernelVars, serviceVars
<1>8. ASSUME NEW s \in Services, AddListener(s)
      PROVE  ClosesItsOwn'
  BY <1>6, <1>8, AddListenerAdds DEF kernelVars
<1>9. ASSUME NEW s \in Services, OnEnd(s)
      PROVE  ClosesItsOwn'
  <2> DEFINE c == Message(s).conn
             d == fdOf[c]
  <2>1. /\ d # NoFd => fds[d] = c /\ conns[d] = c
        /\ serviceOf[c] = s /\ c \in closed' /\ closed \subseteq closed'
        /\ fds' = fds /\ conns' = conns /\ serviceOf' = serviceOf
    BY <1>9, EndsLive DEF kernelVars
  <2>2. /\ closing'[s].next = "remove" /\ closing'[s].fd = d
        /\ \A t \in Services \ {s} : closing'[t] = closing[t]
    <3>1. closing' = [closing EXCEPT ![s].next = "remove"] /\ closing[s].fd = d
      BY <1>9, EndsLive
    <3> QED
      BY <1>0, <3>1
  <2>3. Own(s)'
    BY <2>1, <2>2
  <2>4. ASSUME NEW t \in Services \ {s} PROVE Own(t)'
    <3>1. Own(t)
      BY <1>2 DEF ClosesItsOwn
    <3> QED
      BY <2>1, <2>2, <3>1
  <2> QED
    BY <2>3, <2>4 DEF ClosesItsOwn
<1>10. ASSUME NEW s \in Services, RemoveConn(s)
       PROVE  ClosesItsOwn'
  <2> DEFINE d == closing[s].fd
  <2>1. closing[s].next = "remove" /\ UNCHANGED <<fds, serviceOf, closed>>
    BY <1>10 DEF RemoveConn, kernelVars
  <2>2. d # NoFd =>
          /\ d \in Fds /\ fds[d] \in closed
          /\ conns[d] = fds[d] /\ serviceOf[fds[d]] = s
    BY <1>2, <2>1 DEF ClosesItsOwn
  <2>3. d \in AnyFd
    BY <1>0
  <2>4. ASSUME NEW t \in Services \ {s}, Busy(t), closing[t].fd = d
        PROVE  FALSE
    <3>1. serviceOf[fds[d]] = t
      BY <1>2, <2>4 DEF ClosesItsOwn
    <3> QED
      BY <2>2, <2>4, <3>1
  <2>5. /\ d # NoFd => closing'[s].next = "close"
        /\ closing'[s].fd = d
        /\ \A t \in Services \ {s} : closing'[t] = closing[t]
    BY <1>0, <1>1, <1>10, <2>2 DEF RemoveConn
  <2>6. conns'[d] = NoConn /\ \A b \in AnyFd \ {d} : conns'[b] = conns[b]
    BY <1>0, <1>10, <2>3 DEF RemoveConn
  <2>7. Own(s)'
    BY <2>1, <2>2, <2>5, <2>6
  <2>8. ASSUME NEW t \in Services \ {s} PROVE Own(t)'
    <3>1. Own(t) /\ (Busy(t) => closing[t].fd \in AnyFd)
      BY <1>2 DEF ClosesItsOwn
    <3> QED
      BY <2>1, <2>4, <2>5, <2>6, <3>1
  <2> QED
    BY <2>7, <2>8 DEF ClosesItsOwn
<1>11. ASSUME NEW s \in Services, Close(s)
       PROVE  ClosesItsOwn'
  <2> DEFINE d == closing[s].fd
  <2>1. /\ closing[s].next \in {"close", "close last"}
        /\ closing' = [closing EXCEPT ![s] =
                         IF @.next = "close" THEN [@ EXCEPT !.next = "unwatch"] ELSE NoClose]
    BY <1>11 DEF Close
  <2>2. d # NoFd => serviceOf[fds[d]] = s
    BY <1>2, <2>1 DEF ClosesItsOwn
  <2>3. ASSUME NEW t \in Services \ {s}, Busy(t), closing[t].fd = d
        PROVE  FALSE
    <3>1. serviceOf[fds[d]] = t
      BY <1>2, <2>3 DEF ClosesItsOwn
    <3> QED
      BY <2>2, <2>3, <3>1
  <2>4. /\ closing'[s].next \in {"unwatch", "message"}
        /\ \A t \in Services \ {s} : closing'[t] = closing[t]
    BY <1>0, <2>1
  <2>5. \A b \in Fds \ {d} : fds'[b] = fds[b]
    BY <1>11 DEF Close, CloseFd
  <2>6. Own(s)'
    BY <2>4
  <2>7. conns' = conns /\ serviceOf' = serviceOf /\ closed' = closed
    BY <1>11 DEF Close, connVars
  <2>8. ASSUME NEW t \in Services \ {s} PROVE Own(t)'
    <3>1. Own(t) /\ (Busy(t) => closing[t].fd \in Fds)
      BY <1>2 DEF ClosesItsOwn
    <3> QED
      BY <2>3, <2>4, <2>5, <2>7, <3>1
  <2> QED
    BY <2>6, <2>8 DEF ClosesItsOwn
<1>12. ASSUME NEW s \in Services, RemoveEvent(s)
       PROVE  ClosesItsOwn'
  BY <1>0, <1>2, <1>12 DEF RemoveEvent, connVars, ClosesItsOwn
<1>13. ASSUME NEW s \in Services, Read(s) \/ OnKeep(s)
       PROVE  ClosesItsOwn'
  <2>1. /\ closing'[s].next \in {"message", "read"}
        /\ \A t \in Services \ {s} : closing'[t] = closing[t]
        /\ UNCHANGED <<fds, conns, serviceOf, closed>>
    BY <1>13, Counted, ReadTurns DEF kernelVars, connVars
  <2>2. ASSUME NEW t \in Services PROVE Own(t)'
    <3>1. Own(t)
      BY <1>2 DEF ClosesItsOwn
    <3> QED
      BY <2>1, <3>1
  <2> QED
    BY <2>2 DEF ClosesItsOwn
<1>14. CASE UNCHANGED <<fds, connVars, closing>>
  BY <1>2, <1>14 DEF ClosesItsOwn, connVars
<1> QED
  BY <1>4, <1>5, <1>7, <1>8, <1>9, <1>10, <1>11, <1>12, <1>13, <1>14, ConnSteps

LEMMA ConnsAreOpenStep ==
  ASSUME IInv, Next
  PROVE  ConnsAreOpen'
<1> DEFINE Closes(s, d) == closing[s].fd = d /\ closing[s].next \in {"close", "close last"}
           Known(d) ==
             /\ conns[d] # NoConn => fds[d] = conns[d]
             /\ fds[d] # NoConn /\ serviceOf[fds[d]] # NoService =>
                  conns[d] = fds[d] \/ \E s \in Services : Closes(s, d)
<1>0. /\ fds \in [Fds -> Conns \cup {0}] /\ conns \in [AnyFd -> Conns \cup {0}]
      /\ serviceOf \in [Conns -> Services \cup {NoService}]
      /\ closing \in [Services -> [fd : AnyFd,
                   next : {"message", "read", "remove", "close", "close last", "unwatch"}]]
  BY DEF IInv, Inv, TypeOK
<1>1. \A c \in 1 .. made : c \in Conns
  BY Counted
<1>2. \A d \in Fds : Known(d)
  BY DEF IInv, Inv, ConnsAreOpen
<1>3. ASSUME \A d \in Fds : Known(d)' PROVE ConnsAreOpen'
  BY <1>3 DEF ConnsAreOpen
<1>4. ASSUME NEW b \in Fds, Takes(b), serviceOf[made'] = NoService, made' \in Conns,
             conns' = conns, serviceOf' = serviceOf, closing' = closing,
             NEW d \in Fds
      PROVE  Known(d)'
  <2>1. CASE d = b
    BY <1>0, <1>4, <2>1 DEF Takes
  <2>2. CASE d # b
    <3>1. fds'[d] = fds[d]
      BY <1>0, <1>4, <2>2 DEF Takes
    <3> QED
      BY <1>2, <1>4, <3>1
  <2> QED
    BY <2>1, <2>2
<1>5. ASSUME NEW d \in Fds, NEW in \in BOOLEAN, Accept([fd |-> d, in |-> in])
      PROVE  ConnsAreOpen'
  <2>1. /\ conns' = conns /\ serviceOf' = serviceOf /\ closing' = closing
        /\ serviceOf[made'] = NoService /\ made' \in Conns
    BY <1>5, AcceptMakes DEF serviceVars
  <2>2. CASE fds' = fds
    BY <1>2, <1>3, <2>1, <2>2
  <2>3. CASE \E b \in Fds : Takes(b)
    BY <1>3, <1>4, <2>1, <2>3
  <2> QED
    BY <1>5, <2>2, <2>3, AcceptMakes
<1>6. ASSUME NEW s \in Services, Socket(s)
      PROVE  ConnsAreOpen'
  BY <1>3, <1>4, <1>6, SocketMakes
<1>7. ASSUME NEW c \in 1 .. made, NEW s \in Services, NEW b \in AnyFd, b = fdOf[c],
             b # NoFd => fds[b] = c /\ conns' = [conns EXCEPT ![b] = c],
             b = NoFd => conns' \in {conns, [conns EXCEPT ![NoFd] = c]},
             serviceOf' = [serviceOf EXCEPT ![c] = s],
             fds' = fds, closing' = closing,
             NEW d \in Fds
      PROVE  Known(d)'
  <2>1. c \in Conns
    BY <1>1
  <2>2. CASE d = b
    BY <1>0, <1>7, <2>1, <2>2, Counted
  <2>3. CASE d # b
    <3>1. conns'[d] = conns[d]
      BY <1>0, <1>7, <2>3, Counted
    <3>2. fds[d] # c
      BY <1>7, <2>1, <2>3 DEF IInv, Numbered
    <3>3. serviceOf'[fds[d]] = serviceOf[fds[d]] \/ fds[d] = NoConn
      BY <1>0, <1>7, <2>1, <3>2
    <3> QED
      BY <1>2, <1>7, <3>1, <3>3
  <2> QED
    BY <2>2, <2>3
<1>8. CASE AddAccepted
  <2>1. fdOf[accepting.conn] \in AnyFd
    BY <1>8, AddAcceptedAdds
  <2> QED
    BY <1>3, <1>7, <1>8, <2>1, AddAcceptedAdds DEF kernelVars, serviceVars
<1>9. ASSUME NEW s \in Services, AddListener(s)
      PROVE  ConnsAreOpen'
  <2> DEFINE c == listening[s].conn
             b == fdOf[c]
  <2>1. /\ c \in 1 .. made /\ b \in Fds /\ fds[b] = c
        /\ fds' = fds /\ closing' = closing
    BY <1>9, AddListenerAdds DEF kernelVars
  <2>2. serviceOf' = [serviceOf EXCEPT ![c] = s] /\ conns' = [conns EXCEPT ![b] = c]
    BY <1>9, AddListenerAdds
  <2>3. b \in AnyFd /\ b # NoFd
    BY <2>1, Counted
  <2>4. ASSUME NEW d \in Fds PROVE Known(d)'
    BY <1>7, <2>1, <2>2, <2>3
  <2> QED
    BY <1>3, <2>4
<1>10. ASSUME NEW s \in Services, fds' = fds, conns' = conns, serviceOf' = serviceOf,
              closing[s].next \in {"message", "read", "unwatch"},
              \A t \in Services \ {s} : closing'[t] = closing[t]
       PROVE  ConnsAreOpen'
  BY <1>2, <1>3, <1>10
<1>11. ASSUME NEW s \in Services, OnEnd(s)
       PROVE  ConnsAreOpen'
  <2>1. \A t \in Services \ {s} : closing'[t] = closing[t]
    BY <1>0, <1>11 DEF OnEnd
  <2> QED
    BY <1>10, <1>11, <2>1 DEF OnEnd, kernelVars
<1>12. ASSUME NEW s \in Services, RemoveEvent(s) \/ Read(s) \/ OnKeep(s)
       PROVE  ConnsAreOpen'
  <2>1. CASE RemoveEvent(s)
    <3>1. \A t \in Services \ {s} : closing'[t] = closing[t]
      BY <1>0, <2>1 DEF RemoveEvent
    <3> QED
      BY <1>10, <2>1, <3>1 DEF RemoveEvent, connVars
  <2>2. CASE Read(s) \/ OnKeep(s)
    BY <1>10, <2>2, Counted, ReadTurns DEF kernelVars, connVars
  <2> QED
    BY <1>12, <2>1, <2>2
<1>13. ASSUME NEW s \in Services, RemoveConn(s)
       PROVE  ConnsAreOpen'
  <2> DEFINE b == closing[s].fd
  <2>1. b # NoFd => b \in Fds /\ conns[b] = fds[b] /\ conns[b] # NoConn
    <3>1. closing[s].next = "remove"
      BY <1>13 DEF RemoveConn
    <3>2. b # NoFd => b \in Fds /\ conns[b] = fds[b] /\ fds[b] \in closed
      BY <3>1, ClosesOwn
    <3> QED
      BY <3>2, Counted
  <2>2. fds' = fds /\ serviceOf' = serviceOf /\ closing[s].next = "remove"
    BY <1>13 DEF RemoveConn, kernelVars
  <2>3. /\ conns'[b] = NoConn
        /\ \A d \in Fds \ {b} : conns'[d] = conns[d]
    BY <1>0, <1>13 DEF RemoveConn
  <2>4. /\ closing'[s].fd = b /\ closing'[s].next \in {"close", "close last"}
        /\ \A t \in Services \ {s} : closing'[t] = closing[t]
    BY <1>0, <1>13 DEF RemoveConn
  <2>5. ASSUME NEW d \in Fds PROVE Known(d)'
    <3>1. CASE d = b
      BY <2>3, <2>4, <3>1
    <3>2. CASE d # b
      BY <1>2, <2>2, <2>3, <2>4, <3>2
    <3> QED
      BY <3>1, <3>2
  <2> QED
    BY <1>3, <2>5
<1>14. ASSUME NEW s \in Services, Close(s)
       PROVE  ConnsAreOpen'
  <2> DEFINE b == closing[s].fd
  <2>1. b \in Fds => conns[b] = NoConn
    BY <1>14, ClosesOwn, Counted DEF Close
  <2>2. conns' = conns /\ serviceOf' = serviceOf
    BY <1>14 DEF Close, connVars
  <2>3. /\ b \in Fds => fds'[b] = NoConn
        /\ \A d \in Fds \ {b} : fds'[d] = fds[d]
    BY <1>14 DEF Close, CloseFd
  <2>4. \A t \in Services \ {s} : closing'[t] = closing[t]
    BY <1>0, <1>14 DEF Close
  <2>5. ASSUME NEW d \in Fds PROVE Known(d)'
    <3>1. CASE d = b
      BY <2>1, <2>2, <2>3, <3>1
    <3>2. CASE d # b
      BY <1>2, <2>2, <2>3, <2>4, <3>2
    <3> QED
      BY <3>1, <3>2
  <2> QED
    BY <1>3, <2>5
<1>15. CASE UNCHANGED <<fds, connVars, closing>>
  BY <1>2, <1>3, <1>15 DEF connVars
<1> QED
  BY <1>5, <1>6, <1>8, <1>9, <1>11, <1>12, <1>13, <1>14, <1>15, ConnSteps

LEMMA OpenStep ==
  ASSUME IInv, Next
  PROVE  /\ \A c \in 1 .. made' \ closed' : fdOf'[c] # NoFd => IsOpen(c)'
         /\ \A c \in listeners' : fdOf'[c] # NoFd
<1> DEFINE Unclosed == \A c \in 1 .. made \ closed : fdOf[c] # NoFd => IsOpen(c)
           Listening == \A c \in listeners : fdOf[c] # NoFd
<1> SUFFICES Unclosed' /\ Listening'
  OBVIOUS
<1>0. /\ fds \in [Fds -> Conns \cup {0}] /\ fdOf \in [Conns -> AnyFd]
      /\ closing \in [Services -> [fd : AnyFd,
                   next : {"message", "read", "remove", "close", "close last", "unwatch"}]]
  BY DEF IInv, Inv, TypeOK
<1>1. /\ made \in Nat /\ \A c \in 1 .. made : c \in Conns
      /\ listeners \subseteq 1 .. made /\ NoFd \notin Fds
  BY Counted
<1>2. Unclosed /\ Listening
  BY DEF IInv, OpenUntilClosed
<1>3. ASSUME NEW b \in Fds, Takes(b), made' = made + 1, made' \in Conns, closed' = closed,
             listeners' \subseteq listeners \cup {made'}
      PROVE  Unclosed' /\ Listening'
  <2>1. /\ fds'[b] = made' /\ \A d \in Fds \ {b} : fds'[d] = fds[d]
        /\ fdOf'[made'] = b /\ \A c \in Conns \ {made'} : fdOf'[c] = fdOf[c]
        /\ fds[b] = 0
    BY <1>0, <1>3 DEF Takes
  <2>2. ASSUME NEW c \in 1 .. made' \ closed', fdOf'[c] # NoFd PROVE IsOpen(c)'
    <3>1. CASE c = made'
      BY <2>1, <3>1 DEF IsOpen
    <3>2. CASE c # made'
      <4>1. c \in 1 .. made \ closed /\ c \in Conns /\ c # 0
        BY <1>1, <1>3, <3>2
      <4>2. fdOf'[c] = fdOf[c]
        BY <2>1, <3>2, <4>1
      <4>3. IsOpen(c)
        BY <1>2, <2>2, <4>1, <4>2
      <4> QED
        BY <2>1, <4>1, <4>2, <4>3 DEF IsOpen
    <3> QED
      BY <3>1, <3>2
  <2>3. Listening'
    <3>1. made' \notin 1 .. made
      BY <1>1, <1>3
    <3> QED
      BY <1>1, <1>2, <1>3, <2>1, <3>1
  <2> QED
    BY <2>2, <2>3
<1>4. ASSUME fds' = fds, fdOf' = fdOf, listeners' = listeners, closed \subseteq closed',
             made' = made
      PROVE  Unclosed' /\ Listening'
  BY <1>2, <1>4 DEF IsOpen
<1>5. ASSUME NEW d \in Fds, NEW in \in BOOLEAN, Accept([fd |-> d, in |-> in])
      PROVE  Unclosed' /\ Listening'
  <2>1. /\ made' = made + 1 /\ made' \in Conns /\ closed' = closed /\ listeners' = listeners
        /\ fdOf[made'] = NoFd
    BY <1>5, AcceptMakes
  <2>2. CASE fds' = fds /\ fdOf' = fdOf
    <3>1. ASSUME NEW c \in 1 .. made' \ closed', fdOf'[c] # NoFd PROVE IsOpen(c)'
      <4>1. c \in 1 .. made \ closed
        BY <1>1, <2>1, <2>2, <3>1
      <4> QED
        BY <1>2, <2>2, <3>1, <4>1 DEF IsOpen
    <3> QED
      BY <1>2, <2>1, <2>2, <3>1
  <2>3. CASE \E b \in Fds : Takes(b)
    BY <1>3, <2>1, <2>3
  <2> QED
    BY <1>5, <2>2, <2>3, AcceptMakes
<1>6. ASSUME NEW s \in Services, Socket(s)
      PROVE  Unclosed' /\ Listening'
  <2>1. /\ made' = made + 1 /\ made' \in Conns /\ closed' = closed
        /\ listeners' \subseteq listeners \cup {made'}
    BY <1>6, SocketMakes
  <2> QED
    BY <1>3, <1>6, <2>1, SocketMakes
<1>7. CASE AddAccepted
  BY <1>4, <1>7, AddAcceptedAdds DEF kernelVars
<1>8. ASSUME NEW s \in Services, AddListener(s)
      PROVE  Unclosed' /\ Listening'
  BY <1>4, <1>8, AddListenerAdds DEF kernelVars
<1>9. ASSUME NEW s \in Services, OnEnd(s)
      PROVE  Unclosed' /\ Listening'
  BY <1>4, <1>9 DEF OnEnd, kernelVars
<1>10. ASSUME NEW s \in Services, Read(s) \/ OnKeep(s) \/ RemoveConn(s) \/ RemoveEvent(s)
       PROVE  Unclosed' /\ Listening'
  BY <1>4, <1>10 DEF Read, OnKeep, RemoveConn, RemoveEvent, kernelVars, connVars
<1>11. ASSUME NEW s \in Services, Close(s)
       PROVE  Unclosed' /\ Listening'
  <2> DEFINE b == closing[s].fd
  <2>1. b \in Fds => fds[b] \in closed
    BY <1>1, <1>11, ClosesOwn DEF Close
  <2>2. \A d \in Fds \ {b} : fds'[d] = fds[d]
    BY <1>11 DEF Close, CloseFd
  <2>3. made' = made /\ closed' = closed /\ fdOf' = fdOf /\ listeners' = listeners
    BY <1>11 DEF Close, connVars
  <2>4. ASSUME NEW c \in 1 .. made \ closed, fdOf[c] # NoFd
        PROVE  IsOpen(c)'
    <3>1. fdOf[c] \in Fds /\ fds[fdOf[c]] = c
      BY <1>2, <2>4 DEF IsOpen
    <3>2. fdOf[c] # b
      BY <2>1, <2>4, <3>1
    <3>3. fds'[fdOf[c]] = c
      BY <2>2, <3>1, <3>2
    <3> QED
      BY <2>3, <3>1, <3>3 DEF IsOpen
  <2>5. Listening'
    BY <1>2, <2>3
  <2> QED
    BY <2>3, <2>4, <2>5
<1>12. CASE UNCHANGED <<fds, connVars, closing>>
  BY <1>4, <1>12 DEF connVars
<1> QED
  BY <1>5, <1>6, <1>7, <1>8, <1>9, <1>10, <1>11, <1>12, ConnSteps

(* The steps that epoll's ready list depends on. *)
LEMMA PulseSteps ==
  ASSUME Next
  PROVE  \/ \E d \in Fds : Connect(d)
         \/ \E d \in Fds, in \in BOOLEAN : Accept([fd |-> d, in |-> in])
         \/ \E s \in Services : Socket(s) \/ AddListener(s) \/ AddEvent(s) \/ Close(s)
         \/ /\ pulse' \subseteq pulse
            /\ UNCHANGED <<came, backlog, fds, listeners>>
<1>1. CASE SocketWorkerStep
  BY <1>1 DEF SocketWorkerStep, EpollWait, OnRW, AddAccepted, AddConn, Watch, Notify,
              kernelVars, connVars
<1>2. ASSUME NEW s \in Services, ServiceStep(s)
      PROVE  \/ Socket(s) \/ AddListener(s) \/ AddEvent(s) \/ Close(s)
             \/ pulse' \subseteq pulse /\ UNCHANGED <<came, backlog, fds, listeners>>
  BY <1>2 DEF ServiceStep, OnAcceptMsg, Ignore, FollowNull, OnRWMsg, Read, OnKeep, OnEnd,
              CloseConn, UseNull, RemoveConn, RemoveEvent, Exit, kernelVars, connVars
<1> QED
  BY <1>1, <1>2 DEF Next

LEMMA PulseStep ==
  ASSUME IInv, Next
  PROVE  /\ \A d \in pulse' : fds'[d] \in listeners'
         /\ \A c \in Conns : backlog'[c] <= came'
<1> DEFINE Pulse == \A d \in pulse : fds[d] \in listeners
           Backlog == \A c \in Conns : backlog[c] <= came
<1> SUFFICES Pulse' /\ Backlog'
  OBVIOUS
<1>0. /\ fds \in [Fds -> Conns \cup {0}] /\ backlog \in [Conns -> 0 .. MaxClients]
      /\ came \in 0 .. MaxClients /\ pulse \subseteq watched /\ watched \subseteq Fds
  BY DEF IInv, Inv, TypeOK
<1>1. 0 \notin listeners /\ NoFd \notin Fds
  BY Counted
<1>2. Pulse /\ Backlog
  BY DEF IInv, OpenUntilClosed
<1>3. ASSUME NEW b \in Fds, Takes(b), pulse' = pulse, listeners \subseteq listeners'
      PROVE  Pulse'
  <2>1. b \notin pulse
    BY <1>0, <1>3 DEF Takes
  <2>2. \A d \in Fds \ {b} : fds'[d] = fds[d]
    BY <1>0, <1>3 DEF Takes
  <2> QED
    BY <1>0, <1>2, <1>3, <2>1, <2>2
<1>4. ASSUME NEW d \in Fds, Connect(d)
      PROVE  Pulse' /\ Backlog'
  <2>1. Pulse'
    BY <1>2, <1>4 DEF Connect, connVars
  <2>2. came' = came + 1 /\ backlog' = [backlog EXCEPT ![fds[d]] = @ + 1]
    BY <1>4 DEF Connect
  <2>3. came \in Nat /\ \A c \in Conns : backlog[c] \in Nat
    BY <1>0
  <2>4. \A c \in Conns : backlog'[c] \in {backlog[c], backlog[c] + 1}
    BY <1>0, <2>2
  <2>5. Backlog'
    BY <1>2, <2>2, <2>3, <2>4
  <2> QED
    BY <2>1, <2>5
<1>5. ASSUME NEW d \in Fds, NEW in \in BOOLEAN, Accept([fd |-> d, in |-> in])
      PROVE  Pulse' /\ Backlog'
  <2>1. pulse' = pulse /\ listeners' = listeners /\ came' = came
    BY <1>5, AcceptMakes
  <2>2. \A c \in Conns : backlog'[c] \in {backlog[c], backlog[c] - 1}
    BY <1>0, <1>5, AcceptMakes
  <2>3. came \in Nat /\ \A c \in Conns : backlog[c] \in Nat
    BY <1>0
  <2>4. Backlog'
    BY <1>2, <2>1, <2>2, <2>3
  <2>5. CASE fds' = fds
    BY <1>2, <2>1, <2>4, <2>5
  <2>6. CASE \E b \in Fds : Takes(b)
    BY <1>3, <2>1, <2>4, <2>6
  <2> QED
    BY <1>5, <2>5, <2>6, AcceptMakes
<1>6. ASSUME NEW s \in Services, Socket(s)
      PROVE  Pulse' /\ Backlog'
  <2>1. /\ pulse' = pulse /\ listeners \subseteq listeners'
        /\ came' = came /\ backlog' = backlog
    BY <1>6, SocketMakes
  <2> QED
    BY <1>2, <1>3, <1>6, <2>1, SocketMakes
<1>7. ASSUME NEW s \in Services, AddListener(s)
      PROVE  Pulse' /\ Backlog'
  BY <1>2, <1>7, AddListenerAdds DEF kernelVars
<1>8. ASSUME NEW s \in Services, AddEvent(s)
      PROVE  Pulse' /\ Backlog'
  <2> DEFINE c == listening[s].conn
  <2>1. c \in listeners
    BY <1>8 DEF AddEvent, IInv, ListensNew
  <2>2. fds[fdOf[c]] = c
    <3>1. c \in 1 .. made \ closed /\ fdOf[c] # NoFd
      BY <2>1, Counted DEF IInv, OpenUntilClosed
    <3> QED
      BY <3>1 DEF IInv, OpenUntilClosed, IsOpen
  <2>3. pulse' \subseteq pulse \cup {fdOf[c]} /\ fds' = fds /\ listeners' = listeners
        /\ backlog' = backlog /\ came' = came
    BY <1>8 DEF AddEvent, connVars
  <2> QED
    BY <1>2, <2>1, <2>2, <2>3
<1>9. ASSUME NEW s \in Services, Close(s)
      PROVE  Pulse' /\ Backlog'
  <2> DEFINE b == closing[s].fd
  <2>1. b \notin pulse
    BY <1>0, <1>1, <1>9, ClosesOwn DEF Close
  <2>2. \A d \in Fds \ {b} : fds'[d] = fds[d]
    BY <1>9 DEF Close, CloseFd
  <2>3. pulse' = pulse /\ listeners' = listeners /\ backlog' = backlog /\ came' = came
    BY <1>9 DEF Close, connVars
  <2> QED
    BY <1>0, <1>2, <2>1, <2>2, <2>3
<1>10. CASE pulse' \subseteq pulse /\ UNCHANGED <<came, backlog, fds, listeners>>
  BY <1>2, <1>10
<1> QED
  BY <1>4, <1>5, <1>6, <1>7, <1>8, <1>9, <1>10, PulseSteps

LEMMA OpenUntilClosedStep ==
  ASSUME IInv, Next
  PROVE  OpenUntilClosed'
BY OpenStep, PulseStep DEF OpenUntilClosed

(* The steps of OnAccept and Listen. *)
LEMMA NewSteps ==
  ASSUME Next
  PROVE  \/ \E d \in Fds, in \in BOOLEAN : Accept([fd |-> d, in |-> in])
         \/ AddAccepted \/ Watch \/ Notify
         \/ \E s \in Services : Socket(s) \/ AddListener(s) \/ AddEvent(s) \/ OnEnd(s)
         \/ UNCHANGED <<accepting, listening, made, fdOf, closed, listeners, serviceOf>>
<1>1. CASE SocketWorkerStep
  BY <1>1 DEF SocketWorkerStep, EpollWait, OnRW, connVars, serviceVars
<1>2. ASSUME NEW s \in Services, ServiceStep(s)
      PROVE  \/ Socket(s) \/ AddListener(s) \/ AddEvent(s) \/ OnEnd(s)
             \/ UNCHANGED <<accepting, listening, made, fdOf, closed, listeners, serviceOf>>
  BY <1>2 DEF ServiceStep, OnAcceptMsg, Ignore, FollowNull, OnRWMsg, Read, OnKeep,
              CloseConn, UseNull, RemoveConn, Close, RemoveEvent, Exit, workerVars, connVars
<1>3. ASSUME NEW d \in Fds, Connect(d)
      PROVE  UNCHANGED <<accepting, listening, made, fdOf, closed, listeners, serviceOf>>
  BY <1>3 DEF Connect, workerVars, connVars, serviceVars
<1> QED
  BY <1>1, <1>2, <1>3 DEF Next

LEMMA AcceptsNewStep ==
  ASSUME IInv, Next
  PROVE  AcceptsNew'
<1>0. serviceOf \in [Conns -> Services \cup {NoService}]
  BY DEF IInv, Inv, TypeOK
<1>1. /\ made \in Nat /\ \A c \in 1 .. made : c \in Conns
      /\ listeners \subseteq 1 .. made /\ closed \subseteq 1 .. made
  BY Counted
<1>2. AcceptsNew /\ accepting.conn \in Nat
  BY Typed DEF IInv, Inv
<1>3. accepting.conn # NoConn => /\ accepting.conn \in 1 .. made
                                 /\ accepting.on \in Conns /\ accepting.conn \in Conns
                                 /\ accepting.on # accepting.conn
  <2> SUFFICES ASSUME accepting.conn # NoConn
               PROVE  /\ accepting.conn \in 1 .. made
                      /\ accepting.on \in Conns /\ accepting.conn \in Conns
                      /\ accepting.on # accepting.conn
    OBVIOUS
  <2>1. /\ accepting.conn <= made /\ accepting.conn \notin listeners
        /\ accepting.on \in listeners
    BY <1>2 DEF AcceptsNew
  <2>2. accepting.conn \in 1 .. made
    BY <1>1, <1>2, <2>1
  <2> QED
    BY <1>1, <2>1, <2>2
<1>4. ASSUME NEW d \in Fds, NEW in \in BOOLEAN, Accept([fd |-> d, in |-> in])
      PROVE  AcceptsNew'
  <2>1. /\ made' \notin closed \cup listeners
        /\ conns[d] \in listeners /\ serviceOf[conns[d]] \in Services
        /\ serviceOf[made'] = NoService
        /\ accepting' = [conn |-> made', on |-> conns[d], next |-> "add"]
        /\ serviceOf' = serviceOf /\ listeners' = listeners /\ closed' = closed
    BY <1>4, AcceptMakes
  <2>2. made' <= made'
    BY <1>1, <1>4, AcceptMakes
  <2> QED
    BY <2>1, <2>2 DEF AcceptsNew
<1>5. CASE AddAccepted
  <2>1. /\ accepting.conn # NoConn /\ serviceOf[accepting.on] \in Services
        /\ serviceOf' = [serviceOf EXCEPT ![accepting.conn] = serviceOf[accepting.on]]
        /\ made' = made /\ closed' = closed /\ listeners' = listeners /\ fdOf' = fdOf
        /\ accepting.next = "add"
    BY <1>5, AddAcceptedAdds DEF AddAccepted, Accepting
  <2>2. /\ accepting'.conn = accepting.conn /\ accepting'.on = accepting.on
        /\ accepting'.next = "watch"
    <3>1. accepting \in [conn : Conns \cup {0}, on : Conns \cup {0},
                          next : {"event", "add", "watch", "notify"}]
      BY DEF IInv, Inv, TypeOK
    <3> QED
      BY <1>5, <3>1 DEF AddAccepted, Then
  <2>3. /\ serviceOf'[accepting.on] = serviceOf[accepting.on]
        /\ serviceOf'[accepting.conn] = serviceOf[accepting.on]
    BY <1>0, <1>3, <2>1
  <2> QED
    BY <1>2, <2>1, <2>2, <2>3 DEF AcceptsNew
<1>6. CASE Watch
  <2>1. accepting.conn # NoConn /\ accepting.next = "watch" /\ UNCHANGED connVars
    BY <1>6 DEF Watch, Accepting
  <2>2. /\ accepting'.conn = accepting.conn /\ accepting'.on = accepting.on
        /\ accepting'.next = "notify"
    <3>1. accepting \in [conn : Conns \cup {0}, on : Conns \cup {0},
                          next : {"event", "add", "watch", "notify"}]
      BY DEF IInv, Inv, TypeOK
    <3> QED
      BY <1>6, <3>1 DEF Watch, Then
  <2> QED
    BY <1>2, <2>1, <2>2 DEF AcceptsNew, connVars
<1>7. CASE Notify
  BY <1>7 DEF Notify, AcceptsNew
<1>8. ASSUME NEW s \in Services, Socket(s)
      PROVE  AcceptsNew'
  <2>1. /\ made' = made + 1 /\ listeners \subseteq listeners' /\ listeners' \subseteq listeners \cup {made'}
        /\ accepting' = accepting /\ serviceOf' = serviceOf /\ closed' = closed
    BY <1>8, SocketMakes DEF workerVars
  <2>2. accepting.conn # NoConn => accepting.conn <= made' /\ accepting.conn # made'
    BY <1>1, <1>3, <2>1
  <2>3. accepting.conn # NoConn => fdOf'[accepting.conn] = fdOf[accepting.conn]
    <3>1. PICK b \in Fds : Takes(b)
      BY <1>8, SocketMakes
    <3>2. fdOf' = [fdOf EXCEPT ![made'] = b] /\ fdOf \in [Conns -> AnyFd]
      BY <3>1 DEF Takes, IInv, Inv, TypeOK
    <3> QED
      BY <1>3, <2>2, <3>2
  <2> QED
    BY <1>2, <2>1, <2>2, <2>3 DEF AcceptsNew
<1>9. ASSUME NEW s \in Services, AddListener(s)
      PROVE  AcceptsNew'
  <2> DEFINE c == listening[s].conn
  <2>1. /\ c \in listeners /\ c \in Conns /\ serviceOf[c] = NoService
        /\ serviceOf' = [serviceOf EXCEPT ![c] = s]
        /\ made' = made /\ closed' = closed /\ listeners' = listeners /\ accepting' = accepting
        /\ fdOf' = fdOf
    BY <1>1, <1>9, AddListenerAdds DEF workerVars
  <2>2. accepting.conn # NoConn => accepting.conn # c /\ accepting.on # c
    BY <1>2, <2>1 DEF AcceptsNew
  <2>3. accepting.conn # NoConn => /\ serviceOf'[accepting.conn] = serviceOf[accepting.conn]
                                   /\ serviceOf'[accepting.on] = serviceOf[accepting.on]
    BY <1>0, <1>3, <2>1, <2>2
  <2> QED
    BY <1>2, <2>1, <2>3 DEF AcceptsNew
<1>10. ASSUME NEW s \in Services, OnEnd(s)
       PROVE  AcceptsNew'
  <2> DEFINE c == Message(s).conn
  <2>1. /\ closed' = closed \cup {c} /\ made' = made /\ serviceOf' = serviceOf
        /\ listeners' = listeners /\ accepting' = accepting /\ fdOf' = fdOf
        /\ serviceOf[c] = s
        /\ fdOf[c] # NoFd => c # accepting.conn
    BY <1>10, EndsLive DEF workerVars
  <2>2. accepting.conn # NoConn /\ accepting.next = "add" => accepting.conn # c
    BY <1>2, <2>1 DEF AcceptsNew
  <2> QED
    BY <1>2, <2>1, <2>2 DEF AcceptsNew
<1>11. ASSUME NEW s \in Services, AddEvent(s)
       PROVE  AcceptsNew'
  BY <1>2, <1>11 DEF AddEvent, workerVars, connVars, AcceptsNew
<1>12. CASE UNCHANGED <<accepting, listening, made, fdOf, closed, listeners, serviceOf>>
  BY <1>2, <1>12 DEF AcceptsNew
<1> QED
  BY <1>4, <1>5, <1>6, <1>7, <1>8, <1>9, <1>10, <1>11, <1>12, NewSteps

LEMMA ListensNewStep ==
  ASSUME IInv, Next
  PROVE  ListensNew'
<1> DEFINE Busy(s) == listening[s].next # "message"
           New(s) ==
             Busy(s) => /\ listening[s].conn \in listeners
                        /\ listening[s].next = "add" => serviceOf[listening[s].conn] = NoService
<1>0. /\ serviceOf \in [Conns -> Services \cup {NoService}]
      /\ listening \in [Services -> [conn : Conns \cup {0}, next : {"message", "add", "watch"}]]
  BY DEF IInv, Inv, TypeOK
<1>1. /\ made \in Nat /\ \A c \in 1 .. made : c \in Conns
      /\ listeners \subseteq 1 .. made
  BY Counted
<1>2. /\ ListensNew /\ \A s \in Services : New(s)
      /\ \A s, t \in Services :
           Busy(s) /\ Busy(t) /\ listening[s].conn = listening[t].conn => s = t
  BY DEF IInv, ListensNew
<1>3. ASSUME listening' = listening, listeners \subseteq listeners',
             \A c \in listeners : serviceOf'[c] = serviceOf[c]
      PROVE  ListensNew'
  BY <1>2, <1>3 DEF ListensNew
<1>4. ASSUME NEW d \in Fds, NEW in \in BOOLEAN, Accept([fd |-> d, in |-> in])
      PROVE  ListensNew'
  BY <1>3, <1>4, AcceptMakes DEF serviceVars
<1>5. CASE AddAccepted
  <2>1. /\ accepting.conn \notin listeners /\ listening' = listening /\ listeners' = listeners
        /\ serviceOf' = [serviceOf EXCEPT ![accepting.conn] = serviceOf[accepting.on]]
    BY <1>5, AddAcceptedAdds DEF serviceVars
  <2>2. \A c \in listeners : serviceOf'[c] = serviceOf[c]
    BY <1>0, <1>1, <2>1
  <2> QED
    BY <1>3, <2>1, <2>2
<1>6. CASE Watch \/ Notify
  BY <1>3, <1>6 DEF Watch, Notify, connVars, serviceVars
<1>7. ASSUME NEW s \in Services, Socket(s)
      PROVE  ListensNew'
  <2>1. made' = made + 1 /\ serviceOf[made'] = NoService /\ serviceOf' = serviceOf
    BY <1>7, SocketMakes
  <2>2. CASE listening' = listening /\ listeners' = listeners
    BY <1>3, <2>1, <2>2
  <2>3. CASE /\ listening' = [listening EXCEPT ![s] = [conn |-> made', next |-> "add"]]
             /\ listeners' = listeners \cup {made'}
    <3>1. /\ listening'[s].conn = made' /\ listening'[s].next = "add"
          /\ \A t \in Services \ {s} : listening'[t] = listening[t]
      BY <1>0, <2>3
    <3>2. made' \notin listeners
      BY <1>1, <2>1
    <3>3. \A t \in Services : New(t)'
      BY <1>2, <2>1, <2>3, <3>1
    <3>4. ASSUME NEW t \in Services, NEW u \in Services, Busy(t)', Busy(u)',
                 listening'[t].conn = listening'[u].conn
          PROVE  t = u
      BY <1>2, <3>1, <3>2, <3>4
    <3> QED
      BY <3>3, <3>4 DEF ListensNew
  <2> QED
    BY <1>7, <2>2, <2>3, SocketMakes
<1>8. ASSUME NEW s \in Services, AddListener(s)
      PROVE  ListensNew'
  <2> DEFINE c == listening[s].conn
  <2>1. /\ c \in Conns /\ serviceOf' = [serviceOf EXCEPT ![c] = s]
        /\ listeners' = listeners
        /\ listening' = [listening EXCEPT ![s].next = "watch"]
        /\ listening[s].next = "add"
    BY <1>1, <1>8, AddListenerAdds DEF AddListener
  <2>2. /\ listening'[s].conn = c /\ listening'[s].next = "watch"
        /\ \A t \in Services \ {s} : listening'[t] = listening[t]
    BY <1>0, <2>1
  <2>3. c \in listeners /\ Busy(s)
    BY <1>2, <2>1
  <2>4. \A t \in Services \ {s} : Busy(t) =>
          /\ listening[t].conn # c
          /\ serviceOf'[listening[t].conn] = serviceOf[listening[t].conn]
    BY <1>0, <1>1, <1>2, <2>1, <2>3
  <2>5. \A t \in Services : New(t)'
    BY <1>2, <2>1, <2>2, <2>3, <2>4
  <2>6. ASSUME NEW t \in Services, NEW u \in Services, Busy(t)', Busy(u)',
               listening'[t].conn = listening'[u].conn
        PROVE  t = u
    BY <1>2, <2>2, <2>3, <2>6
  <2> QED
    BY <2>5, <2>6 DEF ListensNew
<1>9. ASSUME NEW s \in Services, AddEvent(s)
      PROVE  ListensNew'
  <2>1. /\ listening'[s].next = "message"
        /\ \A t \in Services \ {s} : listening'[t] = listening[t]
    BY <1>0, <1>9 DEF AddEvent
  <2>2. listeners' = listeners /\ serviceOf' = serviceOf
    BY <1>9 DEF AddEvent, connVars
  <2> QED
    BY <1>2, <2>1, <2>2 DEF ListensNew
<1>10. ASSUME NEW s \in Services, OnEnd(s)
       PROVE  ListensNew'
  BY <1>3, <1>10, EndsLive
<1>11. CASE UNCHANGED <<accepting, listening, made, fdOf, closed, listeners, serviceOf>>
  BY <1>3, <1>11
<1> QED
  BY <1>4, <1>5, <1>6, <1>7, <1>8, <1>9, <1>10, <1>11, NewSteps

-----------------------------------------------------------------------------
(* The messages and the writers. *)

(* The steps that send or take a message. *)
LEMMA MailSteps ==
  ASSUME Next
  PROVE  \/ \E d \in Fds, in \in BOOLEAN : OnRW([fd |-> d, in |-> in])
         \/ Notify
         \/ \E s \in Services :
              OnAcceptMsg(s) \/ Passes(s) \/ OnEnd(s) \/ Exit(s) \/ \E d \in AnyFd : CloseConn(s, d)
         \/ UNCHANGED <<mailbox, writers, lingering, gone>>
<1>1. CASE SocketWorkerStep
  BY <1>1 DEF SocketWorkerStep, EpollWait, Accept, AddAccepted, Watch, serviceVars
<1>2. ASSUME NEW s \in Services, ServiceStep(s)
      PROVE  \/ OnAcceptMsg(s) \/ Passes(s) \/ OnEnd(s) \/ Exit(s)
             \/ \E d \in AnyFd : CloseConn(s, d)
             \/ UNCHANGED <<mailbox, writers, lingering, gone>>
  BY <1>2 DEF ServiceStep, Passes, Socket, AddListener, AddEvent, FollowNull, Read, UseNull,
              RemoveConn, Close, RemoveEvent
<1>3. ASSUME NEW d \in Fds, Connect(d)
      PROVE  UNCHANGED <<mailbox, writers, lingering, gone>>
  BY <1>3 DEF Connect, serviceVars
<1> QED
  BY <1>1, <1>2, <1>3 DEF Next

(* OnRW sends nothing or a message about a connection that Conns has. *)
LEMMA RWSends ==
  ASSUME IInv, NEW d \in Fds, NEW in \in BOOLEAN, OnRW([fd |-> d, in |-> in])
  PROVE  LET c == conns[d]  m == RWMsg(conns[d], IF in THEN "read" ELSE "write") IN
           /\ accepting = NoAccept
           /\ UNCHANGED <<kernelVars, accepting, connVars, writers, lingering, closing,
                          listening, gone, crashed>>
           /\ \/ mailbox' = mailbox
              \/ /\ c \in 1 .. made /\ c \notin listeners
                 /\ serviceOf[c] \in Services /\ fdOf[c] = d
                 /\ m \in Messages /\ Send(serviceOf[c], m)
<1> DEFINE c == conns[d]
<1>1. CASE c \in {NoConn} \cup listeners
  BY <1>1 DEF OnRW, OnEvent
<1>2. CASE c \notin {NoConn} \cup listeners
  <2>1. c \in 1 .. made /\ fdOf[c] = d /\ serviceOf[c] \in Services
    BY <1>2, EventIsFor
  <2>2. c \in Conns
    BY <2>1, Counted
  <2>3. RWMsg(c, IF in THEN "read" ELSE "write") \in Messages
    BY <2>2 DEF RWMsg, Messages
  <2> QED
    BY <1>2, <2>1, <2>3 DEF OnRW, OnEvent
<1> QED
  BY <1>1, <1>2

(* Notify sends the message about the connection that OnAccept is at. *)
LEMMA NotifySends ==
  ASSUME IInv, Notify
  PROVE  LET c == accepting.conn  s == serviceOf[accepting.conn]  m == AcceptMsg(c, fdOf[c]) IN
           /\ c \in 1 .. made /\ c \notin listeners /\ s \in Services
           /\ fdOf[c] # NoFd => c \notin closed
           /\ m \in Messages /\ m.conn = c /\ m.fd = fdOf[c] /\ m.type = "accept"
           /\ Send(s, m)
           /\ fdOf[c] # NoFd => writers[s][fdOf[c]] = NoConn
           /\ accepting' = NoAccept
           /\ UNCHANGED <<kernelVars, batch, connVars, writers, lingering, closing, listening,
                          gone, crashed>>
<1> DEFINE c == accepting.conn
           s == serviceOf[c]
           m == AcceptMsg(c, fdOf[c])
           d == fdOf[c]
<1>1. c # NoConn /\ accepting.next = "notify" /\ made \in Nat /\ c \in Nat
  BY Typed DEF Notify, Accepting, IInv, Inv
<1>2. /\ c <= made /\ c \notin listeners /\ (d # NoFd => c \notin closed)
      /\ s = serviceOf[accepting.on] /\ s \in Services
  BY <1>1 DEF IInv, AcceptsNew
<1>3. c \in 1 .. made /\ c \in Conns
  <2>1. c \in 1 .. made
    BY <1>1, <1>2
  <2> QED
    BY <2>1, Counted
<1>4. d \in AnyFd
  BY <1>3, ZenonT(60) DEF IInv, Inv, TypeOK
<1>5. m \in Messages /\ m.conn = c /\ m.fd = d /\ m.type = "accept"
  BY <1>3, <1>4 DEF AcceptMsg, Messages
<1>6. ASSUME d # NoFd PROVE writers[s][d] = NoConn
  <2>1. d \in Fds /\ fds[d] = c
    BY <1>2, <1>3, <1>6 DEF IInv, OpenUntilClosed, IsOpen
  <2>2. SUFFICES ASSUME writers[s][d] # NoConn PROVE FALSE
    OBVIOUS
  <2> DEFINE w == writers[s][d]
  <2>3. w \in 1 .. made /\ fdOf[w] = d /\ w # c /\ w \notin closed
    <3>1. \A x \in Services, b \in Fds : writers[x][b] # NoConn =>
            /\ writers[x][b] \in 1 .. made /\ fdOf[writers[x][b]] = b
            /\ writers[x][b] # accepting.conn /\ writers[x][b] \notin closed
      <4> SUFFICES ASSUME NEW x \in Services, NEW b \in Fds, writers[x][b] # NoConn
                   PROVE  /\ writers[x][b] \in 1 .. made /\ fdOf[writers[x][b]] = b
                          /\ writers[x][b] # accepting.conn /\ writers[x][b] \notin closed
        OBVIOUS
      <4>1. \A y \in Services, e \in Fds : LET v == writers[y][e] IN
              v # NoConn => /\ v \in 1 .. made /\ fdOf[v] = e /\ serviceOf[v] = y
                            /\ v # accepting.conn /\ v \notin closed \cup listeners
        BY DEF IInv, WritersAreLive
      <4> HIDE DEF c, s, m, d, w
      <4> QED
        BY <4>1
    <3> QED
      BY <1>2, <2>1, <2>2, <3>1
  <2>5. w \in 1 .. made \ closed
    BY <2>3
  <2>6. fds[d] = w
    BY <1>6, <2>3, <2>5 DEF IInv, OpenUntilClosed, IsOpen
  <2> QED
    BY <2>1, <2>3, <2>6
<1> QED
  BY <1>2, <1>3, <1>5, <1>6 DEF Notify

(* OnAcceptMsg makes a writer for the connection the message is about. *)
LEMMA AcceptMsgMakes ==
  ASSUME IInv, NEW s \in Services, OnAcceptMsg(s)
  PROVE  LET c == Message(s).conn  d == Message(s).fd IN
           /\ Message(s).type = "accept" /\ d = fdOf[c] /\ d \in AnyFd
           /\ d # NoFd => d \in Fds /\ writers[s][d] = NoConn /\ fds[d] = c /\ c \in 1 .. made
           /\ \A t \in Services \ {s} : writers'[t] = writers[t]
           /\ \A b \in AnyFd \ {d} : writers'[s][b] = writers[s][b]
           /\ d # NoFd => writers'[s][d] = c
           /\ writers' \in {writers, [writers EXCEPT ![s][d] = conns[d]],
                            [writers EXCEPT ![s][d] = NullConn]}
           /\ mailbox[s] # <<>> /\ Handled(s) /\ c \in 1 .. made /\ c \in Conns
           /\ UNCHANGED <<kernelVars, workerVars, connVars, lingering, closing, listening,
                          gone, crashed>>
<1> DEFINE c == Message(s).conn
           d == Message(s).fd
<1>1. mailbox[s] # <<>> /\ Message(s).type = "accept" /\ Handled(s)
  BY DEF OnAcceptMsg, MayHandle
<1>2. /\ c \in 1 .. made /\ c \in Conns /\ serviceOf[c] = s
      /\ d = fdOf[c]
      /\ d # NoFd => c \notin closed /\ writers[s][d] = NoConn
  BY <1>1, FirstMessage DEF Arrives
<1>3. d \in AnyFd
  <2>1. fdOf \in [Conns -> AnyFd]
    BY DEF IInv, Inv, TypeOK
  <2> QED
    BY <1>2, <2>1
<1>4. d # NoFd => d \in Fds /\ fds[d] = c /\ conns[d] = c
  BY <1>2, LiveIsFound DEF IInv, Inv
<1>5. writers \in [Services -> [AnyFd -> Conns \cup {NoConn, NullConn}]]
  BY DEF IInv, Inv, TypeOK
<1>6. /\ writers' \in {writers, [writers EXCEPT ![s][d] = conns[d]],
                       [writers EXCEPT ![s][d] = NullConn]}
      /\ writers[s][d] = NoConn /\ conns[d] # NoConn =>
           writers' = [writers EXCEPT ![s][d] = conns[d]]
  BY DEF OnAcceptMsg
<1>7. /\ \A t \in Services \ {s} : writers'[t] = writers[t]
      /\ \A b \in AnyFd \ {d} : writers'[s][b] = writers[s][b]
      /\ d # NoFd => writers'[s][d] = c
  <2>1. c # NoConn
    BY <1>2
  <2>2. d # NoFd => writers' = [writers EXCEPT ![s][d] = c]
    BY <1>2, <1>4, <1>6, <2>1
  <2> QED
    BY <1>3, <1>5, <1>6, <2>2
<1>8. UNCHANGED <<kernelVars, workerVars, connVars, lingering, closing, listening, gone,
                 crashed>>
  BY DEF OnAcceptMsg
<1> QED
  BY <1>1, <1>2, <1>3, <1>4, <1>6, <1>7, <1>8

LEMMA AcceptedFirstStep ==
  ASSUME IInv, Next
  PROVE  AcceptedFirst'
<1> DEFINE First(s) == \A i, j \in 1 .. Len(mailbox[s]) :
             /\ mailbox[s][i].type = "accept" /\ mailbox[s][i].fd # NoFd
             /\ mailbox[s][j].conn = mailbox[s][i].conn
             => i <= j
<1>1. \A s \in Services : First(s) /\ Len(mailbox[s]) \in Nat
  <2>1. mailbox \in [Services -> Seq(Messages)]
    BY DEF IInv, Inv, TypeOK
  <2>2. \A s \in Services : First(s)
    BY DEF IInv, AcceptedFirst
  <2> QED
    BY <2>1, <2>2
<1>2. TypeOK
  BY Counted
<1>3. ASSUME \A s \in Services : First(s)' PROVE AcceptedFirst'
  BY <1>3 DEF AcceptedFirst
<1>4. ASSUME NEW s \in Services, NEW m \in Messages, Send(s, m),
             m.type = "accept" /\ m.fd # NoFd =>
               \A i \in 1 .. Len(mailbox[s]) : mailbox[s][i].conn # m.conn
      PROVE  AcceptedFirst'
  <2>1. /\ \A t \in Services \ {s} : mailbox'[t] = mailbox[t]
        /\ s \in gone => mailbox'[s] = mailbox[s]
        /\ s \notin gone =>
             /\ Len(mailbox'[s]) = Len(mailbox[s]) + 1
             /\ \A i \in 1 .. Len(mailbox[s]) : mailbox'[s][i] = mailbox[s][i]
             /\ mailbox'[s][Len(mailbox[s]) + 1] = m
    BY <1>2, <1>4, Sends
  <2>2. First(s)'
    <3>1. CASE s \in gone
      BY <1>1, <2>1, <3>1
    <3>2. CASE s \notin gone
      <4> SUFFICES ASSUME NEW i \in 1 .. Len(mailbox'[s]), NEW j \in 1 .. Len(mailbox'[s]),
                          mailbox'[s][i].type = "accept", mailbox'[s][i].fd # NoFd,
                          mailbox'[s][j].conn = mailbox'[s][i].conn
                   PROVE  i <= j
        OBVIOUS
      <4> DEFINE n == Len(mailbox[s])
      <4>1. n \in Nat /\ Len(mailbox'[s]) = n + 1 /\ mailbox'[s][n + 1] = m
        BY <1>1, <2>1, <3>2
      <4>2. /\ i \in 1 .. n => mailbox'[s][i] = mailbox[s][i]
            /\ j \in 1 .. n => mailbox'[s][j] = mailbox[s][j]
        BY <2>1, <3>2
      <4>3. CASE i \in 1 .. n /\ j \in 1 .. n
        BY <1>1, <4>2, <4>3
      <4>4. CASE i = n + 1 /\ j \in 1 .. n
        BY <1>4, <4>1, <4>2, <4>4
      <4>5. CASE j = n + 1
        BY <4>1, <4>5
      <4> QED
        BY <4>1, <4>3, <4>4, <4>5
    <3> QED
      BY <3>1, <3>2
  <2> QED
    BY <1>1, <1>3, <2>1, <2>2
<1>5. ASSUME NEW s \in Services, mailbox[s] # <<>>, HandledWrite(s)
      PROVE  AcceptedFirst'
  <2> DEFINE n == Len(mailbox[s])
  <2>1. /\ \A t \in Services \ {s} : mailbox'[t] = mailbox[t]
        /\ n \in Nat \ {0} /\ Len(mailbox'[s]) \in Nat
        /\ \A i \in 1 .. n - 1 : mailbox'[s][i] = mailbox[s][i + 1]
        /\ \/ Len(mailbox'[s]) = n - 1
           \/ Len(mailbox'[s]) = n /\ mailbox'[s][n] = RWMsg(Message(s).conn, "close")
    BY <1>2, <1>5, HandlesWrite, FirstMessage
  <2>2. First(s)'
    <3> SUFFICES ASSUME NEW i \in 1 .. Len(mailbox'[s]), NEW j \in 1 .. Len(mailbox'[s]),
                        mailbox'[s][i].type = "accept", mailbox'[s][i].fd # NoFd,
                        mailbox'[s][j].conn = mailbox'[s][i].conn
                 PROVE  i <= j
      OBVIOUS
    <3>1. i \in 1 .. n - 1
      <4>1. i \in 1 .. n - 1 \/ (i = n /\ mailbox'[s][i] = RWMsg(Message(s).conn, "close"))
        BY <2>1
      <4> QED
        BY <4>1 DEF RWMsg
    <3>2. j \in 1 .. n - 1 \/ j = n
      BY <2>1
    <3>3. CASE j \in 1 .. n - 1
      <4>1. mailbox'[s][i] = mailbox[s][i + 1] /\ mailbox'[s][j] = mailbox[s][j + 1]
        BY <2>1, <3>1, <3>3
      <4>2. i + 1 \in 1 .. n /\ j + 1 \in 1 .. n
        BY <2>1, <3>1, <3>3
      <4>3. i + 1 <= j + 1
        BY <1>1, <4>1, <4>2
      <4> QED
        BY <3>1, <3>3, <4>3
    <3>4. CASE j = n
      BY <2>1, <3>1, <3>4
    <3> QED
      BY <3>2, <3>3, <3>4
  <2> QED
    BY <1>1, <1>3, <2>1, <2>2
<1>6. ASSUME NEW d \in Fds, NEW in \in BOOLEAN, OnRW([fd |-> d, in |-> in])
      PROVE  AcceptedFirst'
  <2>1. CASE mailbox' = mailbox
    BY <1>1, <1>3, <2>1
  <2>2. CASE mailbox' # mailbox
    <3>1. PICK s \in Services, m \in Messages :
            m = RWMsg(conns[d], IF in THEN "read" ELSE "write") /\ Send(s, m)
      BY <1>6, <2>2, RWSends
    <3>2. m.type # "accept"
      BY <3>1 DEF RWMsg
    <3> QED
      BY <1>4, <3>1, <3>2
  <2> QED
    BY <2>1, <2>2
<1>7. CASE Notify
  <2> DEFINE s == serviceOf[accepting.conn]
             m == AcceptMsg(accepting.conn, fdOf[accepting.conn])
  <2>1. /\ s \in Services /\ m \in Messages /\ Send(s, m) /\ m.conn = accepting.conn
        /\ m.fd = fdOf[accepting.conn]
    BY <1>7, NotifySends
  <2>2. m.fd # NoFd =>
          \A i \in 1 .. Len(mailbox[s]) : mailbox[s][i].conn # accepting.conn
    BY <2>1 DEF IInv, MessagesArrive, Arrives
  <2> QED
    BY <1>4, <2>1, <2>2
<1>8. ASSUME NEW s \in Services, OnAcceptMsg(s) \/ Passes(s) \/ OnEnd(s)
      PROVE  AcceptedFirst'
  <2>1. mailbox[s] # <<>> /\ HandledWrite(s)
    BY <1>8, PassesOver, EndsLive DEF OnAcceptMsg, MayHandle, HandledWrite
  <2> QED
    BY <1>5, <2>1
<1>9. ASSUME NEW s \in Services, Exit(s)
      PROVE  AcceptedFirst'
  <2>1. mailbox'[s] = <<>> /\ \A t \in Services \ {s} : mailbox'[t] = mailbox[t]
    BY <1>2, <1>9 DEF Exit, TypeOK
  <2>2. First(s)'
    BY <2>1
  <2> QED
    BY <1>1, <1>3, <2>1, <2>2
<1>10. ASSUME NEW s \in Services, NEW d \in AnyFd, CloseConn(s, d)
       PROVE  AcceptedFirst'
  <2>1. CASE mailbox' = mailbox
    BY <1>1, <1>3, <2>1
  <2>2. CASE mailbox' # mailbox
    <3>1. PICK u \in Services, m \in Messages :
            m = RWMsg(writers[s][d], "close") /\ Send(u, m)
      BY <1>10, <2>2, CloseConnSends
    <3>2. m.type # "accept"
      BY <3>1 DEF RWMsg
    <3> QED
      BY <1>4, <3>1, <3>2
  <2> QED
    BY <2>1, <2>2
<1>11. CASE UNCHANGED <<mailbox, writers, lingering, gone>>
  BY <1>1, <1>3, <1>11
<1> QED
  BY <1>6, <1>7, <1>8, <1>9, <1>10, <1>11, MailSteps

(* A message that was sent arrives, and those that wait do still. *)
LEMMA MessagesArriveStep ==
  ASSUME IInv, Next
  PROVE  MessagesArrive'
<1> DEFINE Stay == \A s \in Services, m \in Messages : Arrives(s, m) => Arrives(s, m)'
<1>0. /\ TypeOK /\ made \in Nat /\ \A c \in 1 .. made : c \in Conns
      /\ listeners \subseteq 1 .. made
  BY Counted
<1>1. /\ serviceOf \in [Conns -> Services \cup {NoService}] /\ fdOf \in [Conns -> AnyFd]
      /\ writers \in [Services -> [AnyFd -> Conns \cup {NoConn, NullConn}]]
      /\ mailbox \in [Services -> Seq(Messages)]
  BY <1>0 DEF TypeOK
<1>2. \A s \in Services :
        /\ s \in gone => mailbox[s] = <<>>
        /\ Len(mailbox[s]) \in Nat
        /\ \A i \in 1 .. Len(mailbox[s]) : mailbox[s][i] \in Messages /\ Arrives(s, mailbox[s][i])
  <2>1. \A s \in Services :
          /\ Len(mailbox[s]) \in Nat
          /\ \A i \in 1 .. Len(mailbox[s]) : mailbox[s][i] \in Messages
    BY <1>1
  <2> QED
    BY <2>1 DEF IInv, MessagesArrive
<1>3. \A m \in Messages :
        /\ m.conn \in Conns /\ m.conn \in Nat /\ m.conn # 0
        /\ m.type = "accept" => m.fd \in AnyFd
  <2>1. \A m \in Messages :
          /\ m.conn \in Conns
          /\ m.type = "accept" => m.fd \in AnyFd
    BY DEF Messages
  <2>2. \A c \in Conns : c \in Nat /\ c # 0
    OBVIOUS
  <2> QED
    BY <2>1, <2>2
<1>4. ASSUME Stay, mailbox' = mailbox, gone' = gone
      PROVE  MessagesArrive'
  BY <1>2, <1>4 DEF MessagesArrive
<1>5. ASSUME Stay, NEW s \in Services, NEW m \in Messages, Send(s, m), gone' = gone,
             Arrives(s, m)'
      PROVE  MessagesArrive'
  <2>1. /\ \A t \in Services \ {s} : mailbox'[t] = mailbox[t]
        /\ s \in gone => mailbox'[s] = mailbox[s]
        /\ s \notin gone =>
             /\ Len(mailbox'[s]) = Len(mailbox[s]) + 1
             /\ \A i \in 1 .. Len(mailbox[s]) : mailbox'[s][i] = mailbox[s][i]
             /\ mailbox'[s][Len(mailbox[s]) + 1] = m
    BY <1>0, <1>5, Sends
  <2>2. ASSUME NEW i \in 1 .. Len(mailbox'[s]) PROVE Arrives(s, mailbox[s][i])'
    <3>1. CASE s \in gone
      BY <1>2, <1>5, <2>1, <2>2, <3>1
    <3>2. CASE s \notin gone
      <4>1. i \in 1 .. Len(mailbox[s]) \/ i = Len(mailbox[s]) + 1
        BY <1>2, <2>1, <2>2, <3>2
      <4> QED
        BY <1>2, <1>5, <2>1, <3>2, <4>1
    <3> QED
      BY <3>1, <3>2
  <2> QED
    BY <1>2, <1>5, <2>1, <2>2 DEF MessagesArrive
<1>6. ASSUME NEW s \in Services, mailbox[s] # <<>>, HandledWrite(s), gone' = gone,
             UNCHANGED <<made, listeners, serviceOf, fdOf>>, accepting'.conn = accepting.conn,
             \A t \in Services \ {s}, m \in Messages : Arrives(t, m) => Arrives(t, m)',
             \A i \in 2 .. Len(mailbox[s]) : Arrives(s, mailbox[s][i]) =>
               \A m \in Messages : m = mailbox[s][i] => Arrives(s, m)'
      PROVE  MessagesArrive'
  <2> DEFINE n == Len(mailbox[s])
  <2>1. /\ \A t \in Services \ {s} : mailbox'[t] = mailbox[t]
        /\ n \in Nat \ {0} /\ Len(mailbox'[s]) \in Nat
        /\ \A i \in 1 .. n - 1 : mailbox'[s][i] = mailbox[s][i + 1]
        /\ \/ Len(mailbox'[s]) = n - 1
           \/ Len(mailbox'[s]) = n /\ mailbox'[s][n] = RWMsg(Message(s).conn, "close")
    BY <1>0, <1>6, HandlesWrite, FirstMessage
  <2>2. ASSUME NEW i \in 1 .. Len(mailbox'[s]) PROVE Arrives(s, mailbox[s][i])'
    <3>1. CASE i \in 1 .. n - 1
      <4>1. i + 1 \in 2 .. n /\ i + 1 \in 1 .. n
        BY <2>1, <3>1
      <4> QED
        BY <1>2, <1>6, <2>1, <3>1, <4>1
    <3>2. CASE i = n /\ mailbox'[s][n] = RWMsg(Message(s).conn, "close")
      <4>1. PICK m \in Messages : m = RWMsg(Message(s).conn, "close")
        BY <1>6, FirstMessage
      <4>2. m.conn = Message(s).conn /\ m.type = "rw" /\ m.asks = "close"
        BY <4>1 DEF RWMsg
      <4>3. Arrives(s, Message(s))
        BY <1>6, FirstMessage
      <4>4. Arrives(s, m)'
        BY <1>6, <4>2, <4>3 DEF Arrives
      <4> QED
        BY <3>2, <4>1, <4>4
    <3> QED
      BY <2>1, <3>1, <3>2
  <2>3. s \notin gone
    BY <1>2, <1>6
  <2>4. ASSUME NEW t \in Services \ {s}
        PROVE  /\ t \in gone' => mailbox'[t] = <<>>
               /\ \A i \in 1 .. Len(mailbox'[t]) : Arrives(t, mailbox[t][i])'
    BY <1>2, <1>6, <2>1
  <2> QED
    BY <1>6, <2>2, <2>3, <2>4 DEF MessagesArrive
<1>7. ASSUME NEW c \in 1 .. made, c \notin listeners, serviceOf[c] \in Services,
             NEW m \in Messages, NEW asks, m = RWMsg(c, asks),
             fdOf[c] # NoFd => c # accepting.conn,
             fdOf[c] = NoFd => asks = "close",
             mailbox' = mailbox \/ Send(serviceOf[c], m),
             UNCHANGED <<accepting, connVars, writers, gone>>
      PROVE  MessagesArrive'
  <2>1. Stay
    BY <1>7 DEF Arrives, connVars
  <2>2. CASE mailbox' = mailbox
    BY <1>4, <1>7, <2>1, <2>2
  <2>3. CASE Send(serviceOf[c], m)
    <3>1. PICK s \in Services : s = serviceOf[c]
      BY <1>7
    <3>2. m.conn = c /\ m.type = "rw" /\ m.asks = asks
      BY <1>7 DEF RWMsg
    <3>3. c <= made /\ c \in Nat
      BY <1>0
    <3>4. /\ made' = made /\ listeners' = listeners /\ accepting' = accepting
          /\ serviceOf' = serviceOf /\ fdOf' = fdOf
      BY <1>7 DEF connVars
    <3>5. Arrives(s, m)'
      BY <1>7, <3>1, <3>2, <3>3, <3>4 DEF Arrives
    <3> QED
      BY <1>5, <1>7, <2>1, <2>3, <3>1, <3>5
  <2> QED
    BY <1>7, <2>2, <2>3
<1>25. ASSUME NEW d \in Fds, NEW in \in BOOLEAN, OnRW([fd |-> d, in |-> in])
       PROVE  MessagesArrive'
  <2>1. UNCHANGED <<accepting, connVars, writers, gone>> /\ accepting = NoAccept
    BY <1>25, RWSends
  <2>2. CASE mailbox' = mailbox
    <3>1. Stay
      BY <2>1 DEF Arrives, connVars
    <3> QED
      BY <1>4, <2>1, <2>2, <3>1
  <2>3. CASE mailbox' # mailbox
    <3> DEFINE asks == IF in THEN "read" ELSE "write"
    <3>1. PICK c \in 1 .. made, m \in Messages :
            /\ c \notin listeners /\ serviceOf[c] \in Services /\ fdOf[c] = d
            /\ m = RWMsg(c, asks) /\ Send(serviceOf[c], m)
      BY <1>25, <2>3, RWSends
    <3>2. c # accepting.conn /\ fdOf[c] # NoFd
      BY <1>0, <1>3, <2>1, <3>1, Counted
    <3> QED
      BY <1>7, <2>1, <3>1, <3>2
  <2> QED
    BY <2>2, <2>3
<1>26. ASSUME NEW s \in Services, NEW d \in AnyFd, CloseConn(s, d)
       PROVE  MessagesArrive'
  <2>1. PICK c \in 1 .. made, m \in Messages :
          /\ c \notin listeners /\ serviceOf[c] \in Services /\ fdOf[c] = d
          /\ d # NoFd => c # accepting.conn
          /\ m = RWMsg(c, "close")
          /\ mailbox' = mailbox \/ Send(serviceOf[c], m)
    BY <1>26, CloseConnSends
  <2>2. UNCHANGED <<accepting, connVars, writers, gone>>
    BY <1>26, CloseConnSends DEF workerVars
  <2> QED
    BY <1>7, <2>1, <2>2
<1>8. CASE Notify
  <2>1. PICK s \in Services, m \in Messages :
          /\ s = serviceOf[accepting.conn]
          /\ m = AcceptMsg(accepting.conn, fdOf[accepting.conn])
    BY <1>8, NotifySends
  <2> DEFINE c == m.conn
  <2>7. /\ c = accepting.conn
        /\ c \in 1 .. made /\ c \notin listeners
        /\ m.fd = fdOf[c] /\ m.type = "accept" /\ serviceOf[c] = s
        /\ Send(s, m)
        /\ fdOf[c] # NoFd => c \notin closed /\ writers[s][fdOf[c]] = NoConn
    BY <1>8, <2>1, NotifySends
  <2>2. /\ accepting'.conn = 0 /\ writers' = writers /\ gone' = gone
        /\ made' = made /\ listeners' = listeners /\ closed' = closed
        /\ serviceOf' = serviceOf /\ fdOf' = fdOf
    BY <1>8, NotifySends DEF connVars
  <2>3. \A b \in Messages : b.conn # 0
    BY <1>3
  <2>4. Stay
    BY <2>2, <2>3 DEF Arrives
  <2>5. c <= made /\ c # 0
    BY <1>0, <1>3, <2>7
  <2>6. Arrives(s, m)'
    BY <2>2, <2>5, <2>7 DEF Arrives
  <2> QED
    BY <1>5, <2>2, <2>4, <2>6, <2>7
<1>9. ASSUME NEW s \in Services, OnAcceptMsg(s)
      PROVE  MessagesArrive'
  <2> DEFINE c == Message(s).conn
             d == Message(s).fd
  <2>1. /\ Message(s).type = "accept" /\ d = fdOf[c] /\ d \in AnyFd
        /\ d # NoFd => fds[d] = c
        /\ mailbox[s] # <<>> /\ HandledWrite(s)
    BY <1>9, AcceptMsgMakes DEF HandledWrite
  <2>2. /\ \A t \in Services \ {s} : writers'[t] = writers[t]
        /\ \A b \in AnyFd \ {d} : writers'[s][b] = writers[s][b]
    BY <1>9, AcceptMsgMakes
  <2>3. /\ accepting' = accepting /\ gone' = gone
        /\ made' = made /\ listeners' = listeners /\ closed' = closed
        /\ serviceOf' = serviceOf /\ fdOf' = fdOf
    BY <1>9, AcceptMsgMakes DEF workerVars, connVars
  <2>4. ASSUME NEW t \in Services \ {s}, NEW m \in Messages, Arrives(t, m)
        PROVE  Arrives(t, m)'
    BY <2>2, <2>3, <2>4 DEF Arrives
  <2>5. ASSUME NEW i \in 2 .. Len(mailbox[s]), NEW m \in Messages, m = mailbox[s][i],
               Arrives(s, m)
        PROVE  Arrives(s, m)'
    <3>1. ASSUME m.type = "accept", m.fd # NoFd, m.fd = d PROVE FALSE
      <4>1. /\ m.conn <= made /\ m.conn \notin closed /\ fdOf[m.conn] = d
        <5>1. m.conn <= made /\ fdOf[m.conn] = d
          BY <2>5, <3>1 DEF Arrives
        <5> QED
          BY <2>5, <3>1, <5>1 DEF Arrives
      <4>2. m.conn \in 1 .. made \ closed
        BY <1>0, <1>3, <4>1
      <4>3. fds[d] = m.conn
        BY <3>1, <4>1, <4>2 DEF IInv, OpenUntilClosed, IsOpen
      <4>4. m.conn = c
        BY <2>1, <3>1, <4>3
      <4>5. 1 \in 1 .. Len(mailbox[s]) /\ c = mailbox[s][1].conn
        BY <2>1, FirstMessage
      <4>6. i \in 1 .. Len(mailbox[s])
        BY <1>2, <2>5
      <4>7. i <= 1
        BY <2>5, <3>1, <4>4, <4>5, <4>6 DEF IInv, AcceptedFirst
      <4> QED
        BY <1>2, <2>5, <4>7
    <3>2. ASSUME m.type = "accept", m.fd # NoFd
          PROVE  writers'[s][m.fd] = writers[s][m.fd]
      <4>1. m.fd \in AnyFd /\ m.fd # d
        BY <1>3, <3>1, <3>2
      <4> QED
        BY <2>2, <4>1
    <3> QED
      BY <2>3, <2>5, <3>2 DEF Arrives
  <2> QED
    BY <1>6, <2>1, <2>3, <2>4, <2>5
<1>10. ASSUME NEW s \in Services, Passes(s)
       PROVE  MessagesArrive'
  <2>1. /\ mailbox[s] # <<>> /\ HandledWrite(s)
        /\ UNCHANGED <<workerVars, connVars, writers, gone>>
    BY <1>10, PassesOver
  <2>2. Stay
    BY <2>1 DEF Arrives, workerVars, connVars
  <2>3. UNCHANGED <<made, listeners, serviceOf, fdOf, gone>> /\ accepting'.conn = accepting.conn
    BY <2>1 DEF workerVars, connVars
  <2>4. ASSUME NEW i \in 2 .. Len(mailbox[s]), NEW m \in Messages, m = mailbox[s][i],
               Arrives(s, m)
        PROVE  Arrives(s, m)'
    BY <2>2, <2>4
  <2> QED
    BY <1>6, <2>1, <2>2, <2>3, <2>4
<1>11. ASSUME NEW s \in Services, OnEnd(s)
       PROVE  MessagesArrive'
  <2> DEFINE c == Message(s).conn
             d == fdOf[c]
  <2>1. /\ mailbox[s] # <<>> /\ HandledWrite(s) /\ Message(s).type = "rw" /\ gone' = gone
    BY <1>11, EndsLive DEF HandledWrite
  <2>2. c \in Conns /\ serviceOf[c] = s /\ d \in AnyFd /\ closed' = closed \cup {c}
    BY <1>0, <1>11, EndsLive
  <2>3. writers' = [writers EXCEPT ![s][d] = NoConn]
    BY <1>11, EndsLive
  <2>4. /\ \A t \in Services \ {s} : writers'[t] = writers[t]
        /\ \A b \in AnyFd : writers'[s][b] = writers[s][b] \/ writers'[s][b] = NoConn
    BY <1>1, <2>2, <2>3
  <2>5. /\ accepting' = accepting /\ made' = made /\ listeners' = listeners
        /\ serviceOf' = serviceOf /\ fdOf' = fdOf
    BY <1>11, EndsLive DEF workerVars
  <2>6. ASSUME NEW t \in Services \ {s}, NEW m \in Messages, Arrives(t, m)
        PROVE  Arrives(t, m)'
    <3>1. m.conn # c /\ writers'[t] = writers[t]
      BY <2>2, <2>4, <2>6 DEF Arrives
    <3>2. m.conn \in closed' <=> m.conn \in closed
      BY <2>2, <3>1
    <3> QED
      BY <2>5, <2>6, <3>1, <3>2 DEF Arrives
  <2>7. ASSUME NEW i \in 2 .. Len(mailbox[s]), NEW m \in Messages, m = mailbox[s][i],
               Arrives(s, m)
        PROVE  Arrives(s, m)'
    <3>1. ASSUME m.type = "accept", m.fd # NoFd, m.conn = c PROVE FALSE
      <4>1. 1 \in 1 .. Len(mailbox[s]) /\ c = mailbox[s][1].conn
        BY <2>1, FirstMessage
      <4>2. i \in 1 .. Len(mailbox[s])
        BY <1>2, <2>7
      <4>3. i <= 1
        BY <2>7, <3>1, <4>1, <4>2 DEF IInv, AcceptedFirst
      <4> QED
        BY <1>2, <2>7, <4>3
    <3>2. /\ m.conn <= made' /\ m.conn \notin listeners' /\ serviceOf'[m.conn] = s
          /\ m.type = "accept" => m.fd = fdOf'[m.conn]
      BY <2>5, <2>7 DEF Arrives
    <3>3. CASE fdOf[m.conn] # NoFd
      <4>1. m.conn # accepting.conn
        BY <2>7, <3>3 DEF Arrives
      <4>2. ASSUME m.type = "accept"
            PROVE  m.conn \notin closed' /\ writers'[s][m.fd] = NoConn
        <5>1. /\ m.fd = fdOf[m.conn] /\ m.fd \in AnyFd
              /\ m.conn \notin closed /\ writers[s][m.fd] = NoConn
          BY <1>3, <2>7, <3>3, <4>2 DEF Arrives
        <5>2. m.conn # c
          BY <3>1, <3>3, <4>2, <5>1
        <5> QED
          BY <2>2, <2>4, <5>1, <5>2
      <4> QED
        BY <2>5, <3>2, <3>3, <4>1, <4>2 DEF Arrives
    <3>4. CASE fdOf[m.conn] = NoFd
      BY <2>5, <2>7, <3>2, <3>4 DEF Arrives
    <3> QED
      BY <3>3, <3>4
  <2> QED
    BY <1>6, <2>1, <2>5, <2>6, <2>7
<1>12. ASSUME NEW s \in Services, Exit(s)
       PROVE  MessagesArrive'
  <2>1. mailbox' = [mailbox EXCEPT ![s] = <<>>] /\ gone' = gone \cup {s}
    BY <1>12 DEF Exit
  <2>2. mailbox'[s] = <<>> /\ \A t \in Services \ {s} : mailbox'[t] = mailbox[t]
    BY <1>1, <2>1
  <2>3. \A t \in Services \ {s} : writers'[t] = writers[t]
    BY <1>1, <1>12 DEF Exit
  <2>4. UNCHANGED <<accepting, connVars>>
    BY <1>12 DEF Exit, workerVars
  <2>5. ASSUME NEW t \in Services \ {s}, NEW m \in Messages, Arrives(t, m)
        PROVE  Arrives(t, m)'
    BY <2>3, <2>4, <2>5 DEF Arrives, connVars
  <2>6. ASSUME NEW t \in Services \ {s}
        PROVE  /\ t \in gone' => mailbox'[t] = <<>>
               /\ \A i \in 1 .. Len(mailbox'[t]) : Arrives(t, mailbox[t][i])'
    BY <1>2, <2>1, <2>2, <2>5
  <2> QED
    BY <2>2, <2>6 DEF MessagesArrive
<1>13. ASSUME NEW m \in Messages, NEW s \in Services, Arrives(s, m),
              made' = made + 1, fdOf'[m.conn] = fdOf[m.conn],
              serviceOf' = serviceOf, closed' = closed, writers' = writers,
              listeners' \subseteq listeners \cup {made'},
              accepting'.conn \in {accepting.conn, made'}
       PROVE  Arrives(s, m)'
  <2>1. m.conn <= made' /\ m.conn # made'
    <3>1. m.conn <= made /\ m.conn \in Nat
      BY <1>3, <1>13 DEF Arrives
    <3> QED
      BY <1>0, <1>13, <3>1
  <2> QED
    BY <1>13, <2>1 DEF Arrives
<1>14. ASSUME NEW m \in Messages, NEW s \in Services, Arrives(s, m), made' = made + 1,
              fdOf' = fdOf \/ \E b \in Fds : Takes(b)
       PROVE  fdOf'[m.conn] = fdOf[m.conn]
  <2>1. m.conn # made'
    <3>1. m.conn <= made /\ m.conn \in Nat
      BY <1>3, <1>14 DEF Arrives
    <3> QED
      BY <1>0, <1>14, <3>1
  <2> QED
    BY <1>1, <1>3, <1>14, <2>1 DEF Takes
<1>15. ASSUME NEW d \in Fds, NEW in \in BOOLEAN, Accept([fd |-> d, in |-> in])
       PROVE  MessagesArrive'
  <2>1. /\ made' = made + 1 /\ accepting'.conn = made' /\ serviceOf' = serviceOf
        /\ closed' = closed /\ listeners' = listeners
        /\ writers' = writers /\ mailbox' = mailbox /\ gone' = gone
        /\ fdOf' = fdOf \/ \E b \in Fds : Takes(b)
    BY <1>15, AcceptMakes DEF serviceVars
  <2>2. Stay
    BY <1>13, <1>14, <2>1
  <2> QED
    BY <1>4, <2>1, <2>2
<1>16. ASSUME NEW s \in Services, Socket(s)
       PROVE  MessagesArrive'
  <2>1. /\ made' = made + 1 /\ serviceOf' = serviceOf /\ closed' = closed
        /\ writers' = writers /\ mailbox' = mailbox /\ gone' = gone
        /\ listeners' \subseteq listeners \cup {made'} /\ accepting' = accepting
        /\ \E b \in Fds : Takes(b)
    BY <1>16, SocketMakes DEF workerVars
  <2>2. Stay
    BY <1>13, <1>14, <2>1
  <2> QED
    BY <1>4, <2>1, <2>2
<1>17. ASSUME NEW c \in Conns, serviceOf[c] = NoService, NEW x,
              serviceOf' = [serviceOf EXCEPT ![c] = x],
              made' = made, fdOf' = fdOf, closed' = closed, listeners' = listeners,
              writers' = writers, mailbox' = mailbox, gone' = gone,
              accepting'.conn = accepting.conn
       PROVE  MessagesArrive'
  <2>1. ASSUME NEW s \in Services, NEW m \in Messages, Arrives(s, m)
        PROVE  Arrives(s, m)'
    <3>1. m.conn # c
      BY <1>17, <2>1 DEF Arrives
    <3>2. serviceOf'[m.conn] = serviceOf[m.conn]
      BY <1>1, <1>3, <1>17, <3>1
    <3> QED
      BY <1>17, <2>1, <3>2 DEF Arrives
  <2> QED
    BY <1>4, <1>17, <2>1
<1>18. CASE AddAccepted
  <2>1. /\ accepting.conn \in Conns /\ serviceOf[accepting.conn] = NoService
        /\ serviceOf' = [serviceOf EXCEPT ![accepting.conn] = serviceOf[accepting.on]]
        /\ made' = made /\ fdOf' = fdOf /\ closed' = closed /\ listeners' = listeners
        /\ writers' = writers /\ mailbox' = mailbox /\ gone' = gone
    BY <1>0, <1>18, AddAcceptedAdds DEF serviceVars
  <2>2. accepting'.conn = accepting.conn
    <3>1. accepting \in [conn : Conns \cup {0}, on : Conns \cup {0},
                          next : {"event", "add", "watch", "notify"}]
      BY <1>0 DEF TypeOK
    <3> QED
      BY <1>18, <3>1 DEF AddAccepted, Then
  <2> QED
    BY <1>17, <2>1, <2>2
<1>19. ASSUME NEW s \in Services, AddListener(s)
       PROVE  MessagesArrive'
  <2> DEFINE c == listening[s].conn
  <2>1. /\ c \in Conns /\ serviceOf[c] = NoService /\ serviceOf' = [serviceOf EXCEPT ![c] = s]
        /\ made' = made /\ fdOf' = fdOf /\ closed' = closed /\ listeners' = listeners
        /\ writers' = writers /\ mailbox' = mailbox /\ gone' = gone
        /\ accepting' = accepting
    BY <1>0, <1>19, AddListenerAdds DEF workerVars
  <2> QED
    BY <1>17, <2>1
<1>20. ASSUME accepting'.conn = accepting.conn, UNCHANGED <<made, fdOf, serviceOf, listeners, closed>>,
              UNCHANGED <<mailbox, writers, gone>>
       PROVE  MessagesArrive'
  <2>1. Stay
    BY <1>20 DEF Arrives
  <2> QED
    BY <1>4, <1>20, <2>1
<1>21. CASE EpollWait
  BY <1>20, <1>21 DEF EpollWait, connVars, serviceVars
<1>22. CASE Watch
  <2>1. accepting'.conn = accepting.conn
    <3>1. accepting \in [conn : Conns \cup {0}, on : Conns \cup {0},
                          next : {"event", "add", "watch", "notify"}]
      BY <1>0 DEF TypeOK
    <3> QED
      BY <1>22, <3>1 DEF Watch, Then
  <2> QED
    BY <1>20, <1>22, <2>1 DEF Watch, connVars, serviceVars
<1>23. ASSUME NEW s \in Services,
              \/ AddEvent(s) \/ FollowNull(s) \/ Read(s) \/ \E d \in AnyFd : UseNull(s, d)
              \/ RemoveConn(s) \/ Close(s) \/ RemoveEvent(s)
       PROVE  MessagesArrive'
  BY <1>20, <1>23 DEF AddEvent, FollowNull, Read, UseNull, RemoveConn, Close, RemoveEvent,
                      workerVars, connVars
<1>24. ASSUME NEW d \in Fds, Connect(d)
       PROVE  MessagesArrive'
  BY <1>20, <1>24 DEF Connect, workerVars, connVars, serviceVars
<1> QED
  BY <1>8, <1>9, <1>10, <1>11, <1>12, <1>15, <1>16, <1>18, <1>19, <1>21, <1>22, <1>23,
     <1>24, <1>25, <1>26
  DEF Next, SocketWorkerStep, ServiceStep, Passes

(* The writers stay those of live connections. *)
LEMMA WritersStep ==
  ASSUME IInv, Next
  PROVE  \A s \in Services, d \in Fds : LET c == writers'[s][d] IN
           c # NoConn => /\ c \in 1 .. made' /\ fdOf'[c] = d /\ serviceOf'[c] = s
                         /\ c # accepting'.conn /\ c \notin closed' \cup listeners'
<1> DEFINE Live(s, d, c) ==
             /\ c \in 1 .. made /\ fdOf[c] = d /\ serviceOf[c] = s
             /\ c # accepting.conn /\ c \notin closed \cup listeners
           Right(s, d) == writers[s][d] = NoConn \/ \E c \in Conns : c = writers[s][d] /\ Live(s, d, c)
           Goal == \A s \in Services, d \in Fds : Right(s, d)'
<1> SUFFICES Goal
  <2>1. ASSUME Goal, NEW s \in Services, NEW d \in Fds, writers'[s][d] # NoConn
        PROVE  Live(s, d, writers[s][d])'
    <3>1. Right(s, d)'
      BY <2>1
    <3>2. PICK c \in Conns : c = writers'[s][d] /\ Live(s, d, c)'
      BY <2>1, <3>1
    <3> QED
      BY <3>2
  <2>2. ASSUME Goal
        PROVE  \A s \in Services, d \in Fds :
                 writers'[s][d] # NoConn => Live(s, d, writers[s][d])'
    BY <2>1, <2>2
  <2> QED
    BY <2>2
<1>0. /\ TypeOK /\ made \in Nat /\ \A c \in 1 .. made : c \in Conns
      /\ \A c \in Conns : c \in Nat /\ c # 0
      /\ NoFd \notin Fds
  BY Counted
<1>1. /\ serviceOf \in [Conns -> Services \cup {NoService}] /\ fdOf \in [Conns -> AnyFd]
      /\ writers \in [Services -> [AnyFd -> Conns \cup {NoConn, NullConn}]]
  BY <1>0 DEF TypeOK
<1>2. \A s \in Services, d \in Fds : Right(s, d)
  <2>1. WritersAreLive
    BY DEF IInv
  <2>2. ASSUME NEW s \in Services, NEW d \in Fds, writers[s][d] # NoConn
        PROVE  writers[s][d] \in Conns /\ Live(s, d, writers[s][d])
    BY <1>0, <2>1, <2>2 DEF WritersAreLive
  <2> QED
    BY <2>2
<1>3. ASSUME writers' = writers,
             \A s \in Services, d \in Fds, c \in Conns : Live(s, d, c) => Live(s, d, c)'
      PROVE  Goal
  <2>1. ASSUME NEW s \in Services, NEW d \in Fds PROVE Right(s, d)'
    <3>1. Right(s, d)
      BY <1>2
    <3> QED
      BY <1>3, <3>1
  <2> QED
    BY <2>1
<1>4. ASSUME made' = made + 1, writers' = writers, closed' = closed, serviceOf' = serviceOf,
             fdOf' = fdOf \/ \E b \in Fds : Takes(b),
             listeners' \subseteq listeners \cup {made'},
             accepting'.conn \in {accepting.conn, made'}
      PROVE  Goal
  <2>1. ASSUME NEW s \in Services, NEW d \in Fds, NEW c \in Conns, Live(s, d, c)
        PROVE  Live(s, d, c)'
    <3>1. c \in 1 .. made' /\ c # made'
      BY <1>0, <1>4, <2>1
    <3>2. fdOf'[c] = fdOf[c]
      BY <1>1, <1>4, <3>1 DEF Takes
    <3> QED
      BY <1>4, <2>1, <3>1, <3>2
  <2> QED
    BY <1>3, <1>4, <2>1
<1>5. ASSUME NEW d \in Fds, NEW in \in BOOLEAN, Accept([fd |-> d, in |-> in])
      PROVE  Goal
  BY <1>4, <1>5, AcceptMakes DEF serviceVars
<1>6. ASSUME NEW s \in Services, Socket(s)
      PROVE  Goal
  BY <1>4, <1>6, SocketMakes DEF workerVars
<1>7. ASSUME NEW b \in Conns, NEW x, serviceOf' = [serviceOf EXCEPT ![b] = x],
             serviceOf[b] = NoService, listeners' = listeners,
             made' = made, fdOf' = fdOf, closed' = closed, writers' = writers,
             accepting'.conn = accepting.conn
      PROVE  Goal
  <2>1. ASSUME NEW s \in Services, NEW d \in Fds, NEW c \in Conns, Live(s, d, c)
        PROVE  Live(s, d, c)'
    <3>1. c # b
      BY <1>7, <2>1
    <3>2. serviceOf'[c] = serviceOf[c]
      BY <1>1, <1>7, <3>1
    <3> QED
      BY <1>7, <2>1, <3>2
  <2> QED
    BY <1>3, <1>7, <2>1
<1>8. CASE AddAccepted
  <2>1. /\ accepting.conn \in Conns /\ serviceOf[accepting.conn] = NoService
        /\ serviceOf' = [serviceOf EXCEPT ![accepting.conn] = serviceOf[accepting.on]]
        /\ made' = made /\ fdOf' = fdOf /\ closed' = closed /\ writers' = writers
        /\ listeners' = listeners
    BY <1>0, <1>8, AddAcceptedAdds DEF serviceVars
  <2>2. accepting'.conn = accepting.conn
    <3>1. accepting \in [conn : Conns \cup {0}, on : Conns \cup {0},
                          next : {"event", "add", "watch", "notify"}]
      BY <1>0 DEF TypeOK
    <3> QED
      BY <1>8, <3>1 DEF AddAccepted, Then
  <2> QED
    BY <1>7, <2>1, <2>2
<1>9. ASSUME NEW s \in Services, AddListener(s)
      PROVE  Goal
  <2> DEFINE c == listening[s].conn
  <2>1. /\ c \in Conns /\ serviceOf[c] = NoService /\ serviceOf' = [serviceOf EXCEPT ![c] = s]
        /\ made' = made /\ fdOf' = fdOf /\ closed' = closed /\ writers' = writers
        /\ listeners' = listeners
        /\ accepting' = accepting
    BY <1>0, <1>9, AddListenerAdds DEF workerVars
  <2> QED
    BY <1>7, <2>1
<1>10. ASSUME accepting'.conn \in {0, accepting.conn}, writers' = writers,
              UNCHANGED <<made, fdOf, serviceOf, closed, listeners>>
       PROVE  Goal
  <2>1. ASSUME NEW s \in Services, NEW d \in Fds, NEW c \in Conns, Live(s, d, c)
        PROVE  Live(s, d, c)'
    BY <1>0, <1>10, <2>1
  <2> QED
    BY <1>3, <1>10, <2>1
<1>11. CASE Notify
  <2>1. accepting'.conn = 0 /\ UNCHANGED <<connVars, writers>>
    BY <1>11, NotifySends
  <2> QED
    BY <1>10, <2>1 DEF connVars
<1>12. CASE Watch
  <2>1. accepting'.conn = accepting.conn
    <3>1. accepting \in [conn : Conns \cup {0}, on : Conns \cup {0},
                          next : {"event", "add", "watch", "notify"}]
      BY <1>0 DEF TypeOK
    <3> QED
      BY <1>12, <3>1 DEF Watch, Then
  <2> QED
    BY <1>10, <1>12, <2>1 DEF Watch, connVars, serviceVars
<1>13. CASE EpollWait
  BY <1>10, <1>13 DEF EpollWait, connVars, serviceVars
<1>14. ASSUME NEW d \in Fds, NEW in \in BOOLEAN, OnRW([fd |-> d, in |-> in])
       PROVE  Goal
  BY <1>10, <1>14, RWSends DEF connVars
<1>15. ASSUME NEW s \in Services,
              \/ AddEvent(s) \/ Ignore(s) \/ FollowNull(s) \/ OnRWMsg(s) \/ Read(s) \/ OnKeep(s)
              \/ \E d \in AnyFd : CloseConn(s, d) \/ UseNull(s, d)
              \/ RemoveConn(s) \/ Close(s) \/ RemoveEvent(s)
       PROVE  Goal
  BY <1>10, <1>15 DEF AddEvent, Ignore, FollowNull, OnRWMsg, Read, OnKeep, CloseConn, UseNull,
                      RemoveConn, Close, RemoveEvent, workerVars, connVars
<1>16. ASSUME NEW d \in Fds, Connect(d)
       PROVE  Goal
  BY <1>10, <1>16 DEF Connect, workerVars, connVars, serviceVars
<1>17. ASSUME NEW s \in Services, NEW x \in AnyFd,
              \A t \in Services \ {s} : writers'[t] = writers[t],
              \A b \in AnyFd \ {x} : writers'[s][b] = writers[s][b],
              x \in Fds => Right(s, x)',
              \A c \in Conns, t \in Services, b \in Fds :
                Live(t, b, c) /\ ~(t = s /\ b = x) => Live(t, b, c)'
       PROVE  Goal
  <2>1. ASSUME NEW t \in Services, NEW b \in Fds PROVE Right(t, b)'
    <3>1. CASE t = s /\ b = x
      BY <1>17, <3>1
    <3>2. CASE ~(t = s /\ b = x)
      <4>1. writers'[t][b] = writers[t][b]
        BY <1>17, <3>2
      <4>2. Right(t, b)
        BY <1>2
      <4> QED
        BY <1>17, <3>2, <4>1, <4>2
    <3> QED
      BY <3>1, <3>2
  <2> QED
    BY <2>1
<1>18. ASSUME NEW s \in Services, OnAcceptMsg(s)
       PROVE  Goal
  <2>0. PICK c, d : c = Message(s).conn /\ d = Message(s).fd
    OBVIOUS
  <2>1. /\ d \in AnyFd /\ d = fdOf[c] /\ c \in 1 .. made /\ c \in Conns
        /\ \A t \in Services \ {s} : writers'[t] = writers[t]
        /\ \A b \in AnyFd \ {d} : writers'[s][b] = writers[s][b]
        /\ d # NoFd => writers'[s][d] = c
        /\ UNCHANGED <<workerVars, connVars>>
        /\ mailbox[s] # <<>> /\ Message(s).type = "accept"
    BY <1>18, <2>0, AcceptMsgMakes
  <2>2. /\ c \notin listeners /\ serviceOf[c] = s
        /\ d # NoFd => c # accepting.conn /\ c \notin closed
    BY <2>0, <2>1, FirstMessage DEF Arrives
  <2>3. /\ accepting' = accepting /\ made' = made /\ fdOf' = fdOf
        /\ serviceOf' = serviceOf /\ closed' = closed /\ listeners' = listeners
    BY <2>1 DEF workerVars, connVars
  <2>4. d \in Fds => Right(s, d)'
    BY <1>0, <2>1, <2>2, <2>3
  <2>5. \A w \in Conns, t \in Services, b \in Fds : Live(t, b, w) => Live(t, b, w)'
    BY <2>3
  <2> HIDE DEF Goal, Right, Live
  <2> QED
    BY <1>17, <2>1, <2>4, <2>5
<1>19. ASSUME NEW s \in Services, OnEnd(s)
       PROVE  Goal
  <2>0. PICK c, d : c = Message(s).conn /\ d = fdOf[c]
    OBVIOUS
  <2>1. /\ serviceOf[c] = s /\ d \in AnyFd /\ closed' = closed \cup {c}
        /\ accepting' = accepting /\ made' = made /\ fdOf' = fdOf /\ serviceOf' = serviceOf
        /\ listeners' = listeners
    BY <1>19, <2>0, EndsLive DEF workerVars
  <2>2. writers' = [writers EXCEPT ![s][d] = NoConn]
    BY <1>19, <2>0, EndsLive
  <2>3. /\ \A t \in Services \ {s} : writers'[t] = writers[t]
        /\ \A b \in AnyFd \ {d} : writers'[s][b] = writers[s][b]
        /\ writers'[s][d] = NoConn
    BY <1>1, <2>1, <2>2
  <2>4. \A w \in Conns, t \in Services, b \in Fds :
          Live(t, b, w) /\ ~(t = s /\ b = d) => Live(t, b, w)'
    BY <2>0, <2>1
  <2>5. Right(s, d)'
    BY <2>3
  <2> HIDE DEF Goal, Right, Live
  <2> QED
    BY <1>17, <2>1, <2>3, <2>4, <2>5
<1>20. ASSUME NEW s \in Services, Exit(s)
       PROVE  Goal
  <2>1. /\ \A t \in Services \ {s} : writers'[t] = writers[t]
        /\ \A b \in AnyFd : writers'[s][b] = NoConn
    BY <1>1, <1>20 DEF Exit
  <2>2. UNCHANGED <<workerVars, connVars>>
    BY <1>20 DEF Exit
  <2>3. /\ accepting' = accepting /\ made' = made /\ fdOf' = fdOf
        /\ serviceOf' = serviceOf /\ closed' = closed /\ listeners' = listeners
    BY <2>2 DEF workerVars, connVars
  <2>4. ASSUME NEW t \in Services, NEW b \in Fds PROVE Right(t, b)'
    <3>1. CASE t = s
      BY <2>1, <3>1
    <3>2. CASE t # s
      <4>1. Right(t, b) /\ writers'[t][b] = writers[t][b]
        BY <1>2, <2>1, <3>2
      <4> QED
        BY <2>3, <4>1
    <3> QED
      BY <3>1, <3>2
  <2> QED
    BY <2>4
<1> HIDE DEF Goal
<1> QED
  BY <1>5, <1>6, <1>8, <1>9, <1>11, <1>12, <1>13, <1>14, <1>15, <1>16, <1>18, <1>19, <1>20
  DEF Next, SocketWorkerStep, ServiceStep

(* The connections that were made keep their descriptor, and their service *)
(* when they have one.                                                     *)
LEMMA OldConns ==
  ASSUME IInv, Next
  PROVE  /\ made' \in Nat /\ made <= made'
         /\ \A c \in 1 .. made : /\ c \in 1 .. made' /\ fdOf'[c] = fdOf[c]
                                 /\ serviceOf'[c] \in Services \cup {serviceOf[c]}
<1> DEFINE Same == \A c \in 1 .. made : /\ fdOf'[c] = fdOf[c]
                                         /\ serviceOf'[c] \in Services \cup {serviceOf[c]}
           Goal == Same /\ made' \in {made, made + 1}
<1>0. /\ made \in Nat /\ \A c \in 1 .. made : c \in Conns
      /\ fdOf \in [Conns -> AnyFd] /\ serviceOf \in [Conns -> Services \cup {NoService}]
  BY Counted DEF TypeOK
<1>1. SUFFICES Goal
  <2>1. ASSUME Goal PROVE made' \in Nat /\ made <= made' /\ 1 .. made \subseteq 1 .. made'
    BY <1>0, <2>1
  <2> QED
    BY <2>1
<1>2. ASSUME made' = made + 1, serviceOf' = serviceOf, fdOf' = fdOf \/ \E b \in Fds : Takes(b)
      PROVE  Goal
  <2>1. ASSUME NEW c \in 1 .. made PROVE fdOf'[c] = fdOf[c]
    <3>1. c \in Conns /\ c # made'
      BY <1>0, <1>2
    <3> QED
      BY <1>0, <1>2, <3>1 DEF Takes
  <2> QED
    BY <1>2, <2>1
<1>3. ASSUME NEW c \in Conns, NEW s \in Services, serviceOf' = [serviceOf EXCEPT ![c] = s],
             fdOf' = fdOf, made' = made
      PROVE  Goal
  BY <1>0, <1>3
<1>4. ASSUME UNCHANGED <<made, fdOf, serviceOf>>
      PROVE  Goal
  BY <1>4
<1>5. ASSUME NEW d \in Fds, NEW in \in BOOLEAN, Accept([fd |-> d, in |-> in])
      PROVE  Goal
  BY <1>2, <1>5, AcceptMakes
<1>6. CASE AddAccepted
  BY <1>0, <1>3, <1>6, AddAcceptedAdds
<1>7. ASSUME NEW s \in Services, Socket(s)
      PROVE  Goal
  BY <1>2, <1>7, SocketMakes
<1>8. ASSUME NEW s \in Services, AddListener(s)
      PROVE  Goal
  BY <1>0, <1>3, <1>8, AddListenerAdds
<1>9. ASSUME NEW s \in Services,
             \/ Read(s) \/ OnKeep(s) \/ OnEnd(s) \/ RemoveConn(s) \/ Close(s)
             \/ RemoveEvent(s)
      PROVE  Goal
  BY <1>4, <1>9 DEF Read, OnKeep, OnEnd, RemoveConn, Close, RemoveEvent, connVars
<1>10. CASE UNCHANGED <<fds, connVars, closing>>
  BY <1>4, <1>10 DEF connVars
<1> HIDE DEF Goal
<1> QED
  BY <1>5, <1>6, <1>7, <1>8, <1>9, <1>10, ConnSteps

(* The writer under -1 is that of a connection without a descriptor.       *)
LEMMA NoFdWritersStep ==
  ASSUME IInv, Next
  PROVE  \A s \in Services : LET c == writers'[s][NoFd] IN
           /\ c # NoConn => \E k \in 1 .. made' : fdOf'[k] = NoFd
           /\ c \notin {NoConn, NullConn} =>
                c \in 1 .. made' /\ fdOf'[c] = NoFd /\ serviceOf'[c] \in Services
<1> DEFINE Failed == \E k \in 1 .. made : fdOf[k] = NoFd
           Bare(c) == c \in 1 .. made /\ fdOf[c] = NoFd /\ serviceOf[c] \in Services
           Right(s) == \/ writers[s][NoFd] = NoConn
                       \/ writers[s][NoFd] = NullConn /\ Failed
                       \/ Failed /\ Bare(writers[s][NoFd])
<1> SUFFICES ASSUME NEW s \in Services PROVE Right(s)'
  OBVIOUS
<1>1. Right(s)
  BY DEF IInv, WritersAreLive
<1>2. Failed => Failed'
  BY OldConns
<1>3. ASSUME NEW c, Bare(c) PROVE Bare(c)'
  BY <1>3, OldConns
<1>4. ASSUME writers'[s][NoFd] \in {writers[s][NoFd], NoConn} PROVE Right(s)'
  <2>1. PICK w : w = writers[s][NoFd]
    OBVIOUS
  <2>2. writers'[s][NoFd] \in {w, NoConn}
    BY <1>4, <2>1
  <2>3. w = NoConn \/ (w = NullConn /\ Failed) \/ (Failed /\ Bare(w))
    BY <1>1, <2>1
  <2>4. w = NoConn \/ (w = NullConn /\ Failed') \/ (Failed' /\ Bare(w)')
    BY <1>2, <1>3, <2>3
  <2> QED
    BY <2>2, <2>4
<1>5. writers \in [Services -> [AnyFd -> Conns \cup {NoConn, NullConn}]]
  BY DEF IInv, Inv, TypeOK
<1>6. ASSUME NEW t \in Services, OnAcceptMsg(t)
      PROVE  Right(s)'
  <2> DEFINE c == Message(t).conn
             d == Message(t).fd
  <2>1. /\ d = fdOf[c] /\ d \in AnyFd /\ c \in 1 .. made
        /\ \A u \in Services \ {t} : writers'[u] = writers[u]
        /\ \A b \in AnyFd \ {d} : writers'[t][b] = writers[t][b]
        /\ writers' \in {writers, [writers EXCEPT ![t][d] = conns[d]],
                         [writers EXCEPT ![t][d] = NullConn]}
        /\ UNCHANGED connVars
    BY <1>6, AcceptMsgMakes
  <2>2. CASE s # t \/ d # NoFd
    <3>1. writers'[s][NoFd] = writers[s][NoFd]
      BY <2>1, <2>2
    <3> QED
      BY <1>4, <3>1
  <2>3. CASE s = t /\ d = NoFd
    <3>1. Failed'
      BY <1>2, <2>1, <2>3
    <3>2. writers'[s][NoFd] \in {writers[s][NoFd], conns[NoFd], NullConn}
      BY <1>5, <2>1, <2>3
    <3>3. CASE writers'[s][NoFd] = conns[NoFd]
      <4>1. conns[NoFd] = NoConn \/ Bare(conns[NoFd])
        <5>1. Numbered /\ conns[NoFd] \in Nat /\ made \in Nat
          <6>1. conns \in [AnyFd -> Conns \cup {NoConn}]
            BY DEF IInv, Inv, TypeOK
          <6>2. conns[NoFd] \in Conns \cup {NoConn}
            BY <6>1
          <6> QED
            BY <6>2, Counted DEF IInv
        <5>2. conns[NoFd] # NoConn =>
                /\ conns[NoFd] <= made /\ fdOf[conns[NoFd]] = NoFd
                /\ serviceOf[conns[NoFd]] \in Services
          BY <5>1 DEF Numbered
        <5> QED
          BY <5>1, <5>2
      <4>2. PICK w : w = conns[NoFd]
        OBVIOUS
      <4>3. w = NoConn \/ Bare(w)'
        BY <1>3, <4>1, <4>2
      <4> QED
        BY <3>1, <3>3, <4>2, <4>3
    <3> QED
      BY <1>4, <3>1, <3>2, <3>3
  <2> QED
    BY <2>2, <2>3
<1>7. ASSUME NEW t \in Services, OnEnd(t)
      PROVE  Right(s)'
  <2>1. PICK d \in AnyFd : writers' = [writers EXCEPT ![t][d] = NoConn]
    BY <1>7, EndsLive
  <2>2. writers'[s][NoFd] \in {writers[s][NoFd], NoConn}
    BY <1>5, <2>1
  <2> QED
    BY <1>4, <2>2
<1>8. ASSUME NEW t \in Services, Exit(t)
      PROVE  Right(s)'
  <2>1. writers'[s][NoFd] \in {writers[s][NoFd], NoConn}
    BY <1>5, <1>8 DEF Exit
  <2> QED
    BY <1>4, <2>1
<1>9. ASSUME writers' = writers
      PROVE  Right(s)'
  BY <1>4, <1>9
<1>10. ASSUME NEW t \in Services, Passes(t) \/ \E d \in AnyFd : CloseConn(t, d)
       PROVE  Right(s)'
  BY <1>9, <1>10, PassesOver DEF CloseConn
<1>11. CASE Notify \/ \E d \in Fds, in \in BOOLEAN : OnRW([fd |-> d, in |-> in])
  BY <1>9, <1>11 DEF Notify, OnRW
<1>12. CASE UNCHANGED <<mailbox, writers, lingering, gone>>
  BY <1>9, <1>12
<1> HIDE DEF Right
<1> QED
  BY <1>6, <1>7, <1>8, <1>10, <1>11, <1>12, MailSteps

(* A service that has no writer for a connection of its own will be told. *)
LEMMA ServedStep ==
  ASSUME IInv, Next
  PROVE  \A c \in 1 .. made' : Waits(c)' =>
           LET s == serviceOf'[c] IN
             \/ writers'[s][fdOf'[c]] = c
             \/ \E i \in 1 .. Len(mailbox'[s]) : /\ mailbox'[s][i].type = "accept"
                                                /\ mailbox'[s][i].conn = c
<1> DEFINE Told(s, c) == \E i \in 1 .. Len(mailbox[s]) :
             mailbox[s][i].type = "accept" /\ mailbox[s][i].conn = c
           Served(s, c) == writers[s][fdOf[c]] = c \/ Told(s, c)
           Goal == \A c \in 1 .. made', s \in Services :
             Waits(c)' /\ s = serviceOf'[c] => Served(s, c)'
<1> SUFFICES Goal
  BY DEF Waits
<1>0. /\ TypeOK /\ made \in Nat /\ \A c \in 1 .. made : c \in Conns
      /\ listeners \subseteq 1 .. made /\ NoFd \notin Fds
  BY Counted
<1>1. /\ serviceOf \in [Conns -> Services \cup {NoService}] /\ fdOf \in [Conns -> AnyFd]
      /\ writers \in [Services -> [AnyFd -> Conns \cup {NoConn, NullConn}]]
      /\ mailbox \in [Services -> Seq(Messages)]
  BY <1>0 DEF TypeOK
<1>2. \A c \in 1 .. made, s \in Services : Waits(c) /\ s = serviceOf[c] => Served(s, c)
  BY DEF IInv, WritersAreLive
<1>3. ASSUME writers' = writers, mailbox' = mailbox,
             \A c \in 1 .. made' : Waits(c)' =>
               c \in 1 .. made /\ Waits(c) /\ serviceOf'[c] = serviceOf[c] /\ fdOf'[c] = fdOf[c]
      PROVE  Goal
  BY <1>2, <1>3
<1>4. ASSUME writers' = writers, mailbox' = mailbox, gone' = gone, made' = made,
             serviceOf' = serviceOf, fdOf' = fdOf, listeners' = listeners, closed' = closed,
             accepting'.conn = accepting.conn
      PROVE  Goal
  BY <1>3, <1>4 DEF Waits
<1>5. ASSUME writers' = writers, mailbox' = mailbox, gone' = gone, made' = made + 1,
             serviceOf' = serviceOf, serviceOf[made'] = NoService, closed' = closed,
             fdOf' = fdOf \/ \E b \in Fds : Takes(b),
             listeners \subseteq listeners', accepting'.conn = accepting.conn \/ accepting.conn = 0
      PROVE  Goal
  <2>1. ASSUME NEW c \in 1 .. made', Waits(c)'
        PROVE  c \in 1 .. made /\ Waits(c) /\ fdOf'[c] = fdOf[c]
    <3>1. c # made'
      BY <1>5, <2>1 DEF Waits
    <3>2. c \in 1 .. made /\ c # 0
      BY <1>0, <1>5, <2>1, <3>1
    <3>3. fdOf'[c] = fdOf[c]
      BY <1>0, <1>1, <1>5, <3>1, <3>2 DEF Takes
    <3> QED
      BY <1>5, <2>1, <3>2, <3>3 DEF Waits
  <2> QED
    BY <1>3, <1>5, <2>1
<1>6. ASSUME NEW d \in Fds, NEW in \in BOOLEAN, Accept([fd |-> d, in |-> in])
      PROVE  Goal
  <2>1. /\ writers' = writers /\ mailbox' = mailbox /\ gone' = gone /\ made' = made + 1
        /\ serviceOf' = serviceOf /\ serviceOf[made'] = NoService /\ closed' = closed
        /\ fdOf' = fdOf \/ \E b \in Fds : Takes(b)
        /\ listeners' = listeners /\ accepting.conn = 0
    BY <1>6, AcceptMakes DEF serviceVars
  <2> QED
    BY <1>5, <2>1
<1>7. ASSUME NEW s \in Services, Socket(s)
      PROVE  Goal
  <2>1. /\ writers' = writers /\ mailbox' = mailbox /\ gone' = gone /\ made' = made + 1
        /\ serviceOf' = serviceOf /\ serviceOf[made'] = NoService /\ closed' = closed
        /\ \E b \in Fds : Takes(b)
        /\ listeners \subseteq listeners' /\ accepting' = accepting
    BY <1>7, SocketMakes DEF workerVars
  <2> QED
    BY <1>5, <2>1
<1>8. ASSUME NEW b \in Conns, NEW x, serviceOf' = [serviceOf EXCEPT ![b] = x],
             b \in listeners \/ b = accepting.conn,
             made' = made, fdOf' = fdOf, closed' = closed, listeners' = listeners,
             writers' = writers, mailbox' = mailbox, gone' = gone,
             accepting'.conn = accepting.conn
      PROVE  Goal
  <2>1. ASSUME NEW c \in 1 .. made, Waits(c)'
        PROVE  Waits(c) /\ serviceOf'[c] = serviceOf[c]
    <3>1. c # b
      BY <1>8, <2>1 DEF Waits
    <3>2. serviceOf'[c] = serviceOf[c]
      BY <1>0, <1>1, <1>8, <3>1
    <3> QED
      BY <1>8, <2>1, <3>2 DEF Waits
  <2> QED
    BY <1>3, <1>8, <2>1
<1>9. CASE AddAccepted
  <2>1. /\ accepting.conn \in Conns
        /\ serviceOf' = [serviceOf EXCEPT ![accepting.conn] = serviceOf[accepting.on]]
        /\ made' = made /\ fdOf' = fdOf /\ closed' = closed /\ listeners' = listeners
        /\ writers' = writers /\ mailbox' = mailbox /\ gone' = gone
    BY <1>0, <1>9, AddAcceptedAdds DEF serviceVars
  <2>2. accepting'.conn = accepting.conn
    <3>1. accepting \in [conn : Conns \cup {0}, on : Conns \cup {0},
                          next : {"event", "add", "watch", "notify"}]
      BY <1>0 DEF TypeOK
    <3> QED
      BY <1>9, <3>1 DEF AddAccepted, Then
  <2> QED
    BY <1>8, <2>1, <2>2
<1>10. ASSUME NEW s \in Services, AddListener(s)
       PROVE  Goal
  <2> DEFINE c == listening[s].conn
  <2>1. /\ c \in Conns /\ c \in listeners /\ serviceOf' = [serviceOf EXCEPT ![c] = s]
        /\ made' = made /\ fdOf' = fdOf /\ closed' = closed /\ listeners' = listeners
        /\ writers' = writers /\ mailbox' = mailbox /\ gone' = gone
        /\ accepting' = accepting
    BY <1>0, <1>10, AddListenerAdds DEF workerVars
  <2> QED
    BY <1>8, <2>1
<1>11. CASE Watch
  <2>1. accepting'.conn = accepting.conn
    <3>1. accepting \in [conn : Conns \cup {0}, on : Conns \cup {0},
                          next : {"event", "add", "watch", "notify"}]
      BY <1>0 DEF TypeOK
    <3> QED
      BY <1>11, <3>1 DEF Watch, Then
  <2> QED
    BY <1>4, <1>11, <2>1 DEF Watch, connVars, serviceVars
<1>12. CASE EpollWait
  BY <1>4, <1>12 DEF EpollWait, connVars, serviceVars
<1>13. ASSUME NEW s \in Services,
              \/ AddEvent(s) \/ FollowNull(s) \/ Read(s) \/ RemoveConn(s) \/ Close(s)
              \/ RemoveEvent(s) \/ \E d \in AnyFd : UseNull(s, d)
       PROVE  Goal
  BY <1>4, <1>13 DEF AddEvent, FollowNull, Read, RemoveConn, Close, RemoveEvent, UseNull,
                     workerVars, connVars
<1>14. ASSUME NEW d \in Fds, Connect(d)
       PROVE  Goal
  BY <1>4, <1>14 DEF Connect, workerVars, connVars, serviceVars
<1>15. ASSUME NEW s \in Services, NEW m \in Messages, Send(s, m), NEW t \in Services, NEW c,
              Told(t, c)
       PROVE  Told(t, c)'
  <2>1. CASE t # s \/ t \in gone
    BY <1>0, <1>15, <2>1, Sends
  <2>2. CASE t = s /\ s \notin gone
    <3>1. PICK i \in 1 .. Len(mailbox[s]) : mailbox[s][i].type = "accept" /\ mailbox[s][i].conn = c
      BY <1>15, <2>2
    <3>2. Len(mailbox[s]) \in Nat
      BY <1>1
    <3>3. /\ Len(mailbox'[s]) = Len(mailbox[s]) + 1
          /\ mailbox'[s][i] = mailbox[s][i]
      BY <1>0, <1>15, <2>2, <3>1, Sends
    <3>4. i \in 1 .. Len(mailbox'[s])
      BY <3>2, <3>3
    <3> QED
      BY <2>2, <3>1, <3>3, <3>4
  <2> QED
    BY <2>1, <2>2
<1>16. ASSUME UNCHANGED <<accepting, connVars, writers, gone>>,
              mailbox' = mailbox \/ \E s \in Services, m \in Messages : Send(s, m)
       PROVE  Goal
  <2>1. UNCHANGED <<accepting, connVars, writers, gone>>
    BY <1>16
  <2>2. CASE mailbox' = mailbox
    BY <1>4, <2>1, <2>2 DEF connVars
  <2>3. CASE mailbox' # mailbox
    <3>1. PICK s \in Services, m \in Messages : Send(s, m)
      BY <1>16, <2>3
    <3>2. ASSUME NEW c \in 1 .. made, NEW t \in Services, Waits(c)', t = serviceOf'[c]
          PROVE  Served(t, c)'
      <4>1. Waits(c) /\ t = serviceOf[c] /\ fdOf' = fdOf /\ writers' = writers
        BY <2>1, <3>2 DEF Waits, connVars
      <4>2. Served(t, c)
        BY <1>2, <4>1
      <4>3. CASE Told(t, c)
        BY <1>15, <3>1, <4>3, ZenonT(60)
      <4> QED
        BY <4>1, <4>2, <4>3
    <3>3. made' = made
      BY <2>1 DEF connVars
    <3> QED
      BY <3>2, <3>3
  <2> QED
    BY <2>2, <2>3
<1>17. CASE Notify
  <2>1. PICK s \in Services, m \in Messages :
          /\ s = serviceOf[accepting.conn]
          /\ m = AcceptMsg(accepting.conn, fdOf[accepting.conn])
    BY <1>17, NotifySends
  <2>2. Send(s, m) /\ m.conn = accepting.conn /\ m.type = "accept"
    BY <1>17, <2>1, NotifySends
  <2>3. UNCHANGED <<connVars, writers, gone>>
    BY <1>17, NotifySends
  <2>4. ASSUME NEW c \in 1 .. made, NEW t \in Services, Waits(c)', t = serviceOf'[c]
        PROVE  Served(t, c)'
    <3>1. t = serviceOf[c] /\ fdOf' = fdOf /\ writers' = writers /\ t \notin gone
      BY <2>3, <2>4 DEF Waits, connVars
    <3>2. CASE c = accepting.conn
      <4>1. t = s /\ s \notin gone /\ Len(mailbox[s]) \in Nat
        BY <1>1, <2>1, <3>1, <3>2
      <4>2. /\ Len(mailbox'[s]) = Len(mailbox[s]) + 1
            /\ mailbox'[s][Len(mailbox[s]) + 1] = m
        BY <1>0, <2>2, <4>1, Sends
      <4>3. Len(mailbox[s]) + 1 \in 1 .. Len(mailbox'[s])
        BY <4>1, <4>2
      <4>4. Told(t, c)'
        BY <2>2, <3>2, <4>1, <4>2, <4>3
      <4> QED
        BY <4>4
    <3>3. CASE c # accepting.conn
      <4>1. Waits(c)
        BY <2>3, <2>4, <3>3 DEF Waits, connVars
      <4>2. Served(t, c)
        BY <1>2, <3>1, <4>1
      <4>3. CASE Told(t, c)
        BY <1>15, <2>2, <4>3
      <4> QED
        BY <3>1, <4>2, <4>3
    <3> QED
      BY <3>2, <3>3
  <2>5. made' = made
    BY <2>3 DEF connVars
  <2> QED
    BY <2>4, <2>5
<1>18. ASSUME NEW s \in Services, mailbox[s] # <<>>, HandledWrite(s), NEW t \in Services, NEW c,
              Told(t, c), t # s \/ ~(Message(s).type = "accept" /\ Message(s).conn = c)
       PROVE  Told(t, c)'
  <2>1. CASE t # s
    <3>1. mailbox'[t] = mailbox[t]
      BY <1>0, <1>18, <2>1, FirstMessage, HandlesWrite
    <3> QED
      BY <1>18, <3>1
  <2>2. CASE t = s
    <3>1. PICK i \in 1 .. Len(mailbox[s]) : mailbox[s][i].type = "accept" /\ mailbox[s][i].conn = c
      BY <1>18, <2>2
    <3>2. /\ Len(mailbox[s]) \in Nat \ {0} /\ Len(mailbox'[s]) \in Nat
          /\ Len(mailbox'[s]) \in {Len(mailbox[s]) - 1, Len(mailbox[s])}
          /\ \A k \in 1 .. Len(mailbox[s]) - 1 : mailbox'[s][k] = mailbox[s][k + 1]
          /\ Message(s) = mailbox[s][1]
      BY <1>0, <1>18, FirstMessage, HandlesWrite
    <3>3. i # 1
      BY <1>18, <2>2, <3>1, <3>2
    <3>4. /\ i - 1 \in 1 .. Len(mailbox'[s]) /\ (i - 1) + 1 = i
          /\ i - 1 \in 1 .. Len(mailbox[s]) - 1
      BY <3>1, <3>2, <3>3
    <3>5. mailbox'[s][i - 1] = mailbox[s][i]
      BY <3>2, <3>4
    <3> QED
      BY <2>2, <3>1, <3>4, <3>5
  <2> QED
    BY <2>1, <2>2
<1>19. ASSUME NEW s \in Services, OnAcceptMsg(s)
       PROVE  Goal
  <2> DEFINE b == Message(s).conn
             d == Message(s).fd
  <2>1. /\ d = fdOf[b] /\ d \in AnyFd
        /\ \A t \in Services \ {s} : writers'[t] = writers[t]
        /\ \A x \in AnyFd \ {d} : writers'[s][x] = writers[s][x]
        /\ d # NoFd => writers'[s][d] = b /\ writers[s][d] = NoConn
        /\ mailbox[s] # <<>> /\ Handled(s)
        /\ UNCHANGED <<workerVars, connVars, gone>>
    BY <1>19, AcceptMsgMakes
  <2>2. ASSUME NEW c \in 1 .. made, NEW t \in Services, Waits(c)', t = serviceOf'[c]
        PROVE  Served(t, c)'
    <3>1. Waits(c) /\ t = serviceOf[c] /\ fdOf' = fdOf
      BY <2>1, <2>2 DEF Waits, workerVars, connVars
    <3>2. Served(t, c) /\ fdOf[c] \in AnyFd /\ fdOf[c] # NoFd
      <4>1. Served(t, c)
        BY <1>2, <3>1
      <4>2. c \in Conns
        BY <1>0
      <4>3. fdOf[c] \in AnyFd
        BY <1>1, <4>2
      <4> QED
        BY <3>1, <4>1, <4>3 DEF Waits
    <3>3. CASE writers[t][fdOf[c]] = c
      <4>1. c # 0
        BY <1>0
      <4>2. ~(t = s /\ fdOf[c] = d)
        BY <2>1, <3>2, <3>3, <4>1
      <4>3. writers'[t][fdOf[c]] = writers[t][fdOf[c]]
        BY <2>1, <3>2, <4>2
      <4> QED
        BY <3>1, <3>3, <4>3
    <3>4. CASE Told(t, c) /\ t = s /\ b = c
      BY <2>1, <3>1, <3>2, <3>4
    <3>5. CASE Told(t, c) /\ ~(t = s /\ b = c)
      <4>1. Told(t, c) /\ (t # s \/ ~(Message(s).type = "accept" /\ Message(s).conn = c))
        BY <3>5
      <4>2. mailbox[s] # <<>> /\ HandledWrite(s)
        BY <2>1 DEF HandledWrite
      <4> HIDE DEF Told
      <4> QED
        BY <1>18, <4>1, <4>2
    <3> QED
      BY <3>2, <3>3, <3>4, <3>5
  <2>3. made' = made
    BY <2>1 DEF connVars
  <2> QED
    BY <2>2, <2>3
<1>20. ASSUME NEW s \in Services, Passes(s)
       PROVE  Goal
  <2>1. /\ mailbox[s] # <<>> /\ HandledWrite(s) /\ Message(s).type = "rw"
        /\ UNCHANGED <<workerVars, connVars, writers, gone>>
    BY <1>20, PassesOver
  <2>2. ASSUME NEW c \in 1 .. made, NEW t \in Services, Waits(c)', t = serviceOf'[c]
        PROVE  Served(t, c)'
    <3>1. Waits(c) /\ t = serviceOf[c] /\ fdOf' = fdOf /\ writers' = writers
      BY <2>1, <2>2 DEF Waits, workerVars, connVars
    <3>2. Served(t, c)
      BY <1>2, <3>1
    <3>3. CASE Told(t, c)
      <4>1. Told(t, c) /\ (t # s \/ ~(Message(s).type = "accept" /\ Message(s).conn = c))
        BY <2>1, <3>3
      <4>2. mailbox[s] # <<>> /\ HandledWrite(s)
        BY <2>1 DEF HandledWrite
      <4> HIDE DEF Told
      <4> QED
        BY <1>18, <4>1, <4>2
    <3> QED
      BY <3>1, <3>2, <3>3
  <2>3. made' = made
    BY <2>1 DEF connVars
  <2> QED
    BY <2>2, <2>3
<1>21. ASSUME NEW s \in Services, OnEnd(s)
       PROVE  Goal
  <2> DEFINE b == Message(s).conn
             d == fdOf[b]
  <2>1. /\ mailbox[s] # <<>> /\ Handled(s) /\ Message(s).type = "rw" /\ gone' = gone
    BY <1>21, EndsLive
  <2>2. /\ d \in AnyFd /\ closed' = closed \cup {b}
        /\ d # NoFd => d \in Fds /\ fds[d] = b
        /\ UNCHANGED <<accepting, made, fdOf, serviceOf, listeners>>
    BY <1>21, EndsLive DEF workerVars
  <2>3. writers' = [writers EXCEPT ![s][d] = NoConn]
    BY <1>21, EndsLive
  <2>4. /\ \A t \in Services \ {s} : writers'[t] = writers[t]
        /\ \A x \in AnyFd \ {d} : writers'[s][x] = writers[s][x]
    BY <1>1, <2>2, <2>3
  <2>5. ASSUME NEW c \in 1 .. made, NEW t \in Services, Waits(c)', t = serviceOf'[c]
        PROVE  Served(t, c)'
    <3>1. Waits(c) /\ t = serviceOf[c] /\ fdOf' = fdOf /\ c # b
      BY <2>1, <2>2, <2>5 DEF Waits
    <3>2. Served(t, c)
      BY <1>2, <3>1
    <3>3. fdOf[c] # d /\ fdOf[c] \in AnyFd
      <4>1. c \notin closed /\ fdOf[c] # NoFd
        BY <3>1 DEF Waits
      <4>2. fds[fdOf[c]] = c /\ fdOf[c] \in Fds
        BY <4>1 DEF IInv, OpenUntilClosed, IsOpen
      <4> QED
        BY <2>2, <3>1, <4>2
    <3>4. writers'[t][fdOf[c]] = writers[t][fdOf[c]]
      BY <2>4, <3>3
    <3>5. CASE Told(t, c)
      <4>1. Told(t, c) /\ (t # s \/ ~(Message(s).type = "accept" /\ Message(s).conn = c))
        BY <2>1, <3>5
      <4>2. mailbox[s] # <<>> /\ HandledWrite(s)
        BY <2>1 DEF HandledWrite
      <4> HIDE DEF Told
      <4> QED
        BY <1>18, <4>1, <4>2
    <3> QED
      BY <3>1, <3>2, <3>4, <3>5
  <2>6. made' = made
    BY <2>2
  <2> QED
    BY <2>5, <2>6
<1>22. ASSUME NEW s \in Services, Exit(s)
       PROVE  Goal
  <2>1. /\ \A t \in Services \ {s} : writers'[t] = writers[t] /\ mailbox'[t] = mailbox[t]
        /\ gone' = gone \cup {s}
    BY <1>1, <1>22 DEF Exit
  <2>2. UNCHANGED <<workerVars, connVars>>
    BY <1>22 DEF Exit
  <2>3. ASSUME NEW c \in 1 .. made, NEW t \in Services, Waits(c)', t = serviceOf'[c]
        PROVE  Served(t, c)'
    <3>1. Waits(c) /\ t = serviceOf[c] /\ fdOf' = fdOf /\ t # s
      BY <2>1, <2>2, <2>3 DEF Waits, workerVars, connVars
    <3>2. Served(t, c)
      BY <1>2, <3>1
    <3> QED
      BY <2>1, <3>1, <3>2
  <2>4. made' = made
    BY <2>2 DEF connVars
  <2> QED
    BY <2>3, <2>4
<1>23. ASSUME NEW d \in Fds, NEW in \in BOOLEAN, OnRW([fd |-> d, in |-> in])
       PROVE  Goal
  <2>1. /\ UNCHANGED <<accepting, connVars, writers, gone>>
        /\ mailbox' = mailbox \/ \E s \in Services, m \in Messages : Send(s, m)
    BY <1>23, RWSends
  <2> HIDE DEF Goal
  <2> QED
    BY <1>16, <2>1
<1>24. ASSUME NEW s \in Services, NEW d \in AnyFd, CloseConn(s, d)
       PROVE  Goal
  <2>1. /\ UNCHANGED <<accepting, connVars, writers, gone>>
        /\ mailbox' = mailbox \/ \E t \in Services, m \in Messages : Send(t, m)
    BY <1>24, CloseConnSends DEF workerVars
  <2> HIDE DEF Goal
  <2> QED
    BY <1>16, <2>1
<1> HIDE DEF Goal
<1> QED
  BY <1>6, <1>7, <1>9, <1>10, <1>11, <1>12, <1>13, <1>14, <1>17, <1>19, <1>20,
     <1>21, <1>22, <1>23, <1>24
  DEF Next, SocketWorkerStep, ServiceStep, Passes

-----------------------------------------------------------------------------
(* The types after a step. *)

(* The connections that were made, and the clients that wait for a         *)
(* listening one.                                                          *)
LEMMA CountsTyped ==
  ASSUME IInv, Next
  PROVE  /\ came' \in 0 .. MaxClients /\ made' \in 0 .. MaxConns
         /\ backlog' \in [Conns -> 0 .. MaxClients]
         /\ listeners' \subseteq 1 .. made'
         /\ closed' \subseteq 1 .. made' \ listeners'
<1> DEFINE Came == came' \in 0 .. MaxClients /\ backlog' \in [Conns -> 0 .. MaxClients]
           Made == /\ made' \in 0 .. MaxConns /\ listeners' \subseteq 1 .. made'
                   /\ closed' \subseteq 1 .. made' \ listeners'
<1> SUFFICES Came /\ Made
  OBVIOUS
<1>0. /\ came \in 0 .. MaxClients /\ made \in 0 .. MaxConns
      /\ backlog \in [Conns -> 0 .. MaxClients]
      /\ listeners \subseteq 1 .. made /\ closed \subseteq 1 .. made \ listeners
  BY DEF IInv, Inv, TypeOK
<1>1. ASSUME came' = came, backlog' = backlog
      PROVE  Came
  BY <1>0, <1>1
<1>2. ASSUME made' = made, listeners' = listeners, closed' = closed
      PROVE  Made
  BY <1>0, <1>2
<1>3. ASSUME made' = made + 1, made' \in Conns, closed' = closed, made' \notin closed,
             listeners' = listeners \/ listeners' = listeners \cup {made'}
      PROVE  Made
  <2>1. made' \in 0 .. MaxConns /\ 1 .. made \subseteq 1 .. made' /\ made' \in 1 .. made'
    BY <1>0, <1>3
  <2> QED
    BY <1>0, <1>3, <2>1
<1>4. ASSUME NEW d \in Fds, Connect(d)
      PROVE  Came /\ Made
  <2>1. /\ came' = came + 1 /\ came < MaxClients
        /\ backlog' = [backlog EXCEPT ![fds[d]] = @ + 1]
    BY <1>4 DEF Connect
  <2>2. \A c \in Conns : backlog[c] \in Nat /\ backlog[c] <= came
    BY <1>0 DEF IInv, OpenUntilClosed
  <2>3. \A c \in Conns : backlog[c] + 1 \in 0 .. MaxClients
    BY <1>0, <2>1, <2>2
  <2>4. backlog' \in [Conns -> 0 .. MaxClients]
    BY <1>0, <2>1, <2>3
  <2>5. came' \in 0 .. MaxClients
    BY <1>0, <2>1
  <2> QED
    BY <1>2, <1>4, <2>4, <2>5 DEF Connect, connVars
<1>5. ASSUME NEW d \in Fds, NEW in \in BOOLEAN, Accept([fd |-> d, in |-> in])
      PROVE  Came /\ Made
  <2>1. PICK l : l = conns[d]
    OBVIOUS
  <2>2. /\ made' = made + 1 /\ made' \in Conns /\ closed' = closed /\ made' \notin closed
        /\ listeners' = listeners /\ came' = came /\ l \in Conns
        /\ \/ backlog' = backlog
           \/ backlog[l] > 0 /\ backlog' = [backlog EXCEPT ![l] = @ - 1]
    BY <1>5, <2>1, AcceptMakes, Counted
  <2>3. CASE backlog[l] > 0 /\ backlog' = [backlog EXCEPT ![l] = @ - 1]
    <3>1. backlog[l] - 1 \in 0 .. MaxClients
      <4>1. backlog[l] \in 0 .. MaxClients
        BY <1>0, <2>2
      <4> QED
        BY <2>3, <4>1
    <3>2. backlog' \in [Conns -> 0 .. MaxClients]
      BY <1>0, <2>3, <3>1
    <3> QED
      BY <1>0, <1>3, <2>2, <3>2
  <2> QED
    BY <1>1, <1>3, <2>2, <2>3
<1>6. ASSUME NEW s \in Services, Socket(s)
      PROVE  Came /\ Made
  <2>1. /\ made' = made + 1 /\ made' \in Conns /\ closed' = closed /\ made' \notin closed
        /\ listeners' = listeners \/ listeners' = listeners \cup {made'}
        /\ came' = came /\ backlog' = backlog
    BY <1>6, SocketMakes
  <2> QED
    BY <1>1, <1>3, <2>1
<1>7. CASE AddAccepted
  BY <1>1, <1>2, <1>7, AddAcceptedAdds DEF kernelVars
<1>8. ASSUME NEW s \in Services, AddListener(s)
      PROVE  Came /\ Made
  BY <1>1, <1>2, <1>8, AddListenerAdds DEF kernelVars
<1>9. ASSUME NEW s \in Services, OnEnd(s)
      PROVE  Came /\ Made
  <2>1. PICK c : c = Message(s).conn
    OBVIOUS
  <2>2. /\ c \in 1 .. made \ listeners /\ closed' = closed \cup {c}
        /\ made' = made /\ listeners' = listeners
        /\ UNCHANGED kernelVars
    BY <1>9, <2>1, EndsLive
  <2>3. Made
    BY <1>0, <2>2
  <2> QED
    BY <1>1, <2>2, <2>3 DEF kernelVars
<1>10. ASSUME NEW s \in Services, AddEvent(s) \/ Close(s) \/ RemoveEvent(s)
       PROVE  Came /\ Made
  BY <1>1, <1>2, <1>10 DEF AddEvent, Close, RemoveEvent, connVars
<1>11. ASSUME NEW s \in Services,
              \/ OnAcceptMsg(s) \/ Ignore(s) \/ FollowNull(s) \/ OnRWMsg(s) \/ Read(s)
              \/ OnKeep(s) \/ RemoveConn(s) \/ Exit(s)
              \/ \E d \in AnyFd : CloseConn(s, d) \/ UseNull(s, d)
       PROVE  Came /\ Made
  BY <1>1, <1>2, <1>11 DEF OnAcceptMsg, Ignore, FollowNull, OnRWMsg, Read, OnKeep, CloseConn,
                           UseNull, RemoveConn, Exit, kernelVars, connVars
<1>12. ASSUME NEW d \in Fds, NEW in \in BOOLEAN, OnRW([fd |-> d, in |-> in])
       PROVE  Came /\ Made
  BY <1>1, <1>2, <1>12 DEF OnRW, kernelVars, connVars
<1>13. CASE EpollWait \/ Watch \/ Notify
  BY <1>1, <1>2, <1>13 DEF EpollWait, Watch, Notify, kernelVars, connVars
<1> HIDE DEF Came, Made
<1> QED
  BY <1>4, <1>5, <1>6, <1>7, <1>8, <1>9, <1>10, <1>11, <1>12, <1>13
  DEF Next, SocketWorkerStep, ServiceStep

(* The descriptors, in the kernel and in Conns, and the connections.       *)
LEMMA ConnsTyped ==
  ASSUME IInv, Next
  PROVE  /\ fds' \in [Fds -> Conns \cup {NoConn}]
         /\ conns' \in [AnyFd -> Conns \cup {NoConn}]
         /\ fdOf' \in [Conns -> AnyFd]
         /\ serviceOf' \in [Conns -> Services \cup {NoService}]
<1> DEFINE Goal == /\ fds' \in [Fds -> Conns \cup {NoConn}]
                   /\ conns' \in [AnyFd -> Conns \cup {NoConn}]
                   /\ fdOf' \in [Conns -> AnyFd]
                   /\ serviceOf' \in [Conns -> Services \cup {NoService}]
<1> SUFFICES Goal
  OBVIOUS
<1>0. /\ fds \in [Fds -> Conns \cup {NoConn}] /\ conns \in [AnyFd -> Conns \cup {NoConn}]
      /\ fdOf \in [Conns -> AnyFd] /\ serviceOf \in [Conns -> Services \cup {NoService}]
  BY DEF IInv, Inv, TypeOK
<1>1. ASSUME fds' = fds \/ (made' \in Conns /\ \E b \in Fds : Takes(b)),
             fdOf' = fdOf \/ (made' \in Conns /\ \E b \in Fds : Takes(b)),
             UNCHANGED <<conns, serviceOf>>
      PROVE  Goal
  <2>1. CASE fds' = fds /\ fdOf' = fdOf
    BY <1>0, <1>1, <2>1
  <2>2. CASE made' \in Conns /\ \E b \in Fds : Takes(b)
    <3>1. PICK b \in Fds : /\ fds' = [fds EXCEPT ![b] = made']
                           /\ fdOf' = [fdOf EXCEPT ![made'] = b]
      BY <2>2 DEF Takes
    <3>2. fds' \in [Fds -> Conns \cup {NoConn}]
      BY <1>0, <2>2, <3>1
    <3>3. fdOf' \in [Conns -> AnyFd]
      BY <1>0, <2>2, <3>1
    <3> QED
      BY <1>0, <1>1, <3>2, <3>3
  <2> QED
    BY <1>1, <2>1, <2>2
<1>2. ASSUME NEW d \in Fds, NEW in \in BOOLEAN, Accept([fd |-> d, in |-> in])
      PROVE  Goal
  <2>1. made' \in Conns /\ UNCHANGED <<conns, serviceOf>>
    BY <1>2, AcceptMakes
  <2>2. UNCHANGED <<fds, fdOf>> \/ \E b \in Fds : Takes(b)
    BY <1>2, AcceptMakes
  <2> HIDE DEF Goal
  <2> QED
    BY <1>1, <2>1, <2>2
<1>3. ASSUME NEW s \in Services, Socket(s)
      PROVE  Goal
  BY <1>1, <1>3, SocketMakes
<1>4. ASSUME NEW c \in Conns, NEW d \in AnyFd, NEW s \in Services,
             serviceOf' = [serviceOf EXCEPT ![c] = s],
             conns' \in {conns, [conns EXCEPT ![d] = c]}, fds' = fds, fdOf' = fdOf
      PROVE  Goal
  <2>1. serviceOf' \in [Conns -> Services \cup {NoService}]
    BY <1>0, <1>4
  <2>2. conns' \in [AnyFd -> Conns \cup {NoConn}]
    BY <1>0, <1>4
  <2> QED
    BY <1>0, <1>4, <2>1, <2>2
<1>5. CASE AddAccepted
  <2>1. PICK c, d, s : c = accepting.conn /\ d = fdOf[c] /\ s = serviceOf[accepting.on]
    OBVIOUS
  <2>2. /\ c \in Conns /\ s \in Services /\ serviceOf' = [serviceOf EXCEPT ![c] = s]
        /\ conns' \in {conns, [conns EXCEPT ![d] = c]} /\ fds' = fds /\ fdOf' = fdOf
    BY <1>5, <2>1, AddAcceptedAdds, Counted DEF kernelVars
  <2>3. d \in AnyFd
    BY <1>0, <2>1, <2>2
  <2> QED
    BY <1>4, <2>2, <2>3
<1>6. ASSUME NEW s \in Services, AddListener(s)
      PROVE  Goal
  <2>1. PICK c, d : c = listening[s].conn /\ d = fdOf[c]
    OBVIOUS
  <2>2. /\ c \in Conns /\ d \in Fds /\ serviceOf' = [serviceOf EXCEPT ![c] = s]
        /\ conns' = [conns EXCEPT ![d] = c] /\ fds' = fds /\ fdOf' = fdOf
    BY <1>6, <2>1, AddListenerAdds, Counted DEF kernelVars
  <2> QED
    BY <1>4, <2>2
<1>7. ASSUME NEW s \in Services, Read(s) \/ OnKeep(s) \/ OnEnd(s) \/ RemoveEvent(s)
      PROVE  Goal
  BY <1>0, <1>7 DEF Read, OnKeep, OnEnd, RemoveEvent, kernelVars, connVars
<1>8. ASSUME NEW s \in Services, RemoveConn(s)
      PROVE  Goal
  <2>1. /\ conns' = [conns EXCEPT ![closing[s].fd] = NoConn]
        /\ UNCHANGED <<fds, fdOf, serviceOf>>
    BY <1>8 DEF RemoveConn, kernelVars
  <2> QED
    BY <1>0, <2>1
<1>9. ASSUME NEW s \in Services, Close(s)
      PROVE  Goal
  <2>1. /\ fds' = [f \in Fds |-> IF f = closing[s].fd THEN NoConn ELSE fds[f]]
        /\ UNCHANGED <<conns, fdOf, serviceOf>>
    BY <1>9 DEF Close, CloseFd, connVars
  <2> QED
    BY <1>0, <2>1
<1>10. CASE UNCHANGED <<fds, connVars, closing>>
  BY <1>0, <1>10 DEF connVars
<1> HIDE DEF Goal
<1> QED
  BY <1>2, <1>3, <1>5, <1>6, <1>7, <1>8, <1>9, <1>10, ConnSteps

(* What epoll watches is open, and only that can be ready.                 *)
LEMMA WatchedTyped ==
  ASSUME IInv, Next
  PROVE  /\ pulse' \subseteq watched'
         /\ watched' \subseteq {d \in Fds : fds'[d] # NoConn}
<1> DEFINE Goal == pulse' \subseteq watched' /\ \A d \in watched' : d \in Fds /\ fds'[d] # NoConn
<1> SUFFICES Goal
  OBVIOUS
<1>0. /\ fds \in [Fds -> Conns \cup {NoConn}]
      /\ pulse \subseteq watched /\ \A d \in watched : d \in Fds /\ fds[d] # NoConn
  BY DEF IInv, Inv, TypeOK
<1>1. ASSUME pulse' \subseteq watched', watched' \subseteq watched, fds' = fds
      PROVE  Goal
  BY <1>0, <1>1
<1>2. ASSUME pulse' = pulse, watched' = watched,
             fds' = fds \/ (made' \in Conns /\ \E b \in Fds : Takes(b))
      PROVE  Goal
  <2>1. CASE made' \in Conns /\ \E b \in Fds : Takes(b)
    <3>1. PICK b \in Fds : fds' = [fds EXCEPT ![b] = made'] /\ b \notin watched
      BY <2>1 DEF Takes
    <3>2. \A d \in Fds \ {b} : fds'[d] = fds[d]
      BY <1>0, <3>1
    <3> QED
      BY <1>0, <1>2, <3>1, <3>2
  <2> QED
    BY <1>0, <1>2, <2>1
<1>3. ASSUME NEW d \in Fds, NEW in \in BOOLEAN, Accept([fd |-> d, in |-> in])
      PROVE  Goal
  <2>1. made' \in Conns /\ pulse' = pulse /\ watched' = watched
    BY <1>3, AcceptMakes
  <2>2. fds' = fds \/ \E b \in Fds : Takes(b)
    BY <1>3, AcceptMakes
  <2> HIDE DEF Goal
  <2> QED
    BY <1>2, <2>1, <2>2
<1>4. ASSUME NEW s \in Services, Socket(s)
      PROVE  Goal
  BY <1>2, <1>4, SocketMakes
<1>5. ASSUME NEW d \in Fds, Connect(d)
      PROVE  Goal
  BY <1>0, <1>5 DEF Connect
<1>6. CASE EpollWait
  BY <1>0, <1>6 DEF EpollWait
<1>7. ASSUME NEW d, d \in Fds => fds[d] # NoConn, d = NoFd \/ d \in Fds, fds' = fds,
             watched' = watched \cup ({d} \ {NoFd}), pulse' \subseteq watched'
      PROVE  Goal
  BY <1>0, <1>7
<1>8. CASE Watch
  <2>1. /\ accepting.conn \in 1 .. made
        /\ fdOf[accepting.conn] # NoFd => accepting.conn \notin closed
    <3>1. accepting.conn # 0 /\ accepting.conn \in Nat /\ made \in Nat
      BY <1>8, Typed DEF Watch, Accepting, IInv, Inv
    <3>2. /\ accepting.conn <= made
          /\ fdOf[accepting.conn] # NoFd => accepting.conn \notin closed
      BY <3>1 DEF IInv, AcceptsNew
    <3> QED
      BY <3>1, <3>2
  <2>2. PICK d : d = fdOf[accepting.conn]
    OBVIOUS
  <2>3. d = NoFd \/ (d \in Fds /\ fds[d] # NoConn)
    <3>1. d # NoFd => d \in Fds /\ fds[d] = accepting.conn
      BY <2>1, <2>2 DEF IInv, OpenUntilClosed, IsOpen
    <3>2. accepting.conn # NoConn
      BY <1>8 DEF Watch, Accepting
    <3> QED
      BY <3>1, <3>2
  <2>4. fds' = fds /\ watched' = watched \cup ({d} \ {NoFd}) /\ pulse' = pulse
    BY <1>8, <2>2 DEF Watch
  <2> QED
    BY <1>0, <1>7, <2>3, <2>4
<1>9. ASSUME NEW s \in Services, AddEvent(s)
      PROVE  Goal
  <2>1. PICK c, d : c = listening[s].conn /\ d = fdOf[c]
    OBVIOUS
  <2>2. c \in listeners
    BY <1>9, <2>1 DEF AddEvent, IInv, ListensNew
  <2>3. c \in 1 .. made \ closed /\ c # 0 /\ d # NoFd
    BY <2>1, <2>2, Counted DEF IInv, OpenUntilClosed
  <2>4. d \in Fds /\ fds[d] = c
    BY <2>1, <2>3 DEF IInv, OpenUntilClosed, IsOpen
  <2>5. fds' = fds /\ watched' = watched \cup {d} /\ pulse' \subseteq pulse \cup {d}
    BY <1>9, <2>1 DEF AddEvent
  <2>6. watched' = watched \cup ({d} \ {NoFd})
    BY <2>3, <2>5
  <2> QED
    BY <1>0, <1>7, <2>3, <2>4, <2>5, <2>6
<1>10. ASSUME NEW s \in Services, Close(s)
       PROVE  Goal
  <2>1. PICK b : b = closing[s].fd
    OBVIOUS
  <2>2. b \notin pulse
    <3>1. b # NoFd => b \notin pulse
      BY <1>10, <2>1, ClosesOwn DEF Close
    <3>2. NoFd \notin pulse
      BY <1>0, Counted
    <3> QED
      BY <3>1, <3>2
  <2>3. /\ fds' = [f \in Fds |-> IF f = b THEN NoConn ELSE fds[f]]
        /\ watched' = watched \ {b} /\ pulse' = pulse
    BY <1>10, <2>1 DEF Close, CloseFd
  <2>4. \A d \in Fds \ {b} : fds'[d] = fds[d]
    BY <1>0, <2>3
  <2> QED
    BY <1>0, <2>2, <2>3, <2>4
<1>11. ASSUME NEW s \in Services, RemoveEvent(s)
       PROVE  Goal
  BY <1>0, <1>1, <1>11 DEF RemoveEvent
<1>12. ASSUME UNCHANGED kernelVars
       PROVE  Goal
  BY <1>0, <1>12 DEF kernelVars
<1>13. CASE AddAccepted \/ Notify \/ \E d \in Fds, in \in BOOLEAN : OnRW([fd |-> d, in |-> in])
  BY <1>12, <1>13 DEF AddAccepted, Notify, OnRW
<1>14. ASSUME NEW s \in Services,
              \/ AddListener(s) \/ OnAcceptMsg(s) \/ Ignore(s) \/ FollowNull(s) \/ OnRWMsg(s)
              \/ Read(s) \/ OnKeep(s) \/ OnEnd(s) \/ RemoveConn(s) \/ Exit(s)
              \/ \E d \in AnyFd : CloseConn(s, d) \/ UseNull(s, d)
       PROVE  Goal
  BY <1>12, <1>14 DEF AddListener, OnAcceptMsg, Ignore, FollowNull, OnRWMsg, Read, OnKeep, OnEnd,
                      CloseConn, UseNull, RemoveConn, Exit
<1> HIDE DEF Goal
<1> QED
  BY <1>3, <1>4, <1>5, <1>6, <1>8, <1>9, <1>10, <1>11, <1>13, <1>14
  DEF Next, SocketWorkerStep, ServiceStep

(* What SocketWorker is at. *)
LEMMA WorkerTyped ==
  ASSUME IInv, Next
  PROVE  /\ batch' \subseteq [fd : Fds, in : BOOLEAN]
         /\ accepting' \in [conn : Conns \cup {NoConn}, on : Conns \cup {NoConn},
                            next : {"event", "add", "watch", "notify"}]
<1> DEFINE At == [conn : Conns \cup {NoConn}, on : Conns \cup {NoConn},
                  next : {"event", "add", "watch", "notify"}]
           Goal == batch' \subseteq [fd : Fds, in : BOOLEAN] /\ accepting' \in At
<1> SUFFICES Goal
  OBVIOUS
<1>0. batch \subseteq [fd : Fds, in : BOOLEAN] /\ accepting \in At /\ watched \subseteq Fds
  BY DEF IInv, Inv, TypeOK
<1>1. ASSUME UNCHANGED workerVars PROVE Goal
  BY <1>0, <1>1 DEF workerVars
<1>2. CASE EpollWait
  <2>1. PICK D \in SUBSET {d \in watched : d \in pulse \/ fds[d] \notin listeners} :
        \E in \in [D -> BOOLEAN] : batch' = {[fd |-> d, in |-> in[d]] : d \in D}
    BY <1>2 DEF EpollWait
  <2>2. PICK in \in [D -> BOOLEAN] : batch' = {[fd |-> d, in |-> in[d]] : d \in D}
    BY <2>1
  <2>3. D \subseteq Fds
    BY <1>0, <2>1
  <2>4. \A d \in D : [fd |-> d, in |-> in[d]] \in [fd : Fds, in : BOOLEAN]
    BY <2>3
  <2>5. batch' \subseteq [fd : Fds, in : BOOLEAN]
    BY <2>2, <2>4
  <2> QED
    BY <1>0, <1>2, <2>5 DEF EpollWait
<1>3. CASE AddAccepted \/ Watch
  <2>1. batch' = batch
    BY <1>3 DEF AddAccepted, Watch
  <2>2. PICK n \in {"watch", "notify"} : accepting' = [accepting EXCEPT !.next = n]
    BY <1>3 DEF AddAccepted, Watch, Then
  <2>3. accepting' \in At
    BY <1>0, <2>2
  <2> QED
    BY <1>0, <2>1, <2>3
<1>4. CASE Notify
  <2>1. batch' = batch /\ accepting' = NoAccept
    BY <1>4, NotifySends
  <2> QED
    BY <1>0, <2>1
<1>5. ASSUME NEW d \in Fds, NEW in \in BOOLEAN, OnRW([fd |-> d, in |-> in])
      PROVE  Goal
  <2>1. batch' \subseteq batch /\ accepting' = accepting
    BY <1>5 DEF OnRW, OnEvent
  <2> QED
    BY <1>0, <2>1
<1>6. ASSUME NEW d \in Fds, NEW in \in BOOLEAN, Accept([fd |-> d, in |-> in])
      PROVE  Goal
  <2>1. PICK l : l = conns[d]
    OBVIOUS
  <2>2. /\ batch' \subseteq batch /\ made' \in Conns /\ l \in Conns
        /\ accepting' = [conn |-> made', on |-> l, next |-> "add"]
    BY <1>6, <2>1, AcceptMakes, Counted
  <2>3. accepting' \in At
    BY <2>2
  <2> QED
    BY <1>0, <2>2, <2>3
<1>7. ASSUME NEW s \in Services, ServiceStep(s)
      PROVE  Goal
  <2>1. UNCHANGED workerVars
    BY <1>7 DEF ServiceStep, Socket, AddListener, AddEvent, OnAcceptMsg, Ignore, FollowNull,
                OnRWMsg, Read, OnKeep, OnEnd, CloseConn, UseNull, RemoveConn, Close, RemoveEvent,
                Exit
  <2> QED
    BY <1>1, <2>1
<1>8. ASSUME NEW d \in Fds, Connect(d)
      PROVE  Goal
  BY <1>1, <1>8 DEF Connect
<1> HIDE DEF Goal
<1> QED
  BY <1>2, <1>3, <1>4, <1>5, <1>6, <1>7, <1>8 DEF Next, SocketWorkerStep

(* Only who follows a null pointer crashes. *)
LEMMA CrashSteps ==
  ASSUME Next
  PROVE  /\ ~crashed
         /\ \/ crashed' = crashed
            \/ \E s \in Services : FollowNull(s) \/ \E d \in AnyFd : UseNull(s, d)
<1>1. ~crashed
  BY DEF Next
<1>2. CASE SocketWorkerStep
  BY <1>1, <1>2 DEF SocketWorkerStep, EpollWait, OnRW, Accept, AddAccepted, Watch, Notify,
                    serviceVars
<1>3. ASSUME NEW s \in Services, ServiceStep(s)
      PROVE  \/ crashed' = crashed \/ FollowNull(s) \/ \E d \in AnyFd : UseNull(s, d)
  BY <1>3 DEF ServiceStep, Socket, AddListener, AddEvent, OnAcceptMsg, Ignore, OnRWMsg, Read,
              OnKeep, OnEnd, CloseConn, RemoveConn, Close, RemoveEvent, Exit
<1>4. ASSUME NEW d \in Fds, Connect(d)
      PROVE  crashed' = crashed
  BY <1>4 DEF Connect, serviceVars
<1> QED
  BY <1>1, <1>2, <1>3, <1>4 DEF Next

LEMMA CrashedTyped ==
  ASSUME IInv, Next
  PROVE  crashed' \in BOOLEAN
<1>1. crashed \in BOOLEAN
  BY DEF IInv, Inv, TypeOK
<1> QED
  BY <1>1, CrashSteps DEF FollowNull, UseNull

(* The messages and the writers of the services. *)
LEMMA MailTyped ==
  ASSUME IInv, Next
  PROVE  /\ writers' \in [Services -> [AnyFd -> Conns \cup {NoConn, NullConn}]]
         /\ mailbox' \in [Services -> Seq(Messages)]
         /\ lingering' \in [Services -> SUBSET AnyFd]
         /\ gone' \subseteq Services
         /\ crashed' \in BOOLEAN
<1> DEFINE Written == writers' \in [Services -> [AnyFd -> Conns \cup {NoConn, NullConn}]]
           Mailed == mailbox' \in [Services -> Seq(Messages)]
           Lingers == lingering' \in [Services -> SUBSET AnyFd]
           Goal == Written /\ Mailed /\ Lingers /\ gone' \subseteq Services
<1> SUFFICES Goal
  BY CrashedTyped
<1>0. /\ writers \in [Services -> [AnyFd -> Conns \cup {NoConn, NullConn}]]
      /\ mailbox \in [Services -> Seq(Messages)]
      /\ lingering \in [Services -> SUBSET AnyFd]
      /\ gone \subseteq Services
  BY DEF IInv, Inv, TypeOK
<1>1. TypeOK
  BY DEF IInv, Inv
<1>2. ASSUME UNCHANGED <<writers, lingering, gone>>, mailbox' = mailbox \/ Mailed
      PROVE  Goal
  BY <1>0, <1>2
<1>3. ASSUME NEW d \in Fds, NEW in \in BOOLEAN, OnRW([fd |-> d, in |-> in])
      PROVE  Goal
  <2>1. UNCHANGED <<writers, lingering, gone>>
    BY <1>3, RWSends
  <2>2. mailbox' = mailbox \/ \E s \in Services, m \in Messages : Send(s, m)
    BY <1>3, RWSends
  <2>3. mailbox' = mailbox \/ Mailed
    BY <1>1, <2>2, Sends
  <2> QED
    BY <1>2, <2>1, <2>3
<1>4. CASE Notify
  <2>1. UNCHANGED <<writers, lingering, gone>>
    BY <1>4, NotifySends
  <2>2. \E s \in Services, m \in Messages : Send(s, m)
    BY <1>4, NotifySends
  <2>3. Mailed
    BY <1>1, <2>2, Sends
  <2> QED
    BY <1>2, <2>1, <2>3
<1>5. ASSUME NEW s \in Services, mailbox[s] # <<>>, HandledWrite(s)
      PROVE  Mailed
  BY <1>1, <1>5, FirstMessage, HandlesWrite
<1>6. ASSUME NEW s \in Services, OnAcceptMsg(s)
      PROVE  Goal
  <2>1. mailbox[s] # <<>> /\ HandledWrite(s) /\ UNCHANGED <<lingering, gone>>
    BY <1>6, AcceptMsgMakes DEF HandledWrite
  <2>2. PICK d : d = Message(s).fd
    OBVIOUS
  <2>3. d \in AnyFd
    BY <1>6, <2>2, AcceptMsgMakes
  <2>4. conns[d] \in Conns \cup {NoConn, NullConn}
    BY <1>1, <2>3 DEF TypeOK
  <2>5. PICK x \in Conns \cup {NoConn, NullConn} :
          writers' = [writers EXCEPT ![s][d] = x] \/ writers' = writers
    BY <1>6, <2>2, <2>4, AcceptMsgMakes
  <2>6. [writers[s] EXCEPT ![d] = x] \in [AnyFd -> Conns \cup {NoConn, NullConn}]
    BY <1>0, <2>3
  <2>7. Written
    BY <1>0, <2>5, <2>6
  <2> QED
    BY <1>0, <1>5, <2>1, <2>7
<1>7. ASSUME NEW s \in Services, Passes(s)
      PROVE  Goal
  <2>1. mailbox[s] # <<>> /\ HandledWrite(s) /\ UNCHANGED <<writers, lingering, gone>>
    BY <1>7, PassesOver
  <2> QED
    BY <1>2, <1>5, <2>1
<1>8. ASSUME NEW s \in Services, OnEnd(s)
      PROVE  Goal
  <2>1. mailbox[s] # <<>> /\ HandledWrite(s) /\ gone' = gone
    BY <1>8, EndsLive DEF HandledWrite
  <2>2. PICK d : d = fdOf[Message(s).conn]
    OBVIOUS
  <2>3. /\ d \in AnyFd /\ writers' = [writers EXCEPT ![s][d] = NoConn]
        /\ lingering' = [lingering EXCEPT ![s] = @ \ {d}]
    BY <1>8, <2>2, EndsLive
  <2>4. [writers[s] EXCEPT ![d] = NoConn] \in [AnyFd -> Conns \cup {NoConn, NullConn}]
    BY <1>0, <2>3
  <2>5. Written /\ Lingers
    BY <1>0, <2>3, <2>4
  <2> QED
    BY <1>0, <1>5, <2>1, <2>5
<1>9. ASSUME NEW s \in Services, Exit(s)
      PROVE  Goal
  <2>1. /\ gone' = gone \cup {s}
        /\ mailbox' = [mailbox EXCEPT ![s] = <<>>]
        /\ writers' = [writers EXCEPT ![s] = [d \in AnyFd |-> NoConn]]
        /\ lingering' = [lingering EXCEPT ![s] = {}]
    BY <1>9 DEF Exit
  <2>2. Mailed
    BY <1>0, <2>1
  <2>3. Written /\ Lingers
    BY <1>0, <2>1
  <2> QED
    BY <1>0, <2>1, <2>2, <2>3
<1>10. CASE UNCHANGED <<mailbox, writers, lingering, gone>>
  BY <1>2, <1>10
<1>11. ASSUME NEW s \in Services, NEW d \in AnyFd, CloseConn(s, d)
       PROVE  Goal
  <2>1. /\ UNCHANGED <<writers, gone>>
        /\ lingering' = [lingering EXCEPT ![s] = @ \cup {d}]
        /\ mailbox' = mailbox \/ \E u \in Services, m \in Messages : Send(u, m)
    BY <1>11, CloseConnSends
  <2>2. Mailed
    BY <1>0, <1>1, <2>1, Sends
  <2>3. Lingers
    BY <1>0, <2>1
  <2> QED
    BY <1>0, <2>1, <2>2, <2>3
<1> HIDE DEF Goal
<1> QED
  BY <1>3, <1>4, <1>6, <1>7, <1>8, <1>9, <1>10, <1>11, MailSteps

(* What the services do next. *)
LEMMA DoingTyped ==
  ASSUME IInv, Next
  PROVE  /\ closing' \in [Services -> [fd : AnyFd,
                   next : {"message", "read", "remove", "close", "close last", "unwatch"}]]
         /\ listening' \in [Services -> [conn : Conns \cup {NoConn},
                                         next : {"message", "add", "watch"}]]
<1> DEFINE CloseAt == [fd : AnyFd,
                       next : {"message", "read", "remove", "close", "close last", "unwatch"}]
           ListenAt == [conn : Conns \cup {NoConn}, next : {"message", "add", "watch"}]
           Goal == closing' \in [Services -> CloseAt] /\ listening' \in [Services -> ListenAt]
<1> SUFFICES Goal
  OBVIOUS
<1>0. closing \in [Services -> CloseAt] /\ listening \in [Services -> ListenAt]
  BY DEF IInv, Inv, TypeOK
<1>1. ASSUME UNCHANGED <<closing, listening>> PROVE Goal
  BY <1>0, <1>1
<1>2. ASSUME NEW s \in Services, NEW x \in CloseAt, closing' = [closing EXCEPT ![s] = x],
             listening' = listening
      PROVE  Goal
  BY <1>0, <1>2
<1>3. ASSUME NEW s \in Services, NEW x \in ListenAt, listening' = [listening EXCEPT ![s] = x],
             closing' = closing
      PROVE  Goal
  BY <1>0, <1>3
<1>4. ASSUME NEW s \in Services, Socket(s)
      PROVE  Goal
  <2>1. made' \in Conns /\ closing' = closing
    BY <1>4, SocketMakes
  <2>2. CASE listening' = listening
    BY <1>1, <2>1, <2>2
  <2>3. CASE listening' = [listening EXCEPT ![s] = [conn |-> made', next |-> "add"]]
    <3>1. PICK x \in ListenAt : x = [conn |-> made', next |-> "add"]
      BY <2>1
    <3>2. listening' = [listening EXCEPT ![s] = x]
      BY <2>3, <3>1
    <3> HIDE DEF Goal
    <3> QED
      BY <1>3, <2>1, <3>2
  <2> QED
    BY <1>4, <2>2, <2>3, SocketMakes
<1>5. ASSUME NEW s \in Services, AddListener(s) \/ AddEvent(s)
      PROVE  Goal
  <2>1. closing' = closing
    BY <1>5 DEF AddListener, AddEvent
  <2>2. listening' = [listening EXCEPT ![s].next = "watch"] \/ listening' = [listening EXCEPT ![s] = NoListen]
    BY <1>5 DEF AddListener, AddEvent
  <2>3. listening[s] \in ListenAt
    BY <1>0
  <2>4. [listening[s] EXCEPT !.next = "watch"] \in ListenAt /\ NoListen \in ListenAt
    BY <2>3
  <2>5. listening' \in [Services -> ListenAt]
    BY <1>0, <2>2, <2>4
  <2> QED
    BY <1>0, <2>1, <2>5
<1>6. ASSUME NEW s \in Services, OnEnd(s)
      PROVE  Goal
  <2>1. closing' = [closing EXCEPT ![s].next = "remove"] /\ listening' = listening
    BY <1>6, EndsLive
  <2>2. PICK x : x = [closing[s] EXCEPT !.next = "remove"]
    OBVIOUS
  <2>3. x \in CloseAt
    <3>1. closing[s] \in CloseAt
      BY <1>0
    <3> QED
      BY <2>2, <3>1
  <2>4. closing' = [closing EXCEPT ![s] = x]
    BY <2>1, <2>2
  <2> HIDE DEF Goal
  <2> QED
    BY <1>2, <2>1, <2>3, <2>4
<1>7. ASSUME NEW s \in Services, RemoveConn(s) \/ Close(s) \/ RemoveEvent(s)
      PROVE  Goal
  <2>1. listening' = listening
    BY <1>7 DEF RemoveConn, Close, RemoveEvent
  <2>2. closing[s] \in CloseAt
    BY <1>0
  <2>3. PICK x : /\ closing' = [closing EXCEPT ![s] = x]
                 /\ x = NoClose \/ \E n \in {"close", "close last", "unwatch"} :
                                     x = [closing[s] EXCEPT !.next = n]
    <3>1. CASE RemoveConn(s)
      BY <1>0, <3>1 DEF RemoveConn
    <3>2. CASE Close(s)
      BY <1>0, <3>2 DEF Close
    <3>3. CASE RemoveEvent(s)
      BY <3>3 DEF RemoveEvent
    <3> QED
      BY <1>7, <3>1, <3>2, <3>3
  <2>4. \A n \in {"close", "close last", "unwatch"} :
          [closing[s] EXCEPT !.next = n] \in CloseAt
    BY <2>2
  <2>5. x \in CloseAt
    <3>1. NoClose \in CloseAt
      OBVIOUS
    <3> HIDE DEF CloseAt
    <3> QED
      BY <2>3, <2>4, <3>1
  <2> HIDE DEF Goal
  <2> QED
    BY <1>2, <2>1, <2>3, <2>5
<1>8. ASSUME NEW s \in Services,
             \/ OnAcceptMsg(s) \/ Ignore(s) \/ FollowNull(s) \/ OnRWMsg(s) \/ Exit(s)
             \/ \E d \in AnyFd : CloseConn(s, d) \/ UseNull(s, d)
      PROVE  Goal
  BY <1>1, <1>8 DEF OnAcceptMsg, Ignore, FollowNull, OnRWMsg, CloseConn, UseNull, Exit
<1>9. CASE SocketWorkerStep
  BY <1>1, <1>9 DEF SocketWorkerStep, EpollWait, OnRW, Accept, AddAccepted, Watch, Notify,
                    serviceVars
<1>10. ASSUME NEW d \in Fds, Connect(d)
       PROVE  Goal
  BY <1>1, <1>10 DEF Connect, serviceVars
<1>11. ASSUME NEW s \in Services, Read(s) \/ OnKeep(s)
       PROVE  Goal
  <2>1. PICK x : x = closing'[s]
    OBVIOUS
  <2>2. /\ x \in [fd : AnyFd, next : {"message", "read"}]
        /\ closing' = [closing EXCEPT ![s] = x] /\ listening' = listening
    BY <1>11, <2>1, ReadTurns DEF IInv, Inv
  <2>3. x \in CloseAt
    BY <2>2
  <2> HIDE DEF Goal
  <2> QED
    BY <1>2, <2>2, <2>3
<1> HIDE DEF Goal
<1> QED
  BY <1>4, <1>5, <1>6, <1>7, <1>8, <1>9, <1>10, <1>11 DEF Next, ServiceStep

LEMMA TypeStep ==
  ASSUME IInv, Next
  PROVE  TypeOK'
BY CountsTyped, ConnsTyped, WatchedTyped, WorkerTyped, MailTyped, DoingTyped DEF TypeOK

-----------------------------------------------------------------------------
(* The invariant. *)

(* The writers have been told of every live connection, or will be before  *)
(* its first message: so the message finds the writer.                     *)
LEMMA WriterFollows ==
  /\ TypeOK /\ ConnsAreOpen /\ OpenUntilClosed /\ ClosesItsOwn
  /\ MessagesArrive /\ AcceptedFirst /\ WritersAreLive
  => WriterIsThere
<1> SUFFICES ASSUME TypeOK, ConnsAreOpen, OpenUntilClosed, ClosesItsOwn, MessagesArrive,
                    AcceptedFirst, WritersAreLive,
                    NEW s \in Services, NEW i \in 1 .. Len(mailbox[s]),
                    mailbox[s][i].type = "rw", mailbox[s][i].conn \notin closed,
                    fdOf[mailbox[s][i].conn] # NoFd
             PROVE  LET c == mailbox[s][i].conn IN
                      \/ writers[s][fdOf[c]] = c
                      \/ \E j \in 1 .. i - 1 : /\ mailbox[s][j].type = "accept"
                                               /\ mailbox[s][j].conn = c
                                               /\ writers[s][fdOf[c]] = NoConn
                                               /\ conns[fdOf[c]] = c
  BY DEF WriterIsThere
<1> DEFINE c == mailbox[s][i].conn
<1>1. /\ c <= made /\ c \notin listeners /\ c # accepting.conn
      /\ serviceOf[c] = s /\ fdOf[c] # NoFd
  BY DEF MessagesArrive, Arrives
<1>2. c \in 1 .. made \ closed
  <2>1. c \in Conns
    BY Waiting
  <2>2. made \in Nat
    BY Typed
  <2> QED
    BY <1>1, <2>1, <2>2
<1>3. s \notin gone
  <2>1. s \in gone => mailbox[s] = <<>>
    BY DEF MessagesArrive
  <2> QED
    BY <2>1
<1>4. Waits(c)
  BY <1>1, <1>2, <1>3 DEF Waits
<1>5. CASE writers[s][fdOf[c]] # c
  <2>1. PICK j \in 1 .. Len(mailbox[s]) : mailbox[s][j].type = "accept" /\ mailbox[s][j].conn = c
    BY <1>1, <1>2, <1>4, <1>5 DEF WritersAreLive
  <2>2. mailbox[s][j].fd = fdOf[c] /\ writers[s][mailbox[s][j].fd] = NoConn
    <3>1. Arrives(s, mailbox[s][j])
      BY DEF MessagesArrive
    <3> QED
      BY <1>1, <2>1, <3>1 DEF Arrives
  <2>3. j <= i
    BY <1>1, <2>1, <2>2 DEF AcceptedFirst
  <2>4. j # i
    BY <2>1
  <2>5. j \in 1 .. i - 1
    <3>1. Len(mailbox[s]) \in Nat
      BY Waiting
    <3> QED
      BY <2>3, <2>4, <3>1
  <2>6. conns[fdOf[c]] = c
    BY <1>1, <1>2, LiveIsFound
  <2> QED
    BY <2>1, <2>5, <2>6, <2>2
<1> QED
  BY <1>5

LEMMA WritersAreLiveStep ==
  ASSUME IInv, Next
  PROVE  WritersAreLive'
BY WritersStep, NoFdWritersStep, ServedStep DEF WritersAreLive

(* Nobody takes the message that a service reads for, or closes its        *)
(* connection, until the service has read.                                 *)
LEMMA ReadsItsMessageStep ==
  ASSUME IInv, TypeOK', Next
  PROVE  ReadsItsMessage'
<1> DEFINE Right(s) == closing[s].next = "read" =>
             /\ mailbox[s] # <<>> /\ Message(s).type = "rw"
             /\ Message(s).conn \notin closed /\ closing[s].fd = Subject(s)
           Reading(s) == closing[s].next = "read"
           Goal == \A s \in Services : Right(s)'
<1> SUFFICES Goal
  BY DEF ReadsItsMessage
<1>0. /\ TypeOK /\ \A s \in Services : Right(s)
      /\ mailbox \in [Services -> Seq(Messages)] /\ mailbox' \in [Services -> Seq(Messages)]
      /\ closing \in [Services -> [fd : AnyFd,
             next : {"message", "read", "remove", "close", "close last", "unwatch"}]]
  BY DEF IInv, Inv, ReadsItsMessage, TypeOK
<1>1. ASSUME NEW s \in Services, Reading(s), closing'[s] = closing[s],
             mailbox'[s] # <<>>, mailbox'[s][1] = mailbox[s][1], Message(s).conn \notin closed'
      PROVE  Right(s)'
  <2>1. /\ mailbox[s] # <<>> /\ Message(s).type = "rw"
        /\ closing[s].fd = fdOf[Message(s).conn]
    BY <1>0, <1>1 DEF Subject
  <2>2. Message(s).conn \in 1 .. made /\ Message(s) = mailbox[s][1]
    BY <2>1, FirstMessage
  <2>3. mailbox'[s] \in Seq(Messages)
    BY <1>0
  <2>4. Head(mailbox'[s]) = mailbox'[s][1]
    BY <1>1, <2>3
  <2>5. Message(s)' = Message(s)
    BY <1>1, <2>2, <2>4 DEF Message
  <2>6. fdOf'[Message(s).conn] = fdOf[Message(s).conn]
    BY <2>2, OldConns
  <2> QED
    BY <1>1, <2>1, <2>5, <2>6 DEF Subject
<1>2. ASSUME mailbox' = mailbox, closed' = closed,
             \A s \in Services : closing'[s] = closing[s] \/ ~Reading(s)'
      PROVE  Goal
  <2>1. ASSUME NEW s \in Services, Reading(s)' PROVE Right(s)'
    <3>1. Reading(s) /\ closing'[s] = closing[s]
      BY <1>2, <2>1
    <3>2. mailbox[s] # <<>> /\ Message(s).conn \notin closed
      BY <1>0, <3>1
    <3> QED
      BY <1>1, <1>2, <3>1, <3>2
  <2> QED
    BY <2>1
<1>3. ASSUME NEW t \in Services, NEW m \in Messages, Send(t, m),
             closed' = closed, closing' = closing
      PROVE  Goal
  <2>1. ASSUME NEW s \in Services, Reading(s)' PROVE Right(s)'
    <3>1. Reading(s) /\ closing'[s] = closing[s]
      BY <1>3, <2>1
    <3>2. mailbox[s] # <<>> /\ Message(s).conn \notin closed
      BY <1>0, <3>1
    <3>3. Len(mailbox[s]) \in Nat \ {0}
      <4>1. PICK q \in Seq(Messages) : q = mailbox[s]
        BY <1>0
      <4>2. q # <<>> => Len(q) \in Nat \ {0}
        OBVIOUS
      <4> QED
        BY <3>2, <4>1, <4>2
    <3>4. mailbox'[s] # <<>> /\ mailbox'[s][1] = mailbox[s][1]
      <4>1. CASE s # t \/ t \in gone
        BY <1>0, <1>3, <3>2, <4>1, Sends
      <4>2. CASE s = t /\ t \notin gone
        <5>1. /\ Len(mailbox'[s]) = Len(mailbox[s]) + 1
              /\ \A i \in 1 .. Len(mailbox[s]) : mailbox'[s][i] = mailbox[s][i]
          BY <1>0, <1>3, <4>2, Sends
        <5>2. 1 \in 1 .. Len(mailbox[s]) /\ Len(mailbox'[s]) # 0
          BY <3>3, <5>1
        <5> QED
          BY <5>1, <5>2
      <4> QED
        BY <4>1, <4>2
    <3> QED
      BY <1>1, <1>3, <3>1, <3>2, <3>4
  <2> QED
    BY <2>1
<1>4. ASSUME NEW t \in Services,
             \A s \in Services \ {t} :
               /\ mailbox'[s] = mailbox[s] /\ closing'[s] = closing[s]
               /\ Reading(s) => Message(s).conn \notin closed',
             ~Reading(t)'
      PROVE  Goal
  <2>1. ASSUME NEW s \in Services, Reading(s)' PROVE Right(s)'
    <3>1. s # t /\ Reading(s) /\ closing'[s] = closing[s] /\ mailbox'[s] = mailbox[s]
      BY <1>4, <2>1
    <3>2. mailbox[s] # <<>>
      BY <1>0, <3>1
    <3> QED
      BY <1>1, <1>4, <3>1, <3>2
  <2> QED
    BY <2>1
<1>5. ASSUME NEW t \in Services, mailbox[t] # <<>>, HandledWrite(t), closed' = closed,
             \A s \in Services \ {t} : closing'[s] = closing[s],
             ~Reading(t)'
      PROVE  Goal
  <2>1. \A s \in Services \ {t} : mailbox'[s] = mailbox[s]
    BY <1>0, <1>5, FirstMessage, HandlesWrite
  <2>2. \A s \in Services : Reading(s) => Message(s).conn \notin closed'
    BY <1>0, <1>5
  <2> HIDE DEF Goal, Reading
  <2> QED
    BY <1>4, <1>5, <2>1, <2>2
<1>6. ASSUME NEW t \in Services, OnAcceptMsg(t)
      PROVE  Goal
  <2>1. /\ mailbox[t] # <<>> /\ HandledWrite(t) /\ closed' = closed /\ closing' = closing
    BY <1>6, AcceptMsgMakes DEF HandledWrite, connVars
  <2>2. ~Reading(t)'
    BY <1>6, <2>1 DEF OnAcceptMsg, MayHandle, Idle
  <2> HIDE DEF Goal, Reading
  <2> QED
    BY <1>5, <2>1, <2>2
<1>7. ASSUME NEW t \in Services, Passes(t)
      PROVE  Goal
  <2>1. mailbox[t] # <<>> /\ HandledWrite(t) /\ closed' = closed
    BY <1>7, PassesOver DEF connVars
  <2>2. (\A s \in Services \ {t} : closing'[s] = closing[s]) /\ ~Reading(t)'
    <3>1. CASE Ignore(t) \/ OnRWMsg(t)
      BY <3>1 DEF Ignore, OnRWMsg, RWLive, MayHandle, Idle
    <3>2. CASE OnKeep(t)
      BY <1>0, <3>2 DEF OnKeep
    <3> QED
      BY <1>7, <3>1, <3>2 DEF Passes
  <2> HIDE DEF Goal, Reading
  <2> QED
    BY <1>5, <2>1, <2>2
<1>8. ASSUME NEW t \in Services, OnEnd(t)
      PROVE  Goal
  <2>1. PICK c : c = Message(t).conn
    OBVIOUS
  <2>2. /\ mailbox[t] # <<>> /\ Handled(t) /\ closed' = closed \cup {c} /\ serviceOf[c] = t
        /\ closing' = [closing EXCEPT ![t].next = "remove"]
    BY <1>8, <2>1, EndsLive
  <2>3. (\A s \in Services \ {t} : closing'[s] = closing[s]) /\ ~Reading(t)'
    BY <1>0, <2>2
  <2>4. \A s \in Services \ {t} : mailbox'[s] = mailbox[s]
    BY <1>0, <2>2, Handles
  <2>5. ASSUME NEW s \in Services \ {t}, Reading(s)
        PROVE  Message(s).conn \notin closed'
    <3>1. mailbox[s] # <<>> /\ Message(s).conn \notin closed
      BY <1>0, <2>5
    <3>2. serviceOf[Message(s).conn] = s
      BY <3>1, FirstMessage DEF Arrives
    <3> QED
      BY <2>2, <3>1, <3>2
  <2> HIDE DEF Goal, Reading
  <2> QED
    BY <1>4, <2>3, <2>4, <2>5
<1>9. ASSUME NEW t \in Services, Exit(t)
      PROVE  Goal
  <2>1. /\ \A s \in Services \ {t} : mailbox'[s] = mailbox[s]
        /\ closing' = closing /\ closed' = closed
    BY <1>0, <1>9 DEF Exit, connVars
  <2>2. ~Reading(t)'
    BY <1>9, <2>1 DEF Exit, Idle
  <2>3. \A s \in Services : Reading(s) => Message(s).conn \notin closed'
    BY <1>0, <2>1
  <2> HIDE DEF Goal, Reading
  <2> QED
    BY <1>4, <2>1, <2>2, <2>3
<1>10. ASSUME NEW t \in Services, Read(t)
       PROVE  Goal
  <2>1. /\ mailbox[t] # <<>> /\ Message(t).type = "rw" /\ Message(t).conn \notin closed
        /\ closing' = [closing EXCEPT ![t] = [fd |-> Subject(t), next |-> "read"]]
        /\ UNCHANGED <<connVars, mailbox>>
    BY <1>10 DEF Read, RWLive, MayHandle
  <2>2. ASSUME NEW s \in Services, s # t, Reading(s)' PROVE Right(s)'
    <3>1. Reading(s) /\ closing'[s] = closing[s]
      BY <1>0, <2>1, <2>2
    <3>2. mailbox[s] # <<>> /\ Message(s).conn \notin closed
      BY <1>0, <3>1
    <3> QED
      BY <1>1, <2>1, <3>1, <3>2 DEF connVars
  <2>3. Right(t)'
    <3>1. closing'[t] = [fd |-> Subject(t), next |-> "read"]
      BY <1>0, <2>1
    <3> QED
      BY <2>1, <3>1 DEF Subject, Message, connVars
  <2> QED
    BY <2>2, <2>3
<1>11. ASSUME NEW t \in Services, RemoveConn(t) \/ Close(t) \/ RemoveEvent(t)
       PROVE  Goal
  <2>1. mailbox' = mailbox /\ closed' = closed
    BY <1>11 DEF RemoveConn, Close, RemoveEvent, connVars
  <2>2. (\A s \in Services \ {t} : closing'[s] = closing[s]) /\ ~Reading(t)'
    <3>1. CASE RemoveConn(t)
      BY <1>0, <3>1 DEF RemoveConn
    <3>2. CASE Close(t)
      BY <1>0, <3>2 DEF Close
    <3>3. CASE RemoveEvent(t)
      BY <1>0, <3>3 DEF RemoveEvent
    <3> QED
      BY <1>11, <3>1, <3>2, <3>3
  <2> HIDE DEF Goal, Reading
  <2> QED
    BY <1>2, <2>1, <2>2
<1>12. ASSUME UNCHANGED <<mailbox, closed, closing>>
       PROVE  Goal
  BY <1>2, <1>12
<1>13. ASSUME NEW d \in Fds, NEW in \in BOOLEAN, OnRW([fd |-> d, in |-> in])
       PROVE  Goal
  <2>1. /\ closed' = closed /\ closing' = closing
        /\ mailbox' = mailbox \/ \E s \in Services, m \in Messages : Send(s, m)
    BY <1>13, RWSends DEF connVars
  <2> HIDE DEF Goal
  <2> QED
    BY <1>3, <1>12, <2>1
<1>14. ASSUME NEW s \in Services, NEW d \in AnyFd, CloseConn(s, d)
       PROVE  Goal
  <2>1. /\ closed' = closed /\ closing' = closing
        /\ mailbox' = mailbox \/ \E t \in Services, m \in Messages : Send(t, m)
    BY <1>14, CloseConnSends DEF connVars
  <2> HIDE DEF Goal
  <2> QED
    BY <1>3, <1>12, <2>1
<1>15. CASE Notify
  <2>1. /\ closed' = closed /\ closing' = closing
        /\ \E s \in Services, m \in Messages : Send(s, m)
    BY <1>15, NotifySends DEF connVars
  <2> HIDE DEF Goal
  <2> QED
    BY <1>3, <2>1
<1>16. CASE \/ EpollWait \/ AddAccepted \/ Watch
            \/ \E d \in Fds, in \in BOOLEAN : Accept([fd |-> d, in |-> in])
  BY <1>12, <1>16 DEF EpollWait, AddAccepted, AddConn, Watch, Accept, connVars, serviceVars
<1>17. ASSUME NEW s \in Services,
              \/ Socket(s) \/ AddListener(s) \/ AddEvent(s) \/ FollowNull(s)
              \/ \E d \in AnyFd : UseNull(s, d)
       PROVE  Goal
  BY <1>12, <1>17 DEF Socket, AddListener, AddConn, AddEvent, FollowNull, UseNull, connVars
<1>18. ASSUME NEW d \in Fds, Connect(d)
       PROVE  Goal
  BY <1>12, <1>18 DEF Connect, connVars, serviceVars
<1> HIDE DEF Goal
<1> QED
  BY <1>6, <1>7, <1>8, <1>9, <1>10, <1>11, <1>13, <1>14, <1>15, <1>16, <1>17, <1>18
  DEF Next, SocketWorkerStep, ServiceStep, Passes

(* A null pointer is followed for a connection that has no descriptor.     *)
LEMMA CrashesStep ==
  ASSUME IInv, Next
  PROVE  CrashesAfterFailure'
<1> DEFINE Failed == \E c \in 1 .. made : fdOf[c] = NoFd
<1>1. ~crashed
  BY CrashSteps
<1>2. ASSUME NEW s \in Services, FollowNull(s)
      PROVE  Failed'
  <2>1. PICK c : c = Message(s).conn
    OBVIOUS
  <2>2. /\ mailbox[s] # <<>> /\ Message(s).type = "rw" /\ c \notin closed
        /\ writers[s][fdOf[c]] = NoConn
        /\ UNCHANGED connVars
    BY <1>2, <2>1 DEF FollowNull, RWLive, MayHandle, Subject
  <2>3. /\ c \in 1 .. made /\ c # NoConn
        /\ 1 \in 1 .. Len(mailbox[s]) /\ Message(s) = mailbox[s][1]
    BY <2>1, <2>2, FirstMessage, Counted
  <2>4. fdOf[c] = NoFd
    <3>1. WriterIsThere
      BY DEF IInv, Inv
    <3>2. fdOf[c] # NoFd =>
            writers[s][fdOf[c]] = c \/ \E j \in 1 .. 1 - 1 : TRUE
      BY <2>1, <2>2, <2>3, <3>1 DEF WriterIsThere
    <3> QED
      BY <2>2, <2>3, <3>2
  <2> QED
    BY <2>2, <2>3, <2>4 DEF connVars
<1>3. ASSUME NEW s \in Services, NEW d \in AnyFd, UseNull(s, d)
      PROVE  Failed'
  <2>1. writers[s][d] = NullConn /\ UNCHANGED connVars
    BY <1>3 DEF UseNull
  <2>2. WritersAreLive /\ made \in Nat
    BY Counted DEF IInv
  <2>3. NullConn \notin 1 .. made /\ NullConn # NoConn
    BY <2>2
  <2>4. d = NoFd
    BY <2>1, <2>2, <2>3 DEF WritersAreLive
  <2>5. Failed
    BY <2>1, <2>2, <2>3, <2>4 DEF WritersAreLive
  <2> QED
    BY <2>1, <2>5 DEF connVars
<1>4. crashed' = crashed \/ Failed'
  BY <1>2, <1>3, CrashSteps
<1> QED
  BY <1>1, <1>4 DEF CrashesAfterFailure

LEMMA InitInv ==
  ASSUME Init
  PROVE  IInv
<1>1. /\ came = 0 /\ made = 0 /\ backlog = [l \in Conns |-> 0]
      /\ pulse = {} /\ watched = {} /\ batch = {} /\ listeners = {} /\ closed = {} /\ gone = {}
      /\ fds = [d \in Fds |-> NoConn] /\ conns = [d \in AnyFd |-> NoConn]
      /\ fdOf = [c \in Conns |-> NoFd] /\ serviceOf = [c \in Conns |-> NoService]
      /\ accepting = NoAccept
  BY DEF Init
<1>2. /\ writers = [s \in Services |-> [d \in AnyFd |-> NoConn]]
      /\ mailbox = [s \in Services |-> <<>>]
      /\ closing = [s \in Services |-> NoClose] /\ listening = [s \in Services |-> NoListen]
      /\ lingering = [s \in Services |-> {}] /\ crashed = FALSE
  BY DEF Init
<1>3. TypeOK
  <2>1. /\ came \in 0 .. MaxClients /\ made \in 0 .. MaxConns
        /\ backlog \in [Conns -> 0 .. MaxClients]
    BY <1>1
  <2>2. /\ fds \in [Fds -> Conns \cup {NoConn}] /\ conns \in [AnyFd -> Conns \cup {NoConn}]
        /\ fdOf \in [Conns -> AnyFd] /\ serviceOf \in [Conns -> Services \cup {NoService}]
    BY <1>1
  <2>3. accepting \in [conn : Conns \cup {NoConn}, on : Conns \cup {NoConn},
                       next : {"event", "add", "watch", "notify"}]
    BY <1>1
  <2>4. writers \in [Services -> [AnyFd -> Conns \cup {NoConn, NullConn}]]
    <3>1. [d \in AnyFd |-> NoConn] \in [AnyFd -> Conns \cup {NoConn, NullConn}]
      OBVIOUS
    <3> QED
      BY <1>2, <3>1
  <2>9. mailbox \in [Services -> Seq(Messages)] /\ crashed \in BOOLEAN
    <3>1. mailbox = [s \in Services |-> <<>>]
      BY <1>2
    <3>2. crashed = FALSE
      BY <1>2
    <3>3. mailbox \in [Services -> Seq(Messages)]
      BY <3>1
    <3> QED
      BY <3>2, <3>3
  <2>8. lingering \in [Services -> SUBSET AnyFd]
    <3>1. {} \in SUBSET AnyFd
      OBVIOUS
    <3> QED
      BY <1>2, <3>1
  <2>5. closing \in [Services -> [fd : AnyFd,
                   next : {"message", "read", "remove", "close", "close last", "unwatch"}]]
    BY <1>2
  <2>6. listening \in [Services -> [conn : Conns \cup {NoConn},
                                    next : {"message", "add", "watch"}]]
    BY <1>2
  <2>7. /\ pulse \subseteq watched /\ watched \subseteq {d \in Fds : fds[d] # NoConn}
        /\ batch \subseteq [fd : Fds, in : BOOLEAN]
        /\ listeners \subseteq 1 .. made /\ closed \subseteq 1 .. made \ listeners
        /\ gone \subseteq Services
    BY <1>1
  <2> QED
    BY <2>1, <2>2, <2>3, <2>4, <2>5, <2>6, <2>7, <2>8, <2>9 DEF TypeOK
<1>4. NoFd \notin Fds /\ 1 .. made = {} /\ \A c \in Conns : c # 0
  BY <1>1
<1>5. ConnsAreOpen /\ Numbered
  BY <1>1 DEF ConnsAreOpen, Numbered
<1>6. OpenUntilClosed
  BY <1>1, <1>4 DEF OpenUntilClosed
<1>7. ClosesItsOwn /\ ListensNew /\ ReadsItsMessage /\ CrashesAfterFailure
  BY <1>2 DEF ClosesItsOwn, ListensNew, ReadsItsMessage, CrashesAfterFailure
<1>8. AcceptsNew
  BY <1>1 DEF AcceptsNew
<1>9. MessagesArrive /\ AcceptedFirst
  <2>1. \A s \in Services : mailbox[s] = <<>> /\ 1 .. Len(mailbox[s]) = {}
    BY <1>2
  <2> QED
    BY <2>1 DEF MessagesArrive, AcceptedFirst
<1>10. WritersAreLive
  BY <1>2, <1>4 DEF WritersAreLive
<1> QED
  BY <1>3, <1>5, <1>6, <1>7, <1>8, <1>9, <1>10, WriterFollows DEF IInv, Inv

LEMMA NextInv ==
  ASSUME IInv, Next
  PROVE  IInv'
<1>1. TypeOK'
  BY TypeStep
<1>2. ConnsAreOpen' /\ Numbered' /\ OpenUntilClosed' /\ ClosesItsOwn'
  BY ConnsAreOpenStep, NumberedStep, OpenUntilClosedStep, ClosesItsOwnStep
<1>3. AcceptsNew' /\ ListensNew' /\ MessagesArrive' /\ AcceptedFirst'
  BY AcceptsNewStep, ListensNewStep, MessagesArriveStep, AcceptedFirstStep
<1>4. WritersAreLive'
  BY <1>1, WritersAreLiveStep
<1>5. WriterIsThere'
  BY <1>1, <1>2, <1>3, <1>4, WriterFollows, PTL
<1>6. ReadsItsMessage' /\ CrashesAfterFailure'
  BY <1>1, ReadsItsMessageStep, CrashesStep
<1> QED
  BY <1>1, <1>2, <1>3, <1>4, <1>5, <1>6 DEF IInv, Inv

LEMMA StutterInv ==
  ASSUME IInv, UNCHANGED vars
  PROVE  IInv'
<1>1. /\ UNCHANGED <<came, backlog, pulse, fds, watched>>
      /\ UNCHANGED <<batch, accepting>>
      /\ UNCHANGED <<conns, made, fdOf, serviceOf, listeners, closed>>
      /\ UNCHANGED <<writers, lingering, mailbox, closing, listening, gone, crashed>>
  BY DEF vars, kernelVars, workerVars, connVars, serviceVars
<1>2. TypeOK'
  BY <1>1 DEF IInv, Inv, TypeOK
<1>3. ConnsAreOpen' /\ Numbered'
  BY <1>1 DEF IInv, Inv, ConnsAreOpen, Numbered
<1>4. OpenUntilClosed' /\ ClosesItsOwn'
  BY <1>1 DEF IInv, OpenUntilClosed, IsOpen, ClosesItsOwn
<1>5. AcceptsNew' /\ ListensNew'
  BY <1>1 DEF IInv, AcceptsNew, ListensNew
<1>6. MessagesArrive'
  BY <1>1 DEF IInv, MessagesArrive, Arrives
<1>7. AcceptedFirst'
  BY <1>1 DEF IInv, AcceptedFirst
<1>8. WritersAreLive'
  BY <1>1 DEF IInv, WritersAreLive, Waits
<1>9. WriterIsThere'
  BY <1>2, <1>3, <1>4, <1>6, <1>7, <1>8, WriterFollows, PTL
<1>10. ReadsItsMessage' /\ CrashesAfterFailure'
  BY <1>1 DEF IInv, Inv, ReadsItsMessage, CrashesAfterFailure, Message, Subject
<1> QED
  BY <1>2, <1>3, <1>4, <1>5, <1>6, <1>7, <1>8, <1>9, <1>10 DEF IInv, Inv

(* Whatever the kernel hands out again, whenever its events come and      *)
(* whichever accept() fails, the kernel, Conns, the services and their     *)
(* messages agree on the connections and their descriptors: IInv, which    *)
(* has the types, is kept by each step of SocketWorker (OnEvent, OnAccept) *)
(* and of the services (Listen, OnAcceptMsg, OnRWMsg, the LingerClose of   *)
(* sunnet.CloseConn and the message that OnWriteable posts, Closeconn, the *)
(* exit).                                                                  *)
THEOREM Invariance == Spec => []IInv
<1>1. IInv /\ [Next]_vars => IInv'
  BY NextInv, StutterInv
<1>2. Init => IInv
  BY InitInv
<1> QED
  BY <1>1, <1>2, PTL DEF Spec

(* Sunnet::Conns never leads from a descriptor to a connection that has    *)
(* lost it, and leads to whoever has it now: no event is for another's     *)
(* connection, closed after an event or after sunnet.CloseConn.            *)
THEOREM EventsReachTheirConn == Spec => []ConnsAreOpen
<1>1. IInv => ConnsAreOpen
  BY DEF IInv, Inv
<1> QED
  BY <1>1, Invariance, PTL

(* OnRWMsg finds the writer of a live connection that has a descriptor,    *)
(* though Service::writers is keyed by a descriptor that was another's and *)
(* ConnWriter posts messages besides SocketWorker: it may follow the       *)
(* pointer without a test.                                                 *)
THEOREM WritersAreFound == Spec => []WriterIsThere
<1>1. IInv => WriterIsThere
  BY DEF IInv, Inv
<1> QED
  BY <1>1, Invariance, PTL

(* Where a null pointer is followed after all, in OnRWMsg or through a     *)
(* writer that OnAcceptMsg made without a connection, an accept() has      *)
(* failed: its connection has the descriptor -1.                           *)
THEOREM NullOnlyAfterFailure == Spec => []CrashesAfterFailure
<1>1. IInv => CrashesAfterFailure
  BY DEF IInv, Inv
<1> QED
  BY <1>1, Invariance, PTL
=============================================================================
