----------------------------- MODULE Descriptors -----------------------------
(***************************************************************************)
(* The connections of all services and the descriptors they use: OnEvent   *)
(* and OnAccept of src/SocketWorker.cpp on one thread, AddConn, RemoveConn *)
(* and Closeconn of src/Sunnet.cpp, and Service::writers with OnAcceptMsg, *)
(* OnRWMsg and LingerClose (src/Service.cpp, src/ConnWriter.cpp) on the    *)
(* workers, where services also listen (Sunnet::Listen) and exit.  The     *)
(* kernel hands a descriptor out again as soon as it is closed.            *)
(*                                                                         *)
(* What happens on a connection is in the module Connection; here a read   *)
(* or write event comes at any time, a read ends the connection or does    *)
(* not, and what a writer was given is written by then or is not.  The     *)
(* kernel (listening sockets, descriptors and epoll) is external.          *)
(*                                                                         *)
(* An accept() that fails gives the descriptor -1, for which Conns keeps   *)
(* one connection of whatever service, and each service one writer: of     *)
(* that connection, or of none.                                            *)
(*                                                                         *)
(* A definition whose name ends in Slip is the one after it with a         *)
(* plausible programming slip; no specification uses it.                   *)
(***************************************************************************)
EXTENDS Integers, Sequences, FiniteSets

CONSTANTS
  NoService,    \* of a connection that was not made yet
  Services,     \* the services
  Fds,          \* the descriptors for sockets: the process has no more
  MaxConns,     \* bound on the Conn objects
  MaxClients,   \* bound on the clients that connect
  MaxListens,   \* bound on those that listen
  MaxMessages   \* bound on the messages of a service that wait for it

ASSUME DescriptorsAssumption ==
  /\ NoService \notin Services
  /\ Fds \subseteq Nat \ {0}
  /\ MaxConns \in Nat /\ MaxClients \in Nat /\ MaxListens \in Nat /\ MaxMessages \in Nat

VARIABLES
  (* the kernel *)
  came,         \* the clients that have connected
  backlog,      \* the connections that each listening Conn has to accept
  pulse,        \* the listening descriptors on epoll's ready list
  fds,          \* the Conn that each open descriptor is for
  watched,      \* the descriptors in epoll's interest list
  (* SocketWorker *)
  batch,        \* the events that epoll_wait returned and are to be handled
  accepting,    \* the Conn that OnAccept is at, its listener, what is next
  (* Sunnet *)
  conns,        \* Sunnet::Conns: descriptor -> connection
  made,         \* the Conn objects made so far, numbered from 1
  fdOf,         \* Conn::fd
  serviceOf,    \* Conn::serviceId
  listeners,    \* those whose Conn::type is LISTEN
  closed,       \* Conn::closed
  (* the services *)
  writers,      \* Service::writers: descriptor -> ConnWriter::conn
  lingering,    \* the descriptors whose ConnWriter::isClosing is set
  mailbox,      \* Service::msgQueue, the messages about connections
  closing,      \* what OnRWMsg and Closeconn do next, for which descriptor
  listening,    \* what Listen does next, and for which Conn
  gone,         \* the services that have exited
  crashed       \* a null pointer was followed: the process is gone

kernelVars == <<came, backlog, pulse, fds, watched>>
workerVars == <<batch, accepting>>
connVars == <<conns, made, fdOf, serviceOf, listeners, closed>>
serviceVars == <<writers, lingering, mailbox, closing, listening, gone, crashed>>
vars == <<kernelVars, workerVars, connVars, serviceVars>>

NoFd == -1
AnyFd == Fds \cup {NoFd}
Conns == 1 .. MaxConns
NoConn == 0
NullConn == -1      \* of a writer that was made without a connection

NoAccept == [conn |-> NoConn, on |-> NoConn, next |-> "event"]
NoClose == [fd |-> NoFd, next |-> "message"]
NoListen == [conn |-> NoConn, next |-> "message"]

Init ==
  /\ came = 0
  /\ backlog = [l \in Conns |-> 0]
  /\ pulse = {} /\ watched = {}
  /\ fds = [d \in Fds |-> NoConn]
  /\ batch = {}
  /\ accepting = NoAccept
  /\ conns = [d \in AnyFd |-> NoConn]
  /\ made = 0
  /\ fdOf = [c \in Conns |-> NoFd]
  /\ serviceOf = [c \in Conns |-> NoService]
  /\ listeners = {} /\ closed = {}
  /\ writers = [s \in Services |-> [d \in AnyFd |-> NoConn]]
  /\ lingering = [s \in Services |-> {}]
  /\ mailbox = [s \in Services |-> <<>>]
  /\ closing = [s \in Services |-> NoClose]
  /\ listening = [s \in Services |-> NoListen]
  /\ gone = {} /\ crashed = FALSE

-----------------------------------------------------------------------------
(* The kernel: a client connects, which wakes epoll for the listening      *)
(* socket if it watches it.  The lowest free descriptor is the next.       *)
Connect(d) ==
  /\ came < MaxClients
  /\ fds[d] \in listeners
  /\ came' = came + 1
  /\ backlog' = [backlog EXCEPT ![fds[d]] = @ + 1]
  /\ pulse' = pulse \cup ({d} \cap watched)
  /\ UNCHANGED <<fds, watched, workerVars, connVars, serviceVars>>

Free == {d \in Fds : fds[d] = NoConn}

Lowest(D) == CHOOSE d \in D : \A e \in D : d <= e

(* Sunnet::Send: a service that is gone gets nothing. *)
Send(s, m) ==
  mailbox' = IF s \in gone THEN mailbox ELSE [mailbox EXCEPT ![s] = Append(@, m)]

(* Sunnet::AddConn: emplace leaves an entry that is there. *)
AddConn(c, d, s, type) ==
  /\ conns' = IF conns[d] = NoConn THEN [conns EXCEPT ![d] = c] ELSE conns
  /\ serviceOf' = [serviceOf EXCEPT ![c] = s]
  /\ listeners' = IF type = "listen" THEN listeners \cup {c} ELSE listeners
  /\ UNCHANGED <<made, fdOf, closed>>

-----------------------------------------------------------------------------
(* SocketWorker.                                                           *)

(* An event has a descriptor and says whether it can be read.  One of a    *)
(* listening socket is told once; one of a connection comes at any time.   *)
EpollWait ==
  /\ batch = {} /\ accepting = NoAccept
  /\ \A s \in Services : Len(mailbox[s]) < MaxMessages
  /\ \E D \in SUBSET {d \in watched : d \in pulse \/ fds[d] \notin listeners} :
     \E in \in [D -> BOOLEAN] :
       /\ D # {}
       /\ \A d \in D \cap pulse : in[d]
       /\ batch' = {[fd |-> d, in |-> in[d]] : d \in D}
       /\ pulse' = pulse \ D
  /\ UNCHANGED <<came, backlog, fds, watched, accepting, connVars, serviceVars>>

(* OnEvent asks Conns what the descriptor is for now. *)
OnEvent(e) ==
  /\ e \in batch /\ accepting = NoAccept
  /\ batch' = batch \ {e}

(* What OnRWMsg is asked to do: to read, and to write if the descriptor    *)
(* can be written too; to write only; to read and so close what lingers.   *)
RWMsg(c, asks) == [type |-> "rw", conn |-> c, asks |-> asks]

(* OnRW, or nothing for a descriptor that Conns does not have. *)
OnRW(e) ==
  /\ OnEvent(e)
  /\ conns[e.fd] \in listeners => ~e.in
  /\ IF conns[e.fd] \in {NoConn} \cup listeners
     THEN UNCHANGED mailbox
     ELSE Send(serviceOf[conns[e.fd]],
               RWMsg(conns[e.fd], IF e.in THEN "read" ELSE "write"))
  /\ UNCHANGED <<kernelVars, accepting, connVars, writers, lingering, closing, listening,
                 gone, crashed>>

(* OnAccept, up to accept(): one connection for an event.  If there is     *)
(* none, or no descriptor for it, the call fails and OnAccept goes on      *)
(* with -1.                                                                *)
Accept(e) ==
  LET l == conns[e.fd] IN
  /\ OnEvent(e)
  /\ l \in listeners /\ e.in
  /\ made < MaxConns
  /\ made' = made + 1
  /\ IF backlog[l] > 0 /\ Free # {}
     THEN /\ backlog' = [backlog EXCEPT ![l] = @ - 1]
          /\ fds' = [fds EXCEPT ![Lowest(Free)] = made']
          /\ fdOf' = [fdOf EXCEPT ![made'] = Lowest(Free)]
     ELSE UNCHANGED <<backlog, fds, fdOf>>
  /\ accepting' = [conn |-> made', on |-> l, next |-> "add"]
  /\ UNCHANGED <<came, pulse, watched, conns, serviceOf, listeners, closed, serviceVars>>

Accepting(next) == accepting.conn # NoConn /\ accepting.next = next

Then(next) == accepting' = [accepting EXCEPT !.next = next]

AddAccepted ==
  /\ Accepting("add")
  /\ AddConn(accepting.conn, fdOf[accepting.conn], serviceOf[accepting.on], "client")
  /\ Then("watch")
  /\ UNCHANGED <<kernelVars, batch, serviceVars>>

(* EPOLL_CTL_ADD, which fails on -1. *)
Watch ==
  /\ Accepting("watch")
  /\ watched' = watched \cup ({fdOf[accepting.conn]} \ {NoFd})
  /\ Then("notify")
  /\ UNCHANGED <<came, backlog, pulse, fds, batch, connVars, serviceVars>>

AcceptMsg(c, d) == [type |-> "accept", conn |-> c, fd |-> d]

(* The SocketAcceptMsg has the descriptor; which connection it is for is   *)
(* noted for the properties.                                               *)
Notify ==
  /\ Accepting("notify")
  /\ Send(serviceOf[accepting.on], AcceptMsg(accepting.conn, fdOf[accepting.conn]))
  /\ accepting' = NoAccept
  /\ UNCHANGED <<kernelVars, batch, connVars, writers, lingering, closing, listening,
                 gone, crashed>>

-----------------------------------------------------------------------------
(* The services.                                                           *)
Idle(s) == s \notin gone /\ closing[s] = NoClose /\ listening[s] = NoListen

Message(s) == Head(mailbox[s])

MayHandle(s, type) ==
  /\ Idle(s)
  /\ mailbox[s] # <<>>
  /\ Message(s).type = type

Handled(s) == mailbox' = [mailbox EXCEPT ![s] = Tail(@)]

(* Sunnet::Listen, up to listen(), from any handler.  A socket that cannot *)
(* be bound stays open.                                                    *)
Socket(s) ==
  /\ Idle(s)
  /\ Free # {} /\ made < MaxConns
  /\ Cardinality(listeners) < MaxListens
  /\ made' = made + 1
  /\ fds' = [fds EXCEPT ![Lowest(Free)] = made']
  /\ fdOf' = [fdOf EXCEPT ![made'] = Lowest(Free)]
  /\ \/ /\ listening' = [listening EXCEPT ![s] = [conn |-> made', next |-> "add"]]
        /\ listeners' = listeners \cup {made'}
     \/ UNCHANGED <<listening, listeners>>
  /\ UNCHANGED <<came, backlog, pulse, watched, workerVars, conns, serviceOf, closed,
                 writers, lingering, mailbox, closing, gone, crashed>>

AddListener(s) ==
  /\ listening[s].next = "add"
  /\ LET c == listening[s].conn IN AddConn(c, fdOf[c], s, "listen")
  /\ listening' = [listening EXCEPT ![s].next = "watch"]
  /\ UNCHANGED <<kernelVars, workerVars, writers, lingering, mailbox, closing, gone,
                 crashed>>

(* AddEvent: EPOLL_CTL_ADD, which tells of connections that are waiting.   *)
AddEvent(s) ==
  LET c == listening[s].conn IN
  /\ listening[s].next = "watch"
  /\ watched' = watched \cup {fdOf[c]}
  /\ pulse' = IF backlog[c] > 0 THEN pulse \cup {fdOf[c]} ELSE pulse
  /\ listening' = [listening EXCEPT ![s] = NoListen]
  /\ UNCHANGED <<came, backlog, fds, workerVars, connVars, writers, lingering, mailbox,
                 closing, gone, crashed>>

(* OnAcceptMsg: the writer gets the connection that GetConn finds now, if  *)
(* any, and emplace leaves a writer that is there.                         *)
OnAcceptMsg(s) ==
  /\ MayHandle(s, "accept")
  /\ Handled(s)
  /\ LET d == Message(s).fd IN
       writers' = IF writers[s][d] # NoConn THEN writers
                  ELSE [writers EXCEPT ![s][d] =
                          IF conns[d] # NoConn THEN conns[d] ELSE NullConn]
  /\ UNCHANGED <<kernelVars, workerVars, connVars, lingering, closing, listening, gone,
                 crashed>>

(* sunnet.CloseConn, from a handler, that of OnSocketData included:        *)
(* LingerClose asks the service of the connection to close it, now or, if  *)
(* there is still something to write, in OnWriteable.                      *)
CloseConn(s, d) ==
  LET c == writers[s][d] IN
  /\ Idle(s) \/ closing[s].next = "read"
  /\ c \notin {NoConn, NullConn} /\ d \notin lingering[s]
  /\ lingering' = [lingering EXCEPT ![s] = @ \cup {d}]
  /\ \/ Send(serviceOf[c], RWMsg(c, "close"))
     \/ d # NoFd /\ UNCHANGED mailbox
  /\ UNCHANGED <<kernelVars, workerVars, connVars, writers, closing, listening, gone,
                 crashed>>

(* sunnet.Write and sunnet.CloseConn with a writer that has no connection. *)
UseNull(s, d) ==
  /\ Idle(s) \/ closing[s].next = "read"
  /\ writers[s][d] = NullConn
  /\ crashed' = TRUE
  /\ UNCHANGED <<kernelVars, workerVars, connVars, writers, lingering, mailbox, closing,
                 listening, gone>>

(* What OnRWMsg looks at: the message, unless the connection is closed.    *)
RWLive(s) == MayHandle(s, "rw") /\ Message(s).conn \notin closed

Subject(s) == fdOf[Message(s).conn]

(* It reads: while the writer lingers only when it is asked to close.      *)
Reads(s) ==
  \/ Message(s).asks = "close"
  \/ Message(s).asks = "read" /\ Subject(s) \notin lingering[s]

(* OnRWMsg for a closed connection. *)
Ignore(s) ==
  /\ MayHandle(s, "rw") /\ Message(s).conn \in closed
  /\ Handled(s)
  /\ UNCHANGED <<kernelVars, workerVars, connVars, writers, lingering, closing, listening,
                 gone, crashed>>

(* Without a writer for the descriptor, writers[fd] is a null pointer. *)
FollowNull(s) ==
  /\ RWLive(s) /\ writers[s][Subject(s)] = NoConn
  /\ crashed' = TRUE
  /\ UNCHANGED <<kernelVars, workerVars, connVars, writers, lingering, mailbox, closing,
                 listening, gone>>

(* It starts to read. *)
Read(s) ==
  /\ RWLive(s) /\ writers[s][Subject(s)] # NoConn
  /\ Reads(s)
  /\ closing' = [closing EXCEPT ![s] = [fd |-> Subject(s), next |-> "read"]]
  /\ UNCHANGED <<kernelVars, workerVars, connVars, writers, lingering, mailbox, listening,
                 gone, crashed>>

(* OnWriteable, if the descriptor can be written: a writer that lingers    *)
(* and has nothing left to write asks its service, which is this one, to   *)
(* close the connection.                                                   *)
HandledWrite(s) ==
  \/ Handled(s)
  \/ /\ Subject(s) \in lingering[s] /\ Message(s).asks # "close"
     /\ mailbox' = [mailbox EXCEPT ![s] =
                      Append(Tail(@), RWMsg(Message(s).conn, "close"))]

(* It does not read. *)
OnRWMsg(s) ==
  /\ RWLive(s) /\ writers[s][Subject(s)] # NoConn
  /\ ~Reads(s)
  /\ HandledWrite(s)
  /\ UNCHANGED <<kernelVars, workerVars, connVars, writers, lingering, closing, listening,
                 gone, crashed>>

(* It has read and keeps the connection: not if the descriptor is -1. *)
OnKeep(s) ==
  /\ closing[s].next = "read" /\ closing[s].fd # NoFd
  /\ closing' = [closing EXCEPT ![s] = NoClose]
  /\ HandledWrite(s)
  /\ UNCHANGED <<kernelVars, workerVars, connVars, writers, lingering, listening, gone,
                 crashed>>

(* It has read and closes the connection: Conn::closed, the writer is      *)
(* erased in OnSocketClose, and Closeconn follows.                         *)
OnEnd(s) ==
  /\ closing[s].next = "read"
  /\ Handled(s)
  /\ closed' = closed \cup {Message(s).conn}
  /\ writers' = [writers EXCEPT ![s][closing[s].fd] = NoConn]
  /\ lingering' = [lingering EXCEPT ![s] = @ \ {closing[s].fd}]
  /\ closing' = [closing EXCEPT ![s].next = "remove"]
  /\ UNCHANGED <<kernelVars, workerVars, conns, made, fdOf, serviceOf, listeners,
                 listening, gone, crashed>>

(* close(), which fails on -1 and takes a descriptor out of epoll. *)
CloseFd(d) ==
  /\ fds' = [f \in Fds |-> IF f = d THEN NoConn ELSE fds[f]]
  /\ watched' = watched \ {d}

(* Slip: Closeconn closes the descriptor first. *)
RemoveConnSlip(s) ==
  /\ closing[s].next = "remove"
  /\ CloseFd(closing[s].fd)
  /\ closing' = [closing EXCEPT ![s].next = "unwatch"]
  /\ UNCHANGED <<came, backlog, pulse, workerVars, connVars, writers, lingering, mailbox,
                 listening, gone, crashed>>

(* Sunnet::Closeconn: RemoveConn, close() and, if there was an entry in    *)
(* Conns, RemoveEvent.                                                     *)
RemoveConn(s) ==
  /\ closing[s].next = "remove"
  /\ conns' = [conns EXCEPT ![closing[s].fd] = NoConn]
  /\ closing' = [closing EXCEPT ![s].next =
                   IF conns[closing[s].fd] = NoConn THEN "close last" ELSE "close"]
  /\ UNCHANGED <<kernelVars, workerVars, made, fdOf, serviceOf, listeners, closed,
                 writers, lingering, mailbox, listening, gone, crashed>>

Close(s) ==
  /\ closing[s].next \in {"close", "close last"}
  /\ CloseFd(closing[s].fd)
  /\ closing' = [closing EXCEPT ![s] =
                   IF @.next = "close" THEN [@ EXCEPT !.next = "unwatch"] ELSE NoClose]
  /\ UNCHANGED <<came, backlog, pulse, workerVars, connVars, writers, lingering, mailbox,
                 listening, gone, crashed>>

(* EPOLL_CTL_DEL, of whatever the descriptor is for now. *)
RemoveEvent(s) ==
  /\ closing[s].next = "unwatch"
  /\ watched' = watched \ {closing[s].fd}
  /\ pulse' = pulse \ {closing[s].fd}
  /\ closing' = [closing EXCEPT ![s] = NoClose]
  /\ UNCHANGED <<came, backlog, fds, workerVars, connVars, writers, lingering, mailbox,
                 listening, gone, crashed>>

(* processMsg after KillService: the service goes with its mailbox and its *)
(* writers, and its sockets stay open.                                     *)
Exit(s) ==
  /\ Idle(s)
  /\ gone' = gone \cup {s}
  /\ mailbox' = [mailbox EXCEPT ![s] = <<>>]
  /\ writers' = [writers EXCEPT ![s] = [d \in AnyFd |-> NoConn]]
  /\ lingering' = [lingering EXCEPT ![s] = {}]
  /\ UNCHANGED <<kernelVars, workerVars, connVars, closing, listening, crashed>>

-----------------------------------------------------------------------------
SocketWorkerStep ==
  \/ EpollWait \/ AddAccepted \/ Watch \/ Notify
  \/ \E d \in Fds, in \in BOOLEAN :
       LET e == [fd |-> d, in |-> in] IN OnRW(e) \/ Accept(e)

ServiceStep(s) ==
  \/ Socket(s) \/ AddListener(s) \/ AddEvent(s)
  \/ OnAcceptMsg(s) \/ Ignore(s) \/ FollowNull(s) \/ OnRWMsg(s)
  \/ Read(s) \/ OnKeep(s) \/ OnEnd(s)
  \/ \E d \in AnyFd : CloseConn(s, d) \/ UseNull(s, d)
  \/ RemoveConn(s) \/ Close(s) \/ RemoveEvent(s)
  \/ Exit(s)

Next ==
  /\ ~crashed
  /\ \/ SocketWorkerStep
     \/ \E s \in Services : ServiceStep(s)
     \/ \E d \in Fds : Connect(d)

Spec == Init /\ [][Next]_vars

-----------------------------------------------------------------------------
(* Type invariant. *)
Messages ==
  [type : {"accept"}, conn : Conns, fd : AnyFd]
    \cup [type : {"rw"}, conn : Conns, asks : {"read", "write", "close"}]

TypeOK ==
  /\ came \in 0 .. MaxClients /\ made \in 0 .. MaxConns
  /\ backlog \in [Conns -> 0 .. MaxClients]
  /\ pulse \subseteq watched
  /\ fds \in [Fds -> Conns \cup {NoConn}]
  /\ watched \subseteq {d \in Fds : fds[d] # NoConn}
  /\ batch \subseteq [fd : Fds, in : BOOLEAN]
  /\ accepting \in [conn : Conns \cup {NoConn}, on : Conns \cup {NoConn},
                    next : {"event", "add", "watch", "notify"}]
  /\ conns \in [AnyFd -> Conns \cup {NoConn}]
  /\ fdOf \in [Conns -> AnyFd]
  /\ serviceOf \in [Conns -> Services \cup {NoService}]
  /\ listeners \subseteq 1 .. made
  /\ closed \subseteq 1 .. made \ listeners
  /\ writers \in [Services -> [AnyFd -> Conns \cup {NoConn, NullConn}]]
  /\ lingering \in [Services -> SUBSET AnyFd]
  /\ mailbox \in [Services -> Seq(Messages)]
  /\ closing \in [Services -> [fd : AnyFd,
           next : {"message", "read", "remove", "close", "close last", "unwatch"}]]
  /\ listening \in [Services -> [conn : Conns \cup {NoConn},
                                 next : {"message", "add", "watch"}]]
  /\ gone \subseteq Services
  /\ crashed \in BOOLEAN

(* Conns never names a connection for a descriptor that the kernel has     *)
(* given to another, so no event of one goes to the other: the entry goes  *)
(* before the descriptor is closed and comes after it is handed out.  And  *)
(* a descriptor that is open is known to Conns, so that its events reach   *)
(* its service and whoever closes it also removes it from epoll, unless it *)
(* is about to be added or closed, or is a socket that could not be bound. *)
ConnsAreOpen ==
  \A d \in Fds :
    /\ conns[d] # NoConn => fds[d] = conns[d]
    /\ fds[d] # NoConn /\ serviceOf[fds[d]] # NoService =>
         \/ conns[d] = fds[d]
         \/ \E s \in Services : /\ closing[s].fd = d
                                /\ closing[s].next \in {"close", "close last"}

(* A message about a live connection finds the writer of that connection   *)
(* when its turn comes, though writers is keyed by a descriptor that was   *)
(* another's: OnRWMsg follows the pointer without a test.                  *)
WriterIsThere ==
  \A s \in Services : \A i \in 1 .. Len(mailbox[s]) :
    LET m == mailbox[s][i] IN
      m.type = "rw" /\ m.conn \notin closed /\ fdOf[m.conn] # NoFd =>
        \/ writers[s][fdOf[m.conn]] = m.conn
        \/ \E j \in 1 .. i - 1 : /\ mailbox[s][j].type = "accept"
                                 /\ mailbox[s][j].conn = m.conn
                                 /\ writers[s][fdOf[m.conn]] = NoConn
                                 /\ conns[fdOf[m.conn]] = m.conn

(* A null pointer is followed only where an accept() has failed before:    *)
(* the writers of the connections that have a descriptor have them, and a  *)
(* message about one never comes before its writer.                        *)
CrashesAfterFailure == crashed => \E c \in 1 .. made : fdOf[c] = NoFd

-----------------------------------------------------------------------------
(* What holds besides, so that those hold after every step.                *)

IsOpen(c) == fdOf[c] \in Fds /\ fds[fdOf[c]] = c

(* The kernel and Conns only have Conn objects that were made, each under  *)
(* its own descriptor, and a Conn in Conns has its service.                *)
Numbered ==
  /\ \A c \in Conns : c > made => fdOf[c] = NoFd /\ serviceOf[c] = NoService
  /\ \A d \in Fds : fds[d] # NoConn => fds[d] <= made /\ fdOf[fds[d]] = d
  /\ \A d \in AnyFd : conns[d] # NoConn => /\ conns[d] <= made
                                           /\ fdOf[conns[d]] = d
                                           /\ serviceOf[conns[d]] \in Services

(* Nobody closes the descriptor of a connection that was not closed, a     *)
(* listening one never is, and only listening ones are pending in epoll.   *)
OpenUntilClosed ==
  /\ \A c \in 1 .. made \ closed : fdOf[c] # NoFd => IsOpen(c)
  /\ \A c \in listeners : fdOf[c] # NoFd
  /\ \A d \in pulse : fds[d] \in listeners
  /\ \A c \in Conns : backlog[c] <= came

(* The first message is the one that is read for. *)
ReadsItsMessage ==
  \A s \in Services : closing[s].next = "read" =>
    /\ mailbox[s] # <<>> /\ Message(s).type = "rw"
    /\ Message(s).conn \notin closed /\ closing[s].fd = Subject(s)

(* Until it calls close() a service that closes has the descriptor of a    *)
(* closed connection of its own, which Conns has until RemoveConn, if it   *)
(* is not -1.                                                              *)
ClosesItsOwn ==
  \A s \in Services : LET d == closing[s].fd IN
    d # NoFd /\ closing[s].next \in {"remove", "close", "close last"} =>
      /\ fds[d] \in closed /\ serviceOf[fds[d]] = s
      /\ \/ closing[s].next = "remove" /\ conns[d] = fds[d]
         \/ closing[s].next = "close" /\ conns[d] = NoConn

(* The connection that OnAccept is at is new to everyone but Conns, if it  *)
(* has a descriptor, and from AddConn on it has the listening service.     *)
AcceptsNew ==
  LET c == accepting.conn  l == accepting.on IN
    c # NoConn =>
      /\ c <= made /\ c \notin listeners
      /\ fdOf[c] # NoFd \/ accepting.next = "add" => c \notin closed
      /\ l \in listeners /\ serviceOf[l] \in Services
      /\ serviceOf[c] = IF accepting.next = "add" THEN NoService ELSE serviceOf[l]

(* A socket that Listen is at is one service's, and new to Conns.          *)
ListensNew ==
  /\ \A s \in Services : listening[s].next # "message" =>
       /\ listening[s].conn \in listeners
       /\ listening[s].next = "add" => serviceOf[listening[s].conn] = NoService
  /\ \A s, t \in Services :
       /\ listening[s].next # "message" /\ listening[t].next # "message"
       /\ listening[s].conn = listening[t].conn
       => s = t

(* A message is for the service of its connection, which does not listen.  *)
(* OnAccept has left the connection, and a message about a new one finds   *)
(* it not closed and without a writer.  Of a connection without a          *)
(* descriptor only this is so: who sends about it asks to close it.  Who   *)
(* has exited has no messages.                                             *)
Arrives(s, m) ==
  /\ m.conn <= made /\ m.conn \notin listeners /\ serviceOf[m.conn] = s
  /\ m.type = "accept" => m.fd = fdOf[m.conn]
  /\ IF fdOf[m.conn] # NoFd
     THEN /\ m.conn # accepting.conn
          /\ m.type = "accept" => m.conn \notin closed /\ writers[s][m.fd] = NoConn
     ELSE m.type = "rw" => m.asks = "close"

MessagesArrive ==
  \A s \in Services :
    /\ s \in gone => mailbox[s] = <<>>
    /\ \A i \in 1 .. Len(mailbox[s]) : Arrives(s, mailbox[s][i])

(* The SocketAcceptMsg of a connection is the first message about it, if   *)
(* it has a descriptor.                                                    *)
AcceptedFirst ==
  \A s \in Services : \A i, j \in 1 .. Len(mailbox[s]) :
    /\ mailbox[s][i].type = "accept" /\ mailbox[s][i].fd # NoFd
    /\ mailbox[s][j].conn = mailbox[s][i].conn
    => i <= j

(* The writer under a descriptor is for a connection of the service that   *)
(* is not closed, and every such connection has one or will have.  That    *)
(* under -1 is for one without a descriptor, or for none.                  *)
Waits(c) ==
  /\ c \notin closed \cup listeners /\ c # accepting.conn
  /\ fdOf[c] # NoFd /\ serviceOf[c] \in Services \ gone

WritersAreLive ==
  /\ \A s \in Services, d \in Fds : LET c == writers[s][d] IN
       c # NoConn => /\ c \in 1 .. made /\ fdOf[c] = d /\ serviceOf[c] = s
                     /\ c # accepting.conn /\ c \notin closed \cup listeners
  /\ \A s \in Services : LET c == writers[s][NoFd] IN
       /\ c # NoConn => \E k \in 1 .. made : fdOf[k] = NoFd
       /\ c \notin {NoConn, NullConn} =>
            c \in 1 .. made /\ fdOf[c] = NoFd /\ serviceOf[c] \in Services
  /\ \A c \in 1 .. made : Waits(c) =>
       LET s == serviceOf[c] IN
         \/ writers[s][fdOf[c]] = c
         \/ \E i \in 1 .. Len(mailbox[s]) : /\ mailbox[s][i].type = "accept"
                                            /\ mailbox[s][i].conn = c

(* Together: a descriptor that is used again leads to the connection that  *)
(* has it, in the kernel, in Conns and in the service.                     *)
Inv == TypeOK /\ ConnsAreOpen /\ WriterIsThere /\ CrashesAfterFailure

IInv ==
  /\ Inv
  /\ Numbered /\ OpenUntilClosed /\ ReadsItsMessage /\ ClosesItsOwn
  /\ AcceptsNew /\ ListensNew
  /\ MessagesArrive /\ AcceptedFirst /\ WritersAreLive
=============================================================================
