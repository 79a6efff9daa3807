\* Two services, up to two listening sockets, three clients, six Conn objects, three
\* descriptors.  Epoll is asked when the mailboxes are empty: what comes meanwhile
\* comes in a batch of events or from sunnet.CloseConn.
SPECIFICATION Spec
CONSTANTS
  NoService = NoService
  Services = {s1, s2}
  Fds = {3, 4, 5}
  MaxConns = 6
  MaxClients = 3
  MaxListens = 2
  MaxMessages = 1
SYMMETRY Symmetry
INVARIANT IInv
CHECK_DEADLOCK FALSE
