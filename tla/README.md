# Sunnet in TLA+

A model of the actor server in this repository: services written in Lua, each
with a mailbox, run by a pool of worker threads; a socket thread and a timer
thread turn kernel events and timeouts into messages to services.  The Lua 5.3.5
that is built with the server is modelled too, since every service runs in it.

## 1. The system

### Threads

`Sunnet::Start` starts `WORKER_NUM` worker threads, one socket thread and one
timer thread.  `main` creates the first service and waits.  Lua code only ever
runs on a worker (in a handler or in `OnExit`) and on the thread that calls
`NewService` (in `OnInit`).

### Components

| component | state | operations | talks to |
|---|---|---|---|
| **Scheduler** (`Sunnet.cpp`, `Worker.cpp`, `Service.cpp`) | `Service::msgQueue`, `inGlobal`, `is_Exiting`; `globalQueue`, `globalLen`, `sleepCount` | `Send`, `PushMsg`, `PopGlobalQueue`, `processMsgs`, `CheckAndPutGlobal`, `checkAndWeakUp`, `WorkerWait`, `OnExit` | every other component calls `Send`; workers call Lua |
| **Service table** (`Sunnet.cpp`) | `services`, `names`, `maxId`, `Service::name` | `NewService`, `OnInit`, `KillService`, `GetService`, `Name`, `QueryName`, `GetServiceName` | scheduler (lookup), Lua API |
| **Coroutines and RPC** (`Service.cpp`, `LuaApi.cpp`) | `nextSession`, `sessionCoRefs`, `coRpcContexts`, the Lua threads | `OnServiceMsg`, `OnRetMsg`, `OnTimerMsg`, `StartCallbackCoroutine`, `ResumeCoroutineRef`, Lua `Call`, `Ret`, `Sleep`, `Fork` | `Send` for calls and answers, `Timeout` for sleeps |
| **Timer** (`Sunnet.cpp`, `TimerWorker.cpp`) | `timerQueue` under `timerMtx`, `timerCond` | `Timeout`, the loop of `TimerWorker` | `Send` of `TimerMsg` |
| **Descriptors and SocketWorker** (`Sunnet.cpp`, `SocketWorker.cpp`) | `Conns` under `connsLock`, the epoll set | `Listen`, `AddConn`, `RemoveConn`, `Closeconn`, `OnAccept`, `OnRW`, `OnEvent`, `AddEvent`, `RemoveEvent` | kernel; `Send` of accept and read/write messages |
| **Connection and write buffer** (`Service.cpp`, `ConnWriter.cpp`) | `writers`; per connection `closed`, `isClosing` and the list of unfinished writes | `OnAcceptMsg`, `OnRWMsg`, `EntireWrite`, `LingerClose`, `OnWriteable`, `ModifyEvent` | kernel, `Closeconn`, Lua `OnSocketData`, `OnSocketClose` |
| **Serialisation** (`LuaApi.cpp`, `Service.cpp`) | none | `PackValue`, `UnpackValue` and the message layout | Lua values |
| **Lua services** (`service/`) | the examples main, db, ping, chat | | Lua API |

The parts of Lua (`3rd/lua-5.3.5/src`), one Lua state to a service:

| component | state | operations | used by |
|---|---|---|---|
| **Interpreter and compiler** (`lparser.c`, `lcode.c`, `lvm.c`) | the function being compiled with its scopes, jumps and registers; the stack, frames, upvalues and tables of the program | `luaY_parser`, `luaV_execute` | `OnInit` compiles and runs `init.lua` |
| **Calls, errors and coroutines** (`ldo.c`, `ltm.c`, `lapi.c`, `lauxlib.c`, `lcorolib.c`) | the stack of each thread, its `CallInfo`s, the C stack, `nny`, `nCcalls`, `errfunc`; buffers on the stack | calls, tail calls, `pcall`, errors, metamethods, `resume`, `yield`; `lua_settop`, `lua_rotate`, `lua_xmove`, `lua_checkstack`; `luaL_Buffer` | every handler is a coroutine; `Sleep` and `Call` yield it |
| **Garbage collector** (`lgc.c`, `lfunc.c`, `lstring.c`) | the colours, the gray and weak lists, `allgc`, `finobj`, `tobefnz`, the sweep, the short strings and their cache | `singlestep`, `luaC_fullgc`, `GCTM`, the barriers | any operation of a program |
| **Tables and references** (`ltable.c`, `lauxlib.c`) | array part, nodes and their chains, `lastfree` | `luaH_set`, `luaH_resize`, `luaH_getn`, `luaH_next`, `luaL_ref`, `luaL_unref` | `sessionCoRefs` holds references |
| **Reading** (`llex.c`, `lobject.c`, `ldump.c`, `lundump.c`, `lauxlib.c`) | none that lasts | `luaX_next`, `luaO_str2num`, `luaL_loadfilex`, `luaU_dump`, `luaU_undump` | the files of services |
| **String, table and utf8 libraries** (`lstrlib.c`, `ltablib.c`, `lutf8lib.c`) | none that lasts | `find`, `match`, `gsub`, `string.pack`, `sort`, `concat`, `move`, `utf8.codepoint`, ... | the Lua code of services |

### Where it is hard

* Two locks per service and one for the global queue decide who may schedule a
  service.  The flag `inGlobal` is set after the push and cleared under another
  lock than the one that protects the queue (`Sunnet.cpp:169-177`,
  `Worker.cpp:13-24`).
* The wake-up of sleeping workers is deliberately not atomic
  (`Sunnet.cpp:196-222`).
* A service is in the table before its `OnInit` has run, and a sender can hold a
  service object after it left the table.
* Answers, timeouts and kills reach a coroutine by a session number from a
  32-bit counter, with nothing to withdraw them.
* File descriptors are reused by the kernel while messages that name them are
  still queued (`Sunnet.cpp:299-308`, `SocketWorker.cpp:81-106`).
* Edge-triggered events must be drained, and a connection that lingers is
  closed by whichever event comes last.
* A service that exits leaves its sockets and what is queued for it behind.
* Lua: a program changes the heap between any two steps of the collector; a
  coroutine that yields inside protected calls and metamethods loses its C stack;
  variables captured by closures must outlive the block that any `break` or
  `goto` leaves; registers are used again while a list is still being evaluated.

### What makes each component correct

* Scheduler: one worker at a time per service; messages in the order of arrival
  and each once; none left behind; `OnExit` once and last; no blocking in `Send`;
  workers woken for work.
* Service table: a name leads to the service that has it as long as it lives,
  and goes with it; nobody else is in a Lua state when it is closed.
* Coroutines: an answer resumes the coroutine that asked, once; what a suspended
  coroutine waits for exists somewhere; sleeps and calls end, with the exceptions of
  section 7.
* Timer: no timer fires early or twice; the timer thread never waits past the
  first deadline; every timer fires.
* Descriptors: no message about one connection reaches another that has its
  descriptor; every connection is accepted and heard.
* Connection: bytes leave in the order in which they were written; no event that
  is needed is lost; a connection closes at the end of the stream, and after its
  last byte when the service closes it.
* Serialisation: the receiver gets a copy of each argument in its place, and
  packing fails only for the type or the depth of a value.
* Lua's compiler and interpreter: a program does what its text says; the code is
  code that may be executed without checks.
* Calls and coroutines: an error reaches the innermost protected call, or whoever
  resumed; a coroutine can yield exactly when it can be continued.
* Collector: nothing that can be reached is freed, and only what cannot be reached
  is finalized.
* Tables: a table is a map, a traversal visits each field once, and no reference
  is given out twice.
* Reading and libraries: each computes what its manual says, at the boundaries of
  its integers and buffers too.

## 2. Plan

In this order, the most important behaviour first:

1. `Mailbox`, `Scheduler`: the core, its refinement and its proofs (proved).
2. `AlarmClock`, `Timer`: the same (proved).
3. `Rpc`: sessions, coroutines, calls, answers, sleeps and exits, over the
   mailboxes and alarms of 1 and 2 (proved).
4. `Registry`: the service table, names, `NewService`/`OnInit`, `KillService`
   (proved).
5. `ByteStream`, `Connection`: one connection, its events and its write buffer, and
   its refinement (proved).
6. `Descriptors`: listen, accept, descriptor reuse, epoll registration, close and
   services that exit (proved).
7. `Serialize`: packing and unpacking (proved).
8. Lua, from what the server leans on most: `LuaMap` and `LuaTable` (references),
   `LuaCoroutines` and `LuaCalls`, `LuaGC`, then the compiler and interpreter, the
   reader and the libraries (checked).

"Proved" means the inductive invariant of the module and the safety properties that
follow from it; liveness is checked only (section 6).  The recursive calls of
`Serialize` are a stack and can be proved about; most of the Lua modules have
recursive operators, as the code has, and stay with TLC.

## 3. Modules

A definition whose name ends in `Slip` is the definition after it with a plausible
programming slip; no specification uses it.  Each property is checked to be
violated when a slip takes the place of the original (`PROJECT.json`,
"mutants").
An `MC` module holds what an instance needs besides constants; `Timer` and
`Connection` need no more than their `.cfg`.

### Mailbox

The abstract promise to the author of a service: a mailbox per service, `Start`,
`Kill`, `Finish` and `Exit` of a handler.  No locks, threads or flags.

### Scheduler, Scheduler_proofs, MCScheduler

One step is a critical section, or the part of one between two points where
another thread can see the difference.

| actions | code |
|---|---|
| `SendLookup`, `PushMsg`, `SendCheck`, `SendMark` | `Sunnet::Send`, `Service::PushMsg`; `SendCheck` and `SendMark` are the two halves of the `inGlobalLock` section, because `PushGlobalQueue` publishes the service before `inGlobal` is set |
| `WakeCount`, `WakeSignal` | `checkAndWeakUp`; `sleepCount` is read twice without the lock, and the second read may give the old or the current value |
| `PopGlobalQueue`, `WaitEnter`, `WaitSleep`, `SpuriousWake`, `WaitLeave` | the worker loop and `WorkerWait` |
| `PopMsg`, `KillService`, `KillErase`, `EndMsg`, `OnExit` | `processMsgs`, `processMsg`, `Sunnet::KillService` |
| `DropExiting`, `CheckQueue`, `PutGlobal`, `ClearInGlobal` | `CheckAndPutGlobal`, `SetInGlobal` |

`globalLock`, `serviceLock` and the locks inside one step need no variable;
`queueLock`, `inGlobalLock` and `sleepMtx` are held across steps and record
their owner.  A message is a pair of its sender and a number.  `globalLen` is the
length of `globalQueue`: both change in the same `globalLock` section.

### AlarmClock, Timer, Timer_proofs

`AlarmClock` is what `Sunnet::Timeout` promises: an alarm that is set rings once
and not before its time.  `Timer` has the heap `timerQueue` (a set of nodes, of
which any with the smallest expiry may be the top: equal expiries are in no
order), the lock `timerMtx` with its owner, and a clock that ticks several times
in a millisecond.  `TimeoutBegin` reads the clock and `TimeoutPush` is the
critical section of `Timeout`, with the test that decides whether to signal.
`ScanEmpty`, `ScanExpired`, `ScanPending`, `Fire` and `Relock` are the loop of
`TimerWorker`; `Fire` is `Send` without the lock.  The wait is truncated to
milliseconds as the code does, and ends by a signal, by its deadline or for no
reason.

### Rpc, Rpc_proofs, MCRpc

Sessions and coroutines of all services, over mailboxes and timers taken from
the promises of `Mailbox` and `AlarmClock`: one thread at a time is in a service,
so a step is the start of a handler (`OnSend`, `OnCall`, `OnWakeUp`), one call of
the API (`Call`, `CallFails`, `Sleep`, `Ret`, `Send`, `Fork`, `KillService`) or
the end of a coroutine (`End`, `EndForked`).  `stack` is the nest of coroutines
that a service is running (`Fork` runs its function at once).  The milliseconds of
`Sleep` go through `uint32_t` and `int` as in the code, whose range is twice
`HalfRange`.  Each entry of `sessionCoRefs` has a serial number the program does not
have: the properties need it to say whom an answer was meant for.

`Call` and `Sleep` end in `lua_yield` (`Yield`), which suspends the coroutine or, inside
a C function such as `table.sort`, raises an error in it.  The session, the request and
the timer are there in both cases.  After an error the coroutine runs on, yields again or
ends while it is in `sessionCoRefs`, and the answer or the timer resumes it in whatever
it does then (`Resume`).  `asleep` is the status of the Lua thread, with the number it
yielded under; `raised` is history: the coroutines in the table of which a yield has
raised.  A coroutine of the model is one that the service or `Fork` has made: those
that a handler makes with `coroutine.create` are not in it.

### Registry, Registry_proofs, MCRegistry

The service table, the names, and the threads inside the Lua state of a service:
`frames` is what a thread runs, a handler or an `OnInit` that was called from
another one's Lua.  `NewService` is the section of `serviceLock` that publishes
the service, `OpenLua`, `InitReturns` and `InitFails` are `OnInit`, `EraseFailed`
the section after a failure; `NameLookup` and `NameWrite`, and `KillFlag` and
`KillErase`, are the two sections of `Name` and `KillService`.  Of the mailboxes
only matters which have a message.  A thread that enters a Lua state which is not
open goes no further.  As the comment of `KillService` demands, a service kills
itself in a message handler only.

### ByteStream, Connection, Connection_proofs

`ByteStream` is what a connection promises the service that writes to it: the bytes
leave in order and once, when it suits the kernel, nothing is added after
`CloseConn`, and the connection closes with the last byte, or earlier when the peer ends
the stream.  No queue, no epoll, no messages.

`Connection` is one client connection between two sides that act on their own: the
worker that handles its messages, and the kernel with the peer.

| definitions | code |
|---|---|
| `TakeMessage`, `ReadData`, `DataReturns`, `ReadNothing`, `ReadEnd` | `OnRWMsg` and `OnSocketData`, a step per `read` |
| `Write` (`WriteWhenEmpty`, `WriteWhenNotEmpty`), `Watch` | `EntireWrite`, a step per system call: `write`, then `ModifyEvent` |
| `WriteFront`, `WritePart`, `WriteError`, `Drained` | `OnWriteable` and `WriteFrontObj`, a step per `write` |
| `CloseConn`, `AskToClose` | `LingerClose` |
| `OnEvent` | `epoll_wait`, `SocketWorker::OnEvent`, `OnRW` |
| `PeerSends`, `PeerCloses`, `PeerResets`, `PeerReads` | external: the peer |

The kernel is modelled from how the code uses it: a bounded send buffer, `write`
that takes what fits or fails with `EAGAIN`; epoll that lists the socket when
something happens to it or `EPOLL_CTL_MOD` finds it ready, and reports its state
when `epoll_wait` takes it off.  Bytes are numbered in the order Lua writes them.
`read` that returns 0 leaves `errno` as it was: the constant `Errnos` says what it
may have been left at by another call of the thread.

### Descriptors, Descriptors_proofs, MCDescriptors

All the connections and the descriptors they use.  `SocketWorker` handles a batch
of events (`EpollWait`, `OnRW`, and `Accept`, `AddAccepted`, `Watch`, `Notify` of
`OnAccept`), while each service handles its messages, goes through the three steps of
`Closeconn` (`RemoveConn`, `Close`, `RemoveEvent`) and of `Listen` (`Socket`, which may
fail, `AddListener`, `AddEvent`), or exits with everything open (`Exit`).  What happens
on a connection is left to `Connection`: an event comes at any time, a read ends the
connection or does not, what a writer was given is written by then or is not.

| definitions | code |
|---|---|
| `OnAcceptMsg` | the same: the writer gets what `GetConn` finds, or a null pointer (`NullConn`) |
| `Ignore`, `FollowNull`, `Read`, `OnRWMsg` | `OnRWMsg` up to its reads: a closed connection, no writer for the descriptor, a message that is read for, one that is not |
| `OnKeep`, `OnEnd` | its end, with `OnSocketClose` |
| `CloseConn` | `LingerClose`, which posts the message that closes if nothing is left to write |
| `HandledWrite` | `OnWriteable`, which posts it with the last write |
| `UseNull` | `Write` and `LingerClose` of a writer without a connection |

So a connection is also closed without epoll: one that is deaf, and that with the
descriptor -1 which `Accept` makes when it fails.  `Conns` keeps one connection under
-1, of whatever service, and each service one writer.  `crashed` says that a null pointer
was followed, after which nothing happens.

### Serialize, MCSerialize, Serialize_proofs

The arguments of `Send`, `Call` and `Ret`.  Lua ties tables into any graph
(`SetTable`), pushes values (`Push`) and sends them; `PackValue` writes them in
every order in which `lua_next` may visit a table, with the depth limit of the
code, and `UnpackValue` makes new tables from the cells.  Both call themselves:
the calls that have not returned are a stack of frames, one for each table, and an
action is what happens between two calls or returns (`PackScalar`, `PackTable`,
`EndOfTable`, `PackFails`; `UnpackValue`, `UnpackEnds`).  The argument count is
one byte in the code and has `ArgBits` bits here.  A string that looks like a
number is one for `lua_isnumber`, and `Scalar` says what arrives.  `src` and
`trail` are history: for what each cell was written, and the states that
`PackValue` went through.

### LuaMap, LuaTable, MCLuaTable

`LuaMap` is a map that can be traversed while fields are cleared, and a set of
references.  `LuaTable` is `ltable.c`: main positions, Brent's variation for
collisions (`NewKey`, `Collide`, `ChainIn`), `Rehash` with `ComputeSize`, the
border search of `luaH_getn`, `Following` for `luaH_next`; and `Ref` and `Unref`,
which keep a list of the free references in the table itself.  `Collect` is the
collector marking a key dead.  The refinement maps the nodes to a function.

### LuaCoroutines, LuaCalls, MCLuaCalls

`LuaCoroutines` says what a program sees: one stack of calls to a coroutine, errors
to the innermost protected call, yields that fail across C functions without a
continuation.  `LuaCalls` has what implements it: `CallInfo`s, one C stack `C` for
all threads that a throw cuts back (`Throw`), `nny`, `nCcalls`, the error status
with its extra C calls, `finishOp` and `unroll` for what was interrupted, and the
`<=` that is computed by `not (b < a)` with its mark in the `CallInfo`.

### LuaGC, MCLuaGC

The incremental collector of one state.  `g` is the global state with the colours
and lists; the program (`Get`, `Create`, `RawSet`, `SetMetatable`, `PushClosure`,
`PushCached`, `SetUpVal`, `Close`, `Resume`, `Yield`, `PushLString`, `PushString`) may
act between any two `GCStep`s, ask for a full or emergency collection, or be interrupted by a
finalizer (`RunFinalizer`).  `Atomic` is `atomic()` phase by phase: ephemerons
to convergence, clearing before and after the finalizers bring objects back.
`InternShrStr` finds a short string that is there, also one about to be freed, which
it takes back; `PushString` first looks in the cache that `ClearCache` empties of
what will be freed.

### LuaWriter, LuaPrograms, MCLuaPrograms

`LuaWriter` writes a text piece by piece: a theme gives the pieces before and after,
the simple ones, the heads of blocks that may be opened, and how many.  When it is
complete, `DoFile` hands it to Lua.  A theme is of a kind: a program, or a text,
string, numeral, file, pattern, chunk, format, list, byte string or series of calls of
the C API for `LuaLibrary`.

For a program, `LuaParser` is the one-pass parser with its scopes, upvalues, labels
and pending gotos, over `LuaCode`, the code generator with jump lists, constants and
registers; `LuaVM` executes the code; and `LuaMeaning` is an interpreter of the
syntax tree in which every variable is a cell of its own, with the text of the
program (`Lines`) and the rule of when it is legal (`Legal`).  `LuaPrograms` compares
the two, and states what the interpreter takes for granted of the code.

### LuaLibrary over LuaLex, LuaLoad, LuaDump, LuaPattern, LuaPack, LuaTabLib, LuaUtf8, LuaStack

| module | code | compared with |
|---|---|---|
| `LuaLex` | `llex`, `read_string`, `read_long_string`, `read_numeral`, `l_str2int`; `addquoted` of `lstrlib.c` | the tokens are the text without blanks and comments, a numeral has the value of its digits, `%q` reads back |
| `LuaLoad` | `luaL_loadfilex`, `skipBOM`, `skipcomment`, `f_parser` | the chunk is what follows the mark and the comment |
| `LuaDump` | `luaU_dump`, `luaU_undump` and the check of the header | a function loads back as it was, or without its debug information |
| `LuaPattern` | `match` and its captures, `str_find_aux`, `gmatch`, `str_gsub` | the set of all the ways to match, the best of them first |
| `LuaPack` | `string.pack`, `packsize`, `unpack` and their options | what is packed reads back, in its size, in both orders of bytes, at its alignment; what does not fit is refused |
| `LuaTabLib` | `sort`, `insert`, `remove`, `concat`, `move`, `pack`, `unpack` | `sort` keeps the elements whatever the order function says and orders them when it is one; moves as if through a copy |
| `LuaUtf8` | `utf8_decode`, `codepoint`, `len`, `offset`, and `luaO_utf8esc` | decoding is the inverse of encoding, and nothing else is accepted |
| `LuaStack` | `index2addr`, `lua_settop`, `lua_rotate`, `lua_copy`, `lua_xmove`; `luaL_Buffer`; how `StartCallbackCoroutine` and `Fork` move a function to its coroutine | the stack is a list; a buffer gives back what was added and leaves the stack as it was |
| `LuaStack`, its size | `luaD_growstack`, `luaD_shrinkstack`, `lua_checkstack`, `luaD_precall`, `luaD_poscall`, the end of `luaD_pcall` | no frame ends behind the stack, and a call fails exactly when there is no room |

`LuaLex`, `LuaParser` to `LuaVM` and `LuaTabLib` follow the C code closely enough to
be compared with it: `llex` of the Lua built from `3rd/lua-5.3.5` was run on 8000 texts
written at random and the programs `luac -l` and `lua` on 4000, and the tokens, the
instructions and the results were those of the modules.

## 4. Runs

| run | question |
|---|---|
| `scheduler_mailboxes` | the inductive invariant (one place per service, `sleepCount` exact, nothing after `OnExit`); no stranded message; every behaviour is one of `Mailbox`; messages are handled unless the pool is stuck, a push wakes a sleeping pool, `Send` returns |
| `scheduler_lost_wakeup` | ends in a violation: section 7 |
| `timer_alarm_clock` | the inductive invariant (the thread waits for the first timer, no timer is lost or sent twice); every behaviour is one of `AlarmClock`; every timer fires |
| `rpc_calls` | the inductive invariant: an answer or timeout finds the suspension it is meant for, and its coroutine there unless a yield has raised; what leads to a suspension is in exactly one place, and nowhere for a long sleep; a coroutine that has yielded can be resumed.  Sleeps that are not long end; calls end unless they are hopeless for a reason the property names |
| `registry_safety` | the inductive invariant: a live service is found under its name.  Names are not taken from the living |
| `connection_events` | the inductive invariant: bytes in order, a queued write and unread data have an event to come; the request to close is last, and no close cuts off writes unless the peer ended the stream; every behaviour is one of `ByteStream`.  The end of the stream and `CloseConn` close and queued writes are written, with exceptions that the properties name |
| `descriptors_safety` | the inductive invariant: `Conns` and `writers` keep to the right connection while connections are closed and descriptors are used again, accepts fail and services exit; a null pointer is followed only after an accept has failed |
| `messages` | the inductive invariant of packing and unpacking; packing fails only for the type or the depth of a value, otherwise the receiver handles a copy of the arguments, with shared tables copied once for each place |
| `lua_gc` | what can be reached is in a list and not dead, and equal strings are one; no black object refers to a white one while the collector marks, and the sweep leaves the colours as they were; only what cannot be reached is finalized |
| `lua_tables` | a table is a map; its length is a border; every behaviour is one of `LuaMap` |
| `lua_calls` | `nny` and `nCcalls` count what is on the C stack; an error has a `pcall` to go to, on the C stack or in a `CallInfo`; a suspended coroutine can be continued; every behaviour is one of `LuaCoroutines` |
| `lua_programs` | programs are compiled when they are legal, do what they say and have sound code; the reader, `string.dump`, `string.pack`, the patterns, the table and utf8 libraries and the stack of the C API do what section 3 compares them with |

## 5. Bounds and fairness

**Scheduler.**  Two workers are enough for every race on one service (a worker
that leaves it and one that takes it) and for a pool that is partly asleep.  A
thread outside the pool and a handler race for `inGlobal`; with two messages
from the one and one from the other, a service gets more messages than
`eachNum` = 2 in one turn and is put back.  Two services let a worker be busy
elsewhere.

**Timer.**  Three timers of 0 or 1 ms and two ticks to a millisecond: a new first
timer while the thread waits for another one, equal deadlines, and a wait that
is truncated.  `MaxNow` bounds the clock.

**Rpc.**  Two services call each other and themselves; two suspensions in all, so
that a call can wait for a sleep or for another call, and a coroutine of which one
yield has raised can yield again and be resumed by the wrong wake-up; `MaxSession` is
not passed.  `HalfRange` = 2 and naps of 0 and 2: a sleep with a timer of no time, and
one of half the range, which is long.  A service has up to three coroutines: one that
yielded, one that runs and one that it forks.  They are numbers, and `FirstUnused` lets
the run give out the first that is unused: those that are unused differ in
nothing but their names, so the others would add no behaviour but a renamed one.

**Registry.**  Two services, two names, two workers and the main thread: a name
freed by one service and taken by the other, and a call of `Name` on a service
that is dying.

**Connection.**  The read buffer holds two bytes and the peer sends up to three:
reads that fill the buffer and that do not, and an end that comes with data or
after it.  The send buffer holds one byte, writes are of none, one and two:
writes that fit, that are cut, that find no room, and empty ones in front of the
queue and behind others.  The peer resets, and `errno` is left at `EAGAIN` or
not.  The variable `missed` is not in the program: it remembers that a read
stopped at the end of the stream without noticing it, which `EndCloses` and
`CloseConnCloses` name as an exception.

**Descriptors.**  Two services, up to two listening sockets, three clients, six `Conn`
objects on three descriptors: a descriptor is used again by either service, for a client
or to listen, and the process runs out of them.  Accepts then fail, twice if need be:
the second has its connection not in `Conns` and a writer that is there, or one without
a connection.  `EpollWait` waits until all mailboxes are empty (`MaxMessages` = 1): what is
queued together comes from one batch, from an accept, and from `CloseConn`.  The
services are symmetric.

**Serialize.**  Two tables and four operations: a table that holds itself, two that
hold each other, one that is shared or passed twice.  `MaxDepth` = 2 and one bit for
the argument count, so both limits are passed.

**Lua tables.**  Integer keys 0 to 4, a float equal to one of them, a string and a
pointer that collide: up to three on a chain, nodes moved out of their main
position, an array part of up to four.

**Lua calls.**  The main thread and two coroutines, one resumed and one wrapped; two
Lua functions at work in each chain of calls; six C calls and two more for errors,
so that the limit and the error in error handling are reached.

**Lua collector.**  Two tables, of which one can be weak and have a finalizer, or that
table and a string, or a coroutine and a closure with one upvalue, in every heap they
can be in at the start of a collection, and one operation of the program in addition to those of its
finalizers, at any point of the cycle.  A table has one entry, a stack one slot, the cache one string.  There
is one content for strings, so that every string asked for is there or was freed.

**Lua programs.**  The themes of `MCLuaPrograms`: conditions and values of `and`,
`or`, `not` two deep; operators two deep; assignments to two of a local, an upvalue,
a field and a global; lists of up to three in every place a list can be;
four statements in nested blocks with closures, breaks, gotos; texts of four or five
pieces; lists of up to eight; formats of up to three options over bytes of two bits,
with the types of C half their size; stacks of four values; buffers of two bytes that
get four more; six calls on a stack of at most 20 slots and 28 for errors.  `MaxIndexRK` = 2 and `FieldsPerFlush` = 2 are small so
that constants do not fit in an instruction and tables are filled in several turns.
Sizes of integers and counters are small constants too (`MaxInteger`, `MaxByte`,
`MaxStack`, `RanLimit`).  `Instructions` and `Steps` stop a program that loops: the
comparison then says nothing of it.

**Fairness** is weak: of each thread's next step inside `Send` and of each
worker's next step, the return of a handler included (a runnable thread runs,
spin locks are held for a few instructions, handlers return); of the clock, the
timer thread and its expiries; of `SocketWorker`; and of the peer's reads in
`connection_events`.  The end of a handler in `Rpc` is strongly fair, since `Fork`
disables it each time for the time its function runs.  Nothing forces a handler to
send, call or kill, or `pthread_cond_wait` to return without a signal.  The runs of
`Registry`, `Descriptors`, `Serialize` and the Lua modules check safety only and
state no fairness.

## 6. Proofs

`Scheduler_proofs` proves, for every finite set of workers and every set of
services and senders, the inductive invariant `IInv`, from it `TypeOK`,
`OnePlaceAtMost`, `NoStrandedMessage`, `NothingRunsAfterExit` and `SleepCountExact`,
and the refinement of `Mailbox`.  The only assumption is `SchedulerAssumption`.

`OnePlaceAtMost` is not inductive: `SendCheck` queues a service when `inGlobal` is
false, and nothing in that property relates the flag to the queue.
`FlagMeansScheduled` does: the flag is up, or a `Send` is between its push and
the flag (`Marking`), exactly for the services that are queued, held by a worker
or exiting.  With it a push never duplicates a service; with `ClearingIsEmpty` and
`QueueLockOwner` the clearing of the flag never strands a message; and because
the flag of an exiting service stays up for ever, a service that has exited is
never queued again (`ExitProgress`).

`Timer_proofs` proves the inductive invariant `IInv`, from it `WaitsForTheFirst` and
`OnePlaceEach`, and the refinement of `AlarmClock`, for any set of calls and delays,
from `TimerAssumption`.  The
argument is that a call that pushes a new first timer while the thread waits
wakes it within the same section of `timerMtx`, so the deadline the thread sleeps
to is that of the heap's top whenever the lock is free.

`Registry_proofs` proves `IInv`, from it `NamedIsFound`, and the action property
`NamesAreStable`, for any threads, names and number of services, from
`RegistryAssumption`.  `NamedIsFound` alone is not inductive: `KillErase` erases
`name[s]` without looking whom it leads to.  It leads to `s` still (`KilledIsFound`),
because a name that is taken is given to nobody else, and because the service that is
killed is in the hands of the one worker that kills it (`KillersHandle`,
`OneHandler`).

`Descriptors_proofs` proves `IInv`, and from it `ConnsAreOpen`, `WriterIsThere` and
`CrashesAfterFailure`, for any services, descriptors and bounds, from `DescriptorsAssumption`.  Connections
and descriptors correspond through `fdOf` (`Numbered`), and the descriptor of a
connection stays open until its own service closes it (`OpenUntilClosed`).  A
service that closes has taken the connection out of `Conns` before it calls `close`,
and nobody can have got the descriptor until then (`ClosesItsOwn`).  `WriterIsThere`
needs the order of the mailbox: the accept message of a connection is its first
(`AcceptedFirst`), comes only once and finds the connection open and its slot of
`writers` free (`MessagesArrive`), so a writer that is not there yet is put there
before a message that needs it (`WritersAreLive`).  This holds of the messages that
`LingerClose` and `OnWriteable` post as well, because the writer they post them from
is that of a live connection of the service; and a service that is in its reads has
the message still in front of it (`ReadsItsMessage`).  Of a connection with the
descriptor -1 the invariant says little: whoever sends about it asks to close it
(`MessagesArrive`), and what `Conns` and `writers` have under -1 is a connection without a
descriptor or none.  It is enough for the others, since `close(-1)` closes nothing
(`Close`) and none of them is found under -1.  A null pointer needs a writer under -1, or
a message about a connection with -1, and so an accept that failed.

`Connection_proofs` proves `IInv`, from it `InOrder`, `QueueIsWatched`,
`CloseRequestIsLast` and `CloseWaits`, and the refinement of `ByteStream`, for any sizes of the buffers and the
writes, from `ConnectionAssumption`.  The queue goes on where the socket is and ends
where Lua is (`QueueGoesOn`), whatever part of its head the socket took: hence the
order.  A write that is cut leaves `Room` = 0 and `noSpace`, so that either the
peer reads later and makes the edge, or the `epoll_ctl` that registers `EPOLLOUT` finds
the room: hence `QueueIsWatched`.  `LingerClose` shuts the read side down only with an
empty queue, `Write` takes nothing after that, and only the end of the stream closes
(`EndIsFirst`): hence the graceful close, with the exceptions of section 7.  A
connection that was closed never gets a writer again, since the accept message is the
first (`AcceptIsFirst`): hence nothing leaves after the close.

`Rpc_proofs` proves `IInv`, and from it `WakeUpsFindTheirSleeper`, `OneTrail` and
`CoroutinesInOnePlace`, for any services, coroutines, naps and bounds.  Whatever leads to a wake-up,
a timer, a message or a context that is not answered, leads to the suspension with
its serial number (`WakeUpsLead`), there is one such thing for each number
(`OneWakeUp`), and there is one as long as the suspension lasts
(`SleepersAreAwaited`): a step moves it from one place to the next, and the step that
consumes it ends the suspension.  Contexts are erased at the right time because the
coroutine that has one is the outermost on the `stack` when it runs
(`ContextsAreOutermost`).  A yield that raises leaves the entry behind: what leads to it
is not touched, and all that can be said of its coroutine afterwards is that it is in
`raised`.  A coroutine that is asleep is always under the number it yielded with, also
when an older entry of it is in the table.  Besides `RpcAssumption` there is one
hypothesis, for what section 7 says the code does not prevent: `NoWrap`, fewer
suspensions than sessions.  When the counter of a service has gone once through
`uint32_t` it may take a session that is still open.

`Serialize_proofs` proves `IInv`, and from it `PackFailsOnlyForTypeOrDepth` and
`ArgumentsArrive`, for any tables, keys, values, depth limit and argument count.
Neither is inductive: the first is about chains of tables that the stack of
`PackValue` only shows in part, the second about a reader that starts when the
writer has ended.

* A failure leads to a chain: each frame of the stack is for a table that is the
  argument, or the key or value that the frame below is at (`IsFrameOf`), so a value
  that is too deep lies at the end of a chain of tables that starts with an argument.
* Success leads to the absence of one: what lies before the place where `PackValue` is
  was written at its depth, and so was what is inside each table that ended
  (`Coverage`), never deeper than `MaxDepth`.  At the end every member of a chain was
  written (`ChainIsWritten`, by the least number for which it was not), so none is
  longer than `MaxDepth` and none ends with a value of another type.
* The reader follows the writer: `trail` has every state `PackValue` was in,
  and the receiver is always where one of them was (`IsAt`): as many frames for
  the same tables, as many pairs left, and every table a copy of what
  had been written of it then.  A step of `UnpackValue` takes it to the next state of
  `trail` (`ReadScalar`, `ReadTable`, `UnpackEndsStep`).  The cell it reads there is the
  one written there (`Cells`), with the count of pairs filled in, because no
  table is open any more once the message is sent.  Two keys become one entry
  only when they turn into the same number (`DistinctKeys`, `RawSetLemma`).

Besides `SerializeAssumption` it needs `ArgBitsAssumption`, that a power of two is a
positive number: the provers do not compute powers.

The assumptions are named in the modules that declare the constants, and TLC
evaluates them in the runs.  They say of what kind the constants are, that
`NoService`, `NoName` and the main thread are none of the services, names and workers,
that the coroutines and the workers are finite sets, and that buffers are not
empty.

Model-checked only:

* Liveness, which needs fairness and ENABLED: no prover here has them.
* The Lua modules.  `LuaParser`, `LuaVM`, `LuaPattern`, `LuaTable` and most others
  have recursive operators: what a recursive definition computes for every input
  needs an induction over its data that this prover cannot do.  `LuaCalls` and
  `LuaGC` have invariants over the whole stack or heap of a Lua state; no
  inductive form of them is stated.

## 7. Findings

**A lost wake-up is not made up for** (`scheduler_lost_wakeup`).  `WorkerWait` does
not look at the queue again under `sleepMtx`, so a push between `PopGlobalQueue`
and the wait is not signalled.  The comments at `Sunnet.cpp:198-201` and `:213-214`
say that a later `Send` wakes the pool instead.  It does so only if it is the one
that queues a service: a `Send` to the service that is already queued finds
`inGlobal` true and returns without calling `checkAndWeakUp`.  The run is the
counterexample.

The following behaviours have no run of their own.  Most of them are in the models;
where a property that holds has to exclude one, its name for the exception is given.

| behaviour | where | in the models |
|---|---|---|
| the end of a stream that comes with data is missed: the read loop ends at the short read, and there is no other edge | `Service.cpp:331` | `missed` in `EndCloses` |
| `errno` left at `EAGAIN` hides the end of the stream from `OnRWMsg` | `Service.cpp:334` | `missed` in `EndCloses` |
| `CloseConn` with unread data: the request to close reads the data and not the end, and nothing closes | `Service.cpp:321-334` | `missed` in `CloseConnCloses` |
| a connection reset while `CloseConn` waits for its writes is never closed | `ConnWriter.cpp:114` | `Abandoned` |
| an empty string behind other writes is never popped, nor what follows it | `ConnWriter.cpp:103` | `EmptyFirst` |
| `CloseConn` in `OnSocketData` loses queued writes when the same read loop then finds the end of the stream | `Service.cpp:331` | `eof` in `CloseWaits` |
| `sunnet.Write` returns 1 for what it drops while the connection is being closed | `ConnWriter.cpp:9-12` | guard of `Write` |
| a connection that gets a descriptor between the `close` and the `RemoveEvent` of another is deaf: its registration is the one removed, and only `CloseConn` closes it | `Sunnet.cpp:306` | `RemoveEvent`, `CloseConn` |
| when `accept` fails the service is told of a connection with descriptor -1 | `SocketWorker.cpp:85` | `NoFd` in `Accept` |
| the writer of such a connection may have no connection, and `Write` or `CloseConn` of -1 follows the null pointer; so does the message that closes it when its writer is gone | `Service.cpp:295`, `:321` | `UseNull`, `FollowNull`; `CrashesAfterFailure` |
| of connections that arrive together one is accepted, the others wait for the next | `SocketWorker.cpp:84` | `Accept`, `pulse` |
| a service that exits leaves its sockets open, and their events find nobody | `SocketWorker.cpp:105` | `Exit`, `Send`; no property denies the leak, `IInv` says it disturbs no other connection |
| a service that kills itself in a message it got during its `OnInit` has its Lua state closed under its creator | `Sunnet.cpp:77` | `OpenLua`, `OnExit` |
| a name that `Name` writes after the kill, and all but the last of several names, stay taken | `Sunnet.cpp:125`, `:328` | `NameWrite`, `KillErase` |
| messages to a service whose `OnInit` fails are handled without a Lua state | `Sunnet.cpp:84` | `Handle` |
| half of the range of `uint32_t` is negative as an `int`, and a negative sleep gets no timer: it never ends, nor does a call whose handler is in it | `LuaApi.cpp:489`, `Service.cpp:444` | "long sleep" in `OneTrail`, `SleepsEnd` and `Hopeless` |
| `Call` and `Sleep` inside a C function (`table.sort`, `string.gsub`) fail when everything but the yield is done: the request is sent or the timer set, the coroutine goes on after the error and is resumed by an answer nobody waits for, in a later suspension or after its end | `LuaApi.cpp:281`, `:497` | `Yield`; `raised` in `WakeUpsFindTheirSleeper` and `CoroutinesInOnePlace` |
| a session number that wraps round to one still open takes its place | `Service.cpp:441` | `MaxSession` in `Rpc` |
| 256 arguments arrive as none | `LuaApi.cpp:190` | `Argc` |
| a string that looks like a number arrives as a number, and as a key may fall together with another | `LuaApi.cpp:23` | `Scalar`, `IsNumber` |
| `UnpackValue` recurses without `lua_checkstack` | `Service.cpp:44` | the stack of `Serialize` has no limit; `StackHasRoom` is about C functions that ask for room, so no property catches it |
| a handler that calls `coroutine.yield` itself is never resumed | `Service.cpp:92` | not in `Rpc`, whose handlers use the API |
| a coroutine that a handler has made itself may call `Sleep` or `Call`; the service resumes it, not its maker | `LuaApi.cpp:483-487` | not in `Rpc` |
| `GetServiceName` copies a `shared_ptr` that `Name` may be writing | `Sunnet.cpp:353` | it only reads, and is not modelled |
| a `#` behind part of a byte order mark starts a comment line, though it is not at the beginning of the file; the part of the mark is left in front of the rest | `lauxlib.c:684-697` | `SkipBOM`, `SkipComment` |

## 8. Not modelled

* Of Lua: floats other than the numerals and keys that need them, bitwise
  operators, strings that are numerals in arithmetic, metatables in `LuaVM` and
  `LuaTabLib` (metamethods are in `LuaCalls`), hooks and debug information,
  the pace of the collector, the hash table of the
  strings and userdata; the conversions of `string.format` but `%q` and the functions
  of `lstrlib.c` that only copy (`sub`, `rep`, `upper`, ...); the mathematical, input/output, operating system, debug and package
  libraries and the stand-alone programs, which are computations without protocol
  or calls of the system.
* The example services: the models let Lua make any call the API allows.
* Logging, process start-up and shutdown (`Start`, `Wait`, `main`).
* `QueryName`, `GetServiceName` and `SelfName`, which only read.
