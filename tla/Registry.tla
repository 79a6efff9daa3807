------------------------------- MODULE Registry -------------------------------
(***************************************************************************)
(* The service table and the table of names: the creation of a service,    *)
(* its OnInit, its names and its end (Sunnet::NewService, KillService,     *)
(* Name and QueryName in src/Sunnet.cpp, OnInit in src/Service.cpp, and    *)
(* the functions of src/LuaApi.cpp that lead to them).                     *)
(*                                                                         *)
(* A thread runs Lua in frames: a worker starts with a handler, and        *)
(* whoever calls NewService runs the OnInit of the new service inside its  *)
(* own frame.  serviceLock protects sections that take no other lock: each *)
(* is one step.  The mailboxes are those of the module Mailbox, of which   *)
(* only matters which services have something to handle.                   *)
(*                                                                         *)
(* Lua code is arbitrary, but kills its service only in a message handler, *)
(* as the comment on Sunnet::KillService demands.                          *)
(*                                                                         *)
(* A definition whose name ends in Slip is the one after it with a         *)
(* plausible programming slip; no specification uses it.                   *)
(***************************************************************************)
EXTENDS Integers, Sequences, FiniteSets

CONSTANTS
  Workers,      \* the threads that handle messages
  Main,         \* the thread that creates the first service
  Names,        \* the names that are registered
  NoName,       \* the name of a service without one
  NoCall,       \* what a thread is doing when it is in no call of the API
  MaxServices   \* bound on the services that are created

Threads == Workers \cup {Main}

ASSUME RegistryAssumption ==
  /\ Main \notin Workers
  /\ NoName \notin Names
  /\ MaxServices \in Nat

VARIABLES
  maxId,        \* Sunnet::maxId
  services,     \* Sunnet::services, as the set of its identifiers
  names,        \* Sunnet::names: name -> identifier
  name,         \* Service::name
  isExiting,    \* Service::is_Exiting
  lua,          \* Service::luaState: not yet set, open, or closed
  pending,      \* the services with messages in their mailbox
  frames,       \* what a thread runs, the outermost first
  call          \* the call of Name or KillService that a thread is in

tableVars == <<maxId, services, names>>
serviceVars == <<name, isExiting, lua, pending>>
vars == <<tableVars, serviceVars, frames, call>>

Ids == 0 .. MaxServices - 1

Init ==
  /\ maxId = 0
  /\ services = {}
  /\ names = [n \in {} |-> 0]
  /\ name = [s \in Ids |-> NoName]
  /\ isExiting = [s \in Ids |-> FALSE]
  /\ lua = [s \in Ids |-> "unset"]
  /\ pending = {}
  /\ frames = [t \in Threads |-> <<>>]
  /\ call = [t \in Threads |-> NoCall]

-----------------------------------------------------------------------------
Idle(t) == frames[t] = <<>>

Frame(s, at) == [service |-> s, at |-> at]

Top(t) == frames[t][Len(frames[t])]

Push(t, f) == frames' = [frames EXCEPT ![t] = Append(@, f)]

Pop(t) == frames' = [frames EXCEPT ![t] = SubSeq(@, 1, Len(@) - 1)]

Goto(t, at) == frames' = [frames EXCEPT ![t][Len(frames[t])].at = at]

At(t, places) == ~Idle(t) /\ Top(t).at \in places /\ call[t] = NoCall

(* A thread in the Lua of a service may call the API.  One whose Lua state *)
(* is not open never gets further: the process is lost there.              *)
InLuaAt(t, places) == At(t, places) /\ lua[Top(t).service] = "open"

InLua(t) == InLuaAt(t, {"init", "handler", "exit"})

(* The workers that handle a message of s, or run its OnExit. *)
HandledBy(s) ==
  {w \in Workers : \E i \in 1 .. Len(frames[w]) :
     frames[w][i].service = s /\ frames[w][i].at \in {"handler", "exit"}}

-----------------------------------------------------------------------------
(* Sunnet::NewService.                                                     *)

MayCreate(t) == InLua(t) \/ (t = Main /\ Idle(t) /\ maxId = 0)

(* The service is in the table before it is initialised. *)
NewService(t) ==
  /\ MayCreate(t)
  /\ maxId < MaxServices
  /\ maxId' = maxId + 1
  /\ services' = services \cup {maxId}
  /\ Push(t, Frame(maxId, "boot"))
  /\ UNCHANGED <<names, serviceVars, call>>

(* Service::OnInit opens the Lua state, unless there is no memory for it,  *)
(* and then runs init.lua and its OnInit.                                  *)
OpenLua(t) ==
  /\ At(t, {"boot"})
  /\ \/ /\ lua' = [lua EXCEPT ![Top(t).service] = "open"]
        /\ Goto(t, "init")
     \/ /\ UNCHANGED lua
        /\ Goto(t, "failed")
  /\ UNCHANGED <<tableVars, name, isExiting, pending, call>>

InitReturns(t) ==
  /\ InLuaAt(t, {"init"})
  /\ Pop(t)
  /\ UNCHANGED <<tableVars, serviceVars, call>>

(* An error in init.lua or OnInit closes the Lua state. *)
InitFails(t) ==
  /\ InLuaAt(t, {"init"})
  /\ lua' = [lua EXCEPT ![Top(t).service] = "closed"]
  /\ Goto(t, "failed")
  /\ UNCHANGED <<tableVars, name, isExiting, pending, call>>

(* The table forgets the service; its names and messages stay. *)
EraseFailed(t) ==
  /\ At(t, {"failed"})
  /\ services' = services \ {Top(t).service}
  /\ Pop(t)
  /\ UNCHANGED <<maxId, names, serviceVars, call>>

-----------------------------------------------------------------------------
(* Messages.                                                               *)

(* Lua sends a message to a service that Send finds in the table. *)
Send(t, s) ==
  /\ InLua(t)
  /\ s \in services \ pending
  /\ pending' = pending \cup {s}
  /\ UNCHANGED <<tableVars, name, isExiting, lua, frames, call>>

(* A worker that has nothing else to do handles a message, whatever the    *)
(* state of the Lua of the service and of its place in the table.  One     *)
(* worker at a time has the service, and none once it has exited (module   *)
(* Scheduler, OnePlaceAtMost and NothingRunsAfterExit).                    *)
Handle(w, s) ==
  /\ Idle(w)
  /\ s \in pending
  /\ ~isExiting[s]
  /\ HandledBy(s) = {}
  /\ pending' = pending \ {s}
  /\ Push(w, Frame(s, "handler"))
  /\ UNCHANGED <<tableVars, name, isExiting, lua, call>>

(* The handler returns; a service that killed itself runs OnExit, which    *)
(* ends with lua_close.                                                    *)
HandlerReturns(w) ==
  /\ InLuaAt(w, {"handler"})
  /\ IF isExiting[Top(w).service] THEN Goto(w, "exit") ELSE Pop(w)
  /\ UNCHANGED <<tableVars, serviceVars, call>>

OnExit(w) ==
  /\ InLuaAt(w, {"exit"})
  /\ lua' = [lua EXCEPT ![Top(w).service] = "closed"]
  /\ Pop(w)
  /\ UNCHANGED <<tableVars, name, isExiting, pending, call>>

-----------------------------------------------------------------------------
(* Sunnet::Name: the service is looked up in one section of serviceLock    *)
(* and named in another.                                                   *)

NameLookup(t, s, n) ==
  /\ InLua(t)
  /\ s \in services
  /\ call' = [call EXCEPT ![t] = [op |-> "name", service |-> s, name |-> n]]
  /\ UNCHANGED <<tableVars, serviceVars, frames>>

InCall(t, op) == call[t] # NoCall /\ call[t].op = op

Return(t) == call' = [call EXCEPT ![t] = NoCall]

(* Slip: a name that is taken goes to the new service. *)
NameWriteSlip(t) ==
  /\ InCall(t, "name")
  /\ names' = [n \in DOMAIN names \cup {call[t].name} |->
                 IF n = call[t].name THEN call[t].service ELSE names[n]]
  /\ name' = [name EXCEPT ![call[t].service] = call[t].name]
  /\ Return(t)
  /\ UNCHANGED <<maxId, services, isExiting, lua, pending, frames>>

NameWrite(t) ==
  /\ InCall(t, "name")
  /\ IF call[t].name \in DOMAIN names
     THEN UNCHANGED <<names, name>>
     ELSE /\ names' = [n \in DOMAIN names \cup {call[t].name} |->
                         IF n = call[t].name THEN call[t].service ELSE names[n]]
          /\ name' = [name EXCEPT ![call[t].service] = call[t].name]
  /\ Return(t)
  /\ UNCHANGED <<maxId, services, isExiting, lua, pending, frames>>

(* Sunnet::KillService, of the own service, from a message handler.        *)
KillFlag(w) ==
  /\ InLuaAt(w, {"handler"})
  /\ Top(w).service \in services
  /\ isExiting' = [isExiting EXCEPT ![Top(w).service] = TRUE]
  /\ call' = [call EXCEPT ![w] = [op |-> "kill", service |-> Top(w).service]]
  /\ UNCHANGED <<tableVars, name, lua, pending, frames>>

(* The last name of the service goes with it. *)
KillErase(w) ==
  /\ InCall(w, "kill")
  /\ services' = services \ {call[w].service}
  /\ names' = [n \in DOMAIN names \ {name[call[w].service]} |-> names[n]]
  /\ Return(w)
  /\ UNCHANGED <<maxId, serviceVars, frames>>

-----------------------------------------------------------------------------
ThreadStep(t) ==
  \/ NewService(t) \/ OpenLua(t) \/ InitReturns(t) \/ InitFails(t)
  \/ EraseFailed(t)
  \/ \E s \in Ids : Send(t, s) \/ \E n \in Names : NameLookup(t, s, n)
  \/ NameWrite(t)

WorkerStep(w) ==
  \/ \E s \in Ids : Handle(w, s)
  \/ HandlerReturns(w) \/ OnExit(w) \/ KillFlag(w) \/ KillErase(w)

Next ==
  \/ \E t \in Threads : ThreadStep(t)
  \/ \E w \in Workers : WorkerStep(w)

Spec == Init /\ [][Next]_vars

-----------------------------------------------------------------------------
(* Type invariant. *)
Calls ==
  [op : {"name"}, service : Ids, name : Names]
    \cup [op : {"kill"}, service : Ids] \cup {NoCall}

TypeOK ==
  /\ maxId \in 0 .. MaxServices
  /\ services \subseteq 0 .. maxId - 1
  /\ DOMAIN names \subseteq Names
  /\ \A n \in DOMAIN names : names[n] \in Ids
  /\ name \in [Ids -> Names \cup {NoName}]
  /\ isExiting \in [Ids -> BOOLEAN]
  /\ lua \in [Ids -> {"unset", "open", "closed"}]
  /\ pending \subseteq Ids
  /\ frames \in [Threads -> Seq([service : Ids,
                   at : {"boot", "init", "failed", "handler", "exit"}])]
  /\ call \in [Threads -> Calls]

Bound(n, s) == n \in DOMAIN names /\ names[n] = s

(* A live service that has a name is found under it, whoever registers     *)
(* names, and dies, around it.                                             *)
NamedIsFound == \A s \in services : name[s] # NoName => Bound(name[s], s)

(* So is one that is being killed and may have left the table by a failing *)
(* OnInit in the meantime: KillErase erases no name but its own.           *)
KilledIsFound ==
  \A w \in Workers : InCall(w, "kill") =>
    LET s == call[w].service IN name[s] # NoName => Bound(name[s], s)

(* A worker in KillService is in a handler of the service it kills, and no *)
(* service is handled by two workers.                                      *)
KillersHandle ==
  \A w \in Workers :
    InCall(w, "kill") => ~Idle(w) /\ Top(w) = Frame(call[w].service, "handler")

OneHandler == \A s \in Ids : \A v, w \in HandledBy(s) : v = w

(* A service has no name, and nobody calls it, before it is in the table.  *)
CreatedFirst ==
  /\ \A s \in Ids : s >= maxId => name[s] = NoName
  /\ \A t \in Threads : call[t] # NoCall => call[t].service < maxId

(* The table and the names agree, whatever threads are inside them.        *)
IInv ==
  /\ TypeOK /\ NamedIsFound /\ KilledIsFound /\ KillersHandle /\ OneHandler
  /\ CreatedFirst

(* A name stays with its service as long as the service is in the table:   *)
(* neither a Name that races with another nor the end of a service that    *)
(* shared the name at some time takes it away.                             *)
NamesAreStable ==
  [][\A n \in Names, s \in Ids :
       Bound(n, s) /\ s \in services' => Bound(n, s)']_vars
=============================================================================
