------------------------------ MODULE WsRegistry ------------------------------
(***************************************************************************)
(* One array of websocket clients and its mutex.  The program has two of   *)
(* them: activeClients, through which the control task forwards shell      *)
(* output, and activeClientsFan, through which loop() sends the fan speed. *)
(*                                                                         *)
(* The server task creates, registers, removes and deletes the handlers;   *)
(* the sender walks the array.  Both take the mutex for at most 100 ms and *)
(* carry on without it otherwise.  A handler is known by its address, and  *)
(* an address is handed out again after its handler has been deleted.      *)
(***************************************************************************)
EXTENDS Integers, FiniteSets

CONSTANTS
    Handlers,        \* addresses the allocator may return
    None,            \* nullptr
    MaxClients,      \* MAX_CLIENTS: array entries, and connections at a time
    GivesUnheld      \* the sender gives the mutex even if it did not get it

ASSUME RegistryAssumption ==
    /\ MaxClients \in Nat \ {0}
    /\ None \notin Handlers
    /\ IsFiniteSet(Handlers)
    /\ GivesUnheld \in BOOLEAN

VARIABLES
    handler,   \* each address: free, or a handler that is new or open
    clients,   \* the array
    holder,    \* who holds the mutex
    srvAt,     \* where the server task is,
    srvFor,    \* and the handler it is busy with
    sndAt,     \* where the sender is,
    sndNext,   \* and the array index it will look at next
    skipped    \* History: addresses whose entry was not made or not removed,
               \* because the mutex was busy or onClose() was not called

srvState == <<srvAt, srvFor>>
sndState == <<sndAt, sndNext>>
wsVars == <<handler, clients, holder, srvState, sndState, skipped>>

Slots == 1 .. MaxClients

WsTypeOK ==
    /\ handler \in [Handlers -> {"free", "new", "open"}]
    /\ clients \in [Slots -> Handlers \cup {None}]
    /\ holder \in {"nobody", "server", "sender"}
    /\ srvAt \in {"idle", "create", "insert", "init", "close", "remove", "delete"}
    /\ srvFor \in Handlers \cup {None}
    /\ sndAt \in {"idle", "take", "send", "misgive"}
    /\ sndNext \in 1 .. MaxClients + 1
    /\ skipped \subseteq Handlers

WsInit ==
    /\ handler = [h \in Handlers |-> "free"]
    /\ clients = [i \in Slots |-> None]
    /\ holder = "nobody"
    /\ srvAt = "idle" /\ srvFor = None
    /\ sndAt = "idle" /\ sndNext = 1
    /\ skipped = {}

Allocated == {h \in Handlers : handler[h] # "free"}

ServerGoes(at, h) == srvAt' = at /\ srvFor' = h
SenderGoes(at, i) == sndAt' = at /\ sndNext' = i

-----------------------------------------------------------------------------
(* create(): new handler; at most one per connection the server accepts.   *)
Create(h) ==
    /\ srvAt = "idle"
    /\ handler[h] = "free"
    /\ Cardinality(Allocated) < MaxClients
    /\ handler' = [handler EXCEPT ![h] = "new"]
    /\ ServerGoes("create", h)
    /\ UNCHANGED <<clients, holder, sndState, skipped>>

(* xSemaphoreTake by the server task, in create() or in onClose().         *)
ServerTakes ==
    /\ holder = "nobody"
    /\ \/ srvAt = "create" /\ ServerGoes("insert", srvFor)
       \/ srvAt = "close" /\ ServerGoes("remove", srvFor)
    /\ holder' = "server"
    /\ UNCHANGED <<handler, clients, sndState, skipped>>

(* Faulty variant: the wait has no limit.                                  *)
ServerWaitsOn == FALSE

(* "Unable to take variable lock": the array stays as it is.               *)
ServerTimesOut ==
    /\ holder # "nobody"
    /\ \/ srvAt = "create" /\ ServerGoes("init", srvFor)
       \/ srvAt = "close" /\ ServerGoes("delete", srvFor)
    /\ skipped' = skipped \cup {srvFor}
    /\ UNCHANGED <<handler, clients, holder, sndState>>

(* Faulty variant: the first entry is taken whether it is free or not.     *)
InsertAtFirst ==
    /\ srvAt = "insert"
    /\ clients' = [clients EXCEPT ![1] = srvFor]
    /\ holder' = "nobody"
    /\ ServerGoes("init", srvFor)
    /\ UNCHANGED <<handler, sndState, skipped>>

(* Faulty variant: no break after the handler has been entered.            *)
InsertEverywhere ==
    /\ srvAt = "insert"
    /\ clients' = [i \in Slots |-> IF clients[i] = None THEN srvFor ELSE clients[i]]
    /\ holder' = "nobody"
    /\ ServerGoes("init", srvFor)
    /\ UNCHANGED <<handler, sndState, skipped>>

(* The first free entry gets the handler; a full array says nothing.       *)
Insert ==
    /\ srvAt = "insert"
    /\ \/ \E i \in Slots :
             /\ clients[i] = None
             /\ \A j \in 1 .. i - 1 : clients[j] # None
             /\ clients' = [clients EXCEPT ![i] = srvFor]
       \/ (\A i \in Slots : clients[i] # None) /\ UNCHANGED clients
    /\ holder' = "nobody"
    /\ ServerGoes("init", srvFor)
    /\ UNCHANGED <<handler, sndState, skipped>>

(* create() has returned and the connection calls initialize().            *)
Initialize ==
    /\ srvAt = "init"
    /\ handler' = [handler EXCEPT ![srvFor] = "open"]
    /\ ServerGoes("idle", None)
    /\ UNCHANGED <<clients, holder, sndState, skipped>>

-----------------------------------------------------------------------------
(* A close frame, or a closed socket: onClose() is called.                 *)
OnClose(h) ==
    /\ srvAt = "idle"
    /\ handler[h] = "open"
    /\ ServerGoes("close", h)
    /\ UNCHANGED <<handler, clients, holder, sndState, skipped>>

(* Faulty variant: the search ends one entry early.                        *)
RemoveAllButLast ==
    /\ srvAt = "remove"
    /\ clients' = [i \in Slots |->
                     IF clients[i] = srvFor /\ i < MaxClients THEN None ELSE clients[i]]
    /\ holder' = "nobody"
    /\ ServerGoes("delete", srvFor)
    /\ UNCHANGED <<handler, sndState, skipped>>

Remove ==
    /\ srvAt = "remove"
    /\ clients' = [i \in Slots |-> IF clients[i] = srvFor THEN None ELSE clients[i]]
    /\ holder' = "nobody"
    /\ ServerGoes("delete", srvFor)
    /\ UNCHANGED <<handler, sndState, skipped>>

(* The connection deletes its handler once onClose() has returned.         *)
Delete ==
    /\ srvAt = "delete"
    /\ handler' = [handler EXCEPT ![srvFor] = "free"]
    /\ ServerGoes("idle", None)
    /\ UNCHANGED <<clients, holder, sndState, skipped>>

(* A receive error, a truncated frame, or no traffic for 20 s because some *)
(* handler kept the server task busy: deleted without onClose().           *)
Drop(h) ==
    /\ srvAt = "idle"
    /\ handler[h] = "open"
    /\ handler' = [handler EXCEPT ![h] = "free"]
    /\ skipped' = skipped \cup {h}
    /\ UNCHANGED <<clients, holder, srvState, sndState>>

-----------------------------------------------------------------------------
(* There is something to send.                                             *)
Output ==
    /\ sndAt = "idle"
    /\ SenderGoes("take", 1)
    /\ UNCHANGED <<handler, clients, holder, srvState, skipped>>

SenderTakes ==
    /\ sndAt = "take"
    /\ holder = "nobody"
    /\ holder' = "sender"
    /\ SenderGoes("send", 1)
    /\ UNCHANGED <<handler, clients, srvState, skipped>>

(* Faulty variant: the wait has no limit.                                  *)
SenderWaitsOn == FALSE

(* "Could not acquire lock": loop() gives the mutex back all the same.     *)
SenderTimesOut ==
    /\ sndAt = "take"
    /\ holder # "nobody"
    /\ SenderGoes(IF GivesUnheld THEN "misgive" ELSE "idle", 1)
    /\ UNCHANGED <<handler, clients, holder, srvState, skipped>>

(* The sender calls send() on this handler next.                           *)
SendsTo(h) == sndAt = "send" /\ sndNext \in Slots /\ clients[sndNext] = h
Calling == \E h \in Handlers : SendsTo(h)

(* An entry without a client is passed over.                               *)
Pass ==
    /\ SendsTo(None)
    /\ SenderGoes("send", sndNext + 1)
    /\ UNCHANGED <<handler, clients, holder, srvState, skipped>>

(* send() to the next entry.  If it returns at all, it does for an open    *)
(* handler; what a deleted one does depends on what the memory holds now.  *)
Send ==
    /\ \E h \in Handlers : SendsTo(h) /\ handler[h] # "new"
    /\ SenderGoes("send", sndNext + 1)
    /\ UNCHANGED <<handler, clients, holder, srvState, skipped>>

SendEnds ==
    /\ sndAt = "send"
    /\ sndNext = MaxClients + 1
    /\ holder' = "nobody"
    /\ SenderGoes("idle", 1)
    /\ UNCHANGED <<handler, clients, srvState, skipped>>

(* Faulty variant: whoever gives the mutex frees it.                       *)
MisgiveFrees ==
    /\ sndAt = "misgive"
    /\ holder' = "nobody"
    /\ SenderGoes("idle", 1)
    /\ UNCHANGED <<handler, clients, srvState, skipped>>

(* Giving a free mutex fails without effect.                               *)
Misgive ==
    /\ sndAt = "misgive"
    /\ holder = "nobody"
    /\ SenderGoes("idle", 1)
    /\ UNCHANGED <<handler, clients, holder, srvState, skipped>>

(* A panic: everything starts over.                                        *)
StartsOver ==
    /\ handler' = [h \in Handlers |-> "free"]
    /\ clients' = [i \in Slots |-> None]
    /\ holder' = "nobody"
    /\ ServerGoes("idle", None)
    /\ SenderGoes("idle", 1)
    /\ skipped' = {}

(* A handler without a connection is a null pointer, a deleted one may be  *)
(* anything.                                                               *)
SendPanics == (\E h \in Handlers : SendsTo(h) /\ handler[h] # "open") /\ StartsOver

(* FreeRTOS asserts that a mutex is given by its holder.                   *)
MisgivePanics == sndAt = "misgive" /\ holder = "server" /\ StartsOver

Panic == SendPanics \/ MisgivePanics

-----------------------------------------------------------------------------
(* The server task works on a handler; browsers come and go.               *)
Progress == ServerTakes \/ ServerTimesOut \/ Insert \/ Initialize \/ Remove \/ Delete
Visit == \E h \in Handlers : Create(h) \/ OnClose(h) \/ Drop(h)

(* The sender goes on by itself, or a call of send() ends.                 *)
Walk == SenderTakes \/ SenderTimesOut \/ Pass \/ SendEnds \/ Misgive \/ MisgivePanics
Calls == Send \/ SendPanics

WsNext == Progress \/ Visit \/ Output \/ Walk \/ Calls

WsSpec == WsInit /\ [][WsNext]_wsVars

(* Both tasks keep running (see Bridge); nothing obliges a browser to      *)
(* connect or the shell to print.  A call of send() is not obliged to end: *)
(* it comes down to an SSL_write without a timeout, which waits for as     *)
(* long as the browser does not read.                                      *)
WsFairSpec == WsSpec /\ WF_wsVars(Progress) /\ WF_wsVars(Walk)

-----------------------------------------------------------------------------
(* Whoever reads or changes the array holds the mutex, and only one does:  *)
(* the give without a take in loop() cannot let the other side in.         *)
ArrayGuarded ==
    /\ sndAt = "send" <=> holder = "sender"
    /\ srvAt \in {"insert", "remove"} <=> holder = "server"

(* An entry that belongs to an open client is neither overwritten nor      *)
(* removed, except by that client's own onClose(), whatever stale entries  *)
(* and reused addresses there are.                                         *)
OpenClientKept ==
    [][\A h \in Handlers, i \in Slots :
          (clients[i] = h /\ handler[h] = "open" /\ clients'[i] # h)
             => (srvAt = "remove" /\ srvFor = h) \/ Panic]_wsVars

(* onClose() keeps its promise ("we remove the client from the array"): an *)
(* entry outlives its handler only if the removal was skipped.             *)
StaleOnlyIfSkipped ==
    \A i \in Slots : clients[i] # None => clients[i] \in Allocated \cup skipped

(* No client is entered twice, and as long as nothing has been skipped     *)
(* every open client is in the array until its onClose() removes it: there *)
(* is a free entry for it, so create() needs no answer to a full array.    *)
OpenClientRegistered ==
    /\ \A i, j \in Slots :
          (i # j /\ clients[i] = clients[j]) => clients[i] \in skipped \cup {None}
    /\ \A h \in Handlers :
          (skipped = {} /\ handler[h] = "open" /\ ~(srvAt = "delete" /\ srvFor = h))
             => \E i \in Slots : clients[i] = h

(* The server task works on the handler of its current connection: still   *)
(* without a connection in create(), as no other handler is, open until it *)
(* is deleted; one that is not in the array yet, or no more, has no entry  *)
(* unless one was skipped.                                                 *)
BusyWith ==
    /\ srvAt # "idle" => srvFor \in Handlers
    /\ srvAt \in {"create", "insert", "init"} => handler[srvFor] = "new"
    /\ \A h \in Handlers :
          handler[h] = "new" => srvFor = h /\ srvAt \in {"create", "insert", "init"}
    /\ srvAt \in {"close", "remove", "delete"} => handler[srvFor] = "open"
    /\ srvAt \in {"create", "insert", "delete"} =>
          \A i \in Slots : clients[i] = srvFor => srvFor \in skipped

(* A client whose create() has returned is in the array.                   *)
InitRegistered ==
    (srvAt = "init" /\ skipped = {}) => \E i \in Slots : clients[i] = srvFor

(* Inductive, whatever the environment does.                               *)
RegistryInv ==
    /\ WsTypeOK
    /\ ArrayGuarded
    /\ BusyWith
    /\ StaleOnlyIfSkipped
    /\ OpenClientRegistered
    /\ InitRegistered
    /\ Cardinality(Allocated) <= MaxClients

(* Where OnlyActiveClients fails, it fails for one of two reasons: the     *)
(* sender met a client between its entry and its initialize(), or an entry *)
(* whose removal or whose making was skipped.  Nothing else, no reused     *)
(* address and no give without a take, leads send() to a dead handler.     *)
SentToExplained ==
    \A h \in Handlers : SendsTo(h) =>
        \/ handler[h] = "open"
        \/ srvAt = "init" /\ srvFor = h
        \/ h \in skipped

(* create() and onClose() return, however often the sender takes the mutex *)
(* and however long it keeps it, for ever included.                        *)
ServerReturns == srvAt # "idle" ~> srvAt = "idle"

(* If every call of send() ends, read() and loop() get round the array, or *)
(* give up, however many clients come and go: the mutex and the server     *)
(* task never hold the sender up for good, a browser may.                  *)
SenderReturns == WF_wsVars(Calls) => (sndAt # "idle" ~> sndAt = "idle")

(* Neither side waits for the other without a limit: a server task inside  *)
(* create() or onClose(), and a sender inside its walk, can always go on,  *)
(* and a call of send() can end.                                           *)
WsCanStep ==
    /\ srvAt # "idle" => ENABLED <<Progress>>_wsVars
    /\ (sndAt # "idle" /\ ~Calling) => ENABLED <<Walk>>_wsVars
    /\ Calling => ENABLED <<Calls>>_wsVars

(* main.cpp: "Simple array to store the active clients" and "When the      *)
(* websocket is closing, we remove the client from the array": the sender  *)
(* only finds handlers that have a connection.                             *)
OnlyActiveClients == \A h \in Handlers : SendsTo(h) => handler[h] = "open"
==============================================================================
