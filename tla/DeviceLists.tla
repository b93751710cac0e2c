---------------------------- MODULE DeviceLists ----------------------------
(***************************************************************************)
(* How the coordinator keeps the device lists of its WebSocket clients up  *)
(* to date (src/internal/coordinator_server/http.go, ws_manager.go,        *)
(* grpc.go).  A handler changes the devices table and then announces it:   *)
(* it sends every client its list, or an event about the device, with      *)
(* wsManager.mu locked over all queries and writes.  Some changes nobody   *)
(* announces.  A new client is added to the table of clients and then sent *)
(* its first list by its own handler, without the lock.                    *)
(*                                                                         *)
(* Each handler changes the row of a device of its own, so the devices     *)
(* table is the set of handlers that have made their change; a list holds  *)
(* the changes made when it was read, an event the one of its handler.     *)
(***************************************************************************)
CONSTANTS
  Client,       \* WebSocket clients, each connecting once
  Handler,      \* calls of RegisterDevice, ReleaseDevice, UpdateDeviceState...
  Unlocked      \* the value of the mutex while nobody has it

ASSUME ListsAssumption ==
  Client \cap Handler = {} /\ Unlocked \notin Handler \cup Client

VARIABLES
  made,         \* handlers that have changed the devices table
  silent,       \* history: those of them that announce nothing
  stuck,        \* clients that neither read nor close
  clients,      \* wsManager.clients
  mutex,        \* who has locked wsManager.mu
  conn,         \* conn[c]: where the handler of client c is
  draft,        \* draft[p]: the list or event p has read from the table
  call,         \* call[h]: where handler h is
  todo,         \* todo[h]: clients h has not served yet
  seen,         \* seen[c]: the changes client c has been told of
  missed,       \* history: those it was not, because a query failed
  shown         \* shown[c]: the changes it shows: a list replaces all it showed

history  == <<silent, missed>>
listVars == <<made, stuck, clients, mutex, conn, draft, call, todo, seen, shown, history>>

ListInit ==
  /\ made = {} /\ silent = {}
  /\ stuck \in SUBSET Client
  /\ clients = {} /\ mutex = Unlocked
  /\ conn = [c \in Client |-> "out"]
  /\ draft = [p \in Client \cup Handler |-> {}]
  /\ call = [h \in Handler |-> "out"]
  /\ todo = [h \in Handler |-> {}]
  /\ seen = [c \in Client |-> {}] /\ shown = [c \in Client |-> {}]
  /\ missed = [c \in Client |-> {}]

\* Client c is sent a list, or an event.
GotList(c, list) ==
  /\ seen' = [seen EXCEPT ![c] = @ \cup list]
  /\ shown' = [shown EXCEPT ![c] = list]
GotEvent(c, change) ==
  /\ seen' = [seen EXCEPT ![c] = @ \cup change]
  /\ shown' = [shown EXCEPT ![c] = @ \cup change]

-----------------------------------------------------------------------------
(* handleWS of client c.                                                   *)

AddClient(c) ==
  /\ conn[c] = "out" /\ mutex = Unlocked
  /\ clients' = clients \cup {c}
  /\ conn' = [conn EXCEPT ![c] = "added"]
  /\ UNCHANGED <<made, stuck, mutex, draft, call, todo, seen, shown, history>>

ReadList(c) ==
  /\ conn[c] = "added"
  /\ draft' = [draft EXCEPT ![c] = made]
  /\ conn' = [conn EXCEPT ![c] = "writing"]
  /\ UNCHANGED <<made, stuck, clients, mutex, call, todo, seen, shown, history>>

\* The query fails: the client gets no first list, and waits for a broadcast.
ReadFails(c) ==
  /\ conn[c] = "added"
  /\ conn' = [conn EXCEPT ![c] = "open"]
  /\ missed' = [missed EXCEPT ![c] = @ \cup {h \in made : call[h] = "done"}]
  /\ UNCHANGED <<made, silent, stuck, clients, mutex, draft, call, todo, seen, shown>>

WriteList(c) ==
  /\ conn[c] = "writing" /\ c \notin stuck
  /\ GotList(c, draft[c])
  /\ conn' = [conn EXCEPT ![c] = "open"]
  /\ UNCHANGED <<made, stuck, clients, mutex, draft, call, todo, history>>

\* The client closes; what it showed, and what its handler has still to write, is
\* lost.
Disconnect(c) ==
  /\ conn[c] \in {"added", "writing", "open"} /\ c \notin stuck
  /\ conn' = [conn EXCEPT ![c] = "closed"]
  /\ draft' = [draft EXCEPT ![c] = {}]
  /\ seen' = [seen EXCEPT ![c] = {}] /\ shown' = [shown EXCEPT ![c] = {}]
  /\ missed' = [missed EXCEPT ![c] = {}]
  /\ UNCHANGED <<made, silent, stuck, clients, mutex, call, todo>>

RemoveClient(c) ==
  /\ conn[c] = "closed" /\ mutex = Unlocked
  /\ clients' = clients \ {c}
  /\ conn' = [conn EXCEPT ![c] = "gone"]
  /\ UNCHANGED <<made, stuck, mutex, draft, call, todo, seen, shown, history>>

-----------------------------------------------------------------------------
(* A handler that changes the table.                                       *)

\* RegisterDevice, ReleaseDevice and the end of a heartbeat are followed by
\* broadcastFullList; UpdateDeviceState reads the device back for an event, and
\* the claim and release handlers send one as well.
Change(h, kind) ==
  /\ call[h] = "out" /\ kind \in {"list", "event"}
  /\ made' = made \cup {h}
  /\ call' = [call EXCEPT ![h] = kind]
  /\ UNCHANGED <<stuck, clients, mutex, conn, draft, todo, seen, shown, history>>

\* A heartbeat brings a device back from offline, a claim is taken back because
\* the provider refused it, a group changes: nobody is told.
SilentChange(h) ==
  /\ call[h] = "out"
  /\ made' = made \cup {h} /\ silent' = silent \cup {h}
  /\ call' = [call EXCEPT ![h] = "done"]
  /\ UNCHANGED <<stuck, clients, mutex, conn, draft, todo, seen, shown, missed>>

\* UpdateDeviceState cannot read the device back, or a claim fails after it has
\* created its session.
EventDropped(h) ==
  /\ call[h] = "event"
  /\ silent' = silent \cup {h}
  /\ call' = [call EXCEPT ![h] = "done"]
  /\ UNCHANGED <<made, stuck, clients, mutex, conn, draft, todo, seen, shown, missed>>

\* An event is made before the lock is taken, a list under it.
MakeEvent(h) ==
  /\ call[h] = "event"
  /\ draft' = [draft EXCEPT ![h] = {h}]
  /\ call' = [call EXCEPT ![h] = "made"]
  /\ UNCHANGED <<made, stuck, clients, mutex, conn, todo, seen, shown, history>>

BroadcastBegins(h) ==
  /\ call[h] \in {"list", "made"} /\ mutex = Unlocked
  /\ mutex' = h
  /\ todo' = [todo EXCEPT ![h] = clients]
  /\ call' = [call EXCEPT ![h] = IF @ = "list" THEN "listing" ELSE "sending"]
  /\ UNCHANGED <<made, stuck, clients, conn, draft, seen, shown, history>>

\* Mutant of WriteTo: clients that have not got their first list are passed over.
MutWriteToOpen(h, c) ==
  /\ mutex = h /\ c \in todo[h] /\ c \notin stuck
  /\ conn[c] # "closed"
  /\ IF conn[c] # "open" THEN UNCHANGED <<seen, shown>>
     ELSE IF call[h] = "listing" THEN GotList(c, made) ELSE GotEvent(c, draft[h])
  /\ todo' = [todo EXCEPT ![h] = @ \ {c}]
  /\ UNCHANGED <<made, stuck, clients, mutex, conn, draft, call, history>>

\* The list is read for each client in turn, the event once for all.  A stuck
\* client keeps the write waiting: it has no deadline.
WriteTo(h, c) ==
  /\ mutex = h /\ c \in todo[h] /\ c \notin stuck
  /\ conn[c] # "closed"
  /\ IF call[h] = "listing" THEN GotList(c, made) ELSE GotEvent(c, draft[h])
  /\ todo' = [todo EXCEPT ![h] = @ \ {c}]
  /\ UNCHANGED <<made, stuck, clients, mutex, conn, draft, call, history>>

\* The query for a client fails: it is passed over, and stays in the table.
QueryFailsFor(h, c) ==
  /\ mutex = h /\ c \in todo[h] /\ call[h] = "listing"
  /\ missed' = [missed EXCEPT ![c] = @ \cup {h}]
  /\ todo' = [todo EXCEPT ![h] = @ \ {c}]
  /\ UNCHANGED <<made, silent, stuck, clients, mutex, conn, draft, call, seen, shown>>

\* Mutant of WriteFailsTo: a failed write is tried again.
MutWriteRetried(h, c) ==
  /\ mutex = h /\ c \in todo[h] /\ conn[c] = "closed"
  /\ clients' = clients \ {c}
  /\ UNCHANGED <<made, stuck, mutex, conn, draft, call, todo, seen, shown, history>>

\* A write to a closed connection fails: the client is dropped.
WriteFailsTo(h, c) ==
  /\ mutex = h /\ c \in todo[h] /\ conn[c] = "closed"
  /\ clients' = clients \ {c}
  /\ todo' = [todo EXCEPT ![h] = @ \ {c}]
  /\ UNCHANGED <<made, stuck, mutex, conn, draft, call, seen, shown, history>>

BroadcastEnds(h) ==
  /\ mutex = h /\ todo[h] = {}
  /\ mutex' = Unlocked
  /\ call' = [call EXCEPT ![h] = "done"]
  /\ UNCHANGED <<made, stuck, clients, conn, draft, todo, seen, shown, history>>

-----------------------------------------------------------------------------
FirstList(c) == ReadList(c) \/ ReadFails(c) \/ WriteList(c)
ServeClient(c) == AddClient(c) \/ FirstList(c) \/ RemoveClient(c)
Broadcast(h) ==
  \/ MakeEvent(h) \/ EventDropped(h) \/ BroadcastBegins(h) \/ BroadcastEnds(h)
  \/ \E c \in Client : WriteTo(h, c) \/ QueryFailsFor(h, c) \/ WriteFailsTo(h, c)

ListNext ==
  \/ \E c \in Client : ServeClient(c) \/ Disconnect(c)
  \/ \E h \in Handler, kind \in {"list", "event"} : Change(h, kind)
  \/ \E h \in Handler : SilentChange(h) \/ Broadcast(h)

\* Handlers run when they can, and Go's mutex starves nobody.
ListFairness ==
  /\ \A h \in Handler : WF_listVars(Broadcast(h)) /\ SF_listVars(BroadcastBegins(h))
  /\ \A c \in Client :
       WF_listVars(FirstList(c)) /\ SF_listVars(RemoveClient(c))

ListSpec == ListInit /\ [][ListNext]_listVars /\ ListFairness

-----------------------------------------------------------------------------
ListTypeOK ==
  /\ made \subseteq Handler /\ silent \subseteq made
  /\ stuck \subseteq Client /\ clients \subseteq Client
  /\ mutex \in Handler \cup {Unlocked}
  /\ conn \in [Client -> {"out", "added", "writing", "open", "closed", "gone"}]
  /\ draft \in [Client \cup Handler -> SUBSET made]
  /\ call \in [Handler -> {"out", "list", "event", "made", "listing", "sending", "done"}]
  /\ todo \in [Handler -> SUBSET Client]
  /\ seen \in [Client -> SUBSET made] /\ shown \in [Client -> SUBSET made]
  /\ missed \in [Client -> SUBSET made]

Pending(h) == call[h] \in {"list", "event", "made", "listing", "sending"}

\* No announced change is missed: once the handler that made it is through, every
\* client that is connected has been told of it, whenever it joined and although
\* its first list is read and written outside the lock.  A query that fails costs
\* the client what it was to tell, and nothing else.
ListsFresh ==
  \A c \in clients : \A h \in made \ silent :
    conn[c] = "open" /\ call[h] = "done" => h \in seen[c] \cup missed[c]

\* Every handler that is to announce a change gets through and returns, as long
\* as each client either reads or closes.
ChangePushed ==
  stuck = {} => \A h \in Handler : Pending(h) ~> call[h] = "done"

\* Not held.  Every change is pushed, whatever a client does: one that does not
\* read blocks the write, and with it all clients and all handlers.
PushAlways == \A h \in Handler : Pending(h) ~> call[h] = "done"

\* Not held.  A client is told of every change of the table: heartbeats, claims
\* that fail and their rollback announce nothing.
EveryChangeTold ==
  \A c \in clients : \A h \in made :
    conn[c] = "open" /\ call[h] = "done" => h \in seen[c]

\* Not held.  A client shows every change it was told of: its first list, read
\* before a change, may be written after the broadcast about it.
ShownIsSeen == \A c \in clients : shown[c] = seen[c]

\* Not held.  A connection has one writer at a time, as the library demands.
OneWriter ==
  \A h \in Handler : mutex = h => \A c \in todo[h] : conn[c] # "writing"
=============================================================================
