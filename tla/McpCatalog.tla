------------------------------ MODULE McpCatalog ------------------------------
(***************************************************************************)
(* The catalog of MCP servers and their connections (agent/mcp/manager.py) *)
(* and the graph that uses them (runner._apply_pending_runtime_config,     *)
(* factory.build_agent).  Threads of the UI and of the tools change the    *)
(* catalog and connect without the lock; the safe point builds a graph     *)
(* from a snapshot.  A client is one open connection.                      *)
(*                                                                         *)
(* Counters that the code compares for equality only are flags here: the   *)
(* activation epoch is the flag "cancelled" of the attempts and "stale" of *)
(* the batches made under it, a server's version is "fresh" of the latest  *)
(* attempt, the revision is "dirty" (not the published one) and "moved"    *)
(* (not the one of the snapshot held).                                     *)
(***************************************************************************)
EXTENDS Naturals

CONSTANTS
  Names,      \* servers of mcp.json
  Threads,    \* threads that call the manager
  Editors,    \* those that load, switch, remove and stop; each may add
  Safe,       \* the one that holds the operation lock at a safe point
  Entries,    \* catalog entries (config objects) there may be at a time
  Clients,    \* connections there may be at a time
  StoreFails, \* SessionStore.touch may fail after the graph was built
  NoEntry, NoClient, NoThread

ASSUME ThreadAssumption == Safe \notin Threads /\ NoThread \notin Threads /\ Editors \subseteq Threads
ASSUME NoneAssumption == NoClient \notin Clients /\ NoEntry \notin Entries

VARIABLES
  document,   \* enabled, fatal (config_error), server: the entry of a name
  states,     \* _states: status, entry and client of a listed server
  live,       \* clients open
  retired, published, \* _retired, _published_clients
  snapshot,   \* _snapshots: none or the clients of the build in progress
  dirty, moved,
  connectionCancel, closed, down,  \* down: the bridge's loop was shut down
  attempts,   \* _connecting with _attempt_cancels
  worker,     \* what each thread is doing
  graph       \* clients of the tools of the graph in use

publishVars  == <<published, snapshot, graph>>
revisionVars == <<dirty, moved>>
stopVars     == <<connectionCancel, closed, down>>
vars == <<document, states, live, retired, publishVars, revisionVars, stopVars, attempts, worker>>

All    == Threads \cup {Safe}
Entry  == Entries \cup {NoEntry}
Client == Clients \cup {NoClient}
Unlisted == [status |-> "unlisted", entry |-> NoEntry, client |-> NoClient]

Attempt == [name : Names, entry : Entries, owner : Threads, cancelled : BOOLEAN, fresh : BOOLEAN]
Phases == {"idle", "activate", "once", "open", "publish", "sweep", "close", "wait",
           "built", "stopping", "shutdown", "drain"}
\* batch, left, stale: the round of connect_pending, its servers, whether it is
\* over; closing: clients to close without the lock; built: whether the safe
\* point has a graph to adopt; owner: whose attempt is waited for.
Worker == [pc : Phases, name : Names, entry : Entry, batch : BOOLEAN, left : SUBSET Names,
           stale : BOOLEAN, client : Client, closing : SUBSET Clients, built : BOOLEAN,
           owner : Threads \cup {NoThread}]

TypeOK ==
  /\ document \in [enabled : BOOLEAN, fatal : BOOLEAN, server : [Names -> Entry]]
  /\ states \in [Names -> [status : {"unlisted", "disconnected", "connected", "error"},
                           entry : Entry, client : Client]]
  /\ live \subseteq Clients /\ retired \subseteq Clients
  /\ published \subseteq Clients /\ graph \subseteq Clients
  /\ snapshot \subseteq SUBSET Clients
  /\ {dirty, moved, connectionCancel, closed, down} \subseteq BOOLEAN
  /\ attempts \subseteq Attempt
  /\ worker \in [All -> Worker]

ClientsOf(listing) == {listing[n].client : n \in Names} \ {NoClient}
Enabled == document.enabled /\ ~document.fatal
Pinned  == published \cup UNION snapshot
InHands == UNION {worker[w].closing \cup ({worker[w].client} \ {NoClient}) : w \in All}

Resting(n) == [pc |-> "idle", name |-> n, entry |-> NoEntry, batch |-> FALSE, left |-> {},
               stale |-> FALSE, client |-> NoClient, closing |-> {}, built |-> FALSE,
               owner |-> NoThread]

\* What load() makes of a file that lists some servers.
Listing(server) == [n \in Names |-> IF server[n] = NoEntry THEN Unlisted
  ELSE [status |-> "disconnected", entry |-> server[n], client |-> NoClient]]

Init ==
  /\ \E s \in [Names -> Entry], on \in BOOLEAN :
       /\ \A m, n \in Names : s[m] = s[n] /\ m # n => s[m] = NoEntry
       /\ document = [enabled |-> on, fatal |-> FALSE, server |-> s]
       /\ states = Listing(s)
  /\ live = {} /\ retired = {} /\ published = {} /\ graph = {} /\ snapshot = {}
  /\ dirty = FALSE /\ moved = FALSE
  /\ connectionCancel = FALSE /\ closed = FALSE /\ down = FALSE
  /\ attempts = {}
  /\ worker = [w \in All |-> Resting(CHOOSE n \in Names : TRUE)]

-----------------------------------------------------------------------------
(* Sections under the lock end in _close_unpublished, a section of its own *)
(* that takes what nobody holds; the clients are closed after it.          *)

At(w, pc) == worker[w].pc = pc
Go(w, pc) == worker' = [worker EXCEPT ![w].pc = pc]
\* The end of a call; connect_pending goes on with its next server.
Rested(w) == IF worker[w].left = {} THEN Resting(worker[w].name)
             ELSE [Resting(worker[w].name) EXCEPT !.batch = TRUE, !.left = worker[w].left,
                                                  !.stale = worker[w].stale]
Rest(w) == worker' = [worker EXCEPT ![w] = Rested(w)]
Revise == dirty' = TRUE /\ moved' = TRUE

\* Mutant: a sweep forgets the published graph.
HeldByBuild == UNION snapshot
Held == Pinned

Sweep(w) ==
  /\ At(w, "sweep")
  /\ worker' = [worker EXCEPT ![w].pc = "close", ![w].closing = retired \ Held]
  /\ retired' = retired \cap Held
  /\ UNCHANGED <<document, states, live, publishVars, revisionVars, stopVars, attempts>>

\* _close_clients, then the end of the call: the owner of an attempt gives its
\* result to the callers that wait for it.
Return(w) ==
  /\ At(w, "close") /\ ~worker[w].built
  /\ live' = live \ worker[w].closing
  /\ attempts' = {a \in attempts : a.owner # w}
  /\ worker' = [v \in All |->
       IF v = w \/ (At(v, "wait") /\ worker[v].owner = w) THEN Rested(v) ELSE worker[v]]
  /\ UNCHANGED <<document, states, retired, publishVars, revisionVars, stopVars>>

Outdate(which) == {IF a \in which THEN [a EXCEPT !.fresh = FALSE] ELSE a : a \in attempts}

-----------------------------------------------------------------------------
(* Changes of the catalog. *)

Free(w) == At(w, "idle") /\ worker[w].left = {}
Writable == ~closed /\ ~document.fatal

\* Objects in use have an identity of their own.
NewEntries == Entries \ ({document.server[n] : n \in Names} \cup {a.entry : a \in attempts}
                          \cup {worker[w].entry : w \in All})

\* The file was edited: other servers, another switch, or no valid JSON.
Load(w) ==
  /\ Free(w) /\ ~closed
  /\ \E s \in [Names -> NewEntries \cup {NoEntry}], on \in BOOLEAN, fatal \in BOOLEAN :
       /\ \A m, n \in Names : s[m] = s[n] /\ m # n => s[m] = NoEntry
       /\ fatal => ~on /\ \A n \in Names : s[n] = NoEntry
       /\ document' = [enabled |-> on, fatal |-> fatal, server |-> s]
       /\ states' = Listing(s)
  /\ attempts' = Outdate(attempts)
  /\ retired' = retired \cup ClientsOf(states)
  /\ Revise
  /\ Go(w, "sweep")
  /\ UNCHANGED <<live, publishVars, stopVars>>

Enable(w) ==
  /\ Free(w) /\ Writable /\ ~connectionCancel /\ ~document.enabled
  /\ document' = [document EXCEPT !.enabled = TRUE]
  /\ Revise
  /\ UNCHANGED <<states, live, retired, publishVars, stopVars, attempts, worker>>

\* _deactivate_connections_locked: the epoch moves on.
Disable(w) ==
  /\ Free(w) /\ Writable /\ ~connectionCancel /\ document.enabled
  /\ document' = [document EXCEPT !.enabled = FALSE]
  /\ attempts' = {[a EXCEPT !.cancelled = TRUE, !.fresh = FALSE] : a \in attempts}
  /\ retired' = retired \cup ClientsOf(states)
  /\ states' = [n \in Names |-> IF states[n] = Unlisted THEN Unlisted
                  ELSE [states[n] EXCEPT !.status = "disconnected", !.client = NoClient]]
  /\ Revise
  /\ worker' = [v \in All |-> IF v = w THEN [worker[v] EXCEPT !.pc = "sweep"]
                              ELSE [worker[v] EXCEPT !.stale = worker[v].batch]]
  /\ UNCHANGED <<live, publishVars, stopVars>>

Remove(w, n) ==
  /\ Free(w) /\ Writable /\ document.server[n] # NoEntry
  /\ document' = [document EXCEPT !.server[n] = NoEntry]
  /\ attempts' = Outdate({a \in attempts : a.name = n})
  /\ retired' = retired \cup ({states[n].client} \ {NoClient})
  /\ states' = [states EXCEPT ![n] = Unlisted]
  /\ Revise
  /\ Go(w, "sweep")
  /\ UNCHANGED <<live, publishVars, stopVars>>

Connect(w, n, e) == [worker EXCEPT ![w].pc = "activate", ![w].name = n, ![w].entry = e,
                                   ![w].left = @ \ {n}]

\* Saves a new server; one that is there already is only connected.
Add(w, n) ==
  /\ Free(w) /\ Writable /\ document.enabled
  /\ states[n].status # "connected"
  /\ \/ /\ document.server[n] = NoEntry
        /\ \E e \in NewEntries : document' = [document EXCEPT !.server[n] = e]
     \/ document.server[n] # NoEntry /\ UNCHANGED document
  /\ worker' = Connect(w, n, document'.server[n])
  /\ UNCHANGED <<states, live, retired, publishVars, revisionVars, stopVars, attempts>>

Test(w, n) ==
  /\ Free(w) /\ Enabled /\ document.server[n] # NoEntry
  /\ worker' = Connect(w, n, document.server[n])
  /\ UNCHANGED <<document, states, live, retired, publishVars, revisionVars, stopVars, attempts>>

ConnectPending(w) ==
  /\ Free(w) /\ ~closed /\ ~connectionCancel /\ document.enabled
  /\ LET pending == {n \in Names : states[n].status = "disconnected"} IN
     /\ pending # {}
     /\ worker' = [worker EXCEPT ![w].batch = TRUE, ![w].left = pending]
  /\ UNCHANGED <<document, states, live, retired, publishVars, revisionVars, stopVars, attempts>>

Superseded == closed \/ connectionCancel \/ ~document.enabled

\* The loop of connect_pending: test() of the next server, if the round is current.
NextOfBatch(w) ==
  /\ At(w, "idle")
  /\ \E n \in worker[w].left :
       worker' = IF Superseded \/ worker[w].stale THEN [worker EXCEPT ![w] = Resting(n)]
                 ELSE IF document.server[n] = NoEntry
                 THEN [worker EXCEPT ![w].left = @ \ {n}, ![w].batch = worker[w].left # {n}]
                 ELSE Connect(w, n, document.server[n])
  /\ UNCHANGED <<document, states, live, retired, publishVars, revisionVars, stopVars, attempts>>

-----------------------------------------------------------------------------
(* Connections. *)

\* One attempt for an entry and an epoch; a second caller waits for its result.
Same(w) == {a \in attempts : a.entry = worker[w].entry /\ ~a.cancelled}

Activate(w) ==
  /\ At(w, "activate")
  /\ IF Superseded \/ worker[w].stale THEN Rest(w) /\ UNCHANGED attempts
     ELSE IF Same(w) # {}
     THEN /\ worker' = [worker EXCEPT ![w].pc = "wait", ![w].owner = (CHOOSE a \in Same(w) : TRUE).owner]
          /\ UNCHANGED attempts
     ELSE /\ attempts' = attempts \cup {[name |-> worker[w].name, entry |-> worker[w].entry,
                                         owner |-> w, cancelled |-> FALSE, fresh |-> FALSE]}
          /\ Go(w, "once")
  /\ UNCHANGED <<document, states, live, retired, publishVars, revisionVars, stopVars>>

Mine(w) == CHOOSE a \in attempts : a.owner = w
Current(w) ==
  /\ ~Superseded /\ ~Mine(w).cancelled
  /\ document.server[worker[w].name] = worker[w].entry

\* The first section of _activate_once: a new version outdates other attempts.
Once(w) ==
  /\ At(w, "once")
  /\ IF ~Current(w) THEN Go(w, "close") /\ UNCHANGED attempts
     ELSE /\ Go(w, "open")
          /\ attempts' = (Outdate({a \in attempts : a.name = worker[w].name}) \ {Mine(w)})
                           \cup {[Mine(w) EXCEPT !.fresh = TRUE]}
  /\ UNCHANGED <<document, states, live, retired, publishVars, revisionVars, stopVars>>

NewClients == Clients \ (live \cup ClientsOf(states) \cup retired \cup Pinned \cup graph \cup InHands)

\* open_server, without the lock: a client, or an error, a timeout, a cancel.
Open(w) ==
  /\ At(w, "open")
  /\ \/ /\ ~Mine(w).cancelled /\ ~down
        /\ \E c \in NewClients :
             live' = live \cup {c} /\ worker' = [worker EXCEPT ![w].pc = "publish", ![w].client = c]
     \/ Go(w, "publish") /\ UNCHANGED live
  /\ UNCHANGED <<document, states, retired, publishVars, revisionVars, stopVars, attempts>>

StillValid(w) == Current(w) /\ Mine(w).fresh

Replaced(n) == {states[n].client} \ {NoClient}

\* The last section of _activate_once: the result is listed, or its client closed.
Publish(w) ==
  /\ At(w, "publish")
  /\ LET n == worker[w].name  c == worker[w].client IN
     IF StillValid(w)
     THEN /\ retired' = retired \cup Replaced(n)
          /\ states' = [states EXCEPT ![n] =
               [status |-> IF c = NoClient THEN "error" ELSE "connected",
                entry |-> worker[w].entry, client |-> c]]
          /\ Revise
          /\ worker' = [worker EXCEPT ![w].pc = "sweep", ![w].client = NoClient]
     ELSE /\ worker' = [worker EXCEPT ![w].pc = "close", ![w].client = NoClient,
                                     ![w].closing = {c} \ {NoClient}]
          /\ UNCHANGED <<retired, states, revisionVars>>
  /\ UNCHANGED <<document, live, publishVars, stopVars, attempts>>

-----------------------------------------------------------------------------
(* The safe point: build_agent from a snapshot, commit, record. *)

Connected == {n \in Names : states[n].status = "connected"}
Offered == IF Enabled THEN {states[n].client : n \in Connected} \ {NoClient} ELSE {}

Snapshot ==
  /\ At(Safe, "idle") /\ dirty /\ ~closed
  /\ snapshot' = {Offered} /\ moved' = FALSE
  /\ Go(Safe, "built")
  /\ UNCHANGED <<document, states, live, retired, published, graph, dirty, stopVars, attempts>>

\* A failed build, or a catalog that changed during it, leaves the old graph.
Discard ==
  /\ At(Safe, "built")
  /\ snapshot' = {}
  /\ Go(Safe, "sweep")
  /\ UNCHANGED <<document, states, live, retired, published, graph, revisionVars, stopVars, attempts>>

\* Mutant: an outdated snapshot may be published.
CommittableOld == ~closed /\ snapshot # {}
Committable == ~closed /\ ~moved /\ snapshot # {}

LiveOf == UNION snapshot

Commit ==
  /\ At(Safe, "built") /\ Committable
  /\ published' = LiveOf /\ snapshot' = {}
  /\ retired' = retired \cup (published \ published')
  /\ dirty' = FALSE
  /\ worker' = [worker EXCEPT ![Safe].pc = "sweep", ![Safe].built = TRUE]
  /\ UNCHANGED <<document, states, live, graph, moved, stopVars, attempts>>

\* build_agent returns the new graph; touch() records the change and may fail,
\* and then the runner goes back to the graph it had.
Adopt ==
  /\ At(Safe, "close") /\ worker[Safe].built
  /\ live' = live \ worker[Safe].closing
  /\ \/ graph' = published
     \/ StoreFails /\ UNCHANGED graph
  /\ Rest(Safe)
  /\ UNCHANGED <<document, states, retired, published, snapshot, revisionVars, stopVars, attempts>>

-----------------------------------------------------------------------------
(* The end: cancel_pending_connections, then close. *)

Stop(w) ==
  /\ Free(w) /\ ~connectionCancel
  /\ connectionCancel' = TRUE
  /\ Go(w, "stopping")
  /\ UNCHANGED <<document, states, live, retired, publishVars, revisionVars, closed, down, attempts>>

CancelAttempts(w) ==
  /\ At(w, "stopping")
  /\ attempts' = {[a EXCEPT !.cancelled = TRUE] : a \in attempts}
  /\ worker' = [v \in All |-> IF v = w THEN [worker[v] EXCEPT !.pc = "shutdown"]
                              ELSE [worker[v] EXCEPT !.stale = worker[v].batch]]
  /\ UNCHANGED <<document, states, live, retired, publishVars, revisionVars, stopVars>>

Shutdown(w) ==
  /\ At(w, "shutdown")
  /\ closed' = TRUE
  /\ worker' = [worker EXCEPT ![w].pc = "drain", ![w].closing = ClientsOf(states) \cup retired \cup Pinned]
  /\ snapshot' = {} /\ retired' = {}
  /\ states' = [n \in Names |-> [states[n] EXCEPT !.client = NoClient,
                  !.status = IF @ = "connected" THEN "disconnected" ELSE @]]
  /\ UNCHANGED <<document, live, published, graph, revisionVars, connectionCancel, down, attempts>>

\* _close_clients, then SyncAsyncBridge.shutdown ends the tasks of every connection.
Drain(w) ==
  /\ At(w, "drain")
  /\ live' = {} /\ down' = TRUE
  /\ Rest(w)
  /\ UNCHANGED <<document, states, retired, publishVars, revisionVars, connectionCancel, closed, attempts>>

-----------------------------------------------------------------------------
ThreadStep(w) ==
  \/ Sweep(w) \/ Return(w) \/ NextOfBatch(w)
  \/ Activate(w) \/ Once(w) \/ Open(w) \/ Publish(w)
  \/ CancelAttempts(w) \/ Shutdown(w) \/ Drain(w)

SafeStep == Sweep(Safe) \/ Return(Safe) \/ Discard \/ Commit \/ Adopt

Edit(w) ==
  \/ Load(w) \/ Enable(w) \/ Disable(w) \/ Stop(w)
  \/ \E n \in Names : Remove(w, n)

Next ==
  \/ Snapshot \/ SafeStep
  \/ \E w \in Editors : Edit(w)
  \/ \E w \in Threads : ThreadStep(w) \/ ConnectPending(w) \/ \E n \in Names : Test(w, n) \/ Add(w, n)

Spec == Init /\ [][Next]_vars

-----------------------------------------------------------------------------
\* A client that a published graph or the snapshot of a build holds is not closed
\* under it, whatever happens to its server (manager.py: "Tool objects published
\* to a graph stay valid until the next safe rebuild").
PinnedStayOpen == ~closed => Pinned \subseteq live

\* The tools of the graph in use have open clients.
GraphUsable == ~closed /\ At(Safe, "idle") => graph \subseteq live

\* No connection is lost track of: it is listed, published, pinned, waits for the
\* next rebuild, or is in the hands of the thread that will publish or close it.
NothingForgotten == live \subseteq ClientsOf(states) \cup retired \cup Pinned \cup InHands

\* With nobody about to sweep, what was replaced stays open only for a graph.
ReplacedAreClosed == (\A w \in All : ~At(w, "sweep")) => retired \subseteq Pinned

\* A toolset that is not dirty offers the clients of the catalog as it is now.
CleanMeansCurrent == ~closed /\ ~dirty => published = Offered

\* What is listed belongs to the catalog: a connection made for a server that was
\* removed, reloaded or switched off in the meantime never appears.
ListedIsConfigured ==
  \A n \in Names :
    /\ states[n] # Unlisted => states[n].entry = document.server[n]
    /\ states[n].client # NoClient => document.enabled /\ ~closed

\* Whoever waits for an attempt waits for a thread that is at work on it, for the
\* entry it asked for, and not for one that waits itself.
WaitersAreServed ==
  \A w \in Threads : At(w, "wait") =>
    \E a \in attempts : /\ a.owner = worker[w].owner /\ a.entry = worker[w].entry
                        /\ worker[a.owner].pc \in {"once", "open", "publish", "sweep", "close"}

\* The open connections are those in use: none that a graph or a pinned
\* snapshot needs is closed, none is lost, none that was replaced stays open.
ConnectionsMatchUse == PinnedStayOpen /\ GraphUsable /\ NothingForgotten /\ ReplacedAreClosed

\* What the catalog says is what was configured, connected and committed last,
\* and who waits for a connection of another thread is given its outcome.
CatalogIsCurrent == CleanMeansCurrent /\ ListedIsConfigured /\ WaitersAreServed
=============================================================================
