--------------------------- MODULE RuntimeProofs ---------------------------
(***************************************************************************)
(* Proofs about what a graph is built from: the catalog and connections of *)
(* MCP servers (McpCatalog), the settings of the runner (RunnerConfig) and *)
(* what the panel shows of it (McpPanel), for any number of servers,       *)
(* threads, connections, models, sessions, operations and commands.        *)
(*                                                                         *)
(* The invariant of the catalog has four groups: where each thread is      *)
(* (Placed), what happens to a connection (Connections), what the catalog  *)
(* lists (Catalog), and who is served by which attempt (Serving).  A step  *)
(* belongs to one thread; there is one lemma for each way in which a step  *)
(* treats connections, and one for each in which it treats attempts.  That *)
(* of the settings is nearly what is to be shown; that of the panel says   *)
(* who will correct a status that is not true any more (LineIsMinded).     *)
(***************************************************************************)
EXTENDS MCRuntime, TLAPS


-----------------------------------------------------------------------------
(* The invariant. *)

Nowhere == CHOOSE n \in Names : TRUE
Asking  == {"activate", "once", "open", "publish", "wait"}
Working == {"once", "open", "publish", "sweep", "close"}
Trying  == {"once", "open", "publish"}
Listed  == ClientsOf(states)

State == [status : {"unlisted", "disconnected", "connected", "error"},
          entry : Entry, client : Client]
AnyWorker == [pc : Phases, name : Names \cup {Nowhere}, entry : Entry, batch : BOOLEAN,
              left : SUBSET Names, stale : BOOLEAN, client : Client,
              closing : SUBSET Clients, built : BOOLEAN, owner : Threads \cup {NoThread}]

\* The types; the name of a thread that never connected is any.
Types ==
  /\ document \in [enabled : BOOLEAN, fatal : BOOLEAN, server : [Names -> Entry]]
  /\ states \in [Names -> State]
  /\ live \in SUBSET Clients /\ retired \in SUBSET Clients
  /\ published \in SUBSET Clients /\ graph \in SUBSET Clients
  /\ snapshot \in SUBSET (SUBSET Clients)
  /\ dirty \in BOOLEAN /\ moved \in BOOLEAN
  /\ connectionCancel \in BOOLEAN /\ closed \in BOOLEAN /\ down \in BOOLEAN
  /\ attempts \in SUBSET Attempt
  /\ worker \in [All -> AnyWorker]

\* What a thread has in its hands in each of its phases.
Fits(w) ==
  /\ worker[w].pc \notin {"close", "drain"} => worker[w].closing = {}
  /\ worker[w].pc # "publish" => worker[w].client = NoClient
  /\ worker[w].pc \in Asking => worker[w].name \in Names /\ worker[w].entry \in Entries
  /\ worker[w].pc = "drain" => closed
  /\ worker[w].built => w = Safe /\ worker[w].pc \in {"sweep", "close"}
Placed == \A w \in All : Fits(w)
SafeAtHome ==
  worker[Safe].pc \in {"idle", "built", "sweep", "close"} /\ worker[Safe].left = {}

Threaded == Types /\ Placed /\ SafeAtHome

\* No connection is listed twice, nor listed and retired at once;
ListedOnce ==
  \A m, n \in Names : states[m].client = states[n].client
      /\ m # n => states[m].client = NoClient
ListedInUse == ~closed => Listed \cap retired = {}
\* what a thread closes is in no other place, nor is what it has just opened;
ClosingUnused ==
  ~closed => \A w \in All : worker[w].closing \cap (Listed \cup retired \cup Pinned) = {}
NewUnlisted ==
  ~closed => \A w \in All :
    worker[w].client # NoClient => worker[w].client \notin Listed \cup retired \cup Pinned
NewUnused ==
  ~closed => \A w, v \in All : worker[w].client # NoClient =>
    /\ worker[w].client \notin worker[v].closing
    /\ v # w => worker[v].client # worker[w].client
\* everything else is open.
InUseIsLive == ~closed => Listed \cup retired \cup Pinned \subseteq live
NewIsLive == ~closed => \A w \in All : worker[w].client # NoClient => worker[w].client \in live
\* A build holds what was listed, and what was replaced since is only retired.
SnapshotHeld == snapshot # {} => worker[Safe].pc = "built"
SnapshotTracked == UNION snapshot \subseteq Listed \cup retired
GraphKept == StoreFails = FALSE /\ ~worker[Safe].built => graph = published

Connections ==
  /\ ListedOnce /\ ListedInUse /\ ClosingUnused /\ NewUnlisted /\ NewUnused
  /\ InUseIsLive /\ NewIsLive /\ SnapshotHeld /\ SnapshotTracked /\ GraphKept
  /\ NothingForgotten /\ ReplacedAreClosed

\* What is listed is configured, and is connected when it has a connection.
FatalIsOff == document.fatal => ~document.enabled
Configured ==
  \A n \in Names :
    states[n] # Unlisted => states[n].entry = document.server[n]
    /\ document.server[n] # NoEntry
ConnectedHasClient ==
  \A n \in Names :
    /\ states[n].client # NoClient <=> states[n].status = "connected"
    /\ states[n].client # NoClient => document.enabled /\ ~closed
\* A snapshot nothing moved under holds what is listed; so does a clean toolset.
SnapshotCurrent == ~closed /\ ~moved /\ snapshot # {} => UNION snapshot = Listed
CleanIsListed == ~closed /\ ~dirty => published = Listed

Catalog == FatalIsOff /\ Configured /\ ConnectedHasClient /\ SnapshotCurrent /\ CleanIsListed

\* The owner of an attempt works on it, and has one.
OwnersWork == \A a \in attempts : worker[a.owner].pc \in Working
OneEach == \A a, b \in attempts : a.owner = b.owner => a = b
HasAttempt == \A w \in Threads : worker[w].pc \in Trying => \E a \in attempts : a.owner = w
\* It is given a version after it was made.
VersionGiven == \A a \in attempts : a.fresh => worker[a.owner].pc # "once"

Serving == OwnersWork /\ OneEach /\ HasAttempt /\ VersionGiven /\ WaitersAreServed

IInv == Threaded /\ Connections /\ Catalog /\ Serving

-----------------------------------------------------------------------------
(* How a step treats connections. *)

\* A thread that a step does not concern; its round may be over.
Alike(v) ==
  /\ worker'[v].pc = worker[v].pc /\ worker'[v].name = worker[v].name
  /\ worker'[v].entry = worker[v].entry /\ worker'[v].left = worker[v].left
  /\ worker'[v].client = worker[v].client /\ worker'[v].closing = worker[v].closing
  /\ worker'[v].built = worker[v].built /\ worker'[v].owner = worker[v].owner
Others(w) == \A v \in All : v # w => Alike(v)

\* The thread keeps what it has in its hands.
HandsKept(w) == worker'[w].closing = worker[w].closing /\ worker'[w].client = worker[w].client

\* A step that leaves every connection where it is.
LEMMA ConnectionsRest ==
  ASSUME Types, Types', Connections, NEW w \in Threads, Others(w), HandsKept(w),
         worker[w].pc # "sweep", worker'[w].pc # "sweep",
         UNCHANGED <<states, live, retired, published, snapshot, graph, closed>>
  PROVE  Connections'
<1>1. Safe \in All /\ w \in All /\ Safe # w
  BY ThreadAssumption DEF All
<1>2. \A v \in All : worker'[v].closing = worker[v].closing
          /\ worker'[v].client = worker[v].client
  BY DEF Others, Alike, HandsKept
<1>3. Listed' = Listed /\ Pinned' = Pinned /\ InHands' = InHands
  BY <1>2 DEF Listed, ClientsOf, Pinned, InHands
<1>4. ListedOnce' /\ ListedInUse'
  BY <1>3 DEF Connections, ListedOnce, ListedInUse
<1>5. ClosingUnused' /\ NewUnlisted' /\ NewUnused'
  BY <1>2, <1>3 DEF Connections, ClosingUnused, NewUnlisted, NewUnused
<1>6. InUseIsLive' /\ NewIsLive' /\ NothingForgotten' /\ SnapshotTracked'
  BY <1>2, <1>3
    DEF Connections, InUseIsLive, NewIsLive, NothingForgotten, Listed, SnapshotTracked
<1>7. SnapshotHeld' /\ GraphKept'
  BY <1>1 DEF Connections, SnapshotHeld, GraphKept, Others, Alike
<1>8. ReplacedAreClosed'
  BY <1>3 DEF Connections, ReplacedAreClosed, At, Others, Alike
<1> QED
  BY <1>4, <1>5, <1>6, <1>7, <1>8 DEF Connections

\* A change of the catalog: connections that are listed no more are retired.
LEMMA ConnectionsRetire ==
  ASSUME Types, Types', Connections, NEW w \in Threads, Others(w), HandsKept(w),
         worker'[w].pc = "sweep",
         \A n \in Names : states'[n].client \in {states[n].client, NoClient},
         Listed \subseteq Listed' \cup retired', retired \subseteq retired',
         retired' \subseteq retired \cup Listed, ~closed, Listed' \cap retired' = {},
         UNCHANGED <<live, published, snapshot, graph, closed>>
  PROVE  Connections'
<1>1. Safe \in All /\ w \in All /\ Safe # w
  BY ThreadAssumption DEF All
<1>2. \A v \in All : worker'[v].closing = worker[v].closing
          /\ worker'[v].client = worker[v].client
  BY DEF Others, Alike, HandsKept
<1>3. Listed' \subseteq Listed /\ Pinned' = Pinned /\ InHands' = InHands
  BY <1>2 DEF Listed, ClientsOf, Pinned, InHands
<1>4. ListedOnce'
  BY DEF Connections, ListedOnce
<1>5. ListedInUse' /\ ClosingUnused' /\ NewUnlisted' /\ NewUnused'
  BY <1>2, <1>3 DEF Connections, ListedInUse, ClosingUnused, NewUnlisted, NewUnused
<1>6. InUseIsLive' /\ NewIsLive' /\ SnapshotTracked'
  BY <1>2, <1>3 DEF Connections, InUseIsLive, NewIsLive, SnapshotTracked
<1>7. NothingForgotten'
  BY <1>3 DEF Connections, NothingForgotten, Listed
<1>8. SnapshotHeld' /\ GraphKept'
  BY <1>1 DEF Connections, SnapshotHeld, GraphKept, Others, Alike
<1>9. ReplacedAreClosed'
  BY <1>1 DEF ReplacedAreClosed, At
<1> QED
  BY <1>4, <1>5, <1>6, <1>7, <1>8, <1>9 DEF Connections

\* The result of an attempt is listed in the place of what was there.
LEMMA ConnectionsPublish ==
  ASSUME Types, Types', Connections, NEW w \in Threads, Others(w),
         worker'[w].closing = worker[w].closing, worker'[w].client = NoClient,
         worker'[w].pc = "sweep", NEW m \in Names,
         states'[m].client = worker[w].client,
         \A n \in Names : n # m => states'[n].client = states[n].client,
         retired' = retired \cup ({states[m].client} \ {NoClient}), ~closed,
         UNCHANGED <<live, published, snapshot, graph, closed>>
  PROVE  Connections'
<1> DEFINE c == worker[w].client
<1>1. Safe \in All /\ w \in All /\ Safe # w /\ c \in Client
  BY ThreadAssumption DEF All, Types, AnyWorker
<1>2. \A v \in All : /\ worker'[v].closing = worker[v].closing
                     /\ v # w => worker'[v].client = worker[v].client
  BY DEF Others, Alike
<1>3. \A d \in Client : d # NoClient =>
        (d \in Listed' <=> d = c \/ \E n \in Names : n # m /\ d = states[n].client)
  BY DEF Listed, ClientsOf
<1>4. \A d \in Client : d # NoClient => (d \in Listed <=> \E n \in Names : d = states[n].client)
  BY DEF Listed, ClientsOf
<1>5. Listed' \subseteq Clients /\ Listed \subseteq Clients /\ retired' \subseteq Clients
  BY DEF Listed, ClientsOf, Types, State, Client
<1>6. Pinned' = Pinned
  BY DEF Pinned
<1>7. NoClient \notin Clients /\ Clients \subseteq Client
  BY NoneAssumption DEF Client
<1>8. c # NoClient => c \notin Listed /\ c \notin retired /\ c \notin Pinned /\ c \in live
  BY <1>1 DEF Connections, NewUnlisted, NewIsLive
<1>9. Listed \ {states[m].client} \subseteq Listed' /\ Listed' \subseteq Listed \cup {c}
  BY <1>3, <1>4, <1>5, <1>7
<1>10. retired' \subseteq retired \cup Listed
  BY DEF Listed, ClientsOf
<1>11. ListedOnce'
  BY <1>1, <1>4, <1>8 DEF Connections, ListedOnce
<1>12. \A n \in Names : n # m
           /\ states[n].client # NoClient => states[n].client # states[m].client
  BY DEF Connections, ListedOnce
<1>13. ListedInUse'
  <2> SUFFICES ASSUME NEW d \in Listed', d \in retired' PROVE FALSE
    BY DEF ListedInUse
  <2>1. d \in Clients /\ d # NoClient
    BY <1>5, <1>7
  <2>2. CASE d = c
    <3>1. d \notin Listed /\ d \notin retired
      BY <2>1, <2>2, <1>8
    <3> QED BY <3>1, <1>10
  <2>3. CASE d # c
    <3>1. PICK n \in Names : n # m /\ d = states[n].client
      BY <2>1, <2>3, <1>3, <1>7
    <3>2. d \in Listed /\ d # states[m].client
      BY <3>1, <2>1, <1>4, <1>7, <1>12
    <3>3. d \in retired
      BY <3>2
    <3> QED BY <3>2, <3>3 DEF Connections, ListedInUse
  <2> QED BY <2>2, <2>3
<1>14. ClosingUnused'
  <2> SUFFICES ASSUME NEW v \in All, NEW d \in worker'[v].closing,
                      d \in Listed' \cup retired' \cup Pinned'
               PROVE  FALSE
    BY DEF ClosingUnused
  <2>1. d \in worker[v].closing
    BY <1>2
  <2>2. d \notin Listed /\ d \notin retired /\ d \notin Pinned
    BY <2>1 DEF Connections, ClosingUnused
  <2>3. d = c /\ d # NoClient
    BY <2>2, <1>6, <1>9, <1>10 DEF Listed, ClientsOf
  <2> QED BY <2>1, <2>3, <1>1 DEF Connections, NewUnused
<1>15. NewUnlisted'
  <2> SUFFICES ASSUME NEW v \in All, worker'[v].client # NoClient
               PROVE  worker'[v].client \notin Listed' \cup retired' \cup Pinned'
    BY DEF NewUnlisted
  <2>1. v # w /\ worker'[v].client = worker[v].client
    BY <1>2
  <2>2. worker[v].client \notin Listed \cup retired \cup Pinned
    BY <2>1 DEF Connections, NewUnlisted
  <2>3. worker[v].client # c
    BY <2>1, <1>1 DEF Connections, NewUnused
  <2> QED BY <2>1, <2>2, <2>3, <1>6, <1>9, <1>10
<1>16. NewUnused' /\ NewIsLive'
  BY <1>2 DEF Connections, NewUnused, NewIsLive
<1>17. InUseIsLive'
  <2>1. Listed' \subseteq live
    BY <1>8, <1>9 DEF Connections, InUseIsLive, Listed, ClientsOf
  <2> QED BY <2>1, <1>6, <1>10 DEF Connections, InUseIsLive
<1>18. SnapshotTracked'
  BY <1>9 DEF Connections, SnapshotTracked, Listed, ClientsOf
<1>19. SnapshotHeld' /\ GraphKept'
  BY <1>1 DEF Connections, SnapshotHeld, GraphKept, Others, Alike
<1>20. NothingForgotten'
  <2> SUFFICES ASSUME NEW d \in live, d \notin Listed', d \notin retired', d \notin Pinned'
               PROVE  d \in InHands'
    BY DEF NothingForgotten, Listed
  <2>1. d \notin Listed /\ d \notin retired /\ d \notin Pinned
    BY <1>6, <1>9 DEF Listed, ClientsOf
  <2>2. PICK v \in All : d \in worker[v].closing \cup ({worker[v].client} \ {NoClient})
    BY <2>1 DEF Connections, NothingForgotten, InHands, Listed
  <2>3. v = w => d # c
    BY <1>3, <1>7 DEF Types
  <2> QED BY <2>2, <2>3, <1>2 DEF InHands
<1>21. ReplacedAreClosed'
  BY <1>1 DEF ReplacedAreClosed, At
<1> QED
  BY <1>11, <1>13, <1>14, <1>15, <1>16, <1>17, <1>18, <1>19, <1>20, <1>21 DEF Connections

\* The connection of an attempt that is out of date goes to be closed.
LEMMA ConnectionsReject ==
  ASSUME Types, Types', Connections, NEW w \in Threads, Others(w),
         worker[w].closing = {}, worker'[w].closing = {worker[w].client} \ {NoClient},
         worker'[w].client = NoClient,
         worker[w].pc # "sweep", worker'[w].pc # "sweep",
         UNCHANGED <<states, live, retired, published, snapshot, graph, closed>>
  PROVE  Connections'
<1>1. Safe \in All /\ w \in All /\ Safe # w
  BY ThreadAssumption DEF All
<1>2. \A v \in All : v # w =>
        worker'[v].closing = worker[v].closing /\ worker'[v].client = worker[v].client
  BY DEF Others, Alike
<1>3. Listed' = Listed /\ Pinned' = Pinned
  BY DEF Listed, ClientsOf, Pinned
<1>4. ListedOnce' /\ ListedInUse'
  BY <1>3 DEF Connections, ListedOnce, ListedInUse
<1>5. ClosingUnused'
  BY <1>1, <1>2, <1>3 DEF Connections, ClosingUnused, NewUnlisted
<1>6. NewUnlisted' /\ NewUnused'
  BY <1>1, <1>2, <1>3 DEF Connections, NewUnlisted, NewUnused
<1>7. InUseIsLive' /\ NewIsLive' /\ SnapshotTracked'
  BY <1>1, <1>2, <1>3 DEF Connections, InUseIsLive, NewIsLive, SnapshotTracked
<1>8. InHands' = InHands
  BY <1>1, <1>2 DEF InHands
<1>9. NothingForgotten'
  BY <1>3, <1>8 DEF Connections, NothingForgotten, Listed
<1>10. SnapshotHeld' /\ GraphKept'
  BY <1>1 DEF Connections, SnapshotHeld, GraphKept, Others, Alike
<1>11. ReplacedAreClosed'
  BY <1>3 DEF Connections, ReplacedAreClosed, At, Others, Alike
<1> QED
  BY <1>4, <1>5, <1>6, <1>7, <1>9, <1>10, <1>11 DEF Connections

\* A connection is opened that is in no place yet.
LEMMA ConnectionsOpen ==
  ASSUME Types, Types', Connections, NEW w \in Threads, Others(w), NEW c \in NewClients,
         worker[w].client = NoClient, worker'[w].client = c,
         worker'[w].closing = worker[w].closing, live' = live \cup {c},
         worker[w].pc # "sweep", worker'[w].pc # "sweep",
         UNCHANGED <<states, retired, published, snapshot, graph, closed>>
  PROVE  Connections'
<1>1. Safe \in All /\ w \in All /\ Safe # w
  BY ThreadAssumption DEF All
<1>2. \A v \in All : /\ worker'[v].closing = worker[v].closing
                     /\ v # w => worker'[v].client = worker[v].client
  BY DEF Others, Alike
<1>3. Listed' = Listed /\ Pinned' = Pinned
  BY DEF Listed, ClientsOf, Pinned
<1>4. c # NoClient /\ c \notin Listed /\ c \notin retired /\ c \notin Pinned
      /\ c \notin InHands
  BY NoneAssumption DEF NewClients, Listed
<1>5. \A v \in All : c \notin worker[v].closing /\ c # worker[v].client
  BY <1>4 DEF InHands
<1>6. ListedOnce' /\ ListedInUse' /\ ClosingUnused'
  BY <1>2, <1>3 DEF Connections, ListedOnce, ListedInUse, ClosingUnused
<1>7. NewUnlisted'
  BY <1>2, <1>3, <1>4 DEF Connections, NewUnlisted
<1>8. NewUnused'
  BY <1>2, <1>5 DEF Connections, NewUnused
<1>9. InUseIsLive' /\ NewIsLive' /\ SnapshotTracked'
  BY <1>2, <1>3 DEF Connections, InUseIsLive, NewIsLive, SnapshotTracked
<1>10. InHands \cup {c} \subseteq InHands'
  BY <1>1, <1>2, <1>4 DEF InHands
<1>11. NothingForgotten'
  BY <1>3, <1>10 DEF Connections, NothingForgotten, Listed
<1>12. SnapshotHeld' /\ GraphKept'
  BY <1>1 DEF Connections, SnapshotHeld, GraphKept, Others, Alike
<1>13. ReplacedAreClosed'
  BY <1>3 DEF Connections, ReplacedAreClosed, At, Others, Alike
<1> QED
  BY <1>6, <1>7, <1>8, <1>9, <1>11, <1>12, <1>13 DEF Connections

\* What nobody holds is taken to be closed.
LEMMA ConnectionsSweep ==
  ASSUME Types, Types', Connections, NEW w \in All, Others(w),
         worker[w].closing = {}, worker'[w].closing = retired \ Pinned,
         worker'[w].client = worker[w].client, worker'[w].built = worker[w].built,
         worker[w].pc = "sweep", retired' = retired \cap Pinned,
         UNCHANGED <<states, live, published, snapshot, graph, closed>>
  PROVE  Connections'
<1>1. Safe \in All
  BY DEF All
<1>2. \A v \in All : /\ worker'[v].client = worker[v].client
                     /\ worker'[v].closing = worker[v].closing \/ worker'[v].closing = retired \ Pinned
  BY DEF Others, Alike
<1>3. Listed' = Listed /\ Pinned' = Pinned
  BY DEF Listed, ClientsOf, Pinned
<1>4. ListedOnce' /\ ListedInUse'
  BY <1>3 DEF Connections, ListedOnce, ListedInUse
<1>5. ClosingUnused'
  BY <1>2, <1>3 DEF Connections, ClosingUnused, ListedInUse
<1>6. NewUnlisted'
  BY <1>2, <1>3 DEF Connections, NewUnlisted
<1>7. NewUnused'
  <2> SUFFICES ASSUME ~closed, NEW u \in All, NEW v \in All, worker[u].client # NoClient
               PROVE  /\ worker[u].client \notin worker'[v].closing
                      /\ v # u => worker[v].client # worker[u].client
    BY <1>2 DEF NewUnused
  <2>1. worker[u].client \notin retired /\ worker[u].client \notin worker[v].closing
    BY DEF Connections, NewUnlisted, NewUnused
  <2> QED BY <2>1, <1>2 DEF Connections, NewUnused
<1>8. InUseIsLive' /\ NewIsLive'
  BY <1>2, <1>3 DEF Connections, InUseIsLive, NewIsLive
<1>9. SnapshotTracked'
  BY <1>3 DEF Connections, SnapshotTracked, Pinned
<1>10. InHands \cup (retired \ Pinned) \subseteq InHands'
  BY DEF InHands, Others, Alike
<1>11. NothingForgotten'
  BY <1>3, <1>10 DEF Connections, NothingForgotten, Listed
<1>12. SnapshotHeld'
  BY <1>1 DEF Connections, SnapshotHeld, Others, Alike
<1>13. GraphKept'
  BY <1>1 DEF Connections, GraphKept, Others, Alike
<1>14. ReplacedAreClosed'
  BY <1>3 DEF ReplacedAreClosed
<1> QED
  BY <1>4, <1>5, <1>6, <1>7, <1>8, <1>9, <1>11, <1>12, <1>13, <1>14 DEF Connections

\* Connections that nobody uses are closed.
LEMMA ConnectionsClose ==
  ASSUME Types, Types', Connections, NEW w \in All,
         \A v \in All : v # w =>
           worker'[v].closing = worker[v].closing /\ worker'[v].client = worker[v].client,
         worker'[w].closing = {}, worker[w].client = NoClient, worker'[w].client = NoClient,
         \A v \in All : worker'[v].pc = "sweep" <=> worker[v].pc = "sweep",
         live' = live \ worker[w].closing,
         worker[Safe].pc = "built" => worker'[Safe].pc = "built",
         GraphKept',
         UNCHANGED <<states, retired, published, snapshot, closed>>
  PROVE  Connections'
<1>1. Safe \in All
  BY DEF All
<1>2. Listed' = Listed /\ Pinned' = Pinned
  BY DEF Listed, ClientsOf, Pinned
<1>3. ListedOnce' /\ ListedInUse'
  BY <1>2 DEF Connections, ListedOnce, ListedInUse
<1>4. ClosingUnused'
  BY <1>2 DEF Connections, ClosingUnused
<1>5. NewUnlisted' /\ NewUnused'
  BY <1>2 DEF Connections, NewUnlisted, NewUnused
<1>6. InUseIsLive'
  BY <1>2 DEF Connections, InUseIsLive, ClosingUnused
<1>7. NewIsLive'
  BY DEF Connections, NewIsLive, NewUnused
<1>8. SnapshotTracked' /\ SnapshotHeld'
  BY <1>2 DEF Connections, SnapshotTracked, SnapshotHeld
<1>9. InHands \ worker[w].closing \subseteq InHands'
  BY DEF InHands
<1>10. NothingForgotten'
  BY <1>2, <1>9 DEF Connections, NothingForgotten, Listed
<1>11. ReplacedAreClosed'
  BY <1>2 DEF Connections, ReplacedAreClosed, At
<1> QED
  BY <1>3, <1>4, <1>5, <1>6, <1>7, <1>8, <1>10, <1>11 DEF Connections

\* A build takes a snapshot of what is listed.
LEMMA ConnectionsSnapshot ==
  ASSUME Types, Types', Connections, Others(Safe), HandsKept(Safe),
         UNION snapshot' = Listed, worker[Safe].pc = "idle", worker'[Safe].pc = "built",
         worker'[Safe].built = worker[Safe].built,
         UNCHANGED <<states, live, retired, published, graph, closed>>
  PROVE  Connections'
<1>1. Safe \in All
  BY DEF All
<1>2. \A v \in All : worker'[v].closing = worker[v].closing
          /\ worker'[v].client = worker[v].client
  BY DEF Others, Alike, HandsKept
<1>3. snapshot = {}
  BY DEF Connections, SnapshotHeld
<1>4. Listed' = Listed /\ Pinned \subseteq Pinned'
      /\ Pinned' \subseteq Pinned \cup Listed /\ InHands' = InHands
  BY <1>2, <1>3 DEF Listed, ClientsOf, Pinned, InHands
<1>5. ListedOnce' /\ ListedInUse'
  BY <1>4 DEF Connections, ListedOnce, ListedInUse
<1>6. ClosingUnused' /\ NewUnlisted' /\ NewUnused'
  BY <1>2, <1>4 DEF Connections, ClosingUnused, NewUnlisted, NewUnused
<1>7. InUseIsLive' /\ NewIsLive'
  BY <1>2, <1>4 DEF Connections, InUseIsLive, NewIsLive
<1>8. NothingForgotten'
  BY <1>4 DEF Connections, NothingForgotten, Listed
<1>9. SnapshotTracked' /\ SnapshotHeld'
  BY <1>4 DEF SnapshotTracked, SnapshotHeld
<1>10. GraphKept'
  BY DEF Connections, GraphKept
<1>11. ReplacedAreClosed'
  <2>1. (\A v \in All : worker'[v].pc # "sweep") => \A v \in All : worker[v].pc # "sweep"
    BY <1>1 DEF Others, Alike
  <2> QED BY <2>1, <1>4 DEF Connections, ReplacedAreClosed, At
<1> QED
  BY <1>5, <1>6, <1>7, <1>8, <1>9, <1>10, <1>11 DEF Connections

\* The snapshot is given up.
LEMMA ConnectionsDiscard ==
  ASSUME Types, Types', Connections, Others(Safe), HandsKept(Safe),
         snapshot' = {}, worker'[Safe].pc = "sweep",
         worker'[Safe].built = worker[Safe].built,
         UNCHANGED <<states, live, retired, published, graph, closed>>
  PROVE  Connections'
<1>1. Safe \in All
  BY DEF All
<1>2. \A v \in All : worker'[v].closing = worker[v].closing
          /\ worker'[v].client = worker[v].client
  BY DEF Others, Alike, HandsKept
<1>3. Listed' = Listed /\ Pinned' = published
      /\ Pinned \subseteq published \cup Listed \cup retired
      /\ published \subseteq Pinned /\ InHands' = InHands
  BY <1>2 DEF Listed, ClientsOf, Pinned, InHands, Connections, SnapshotTracked
<1>4. ListedOnce' /\ ListedInUse'
  BY <1>3 DEF Connections, ListedOnce, ListedInUse
<1>5. ClosingUnused' /\ NewUnlisted' /\ NewUnused'
  BY <1>2, <1>3 DEF Connections, ClosingUnused, NewUnlisted, NewUnused
<1>6. InUseIsLive' /\ NewIsLive'
  BY <1>2, <1>3 DEF Connections, InUseIsLive, NewIsLive
<1>7. NothingForgotten'
  BY <1>3 DEF Connections, NothingForgotten, Listed
<1>8. SnapshotTracked' /\ SnapshotHeld'
  BY DEF SnapshotTracked, SnapshotHeld
<1>9. GraphKept'
  BY DEF Connections, GraphKept
<1>10. ReplacedAreClosed'
  BY <1>1 DEF ReplacedAreClosed, At
<1> QED
  BY <1>4, <1>5, <1>6, <1>7, <1>8, <1>9, <1>10 DEF Connections

\* The snapshot, which holds what is listed, is published.
LEMMA ConnectionsCommit ==
  ASSUME Types, Types', Connections, Others(Safe), HandsKept(Safe), ~closed,
         snapshot' = {}, UNION snapshot = Listed, published' = Listed,
         retired' = retired \cup (published \ published'),
         worker'[Safe].pc = "sweep", worker'[Safe].built = TRUE,
         UNCHANGED <<states, live, graph, closed>>
  PROVE  Connections'
<1>1. Safe \in All
  BY DEF All
<1>2. \A v \in All : worker'[v].closing = worker[v].closing
          /\ worker'[v].client = worker[v].client
  BY DEF Others, Alike, HandsKept
<1>3. Listed' = Listed /\ Pinned' = Listed /\ Pinned = published \cup Listed
      /\ InHands' = InHands
  BY <1>2 DEF Listed, ClientsOf, Pinned, InHands
<1>4. ListedOnce' /\ ListedInUse'
  BY <1>3 DEF Connections, ListedOnce, ListedInUse
<1>5. ClosingUnused' /\ NewUnlisted' /\ NewUnused'
  BY <1>2, <1>3 DEF Connections, ClosingUnused, NewUnlisted, NewUnused
<1>6. InUseIsLive' /\ NewIsLive'
  BY <1>2, <1>3 DEF Connections, InUseIsLive, NewIsLive
<1>7. NothingForgotten'
  BY <1>3 DEF Connections, NothingForgotten, Listed
<1>8. SnapshotTracked' /\ SnapshotHeld' /\ GraphKept'
  BY DEF SnapshotTracked, SnapshotHeld, GraphKept
<1>9. ReplacedAreClosed'
  BY <1>1 DEF ReplacedAreClosed, At
<1> QED
  BY <1>4, <1>5, <1>6, <1>7, <1>8, <1>9 DEF Connections

\* The shutdown takes everything that is in use to close it.
LEMMA ConnectionsShutdown ==
  ASSUME Types, Types', Connections, NEW w \in Threads, Others(w),
         closed', snapshot' = {}, retired' = {},
         \A n \in Names : states'[n].client = NoClient,
         worker[w].closing = {}, worker'[w].client = worker[w].client,
         worker'[w].closing = Listed \cup retired \cup Pinned,
         UNCHANGED <<live, published, graph>>
  PROVE  Connections'
<1>1. Safe \in All /\ w \in All /\ Safe # w
  BY ThreadAssumption DEF All
<1>2. ListedOnce' /\ ListedInUse' /\ ClosingUnused' /\ NewUnlisted' /\ NewUnused'
  BY DEF ListedOnce, ListedInUse, ClosingUnused, NewUnlisted, NewUnused
<1>3. InUseIsLive' /\ NewIsLive' /\ SnapshotTracked' /\ SnapshotHeld'
  BY DEF InUseIsLive, NewIsLive, SnapshotTracked, SnapshotHeld
<1>4. GraphKept'
  BY <1>1 DEF Connections, GraphKept, Others, Alike
<1>5. InHands \cup Listed \cup retired \cup Pinned \subseteq InHands'
  BY <1>1 DEF InHands, Others, Alike
<1>6. NothingForgotten'
  BY <1>5 DEF Connections, NothingForgotten, Listed
<1>7. ReplacedAreClosed'
  BY DEF ReplacedAreClosed
<1> QED
  BY <1>2, <1>3, <1>4, <1>6, <1>7 DEF Connections

\* The end of the bridge's loop ends every connection.
LEMMA ConnectionsDrain ==
  ASSUME Types, Types', Connections, NEW w \in Threads, Others(w), closed, closed', live' = {},
         worker[w].pc # "sweep", worker'[w].pc # "sweep",
         UNCHANGED <<states, retired, published, snapshot, graph>>
  PROVE  Connections'
<1>1. Safe \in All /\ w \in All /\ Safe # w
  BY ThreadAssumption DEF All
<1>2. Listed' = Listed /\ Pinned' = Pinned
  BY DEF Listed, ClientsOf, Pinned
<1>3. ListedOnce' /\ SnapshotTracked'
  BY <1>2 DEF Connections, ListedOnce, SnapshotTracked
<1>4. ListedInUse' /\ ClosingUnused' /\ NewUnlisted' /\ NewUnused' /\ InUseIsLive'
      /\ NewIsLive'
  BY DEF ListedInUse, ClosingUnused, NewUnlisted, NewUnused, InUseIsLive, NewIsLive
<1>5. NothingForgotten'
  BY DEF NothingForgotten
<1>6. SnapshotHeld' /\ GraphKept'
  BY <1>1 DEF Connections, SnapshotHeld, GraphKept, Others, Alike
<1>7. ReplacedAreClosed'
  BY <1>2 DEF Connections, ReplacedAreClosed, At, Others, Alike
<1> QED
  BY <1>3, <1>4, <1>5, <1>6, <1>7 DEF Connections

-----------------------------------------------------------------------------
(* How a step treats attempts. *)

\* The thread goes on with what it did, as far as attempts are concerned.
GoesOn(v) ==
  /\ worker[v].pc \in Working => worker'[v].pc \in Working
  /\ worker'[v].pc \in Trying => worker[v].pc \in Trying
  /\ worker'[v].pc = "once" => worker[v].pc = "once"
  /\ worker'[v].pc = "wait" =>
       /\ worker[v].pc = "wait"
       /\ worker'[v].entry = worker[v].entry /\ worker'[v].owner = worker[v].owner

\* The attempts are those there were, of the same threads for the same entries.
Matched ==
  /\ \A a \in attempts : \E b \in attempts' : b.owner = a.owner /\ b.entry = a.entry
  /\ \A b \in attempts' : \E a \in attempts :
       /\ b.owner = a.owner /\ b.entry = a.entry
       /\ b.fresh => a.fresh \/ worker'[b.owner].pc # "once"

\* Where the attempts are the same they match;
LEMMA SameAttemptsMatch ==
  ASSUME attempts' = attempts
  PROVE  Matched /\ (OneEach => OneEach')
  BY DEF Matched, OneEach

\* so they do where some are outdated,
LEMMA OutdatedAttemptsMatch ==
  ASSUME Types, NEW which, attempts' = Outdate(which)
  PROVE  Matched /\ (OneEach => OneEach') /\ attempts' \in SUBSET Attempt
<1> DEFINE old(a) == IF a \in which THEN [a EXCEPT !.fresh = FALSE] ELSE a
<1>1. \A a \in attempts : /\ old(a) \in Attempt /\ old(a).owner = a.owner
                          /\ old(a).entry = a.entry /\ (old(a).fresh => a.fresh)
  BY DEF Types, Attempt
<1>2. attempts' = {old(a) : a \in attempts}
  BY DEF Outdate
<1> HIDE DEF old
<1> QED
  BY <1>1, <1>2 DEF Matched, OneEach

\* What Disable makes of the attempts.
Disabled == {[a EXCEPT !.cancelled = TRUE, !.fresh = FALSE] : a \in attempts}

\* where all are cancelled and outdated,
LEMMA DisabledAttemptsMatch ==
  ASSUME Types, attempts' = Disabled
  PROVE  Matched /\ (OneEach => OneEach') /\ attempts' \in SUBSET Attempt
<1> DEFINE old(a) == [a EXCEPT !.cancelled = TRUE, !.fresh = FALSE]
<1>1. \A a \in attempts : /\ old(a) \in Attempt /\ old(a).owner = a.owner
                          /\ old(a).entry = a.entry /\ (old(a).fresh => a.fresh)
  BY DEF Types, Attempt
<1>2. attempts' = {old(a) : a \in attempts}
  BY DEF Disabled
<1> HIDE DEF old
<1> QED
  BY <1>1, <1>2 DEF Matched, OneEach

\* and where all are cancelled.
LEMMA CancelledAttemptsMatch ==
  ASSUME Types, attempts' = {[a EXCEPT !.cancelled = TRUE] : a \in attempts}
  PROVE  Matched /\ (OneEach => OneEach') /\ attempts' \in SUBSET Attempt
<1> DEFINE old(a) == [a EXCEPT !.cancelled = TRUE]
<1>1. \A a \in attempts : /\ old(a) \in Attempt /\ old(a).owner = a.owner
                          /\ old(a).entry = a.entry /\ (old(a).fresh => a.fresh)
  BY DEF Types, Attempt
<1>2. attempts' = {old(a) : a \in attempts}
  OBVIOUS
<1> HIDE DEF old
<1> QED
  BY <1>1, <1>2 DEF Matched, OneEach

\* The step of a thread that goes on.
LEMMA ServingGoesOn ==
  ASSUME Types, Serving, NEW w \in All, Others(w), GoesOn(w), Matched, OneEach'
  PROVE  Serving'
<1>1. \A v \in All : GoesOn(v)
  BY DEF Others, Alike, GoesOn
<1>2. \A a \in attempts : a.owner \in Threads /\ a.owner \in All
  BY DEF Types, Attempt, All
<1>3. \A b \in attempts' : b.owner \in Threads /\ b.owner \in All
  BY <1>2 DEF Matched
<1>4. OwnersWork'
  BY <1>1, <1>2 DEF Serving, OwnersWork, Matched, GoesOn
<1>5. HasAttempt'
  BY <1>1 DEF Serving, HasAttempt, Matched, GoesOn, All
<1>6. VersionGiven'
  BY <1>1, <1>2 DEF Serving, VersionGiven, Matched, GoesOn
<1>7. WaitersAreServed'
  <2> SUFFICES ASSUME NEW v \in Threads, worker'[v].pc = "wait"
               PROVE  \E b \in attempts' :
                        /\ b.owner = worker'[v].owner /\ b.entry = worker'[v].entry
                        /\ worker'[b.owner].pc \in Working
    BY DEF WaitersAreServed, At, Working
  <2>1. worker[v].pc = "wait" /\ worker'[v].entry = worker[v].entry
        /\ worker'[v].owner = worker[v].owner
    BY <1>1 DEF GoesOn, All
  <2>2. PICK a \in attempts : a.owner = worker[v].owner /\ a.entry = worker[v].entry
    BY <2>1 DEF Serving, WaitersAreServed, At
  <2>3. PICK b \in attempts' : b.owner = a.owner /\ b.entry = a.entry
    BY DEF Matched
  <2> QED BY <2>1, <2>2, <2>3, <1>4 DEF OwnersWork
<1> QED
  BY <1>4, <1>5, <1>6, <1>7 DEF Serving

\* A thread starts an attempt of its own.
LEMMA ServingStarts ==
  ASSUME Types, Serving, NEW w \in Threads, Others(w), NEW a \in Attempt,
         a.owner = w, ~a.fresh, attempts' = attempts \cup {a},
         worker[w].pc \notin Working, worker'[w].pc = "once"
  PROVE  Serving'
<1>1. w \in All /\ (\A b \in attempts : b.owner \in All /\ b.owner # w)
      /\ Threads \subseteq All
  BY DEF Types, Attempt, All, Serving, OwnersWork
<1>2. \A v \in All : v # w => Alike(v)
  BY DEF Others
<1>3. OwnersWork' /\ OneEach'
  BY <1>1, <1>2 DEF Serving, OwnersWork, OneEach, Alike, Working
<1>4. HasAttempt' /\ VersionGiven'
  BY <1>1, <1>2 DEF Serving, HasAttempt, VersionGiven, Alike
<1>5. WaitersAreServed'
  BY <1>1, <1>2 DEF Serving, WaitersAreServed, Alike, At
<1> QED
  BY <1>3, <1>4, <1>5 DEF Serving

\* A thread waits for the attempt of another one.
LEMMA ServingWaits ==
  ASSUME Types, Serving, NEW w \in Threads, Others(w), NEW a \in attempts, attempts' = attempts,
         worker[w].pc \notin Working, worker'[w].pc = "wait",
         worker'[w].owner = a.owner, worker'[w].entry = a.entry
  PROVE  Serving'
<1>1. w \in All /\ (\A b \in attempts : b.owner \in All /\ b.owner # w)
      /\ Threads \subseteq All
  BY DEF Types, Attempt, All, Serving, OwnersWork
<1>2. \A v \in All : v # w => Alike(v)
  BY DEF Others
<1>3. OwnersWork' /\ OneEach'
  BY <1>1, <1>2 DEF Serving, OwnersWork, OneEach, Alike
<1>4. HasAttempt' /\ VersionGiven'
  BY <1>1, <1>2 DEF Serving, HasAttempt, VersionGiven, Alike, Trying
<1>5. WaitersAreServed'
  <2> SUFFICES ASSUME NEW v \in Threads, worker'[v].pc = "wait"
               PROVE  \E b \in attempts :
                        /\ b.owner = worker'[v].owner /\ b.entry = worker'[v].entry
                        /\ worker'[b.owner].pc \in Working
    BY DEF WaitersAreServed, At, Working
  <2>1. CASE v = w
    BY <2>1, <1>3 DEF OwnersWork
  <2>2. CASE v # w
    BY <2>2, <1>1, <1>2, <1>3 DEF Serving, WaitersAreServed, At, Alike, OwnersWork
  <2> QED BY <2>1, <2>2
<1> QED
  BY <1>3, <1>4, <1>5 DEF Serving

\* Those that waited for a thread rest, and nothing else happens to others.
Wakes(w) == \A v \in All :
  v # w => Alike(v) \/ (worker[v].pc = "wait" /\ worker'[v].pc = "idle")

\* A thread ends its attempt, and all that wait for it have its result.
LEMMA ServingEnds ==
  ASSUME Types, Serving, NEW w \in All, attempts' \subseteq attempts,
         \A a \in attempts : a \in attempts' <=> a.owner # w,
         worker'[w].pc = "idle",
         Wakes(w),
         \A v \in Threads : worker'[v].pc = "wait" => worker[v].owner # w
  PROVE  Serving'
<1>1. (\A b \in attempts : b.owner \in All) /\ Threads \subseteq All
  BY DEF Types, Attempt, All
<1>2. OwnersWork' /\ OneEach'
  BY <1>1 DEF Serving, OwnersWork, OneEach, Wakes, Alike, Working
<1>3. HasAttempt' /\ VersionGiven'
  BY <1>1 DEF Serving, HasAttempt, VersionGiven, Wakes, Alike, Trying
<1>4. WaitersAreServed'
  <2> SUFFICES ASSUME NEW v \in Threads, worker'[v].pc = "wait"
               PROVE  \E b \in attempts' :
                        /\ b.owner = worker'[v].owner /\ b.entry = worker'[v].entry
                        /\ worker'[b.owner].pc \in Working
    BY DEF WaitersAreServed, At, Working
  <2>1. v # w /\ Alike(v) /\ worker[v].owner # w
    BY <1>1 DEF Wakes
  <2>2. PICK a \in attempts : a.owner = worker[v].owner /\ a.entry = worker[v].entry
    BY <2>1 DEF Serving, WaitersAreServed, At, Alike
  <2> QED BY <2>1, <2>2, <1>2 DEF Alike, OwnersWork
<1> QED
  BY <1>2, <1>3, <1>4 DEF Serving

-----------------------------------------------------------------------------
(* The actions. *)

\* A step of one thread leaves the others where they fit.
LEMMA ThreadsFit ==
  ASSUME Types, Placed, SafeAtHome, NEW w \in Threads, Others(w), Fits(w)', closed => closed'
  PROVE  Placed' /\ SafeAtHome'
<1>1. Safe \in All /\ Safe # w /\ w \in All
  BY ThreadAssumption DEF All
<1>2. Placed'
  BY DEF Placed, Fits, Others, Alike
<1>3. SafeAtHome'
  BY <1>1 DEF SafeAtHome, Others, Alike
<1> QED
  BY <1>2, <1>3

\* Where nothing is listed, taken back or published, the catalog is as it was.
LEMMA CatalogRests ==
  ASSUME Catalog, UNCHANGED <<document, states, snapshot, published, dirty, moved, closed>>
  PROVE  Catalog'
<1>1. Listed' = Listed
  BY DEF Listed, ClientsOf
<1> QED
  BY <1>1
    DEF Catalog, FatalIsOff, Configured, ConnectedHasClient, SnapshotCurrent, CleanIsListed

\* A thread that has nothing in its hands, before and after.
Empty(w) ==
  /\ worker[w].closing = {} /\ worker[w].client = NoClient /\ ~worker[w].built
  /\ worker'[w].closing = {} /\ worker'[w].client = NoClient /\ ~worker'[w].built

\* A step that neither opens nor lists nor closes anything.
LEMMA QuietStep ==
  ASSUME IInv, Types', NEW w \in Threads, Others(w), Empty(w), Matched, OneEach', GoesOn(w),
         worker[w].pc # "sweep", worker'[w].pc \notin {"sweep", "drain"},
         worker'[w].pc \in Asking => worker'[w].name \in Names /\ worker'[w].entry \in Entries,
         Catalog',
         UNCHANGED <<states, live, retired, publishVars, closed>>
  PROVE  IInv'
<1>1. w \in All
  BY DEF All
<1>2. Placed' /\ SafeAtHome'
  BY ThreadsFit DEF IInv, Threaded, Fits, Empty
<1>3. HandsKept(w)
  BY DEF HandsKept, Empty
<1>4. Connections'
  BY <1>3, ConnectionsRest DEF IInv, Threaded, publishVars
<1>5. Serving'
  BY <1>1, ServingGoesOn DEF IInv, Threaded
<1> QED
  BY <1>2, <1>4, <1>5 DEF IInv, Threaded

\* What is known of a thread that begins something.
LEMMA FreeHasNothing ==
  ASSUME IInv, NEW w \in Threads, worker[w].pc \in {"idle", "activate", "stopping", "shutdown"}
  PROVE  worker[w].closing = {} /\ worker[w].client = NoClient /\ ~worker[w].built
         /\ worker[w] \in AnyWorker /\ w \in All
  BY DEF IInv, Threaded, Placed, Fits, Types, All

\* enable: connections stay as they are until somebody connects.
LEMMA EnableKeeps ==
  ASSUME IInv, NEW w \in Threads, Enable(w)
  PROVE  IInv'
<1>1. Types'
  BY DEF Enable, IInv, Threaded, Types, Revise, Writable, publishVars, stopVars
<1>2. Others(w) /\ Empty(w) /\ GoesOn(w) /\ worker'[w].pc = "idle"
  BY FreeHasNothing DEF Enable, Free, At, Others, Alike, Empty, GoesOn
<1>3. Matched /\ OneEach'
  BY SameAttemptsMatch DEF Enable, IInv, Serving
<1>4. Catalog'
  <2>1. Listed' = Listed
    BY DEF Enable, Listed, ClientsOf
  <2>2. FatalIsOff' /\ Configured'
    BY DEF Enable, Writable, IInv, Threaded, Types, Catalog, FatalIsOff, Configured
  <2>3. ConnectedHasClient'
    BY DEF Enable, Writable, IInv, Threaded, Types, Catalog, ConnectedHasClient, stopVars
  <2>4. SnapshotCurrent' /\ CleanIsListed'
    BY DEF Enable, Revise, SnapshotCurrent, CleanIsListed
  <2> QED BY <2>2, <2>3, <2>4 DEF Catalog
<1> QED
  BY <1>1, <1>2, <1>3, <1>4, QuietStep DEF Enable, Asking, stopVars

\* connect_pending: the round of the servers that are disconnected.
LEMMA ConnectPendingKeeps ==
  ASSUME IInv, NEW w \in Threads, ConnectPending(w)
  PROVE  IInv'
<1> DEFINE apart == {n \in Names : states[n].status = "disconnected"}
<1>1. worker' = [worker EXCEPT ![w].batch = TRUE, ![w].left = apart] /\ worker[w].pc = "idle"
  BY DEF ConnectPending, Free, At
<1>2. worker[w] \in AnyWorker /\ w \in All
  BY <1>1, FreeHasNothing
<1>3. worker' \in [All -> AnyWorker]
  BY <1>1, <1>2 DEF IInv, Threaded, Types, AnyWorker
<1>4. Types'
  BY <1>3 DEF ConnectPending, IInv, Threaded, Types, revisionVars, publishVars, stopVars
<1>5. Others(w) /\ Empty(w) /\ GoesOn(w) /\ worker'[w].pc = "idle"
  BY <1>1, <1>2, FreeHasNothing
    DEF IInv, Threaded, Types, Others, Alike, Empty, GoesOn, Working, Trying, AnyWorker
<1>6. Matched /\ OneEach' /\ Catalog'
  BY SameAttemptsMatch, CatalogRests
    DEF ConnectPending, IInv, Serving, revisionVars, publishVars, stopVars
<1> QED
  BY <1>1, <1>4, <1>5, <1>6, QuietStep DEF ConnectPending, Asking, stopVars

\* A thread that is about to connect to a server.
LEMMA Connecting ==
  ASSUME IInv, NEW w \in Threads, NEW n \in Names, NEW e \in Entries, worker[w].pc = "idle",
         worker' = Connect(w, n, e)
  PROVE  /\ worker' \in [All -> AnyWorker]
         /\ Others(w) /\ Empty(w) /\ GoesOn(w) /\ worker'[w].pc = "activate"
         /\ worker'[w].name \in Names /\ worker'[w].entry \in Entries
<1>1. worker[w] \in AnyWorker /\ w \in All
  BY FreeHasNothing
<1>2. worker'[w] = [worker[w] EXCEPT !.pc = "activate", !.name = n, !.entry = e, !.left = @ \ {n}]
      /\ (\A v \in All : v # w => worker'[v] = worker[v])
      /\ worker' = [worker EXCEPT ![w] = worker'[w]]
  BY <1>1 DEF Connect, IInv, Threaded, Types
<1>3. worker'[w] \in AnyWorker /\ worker'[w].pc = "activate" /\ worker'[w].name = n
      /\ worker'[w].entry = e /\ worker'[w].closing = worker[w].closing
      /\ worker'[w].client = worker[w].client /\ worker'[w].built = worker[w].built
  BY <1>1, <1>2, ZenonT(60) DEF AnyWorker, Entry, Phases
<1>4. worker' \in [All -> AnyWorker]
  BY <1>2, <1>3 DEF IInv, Threaded, Types
<1> QED
  BY <1>2, <1>3, <1>4, FreeHasNothing DEF Others, Alike, Empty, GoesOn, Working, Trying

\* test: a server that is listed is connected again.
LEMMA TestKeeps ==
  ASSUME IInv, NEW w \in Threads, NEW n \in Names, Test(w, n)
  PROVE  IInv'
<1>1. worker' = Connect(w, n, document.server[n]) /\ worker[w].pc = "idle"
      /\ document.server[n] \in Entries
  BY DEF Test, Free, At, IInv, Threaded, Types, Entry
<1>2. Types'
  BY <1>1, Connecting DEF Test, IInv, Threaded, Types, revisionVars, publishVars, stopVars
<1>3. Matched /\ OneEach' /\ Catalog'
  BY SameAttemptsMatch, CatalogRests
    DEF Test, IInv, Serving, revisionVars, publishVars, stopVars
<1> QED
  BY <1>1, <1>2, <1>3, Connecting, QuietStep DEF Test, stopVars

\* add: an entry nobody uses is saved, then connected.
LEMMA AddKeeps ==
  ASSUME IInv, NEW w \in Threads, NEW n \in Names, Add(w, n)
  PROVE  IInv'
<1>1. /\ worker' = Connect(w, n, document'.server[n]) /\ worker[w].pc = "idle"
      /\ document'.server[n] \in Entries
      /\ document' \in [enabled : BOOLEAN, fatal : BOOLEAN, server : [Names -> Entry]]
      /\ document'.enabled = document.enabled /\ document'.fatal = document.fatal
      /\ \A m \in Names : document.server[m] # NoEntry =>
           document'.server[m] = document.server[m]
  <2>1. document \in [enabled : BOOLEAN, fatal : BOOLEAN, server : [Names -> Entry]]
        /\ worker' = Connect(w, n, document'.server[n]) /\ worker[w].pc = "idle"
    BY DEF Add, Free, At, IInv, Threaded, Types
  <2>2. CASE document.server[n] # NoEntry /\ UNCHANGED document
    BY <2>1, <2>2 DEF Entry
  <2>3. ASSUME NEW e \in Entries, document.server[n] = NoEntry,
               document' = [document EXCEPT !.server[n] = e]
        PROVE  /\ document'.server[n] \in Entries
               /\ document' \in [enabled : BOOLEAN, fatal : BOOLEAN, server : [Names -> Entry]]
               /\ document'.enabled = document.enabled /\ document'.fatal = document.fatal
               /\ \A m \in Names : document.server[m] # NoEntry =>
                    document'.server[m] = document.server[m]
    BY <2>1, <2>3 DEF Entry
  <2> QED
    BY <2>1, <2>2, <2>3 DEF Add, NewEntries
<1>2. Types'
  BY <1>1, Connecting DEF Add, IInv, Threaded, Types, revisionVars, publishVars, stopVars
<1>3. Matched /\ OneEach'
  BY SameAttemptsMatch DEF Add, IInv, Serving
<1>4. Catalog'
  <2>1. FatalIsOff' /\ Configured'
    BY <1>1 DEF Add, IInv, Catalog, FatalIsOff, Configured
  <2>2. ConnectedHasClient'
    BY <1>1 DEF Add, IInv, Catalog, ConnectedHasClient, stopVars
  <2>3. Listed' = Listed
    BY DEF Add, Listed, ClientsOf
  <2>4. SnapshotCurrent' /\ CleanIsListed'
    BY <2>3
      DEF Add, IInv, Catalog, SnapshotCurrent, CleanIsListed, stopVars, revisionVars,
           publishVars
  <2> QED BY <2>1, <2>2, <2>4 DEF Catalog
<1> QED
  BY <1>1, <1>2, <1>3, <1>4, Connecting, QuietStep DEF Add, stopVars

\* The loop of connect_pending.
LEMMA NextOfBatchKeeps ==
  ASSUME IInv, NEW w \in Threads, NextOfBatch(w)
  PROVE  IInv'
<1>1. PICK n \in worker[w].left :
        worker' = IF Superseded \/ worker[w].stale THEN [worker EXCEPT ![w] = Resting(n)]
                  ELSE IF document.server[n] = NoEntry
                  THEN [worker EXCEPT ![w].left = @ \ {n}, ![w].batch = worker[w].left # {n}]
                  ELSE Connect(w, n, document.server[n])
  BY DEF NextOfBatch
<1>2. worker[w].pc = "idle" /\ worker[w] \in AnyWorker /\ w \in All /\ n \in Names
      /\ worker \in [All -> AnyWorker] /\ document.server[n] \in Entry
  BY FreeHasNothing, <1>1 DEF NextOfBatch, At, IInv, Threaded, Types, AnyWorker
<1>3. Matched /\ OneEach' /\ Catalog'
  BY SameAttemptsMatch, CatalogRests
    DEF NextOfBatch, IInv, Serving, revisionVars, publishVars, stopVars
<1>4. /\ worker' \in [All -> AnyWorker]
      /\ Others(w) /\ Empty(w) /\ GoesOn(w) /\ worker'[w].pc \in {"idle", "activate"}
      /\ worker'[w].pc = "activate" => worker'[w].name \in Names
         /\ worker'[w].entry \in Entries
  <2>1. CASE worker' = [worker EXCEPT ![w] = Resting(n)]
    <3>1. Resting(n) \in AnyWorker /\ worker'[w] = Resting(n)
      BY <1>2, <2>1 DEF Resting, AnyWorker, Phases, Entry, Client
    <3>2. worker'[w].pc = "idle" /\ worker'[w].closing = {} /\ worker'[w].client = NoClient
          /\ ~worker'[w].built
      BY <3>1 DEF Resting
    <3> QED
      BY <1>2, <2>1, <3>1, <3>2, FreeHasNothing
        DEF Others, Alike, Empty, GoesOn, Working, Trying
  <2>2. CASE worker' = [worker EXCEPT ![w].left = @ \ {n}, ![w].batch = worker[w].left # {n}]
    <3>1. worker'[w] = [worker[w] EXCEPT !.left = @ \ {n}, !.batch = worker[w].left # {n}]
          /\ worker' = [worker EXCEPT ![w] = worker'[w]]
      BY <1>2, <2>2
    <3>2. worker'[w] \in AnyWorker /\ worker'[w].pc = "idle"
          /\ worker'[w].closing = worker[w].closing /\ worker'[w].client = worker[w].client
          /\ worker'[w].built = worker[w].built
      BY <3>1, <1>2 DEF AnyWorker
    <3> QED
      BY <1>2, <3>1, <3>2, FreeHasNothing DEF Others, Alike, Empty, GoesOn, Working, Trying
  <2>3. CASE document.server[n] # NoEntry /\ worker' = Connect(w, n, document.server[n])
    <3>1. document.server[n] \in Entries
      BY <2>3, <1>2 DEF Entry
    <3> QED
      BY <3>1, <2>3, <1>2, Connecting
  <2> QED
    BY <1>1, <2>1, <2>2, <2>3
<1>5. Types'
  BY <1>4 DEF NextOfBatch, IInv, Threaded, Types, revisionVars, publishVars, stopVars
<1> QED
  BY <1>2, <1>3, <1>4, <1>5, QuietStep DEF NextOfBatch, stopVars, Asking

\* cancel_pending_connections: no new attempt is made after it.
LEMMA StopKeeps ==
  ASSUME IInv, NEW w \in Threads, Stop(w)
  PROVE  IInv'
<1>1. worker' = [worker EXCEPT ![w].pc = "stopping"] /\ worker[w].pc = "idle"
  BY DEF Stop, Go, Free, At
<1>2. worker[w] \in AnyWorker /\ w \in All
  BY <1>1, FreeHasNothing
<1>3. worker' \in [All -> AnyWorker]
  BY <1>1, <1>2 DEF IInv, Threaded, Types, AnyWorker, Phases
<1>4. Types'
  BY <1>3 DEF Stop, IInv, Threaded, Types, revisionVars, publishVars
<1>5. Others(w) /\ Empty(w) /\ GoesOn(w) /\ worker'[w].pc = "stopping"
  BY <1>1, <1>2, FreeHasNothing
    DEF IInv, Threaded, Types, Others, Alike, Empty, GoesOn, Working, Trying, AnyWorker
<1>6. Matched /\ OneEach' /\ Catalog'
  BY SameAttemptsMatch, CatalogRests DEF Stop, IInv, Serving, revisionVars, publishVars
<1> QED
  BY <1>1, <1>4, <1>5, <1>6, QuietStep DEF Stop, Asking

\* A round that a step declares to be over is otherwise as it was.
LEMMA RoundsEnd ==
  ASSUME IInv, NEW w \in Threads, NEW p \in Phases,
         worker' = [v \in All |-> IF v = w THEN [worker[v] EXCEPT !.pc = p]
                                  ELSE [worker[v] EXCEPT !.stale = worker[v].batch]]
  PROVE  /\ worker' \in [All -> AnyWorker] /\ Others(w) /\ worker'[w].pc = p
         /\ worker'[w].closing = worker[w].closing /\ worker'[w].client = worker[w].client
         /\ worker'[w].built = worker[w].built
<1>1. w \in All /\ worker \in [All -> AnyWorker]
  BY DEF All, IInv, Threaded, Types
<1>2. \A v \in All : v # w => worker'[v] = [worker[v] EXCEPT !.stale = worker[v].batch]
  BY <1>1
<1>3. Others(w)
  BY <1>1, <1>2 DEF Others, Alike, AnyWorker
<1>4. \A v \in All : v # w => worker'[v] \in AnyWorker
  BY <1>1, <1>2 DEF AnyWorker
<1>5. worker'[w] = [worker[w] EXCEPT !.pc = p]
  BY <1>1
<1>6. worker'[w] \in AnyWorker /\ worker'[w].pc = p
      /\ worker'[w].closing = worker[w].closing /\ worker'[w].client = worker[w].client
      /\ worker'[w].built = worker[w].built
  BY <1>1, <1>5 DEF AnyWorker
<1> QED
  BY <1>3, <1>4, <1>6

\* Its second section: the attempts under way are cancelled.
LEMMA CancelAttemptsKeeps ==
  ASSUME IInv, NEW w \in Threads, CancelAttempts(w)
  PROVE  IInv'
<1>1. worker[w].pc = "stopping"
  BY DEF CancelAttempts, At
<1>2. /\ worker' \in [All -> AnyWorker] /\ Others(w) /\ worker'[w].pc = "shutdown"
      /\ worker'[w].closing = worker[w].closing /\ worker'[w].client = worker[w].client
      /\ worker'[w].built = worker[w].built
  BY RoundsEnd DEF CancelAttempts, Phases
<1>3. Matched /\ OneEach' /\ attempts' \in SUBSET Attempt
  BY CancelledAttemptsMatch DEF CancelAttempts, IInv, Serving, Threaded
<1>4. Types'
  BY <1>2, <1>3 DEF CancelAttempts, IInv, Threaded, Types, revisionVars, publishVars, stopVars
<1>5. Catalog'
  BY CatalogRests DEF CancelAttempts, IInv, revisionVars, publishVars, stopVars
<1>6. Empty(w) /\ GoesOn(w)
  BY <1>1, <1>2, FreeHasNothing DEF Empty, GoesOn, Working, Trying
<1> QED
  BY <1>1, <1>2, <1>3, <1>4, <1>5, <1>6, QuietStep DEF CancelAttempts, Asking, stopVars

\* A thread at the end of a call.
LEMMA RestedRests ==
  ASSUME Types, NEW v \in All
  PROVE  /\ Rested(v) \in AnyWorker /\ Rested(v).pc = "idle" /\ Rested(v).closing = {}
         /\ Rested(v).client = NoClient /\ ~Rested(v).built /\ Rested(v).left = worker[v].left
<1>1. worker[v] \in AnyWorker
  BY DEF Types
<1>2. Resting(worker[v].name) \in AnyWorker
  BY <1>1 DEF Resting, AnyWorker, Phases, Entry, Client
<1>3. CASE worker[v].left = {}
  BY <1>1, <1>2, <1>3 DEF Rested, Resting
<1>4. CASE worker[v].left # {}
  <2>1. Rested(v) = [pc |-> "idle", name |-> worker[v].name, entry |-> NoEntry, batch |-> TRUE,
                     left |-> worker[v].left, stale |-> worker[v].stale, client |-> NoClient,
                     closing |-> {}, built |-> FALSE, owner |-> NoThread]
    BY <1>4 DEF Rested, Resting
  <2> QED
    BY <1>1, <2>1 DEF AnyWorker, Phases, Entry, Client
<1> QED
  BY <1>3, <1>4

\* _activate: an attempt is started, or the one under way is waited for.
LEMMA ActivateKeeps ==
  ASSUME IInv, NEW w \in Threads, Activate(w)
  PROVE  IInv'
<1>1. worker[w].pc = "activate" /\ worker[w].name \in Names /\ worker[w].entry \in Entries
      /\ w \in All /\ worker[w] \in AnyWorker /\ worker \in [All -> AnyWorker]
  BY FreeHasNothing DEF Activate, At, IInv, Threaded, Placed, Fits, Asking, All, Types
<1>2. Catalog'
  BY CatalogRests DEF Activate, IInv, revisionVars, publishVars, stopVars
<1>3. CASE Rest(w) /\ UNCHANGED attempts
  <2>1. worker' = [worker EXCEPT ![w] = Rested(w)]
    BY <1>3 DEF Rest
  <2>2. worker' \in [All -> AnyWorker] /\ Others(w) /\ Empty(w) /\ GoesOn(w)
        /\ worker'[w].pc = "idle"
    BY <1>1, <2>1, FreeHasNothing, RestedRests
      DEF IInv, Threaded, Others, Alike, Empty, GoesOn, Working, Trying
  <2>3. Types'
    BY <2>2, <1>3 DEF Activate, IInv, Threaded, Types, revisionVars, publishVars, stopVars
  <2>4. Matched /\ OneEach'
    BY <1>3, SameAttemptsMatch DEF IInv, Serving
  <2> QED
    BY <1>1, <1>2, <2>2, <2>3, <2>4, QuietStep DEF Activate, Asking, stopVars
<1>4. ASSUME NEW p \in {"wait", "once"}, NEW o \in Threads \cup {NoThread},
             worker' = [worker EXCEPT ![w].pc = p, ![w].owner = o],
             attempts' \in SUBSET Attempt, Serving'
      PROVE  IInv'
  <2>1. worker'[w] = [worker[w] EXCEPT !.pc = p, !.owner = o]
        /\ worker' = [worker EXCEPT ![w] = worker'[w]]
    BY <1>1, <1>4
  <2>2. worker'[w] \in AnyWorker /\ worker'[w].pc = p /\ worker'[w].closing = worker[w].closing
        /\ worker'[w].client = worker[w].client /\ worker'[w].built = worker[w].built
        /\ worker'[w].name = worker[w].name /\ worker'[w].entry = worker[w].entry
    BY <1>1, <2>1 DEF AnyWorker, Phases
  <2>3. worker' \in [All -> AnyWorker] /\ Others(w)
    BY <1>1, <2>1, <2>2 DEF Others, Alike
  <2>4. Types'
    BY <2>3, <1>4 DEF Activate, IInv, Threaded, Types, revisionVars, publishVars, stopVars
  <2>5. Empty(w)
    BY <1>1, <2>2, FreeHasNothing DEF Empty
  <2>6. Placed' /\ SafeAtHome'
    BY <1>1, <2>2, <2>3, <2>5, ThreadsFit DEF Activate, stopVars, IInv, Threaded, Fits, Empty
  <2>7. Connections'
    BY <1>1, <2>2, <2>3, <2>4, ConnectionsRest
      DEF Activate, stopVars, publishVars, IInv, Threaded, HandsKept
  <2> QED
    BY <1>2, <1>4, <2>4, <2>6, <2>7 DEF IInv, Threaded
<1>5. CASE /\ Same(w) # {} /\ UNCHANGED attempts
           /\ worker' = [worker EXCEPT ![w].pc = "wait", ![w].owner = (CHOOSE a \in Same(w) : TRUE).owner]
  <2> DEFINE a == CHOOSE b \in Same(w) : TRUE
  <2>1. a \in attempts /\ a.entry = worker[w].entry
    BY <1>5 DEF Same
  <2>2. a.owner \in Threads
    BY <2>1 DEF IInv, Threaded, Types, Attempt
  <2> HIDE DEF a
  <2>3. worker' = [worker EXCEPT ![w].pc = "wait", ![w].owner = a.owner]
    BY <1>5 DEF a
  <2>4. worker'[w].pc = "wait" /\ worker'[w].owner = a.owner
        /\ worker'[w].entry = worker[w].entry
        /\ Others(w)
    BY <2>3, <1>1 DEF Others, Alike, AnyWorker
  <2>5. Serving'
    BY <1>1, <1>5, <2>1, <2>4, ServingWaits DEF IInv, Threaded, Working
  <2> QED
    BY <1>4, <1>5, <2>2, <2>3, <2>5 DEF IInv, Threaded, Types
<1>6. CASE /\ attempts' = attempts \cup {[name |-> worker[w].name, entry |-> worker[w].entry,
                                          owner |-> w, cancelled |-> FALSE, fresh |-> FALSE]}
           /\ Go(w, "once")
  <2> DEFINE a == [name |-> worker[w].name, entry |-> worker[w].entry,
                   owner |-> w, cancelled |-> FALSE, fresh |-> FALSE]
  <2>1. a \in Attempt /\ a.owner = w /\ ~a.fresh
    BY <1>1 DEF Attempt
  <2> HIDE DEF a
  <2>2. attempts' = attempts \cup {a}
    BY <1>6 DEF a
  <2>3. worker' = [worker EXCEPT ![w].pc = "once", ![w].owner = worker[w].owner]
    BY <1>1, <1>6 DEF Go, AnyWorker
  <2>4. worker'[w].pc = "once" /\ Others(w)
    BY <2>3, <1>1 DEF Others, Alike, AnyWorker
  <2>5. Serving'
    BY <1>1, <2>1, <2>2, <2>4, ServingStarts DEF IInv, Threaded, Working
  <2>6. attempts' \in SUBSET Attempt /\ worker[w].owner \in Threads \cup {NoThread}
    BY <1>1, <2>1, <2>2 DEF IInv, Threaded, Types, AnyWorker
  <2> QED
    BY <1>4, <2>3, <2>5, <2>6
<1> QED
  BY <1>3, <1>5, <1>6 DEF Activate

\* The attempt that a thread has.
LEMMA MineIsThere ==
  ASSUME IInv, NEW w \in Threads, worker[w].pc \in Trying
  PROVE  Mine(w) \in attempts /\ Mine(w).owner = w /\ Mine(w) \in Attempt
<1>1. \E a \in attempts : a.owner = w
  BY DEF IInv, Serving, HasAttempt
<1> QED
  BY <1>1 DEF Mine, IInv, Threaded, Types

\* The first section of _activate_once: the attempt has the latest version.
LEMMA OnceKeeps ==
  ASSUME IInv, NEW w \in Threads, Once(w)
  PROVE  IInv'
<1>1. worker[w].pc = "once" /\ worker[w].name \in Names /\ worker[w].entry \in Entries
      /\ worker[w].closing = {} /\ worker[w].client = NoClient /\ ~worker[w].built
      /\ w \in All /\ worker[w] \in AnyWorker /\ worker \in [All -> AnyWorker]
  BY DEF Once, At, IInv, Threaded, Placed, Fits, Asking, All, Types
<1>2. Catalog'
  BY CatalogRests DEF Once, IInv, revisionVars, publishVars, stopVars
<1>3. \E p \in {"close", "open"} : worker' = [worker EXCEPT ![w].pc = p]
  BY DEF Once, Go
<1>4. /\ worker' \in [All -> AnyWorker]
      /\ Others(w) /\ Empty(w) /\ GoesOn(w) /\ worker'[w].pc \in {"close", "open"}
      /\ worker'[w].name = worker[w].name /\ worker'[w].entry = worker[w].entry
  <2>1. PICK p \in {"close", "open"} : worker' = [worker EXCEPT ![w].pc = p]
    BY <1>3
  <2>2. worker'[w] = [worker[w] EXCEPT !.pc = p] /\ worker' = [worker EXCEPT ![w] = worker'[w]]
    BY <1>1, <2>1
  <2>3. worker'[w] \in AnyWorker /\ worker'[w].pc = p /\ worker'[w].closing = worker[w].closing
        /\ worker'[w].client = worker[w].client /\ worker'[w].built = worker[w].built
        /\ worker'[w].name = worker[w].name /\ worker'[w].entry = worker[w].entry
    BY <1>1, <2>2 DEF AnyWorker, Phases
  <2> QED
    BY <1>1, <2>2, <2>3 DEF Others, Alike, Empty, GoesOn, Working, Trying
<1>5. Matched /\ OneEach' /\ attempts' \in SUBSET Attempt
  <2>1. CASE UNCHANGED attempts
    BY <2>1, SameAttemptsMatch DEF IInv, Serving, Threaded, Types
  <2>2. CASE /\ worker' = [worker EXCEPT ![w].pc = "open"]
             /\ attempts' = (Outdate({a \in attempts : a.name = worker[w].name}) \ {Mine(w)})
                               \cup {[Mine(w) EXCEPT !.fresh = TRUE]}
    <3> DEFINE m == Mine(w)
               old(a) == IF a.name = worker[w].name THEN [a EXCEPT !.fresh = FALSE] ELSE a
               given == [m EXCEPT !.fresh = TRUE]
    <3>1. m \in attempts /\ m.owner = w /\ m \in Attempt /\ ~m.fresh
      BY <1>1, MineIsThere DEF Trying, IInv, Serving, VersionGiven
    <3>2. given \in Attempt /\ given.owner = w /\ given.entry = m.entry
      BY <3>1 DEF Attempt
    <3>3. \A a \in attempts : /\ old(a) \in Attempt /\ old(a).owner = a.owner
                              /\ old(a).entry = a.entry /\ (old(a).fresh => a.fresh)
      BY DEF IInv, Threaded, Types, Attempt
    <3>4. old(m) = m
      BY <3>1 DEF Attempt
    <3>5. Outdate({a \in attempts : a.name = worker[w].name}) = {old(a) : a \in attempts}
      BY DEF Outdate
    <3>6. attempts' = ({old(a) : a \in attempts} \ {m}) \cup {given}
      BY <2>2, <3>5
    <3>7. worker'[w].pc = "open"
      BY <1>1, <2>2
    <3>8. \A a, b \in attempts : a.owner = b.owner => a = b
      BY DEF IInv, Serving, OneEach
    <3> HIDE DEF m, old, given
    <3>9. \A b \in attempts' : b # given => \E a \in attempts : b = old(a) /\ a # m
      BY <3>4, <3>6
    <3>10. \A a \in attempts : a # m => old(a) \in attempts'
      BY <3>1, <3>3, <3>6, <3>8
    <3>11. Matched
      BY <3>1, <3>2, <3>3, <3>6, <3>7, <3>9, <3>10 DEF Matched
    <3>12. OneEach'
      BY <3>1, <3>2, <3>3, <3>8, <3>9 DEF OneEach
    <3>13. attempts' \in SUBSET Attempt
      BY <3>2, <3>3, <3>9
    <3> QED
      BY <3>11, <3>12, <3>13
  <2> QED
    BY <2>1, <2>2 DEF Once, Go
<1>6. Types'
  BY <1>4, <1>5 DEF Once, IInv, Threaded, Types, revisionVars, publishVars, stopVars
<1> QED
  BY <1>1, <1>2, <1>4, <1>5, <1>6, QuietStep DEF Once, stopVars

\* A change of the catalog by a thread that had nothing to do and sweeps after it.
LEMMA EditStep ==
  ASSUME IInv, Types', NEW w \in Threads, Others(w), worker[w].pc = "idle",
         HandsKept(w), worker'[w].pc = "sweep", worker'[w].built = worker[w].built,
         \A n \in Names : states'[n].client \in {states[n].client, NoClient},
         retired' = retired \cup (Listed \ Listed'), ~closed, Matched, OneEach',
         FatalIsOff', Configured', ConnectedHasClient', dirty', moved',
         UNCHANGED <<live, published, snapshot, graph, closed>>
  PROVE  IInv'
<1>1. w \in All /\ worker[w].closing = {} /\ worker[w].client = NoClient /\ ~worker[w].built
  BY FreeHasNothing
<1>2. Placed' /\ SafeAtHome'
  BY <1>1, ThreadsFit DEF IInv, Threaded, Fits, HandsKept, Asking
<1>3. Listed' \cap retired' = {} /\ Listed \subseteq Listed' \cup retired'
      /\ retired \subseteq retired' /\ retired' \subseteq retired \cup Listed
  <2>1. Listed' \subseteq Listed
    BY DEF Listed, ClientsOf
  <2> QED BY <2>1 DEF IInv, Connections, ListedInUse
<1>4. Connections'
  BY <1>3, ConnectionsRetire DEF IInv, Threaded
<1>5. Catalog'
  BY DEF Catalog, SnapshotCurrent, CleanIsListed
<1>6. GoesOn(w)
  BY DEF GoesOn, Working, Trying
<1>7. Serving'
  BY <1>1, <1>6, ServingGoesOn DEF IInv, Threaded
<1> QED
  BY <1>2, <1>4, <1>5, <1>7 DEF IInv, Threaded

\* A thread that starts to sweep.
LEMMA Sweeping ==
  ASSUME IInv, NEW w \in Threads, worker[w].pc = "idle", Go(w, "sweep")
  PROVE  /\ worker' \in [All -> AnyWorker] /\ Others(w) /\ worker'[w].pc = "sweep"
         /\ HandsKept(w) /\ worker'[w].built = worker[w].built
<1>1. w \in All /\ worker[w] \in AnyWorker /\ worker' = [worker EXCEPT ![w].pc = "sweep"]
      /\ worker \in [All -> AnyWorker]
  BY FreeHasNothing DEF Go, IInv, Threaded, Types
<1>2. worker'[w] = [worker[w] EXCEPT !.pc = "sweep"]
      /\ worker' = [worker EXCEPT ![w] = worker'[w]]
  BY <1>1
<1>3. worker'[w] \in AnyWorker /\ worker'[w].pc = "sweep"
      /\ worker'[w].closing = worker[w].closing
      /\ worker'[w].client = worker[w].client /\ worker'[w].built = worker[w].built
  BY <1>1, <1>2 DEF AnyWorker, Phases
<1> QED
  BY <1>1, <1>2, <1>3 DEF Others, Alike, HandsKept

\* load: the catalog is another one.
LEMMA LoadKeeps ==
  ASSUME IInv, NEW w \in Threads, Load(w)
  PROVE  IInv'
<1>1. PICK s \in [Names -> NewEntries \cup {NoEntry}], on \in BOOLEAN, fatal \in BOOLEAN :
        /\ fatal => ~on
        /\ document' = [enabled |-> on, fatal |-> fatal, server |-> s]
        /\ states' = Listing(s)
  BY DEF Load
<1>2. s \in [Names -> Entry]
  BY <1>1 DEF NewEntries, Entry
<1>3. \A n \in Names : /\ states'[n] \in State /\ states'[n].client = NoClient
                       /\ states'[n].status # "connected"
                       /\ states'[n] # Unlisted => states'[n].entry = s[n] /\ s[n] # NoEntry
  BY <1>1, <1>2 DEF Listing, Unlisted, State, Client, Entry
<1>4. states' \in [Names -> State]
  BY <1>1, <1>3 DEF Listing
<1>5. worker[w].pc = "idle" /\ Go(w, "sweep") /\ ~closed
  BY DEF Load, Free, At
<1>6. /\ worker' \in [All -> AnyWorker] /\ Others(w) /\ worker'[w].pc = "sweep"
      /\ HandsKept(w) /\ worker'[w].built = worker[w].built
  BY <1>5, Sweeping
<1>7. Matched /\ OneEach' /\ attempts' \in SUBSET Attempt
  BY OutdatedAttemptsMatch DEF Load, IInv, Serving, Threaded
<1>8. Listed' = {}
  BY <1>3 DEF Listed, ClientsOf
<1>9. retired' = retired \cup Listed /\ retired' \in SUBSET Clients
  BY DEF Load, Listed, ClientsOf, IInv, Threaded, Types, State, Client
<1>10. dirty' = TRUE /\ moved' = TRUE
  BY DEF Load, Revise
<1>11. document' \in [enabled : BOOLEAN, fatal : BOOLEAN, server : [Names -> Entry]]
  BY <1>1, <1>2
<1>12. Types'
  BY <1>4, <1>6, <1>7, <1>9, <1>10, <1>11
    DEF Load, IInv, Threaded, Types, publishVars, stopVars
<1>13. FatalIsOff' /\ Configured' /\ ConnectedHasClient'
  BY <1>1, <1>3 DEF FatalIsOff, Configured, ConnectedHasClient
<1> QED
  BY <1>3, <1>5, <1>6, <1>7, <1>8, <1>9, <1>10, <1>12, <1>13, EditStep
    DEF Load, publishVars, stopVars

\* disable: no server is connected any more.
LEMMA DisableKeeps ==
  ASSUME IInv, NEW w \in Threads, Disable(w)
  PROVE  IInv'
<1>1. worker[w].pc = "idle" /\ ~closed
  BY DEF Disable, Free, At, Writable
<1>2. /\ worker' \in [All -> AnyWorker] /\ Others(w) /\ worker'[w].pc = "sweep"
      /\ HandsKept(w) /\ worker'[w].built = worker[w].built
  BY RoundsEnd DEF Disable, Phases, HandsKept
<1>3. \A n \in Names : states'[n] = IF states[n] = Unlisted THEN Unlisted
                  ELSE [states[n] EXCEPT !.status = "disconnected", !.client = NoClient]
  BY DEF Disable
<1>4. \A n \in Names : /\ states'[n] \in State /\ states'[n].client = NoClient
                       /\ states'[n].status # "connected" /\ states'[n].entry = states[n].entry
                       /\ states'[n] # Unlisted => states[n] # Unlisted
  <2> TAKE n \in Names
  <2>1. states[n] \in State /\ Unlisted \in State /\ Unlisted.client = NoClient
        /\ Unlisted.status = "unlisted"
    BY DEF IInv, Threaded, Types, State, Unlisted, Client, Entry
  <2>2. CASE states[n] = Unlisted
    BY <1>3, <2>1, <2>2
  <2>3. CASE states[n] # Unlisted
    <3>1. states'[n] = [states[n] EXCEPT !.status = "disconnected", !.client = NoClient]
      BY <1>3, <2>3
    <3> QED
      BY <2>1, <2>3, <3>1 DEF State, Client
  <2> QED
    BY <2>2, <2>3
<1>5. states' \in [Names -> State]
  BY <1>4 DEF Disable
<1>6. Matched /\ OneEach' /\ attempts' \in SUBSET Attempt
  BY DisabledAttemptsMatch DEF Disable, Disabled, IInv, Serving, Threaded
<1>7. Listed' = {}
  BY <1>4 DEF Listed, ClientsOf
<1>8. retired' = retired \cup Listed /\ retired' \in SUBSET Clients
  <2>1. retired' = retired \cup ClientsOf(states)
    BY DEF Disable
  <2> QED
    BY <2>1 DEF Listed, ClientsOf, IInv, Threaded, Types, State, Client
<1>9. dirty' = TRUE /\ moved' = TRUE
  BY DEF Disable, Revise
<1>10. document' \in [enabled : BOOLEAN, fatal : BOOLEAN, server : [Names -> Entry]]
       /\ document'.enabled = FALSE /\ document'.server = document.server
  BY DEF Disable, IInv, Threaded, Types
<1>11. Types'
  BY <1>2, <1>5, <1>6, <1>8, <1>9, <1>10
    DEF Disable, IInv, Threaded, Types, publishVars, stopVars
<1>12. FatalIsOff' /\ Configured' /\ ConnectedHasClient'
  BY <1>4, <1>10 DEF FatalIsOff, Configured, ConnectedHasClient, IInv, Catalog
<1> QED
  BY <1>1, <1>2, <1>4, <1>6, <1>7, <1>8, <1>9, <1>11, <1>12, EditStep
  DEF Disable, publishVars, stopVars

\* remove: the server's connection is retired.
LEMMA RemoveKeeps ==
  ASSUME IInv, NEW w \in Threads, NEW m \in Names, Remove(w, m)
  PROVE  IInv'
<1>1. worker[w].pc = "idle" /\ Go(w, "sweep") /\ ~closed
  BY DEF Remove, Free, At, Writable
<1>2. /\ worker' \in [All -> AnyWorker] /\ Others(w) /\ worker'[w].pc = "sweep"
      /\ HandsKept(w) /\ worker'[w].built = worker[w].built
  BY <1>1, Sweeping
<1>3. states \in [Names -> State] /\ states' = [states EXCEPT ![m] = Unlisted]
      /\ Unlisted \in State
      /\ Unlisted.client = NoClient /\ Unlisted.status = "unlisted"
  BY DEF Remove, IInv, Threaded, Types, State, Unlisted, Client, Entry
<1>4. states' \in [Names -> State] /\ states'[m] = Unlisted
      /\ \A n \in Names : n # m => states'[n] = states[n]
  BY <1>3
<1>5. Matched /\ OneEach' /\ attempts' \in SUBSET Attempt
  BY OutdatedAttemptsMatch DEF Remove, IInv, Serving, Threaded
<1>6. Listed \ Listed' = {states[m].client} \ {NoClient}
  <2>1. \A n \in Names : n # m => states[n].client # states[m].client \/ states[n].client = NoClient
    BY DEF IInv, Connections, ListedOnce
  <2> QED
    BY <2>1, <1>3, <1>4 DEF Listed, ClientsOf
<1>7. retired' = retired \cup (Listed \ Listed') /\ retired' \in SUBSET Clients
  BY <1>3, <1>6 DEF Remove, IInv, Threaded, Types, State, Client
<1>8. dirty' = TRUE /\ moved' = TRUE
  BY DEF Remove, Revise
<1>9. document' \in [enabled : BOOLEAN, fatal : BOOLEAN, server : [Names -> Entry]]
      /\ document'.enabled = document.enabled /\ document'.fatal = document.fatal
      /\ \A n \in Names : n # m => document'.server[n] = document.server[n]
  BY DEF Remove, IInv, Threaded, Types, Entry
<1>10. Types'
  BY <1>2, <1>4, <1>5, <1>7, <1>8, <1>9
    DEF Remove, IInv, Threaded, Types, publishVars, stopVars
<1>11. FatalIsOff' /\ Configured'
  BY <1>4, <1>9 DEF FatalIsOff, Configured, IInv, Catalog
<1>12. ConnectedHasClient'
  BY <1>1, <1>3, <1>4, <1>9 DEF ConnectedHasClient, IInv, Catalog, Remove, stopVars
<1> QED
  BY <1>1, <1>2, <1>3, <1>4, <1>5, <1>7, <1>8, <1>10, <1>11, <1>12, EditStep
  DEF Remove, publishVars, stopVars

\* open_server: a new connection is in the hands of its thread.
LEMMA OpenKeeps ==
  ASSUME IInv, NEW w \in Threads, Open(w)
  PROVE  IInv'
<1>1. worker[w].pc = "open" /\ worker[w].name \in Names /\ worker[w].entry \in Entries
      /\ worker[w].closing = {} /\ worker[w].client = NoClient /\ ~worker[w].built
      /\ w \in All /\ worker[w] \in AnyWorker /\ worker \in [All -> AnyWorker]
  BY DEF Open, At, IInv, Threaded, Placed, Fits, Asking, All, Types
<1>2. Catalog'
  BY CatalogRests DEF Open, IInv, revisionVars, publishVars, stopVars
<1>3. Matched /\ OneEach'
  BY SameAttemptsMatch DEF Open, IInv, Serving
<1>4. CASE Go(w, "publish") /\ UNCHANGED live
  <2>1. worker'[w] = [worker[w] EXCEPT !.pc = "publish"]
        /\ worker' = [worker EXCEPT ![w] = worker'[w]]
    BY <1>1, <1>4 DEF Go
  <2>2. worker'[w] \in AnyWorker /\ worker'[w].pc = "publish"
        /\ worker'[w].closing = worker[w].closing
        /\ worker'[w].client = worker[w].client /\ worker'[w].built = worker[w].built
        /\ worker'[w].name = worker[w].name /\ worker'[w].entry = worker[w].entry
    BY <1>1, <2>1 DEF AnyWorker, Phases
  <2>3. worker' \in [All -> AnyWorker] /\ Others(w) /\ Empty(w) /\ GoesOn(w)
    BY <1>1, <2>1, <2>2 DEF Others, Alike, Empty, GoesOn, Working, Trying
  <2>4. Types'
    BY <2>3, <1>4 DEF Open, IInv, Threaded, Types, revisionVars, publishVars, stopVars
  <2> QED
    BY <1>1, <1>2, <1>3, <1>4, <2>2, <2>3, <2>4, QuietStep DEF Open, stopVars
<1>5. ASSUME NEW c \in NewClients, live' = live \cup {c},
             worker' = [worker EXCEPT ![w].pc = "publish", ![w].client = c]
      PROVE  IInv'
  <2>1. worker'[w] = [worker[w] EXCEPT !.pc = "publish", !.client = c]
        /\ worker' = [worker EXCEPT ![w] = worker'[w]] /\ c \in Clients
    BY <1>1, <1>5 DEF NewClients
  <2>2. worker'[w] \in AnyWorker /\ worker'[w].pc = "publish"
        /\ worker'[w].closing = worker[w].closing
        /\ worker'[w].client = c /\ worker'[w].built = worker[w].built
        /\ worker'[w].name = worker[w].name /\ worker'[w].entry = worker[w].entry
    BY <1>1, <2>1 DEF AnyWorker, Phases, Client
  <2>3. worker' \in [All -> AnyWorker] /\ Others(w) /\ GoesOn(w)
    BY <1>1, <2>1, <2>2 DEF Others, Alike, GoesOn, Working, Trying
  <2>4. Types'
    BY <2>1, <2>3, <1>5 DEF Open, IInv, Threaded, Types, revisionVars, publishVars, stopVars
  <2>5. Fits(w)'
    BY <1>1, <2>2 DEF Fits
  <2>6. Placed' /\ SafeAtHome'
    BY <2>3, <2>5, ThreadsFit DEF IInv, Threaded, Open, stopVars
  <2>7. Connections'
    BY <1>1, <1>5, <2>2, <2>3, <2>4, ConnectionsOpen
      DEF IInv, Threaded, Open, stopVars, publishVars
  <2>8. Serving'
    BY <1>1, <1>3, <2>3, ServingGoesOn DEF IInv, Threaded
  <2> QED
    BY <1>2, <2>4, <2>6, <2>7, <2>8 DEF IInv, Threaded
<1> QED
  BY <1>4, <1>5 DEF Open

\* The last section of _activate_once: the connection is listed or given up.
LEMMA PublishKeeps ==
  ASSUME IInv, NEW w \in Threads, Publish(w)
  PROVE  IInv'
<1> DEFINE n == worker[w].name
           c == worker[w].client
<1>1. worker[w].pc = "publish" /\ n \in Names /\ worker[w].entry \in Entries
      /\ worker[w].closing = {} /\ c \in Client /\ ~worker[w].built
      /\ w \in All /\ worker[w] \in AnyWorker /\ worker \in [All -> AnyWorker]
  BY DEF Publish, At, IInv, Threaded, Placed, Fits, Asking, All, Types, AnyWorker
<1>2. Matched /\ OneEach'
  BY SameAttemptsMatch DEF Publish, IInv, Serving
<1>3. CASE ~StillValid(w)
  <2>1. worker' = [worker EXCEPT ![w].pc = "close", ![w].client = NoClient,
                                 ![w].closing = {c} \ {NoClient}]
        /\ UNCHANGED <<document, states, live, retired, publishVars, revisionVars, stopVars,
                       attempts>>
    BY <1>3 DEF Publish
  <2>2. worker'[w] = [worker[w] EXCEPT !.pc = "close", !.client = NoClient,
                                       !.closing = {c} \ {NoClient}]
        /\ worker' = [worker EXCEPT ![w] = worker'[w]]
    BY <1>1, <2>1
  <2>3. worker'[w] \in AnyWorker /\ worker'[w].pc = "close" /\ worker'[w].client = NoClient
        /\ worker'[w].closing = {c} \ {NoClient} /\ worker'[w].built = worker[w].built
    <3>1. {c} \ {NoClient} \in SUBSET Clients /\ NoClient \in Client /\ "close" \in Phases
      BY <1>1 DEF Client, Phases
    <3> HIDE DEF c
    <3> QED
      BY <1>1, <2>2, <3>1 DEF AnyWorker
  <2>4. worker' \in [All -> AnyWorker] /\ Others(w) /\ GoesOn(w)
    BY <1>1, <2>2, <2>3 DEF Others, Alike, GoesOn, Working, Trying
  <2>5. Types'
    BY <2>1, <2>4 DEF IInv, Threaded, Types, revisionVars, publishVars, stopVars
  <2>6. Fits(w)'
    BY <1>1, <2>3 DEF Fits, Asking
  <2>7. Placed' /\ SafeAtHome'
    BY <2>1, <2>4, <2>6, ThreadsFit DEF IInv, Threaded, stopVars
  <2>8. Connections'
    BY <1>1, <2>1, <2>3, <2>4, <2>5, ConnectionsReject
      DEF IInv, Threaded, stopVars, publishVars
  <2>9. Serving'
    BY <1>1, <1>2, <2>4, ServingGoesOn DEF IInv, Threaded
  <2>10. Catalog'
    BY <2>1, CatalogRests DEF IInv, revisionVars, publishVars, stopVars
  <2> QED
    BY <2>5, <2>7, <2>8, <2>9, <2>10 DEF IInv, Threaded
<1>4. CASE StillValid(w)
  <2> DEFINE new == [status |-> IF c = NoClient THEN "error" ELSE "connected",
                     entry |-> worker[w].entry, client |-> c]
  <2>1. /\ retired' = retired \cup ({states[n].client} \ {NoClient})
        /\ states' = [states EXCEPT ![n] = new]
        /\ worker' = [worker EXCEPT ![w].pc = "sweep", ![w].client = NoClient]
        /\ UNCHANGED <<document, live, publishVars, stopVars, attempts>>
    BY <1>4 DEF Publish, Replaced
  <2>2. dirty' = TRUE /\ moved' = TRUE
    BY <1>4 DEF Publish, Revise
  <2>3. ~closed /\ document.enabled /\ document.server[n] = worker[w].entry
    BY <1>4 DEF StillValid, Current, Superseded
  <2>4. worker'[w] = [worker[w] EXCEPT !.pc = "sweep", !.client = NoClient]
        /\ worker' = [worker EXCEPT ![w] = worker'[w]]
    BY <1>1, <2>1
  <2>5. worker'[w] \in AnyWorker /\ worker'[w].pc = "sweep" /\ worker'[w].client = NoClient
        /\ worker'[w].closing = worker[w].closing /\ worker'[w].built = worker[w].built
    BY <1>1, <2>4 DEF AnyWorker, Phases, Client
  <2>6. worker' \in [All -> AnyWorker] /\ Others(w) /\ GoesOn(w)
    BY <1>1, <2>4, <2>5 DEF Others, Alike, GoesOn, Working, Trying
  <2>7. new \in State /\ new.client = c /\ new.entry = worker[w].entry
        /\ (new.status = "connected" <=> c # NoClient)
    BY <1>1 DEF State, Entry
  <2> HIDE DEF new
  <2>8. states \in [Names -> State] /\ states[n].client \in Client
    BY <1>1 DEF IInv, Threaded, Types, State
  <2>9. states' \in [Names -> State] /\ states'[n] = new
        /\ \A m \in Names : m # n => states'[m] = states[m]
    BY <1>1, <2>1, <2>7, <2>8
  <2>10. Types'
    BY <2>1, <2>2, <2>6, <2>8, <2>9 DEF IInv, Threaded, Types, Client, publishVars, stopVars
  <2>11. Fits(w)'
    BY <1>1, <2>5 DEF Fits, Asking
  <2>12. Placed' /\ SafeAtHome'
    BY <2>1, <2>6, <2>11, ThreadsFit DEF IInv, Threaded, stopVars
  <2>13. Connections'
    <3>1. states'[n].client = worker[w].client
          /\ \A m \in Names : m # n => states'[m].client = states[m].client
      BY <2>7, <2>9
    <3> HIDE DEF n, c
    <3> QED
      BY <1>1, <2>1, <2>3, <2>5, <2>6, <2>10, <3>1, ConnectionsPublish
      DEF IInv, Threaded, stopVars, publishVars
  <2>14. Serving'
    BY <1>1, <1>2, <2>6, ServingGoesOn DEF IInv, Threaded
  <2>15. FatalIsOff' /\ Configured'
    BY <1>1, <2>1, <2>3, <2>7, <2>9, NoneAssumption DEF IInv, Catalog, FatalIsOff, Configured
  <2>16. ConnectedHasClient'
    BY <2>1, <2>3, <2>7, <2>9 DEF IInv, Catalog, ConnectedHasClient, stopVars
  <2>17. SnapshotCurrent' /\ CleanIsListed'
    BY <2>2 DEF SnapshotCurrent, CleanIsListed
  <2> QED
    BY <2>10, <2>12, <2>13, <2>14, <2>15, <2>16, <2>17 DEF IInv, Threaded, Catalog
<1> QED
  BY <1>3, <1>4

\* As ThreadsFit, for the safe point as well.
LEMMA AllFit ==
  ASSUME Types, Placed, NEW w \in All, Others(w), Fits(w)', closed => closed'
  PROVE  Placed'
  BY DEF Placed, Fits, Others, Alike

\* _close_unpublished: what nobody holds is taken.
LEMMA SweepKeeps ==
  ASSUME IInv, NEW w \in All, Sweep(w)
  PROVE  IInv'
<1>1. worker[w].pc = "sweep" /\ worker[w].closing = {} /\ worker[w].client = NoClient
      /\ worker[w] \in AnyWorker /\ worker \in [All -> AnyWorker]
      /\ worker[w].built \in BOOLEAN /\ (worker[w].built => w = Safe)
  BY DEF Sweep, At, IInv, Threaded, Placed, Fits, Types, AnyWorker
<1>2. /\ worker' = [worker EXCEPT ![w].pc = "close", ![w].closing = retired \ Pinned]
      /\ retired' = retired \cap Pinned /\ retired \in SUBSET Clients
      /\ UNCHANGED <<document, states, live, publishVars, revisionVars, stopVars, attempts>>
  BY DEF Sweep, Held, IInv, Threaded, Types
<1>3. worker'[w] = [worker[w] EXCEPT !.pc = "close", !.closing = retired \ Pinned]
      /\ worker' = [worker EXCEPT ![w] = worker'[w]]
  BY <1>1, <1>2
<1>4. worker'[w] \in AnyWorker /\ worker'[w].pc = "close"
      /\ worker'[w].client = worker[w].client
      /\ worker'[w].closing = retired \ Pinned /\ worker'[w].built = worker[w].built
      /\ worker'[w].left = worker[w].left
  BY <1>1, <1>2, <1>3 DEF AnyWorker, Phases
<1>5. worker' \in [All -> AnyWorker] /\ Others(w) /\ GoesOn(w)
  BY <1>1, <1>3, <1>4 DEF Others, Alike, GoesOn, Working, Trying
<1>6. Types'
  BY <1>2, <1>5 DEF IInv, Threaded, Types, revisionVars, publishVars, stopVars
<1>7. Fits(w)'
  BY <1>1, <1>4 DEF Fits, Asking
<1>8. Placed'
  BY <1>2, <1>5, <1>7, AllFit DEF IInv, Threaded, stopVars
<1>9. SafeAtHome'
  BY <1>4, <1>5 DEF IInv, Threaded, SafeAtHome, Others, Alike, All
<1>10. Connections'
  BY <1>1, <1>2, <1>4, <1>5, <1>6, ConnectionsSweep DEF IInv, Threaded, stopVars, publishVars
<1>11. Serving'
  BY <1>2, <1>5, SameAttemptsMatch, ServingGoesOn DEF IInv, Threaded, Serving
<1>12. Catalog'
  BY <1>2, CatalogRests DEF IInv, revisionVars, publishVars, stopVars
<1> QED
  BY <1>6, <1>8, <1>9, <1>10, <1>11, <1>12 DEF IInv, Threaded

\* _close_clients, and the result for those that waited for the attempt.
LEMMA ReturnKeeps ==
  ASSUME IInv, NEW w \in All, Return(w)
  PROVE  IInv'
<1> DEFINE Woken(v) == v = w \/ (worker[v].pc = "wait" /\ worker[v].owner = w)
<1>1. worker[w].pc = "close" /\ ~worker[w].built /\ worker[w].client = NoClient
      /\ worker \in [All -> AnyWorker]
  BY DEF Return, At, IInv, Threaded, Placed, Fits, Types
<1>2. /\ live' = live \ worker[w].closing
      /\ attempts' = {a \in attempts : a.owner # w}
      /\ worker' = [v \in All |-> IF Woken(v) THEN Rested(v) ELSE worker[v]]
      /\ UNCHANGED <<document, states, retired, publishVars, revisionVars, stopVars>>
  BY DEF Return, At
<1>3. \A v \in All : Woken(v) =>
        /\ worker'[v] \in AnyWorker /\ worker'[v].pc = "idle" /\ worker'[v].closing = {}
        /\ worker'[v].client = NoClient /\ ~worker'[v].built
           /\ worker'[v].left = worker[v].left
  BY <1>2, RestedRests DEF IInv, Threaded
<1>4. \A v \in All : ~Woken(v) => worker'[v] = worker[v] /\ v # w
  BY <1>2
<1>5. \A v \in All : Woken(v) /\ v # w =>
        worker[v].pc = "wait" /\ worker[v].closing = {} /\ worker[v].client = NoClient
  BY DEF IInv, Threaded, Placed, Fits
<1>6. \A v \in All : v # w /\ worker'[v].pc = "wait" => worker[v].owner # w
  <2> SUFFICES ASSUME NEW v \in All, v # w, Woken(v) PROVE worker'[v].pc # "wait"
    BY <1>4
  <2> QED BY <1>3
<1>7. worker'[w].pc = "idle" /\ worker'[w].closing = {} /\ worker'[w].client = NoClient
  BY <1>3
<1> HIDE DEF Woken
<1>8. worker' \in [All -> AnyWorker]
  BY <1>1, <1>2, <1>3, <1>4
<1>9. Types'
  BY <1>2, <1>8 DEF IInv, Threaded, Types, publishVars, revisionVars, stopVars
<1>10. Placed'
  <2> SUFFICES ASSUME NEW v \in All PROVE Fits(v)'
    BY DEF Placed
  <2>1. CASE Woken(v)
    BY <1>3, <2>1 DEF Fits, Asking
  <2>2. CASE ~Woken(v)
    BY <1>2, <1>4, <2>2 DEF Fits, IInv, Threaded, Placed, stopVars
  <2> QED BY <2>1, <2>2
<1>11. Safe \in All /\ worker[Safe].pc # "wait"
  BY DEF All, IInv, Threaded, SafeAtHome
<1>12. SafeAtHome'
  BY <1>3, <1>4, <1>11 DEF SafeAtHome, IInv, Threaded
<1>13. \A v \in All : v # w =>
         worker'[v].closing = worker[v].closing /\ worker'[v].client = worker[v].client
  BY <1>3, <1>4, <1>5
<1>14. \A v \in All : worker'[v].pc = "sweep" <=> worker[v].pc = "sweep"
  BY <1>1, <1>3, <1>4, <1>5
<1>15. worker[Safe].pc = "built" => worker'[Safe].pc = "built"
  BY <1>1, <1>4, <1>5, <1>11
<1>16. Wakes(w)
  <2> SUFFICES ASSUME NEW v \in All, v # w
               PROVE  Alike(v) \/ (worker[v].pc = "wait" /\ worker'[v].pc = "idle")
    BY DEF Wakes
  <2>1. CASE Woken(v)
    BY <1>3, <1>5, <2>1
  <2>2. CASE ~Woken(v)
    BY <1>4, <2>2 DEF Alike
  <2> QED BY <2>1, <2>2
<1>17. GraphKept'
  <2> SUFFICES ASSUME ~worker'[Safe].built PROVE ~worker[Safe].built
    BY <1>2 DEF IInv, Connections, GraphKept, publishVars
  <2>1. CASE Safe = w
    BY <2>1, <1>1
  <2>2. CASE Safe # w
    BY <2>2, <1>11, <1>16 DEF Wakes, Alike
  <2> QED BY <2>1, <2>2
<1>18. Connections'
  BY <1>1, <1>2, <1>7, <1>9, <1>13, <1>14, <1>15, <1>17, ConnectionsClose
  DEF IInv, Threaded, publishVars, stopVars
<1>19. Serving'
  <2>1. \A v \in Threads : worker'[v].pc = "wait" => worker[v].owner # w
    BY <1>6, <1>7 DEF All
  <2>2. Types /\ Serving /\ attempts' \subseteq attempts
        /\ \A a \in attempts : a \in attempts' <=> a.owner # w
    BY <1>2 DEF IInv, Threaded
  <2> QED
    BY <1>7, <1>16, <2>1, <2>2, ServingEnds
<1>20. Catalog'
  BY <1>2, CatalogRests DEF IInv, revisionVars, publishVars, stopVars
<1> QED
  BY <1>9, <1>10, <1>12, <1>18, <1>19, <1>20 DEF IInv, Threaded

\* The field of the safe point's thread that a step of it sets.
LEMMA SafeMoves ==
  ASSUME IInv, NEW p \in {"built", "sweep"}, NEW b \in BOOLEAN,
         worker' = [worker EXCEPT ![Safe].pc = p, ![Safe].built = b]
  PROVE  /\ worker' \in [All -> AnyWorker] /\ Others(Safe) /\ worker'[Safe].pc = p
         /\ worker'[Safe].built = b /\ HandsKept(Safe) /\ worker'[Safe].left = {}
         /\ worker[Safe].left = {} /\ Safe \in All
<1>1. Safe \in All /\ worker \in [All -> AnyWorker] /\ worker[Safe].left = {}
  BY DEF All, IInv, Threaded, Types, SafeAtHome
<1>2. worker'[Safe] = [worker[Safe] EXCEPT !.pc = p, !.built = b]
      /\ worker' = [worker EXCEPT ![Safe] = worker'[Safe]]
  BY <1>1
<1>3. worker'[Safe] \in AnyWorker /\ worker'[Safe].pc = p /\ worker'[Safe].built = b
      /\ worker'[Safe].closing = worker[Safe].closing
         /\ worker'[Safe].client = worker[Safe].client
      /\ worker'[Safe].left = worker[Safe].left
  BY <1>1, <1>2 DEF AnyWorker, Phases
<1> QED
  BY <1>1, <1>2, <1>3 DEF Others, Alike, HandsKept

\* A step of the safe point before it sweeps: attempts are not its business.
LEMMA SafeStepRests ==
  ASSUME IInv, Types', Others(Safe), worker[Safe].pc \in {"idle", "built"},
         worker'[Safe].pc \in {"built", "sweep"}, HandsKept(Safe), worker'[Safe].left = {},
         worker'[Safe].built => worker'[Safe].pc = "sweep",
         attempts' = attempts, closed' = closed, Connections', Catalog'
  PROVE  IInv'
<1>1. Safe \in All /\ worker[Safe].closing = {} /\ worker[Safe].client = NoClient
  BY DEF All, IInv, Threaded, Placed, Fits
<1>2. Fits(Safe)'
  BY <1>1 DEF Fits, HandsKept, Asking
<1>3. Placed' /\ SafeAtHome'
  BY <1>1, <1>2, AllFit DEF IInv, Threaded, SafeAtHome
<1>4. GoesOn(Safe)
  BY DEF GoesOn, Working, Trying
<1>5. Serving'
  BY <1>1, <1>4, SameAttemptsMatch, ServingGoesOn DEF IInv, Threaded, Serving
<1> QED
  BY <1>3, <1>5 DEF IInv, Threaded

\* What is offered to a build is all that is listed.
LEMMA AllIsOffered ==
  ASSUME Catalog
  PROVE  Offered = Listed
<1>1. \A n \in Names : states[n].client # NoClient <=> states[n].status = "connected"
  BY DEF Catalog, ConnectedHasClient
<1>2. CASE Enabled
  BY <1>1, <1>2 DEF Offered, Connected, Listed, ClientsOf
<1>3. CASE ~Enabled
  <2>1. ~document.enabled
    BY <1>3 DEF Enabled, Catalog, FatalIsOff
  <2>2. \A n \in Names : states[n].client = NoClient
    BY <2>1 DEF Catalog, ConnectedHasClient
  <2> QED
    BY <1>3, <2>2 DEF Offered, Listed, ClientsOf
<1> QED
  BY <1>2, <1>3

\* The safe point takes a snapshot of the tools.
LEMMA SnapshotKeeps ==
  ASSUME IInv, Snapshot
  PROVE  IInv'
<1>1. /\ worker[Safe].pc = "idle" /\ snapshot' = {Offered} /\ moved' = FALSE
      /\ UNCHANGED <<document, states, live, retired, published, graph, dirty, stopVars,
                     attempts>>
  BY DEF Snapshot, At
<1>2. worker' = [worker EXCEPT ![Safe].pc = "built", ![Safe].built = worker[Safe].built]
      /\ worker[Safe].built = FALSE
  BY <1>1 DEF Snapshot, Go, IInv, Threaded, Placed, Fits, Types, All, AnyWorker
<1>3. /\ worker' \in [All -> AnyWorker] /\ Others(Safe) /\ worker'[Safe].pc = "built"
      /\ worker'[Safe].built = FALSE /\ HandsKept(Safe) /\ worker'[Safe].left = {}
  BY <1>2, SafeMoves
<1>4. Offered = Listed
  BY AllIsOffered DEF IInv
<1>5. UNION snapshot' = Listed /\ Listed \subseteq Clients
  BY <1>1, <1>4 DEF Listed, ClientsOf, IInv, Threaded, Types, State, Client
<1>6. Types'
  BY <1>1, <1>3, <1>4, <1>5 DEF IInv, Threaded, Types, stopVars
<1>7. Connections'
  BY <1>1, <1>2, <1>3, <1>5, <1>6, ConnectionsSnapshot DEF IInv, Threaded, stopVars
<1>8. Catalog'
  <2>1. Listed' = Listed
    BY <1>1 DEF Listed, ClientsOf
  <2>2. FatalIsOff' /\ Configured' /\ ConnectedHasClient'
    BY <1>1 DEF IInv, Catalog, FatalIsOff, Configured, ConnectedHasClient, stopVars
  <2>3. SnapshotCurrent' /\ CleanIsListed'
    BY <1>1, <1>5, <2>1 DEF IInv, Catalog, SnapshotCurrent, CleanIsListed, stopVars
  <2> QED BY <2>2, <2>3 DEF Catalog
<1> QED
  BY <1>1, <1>3, <1>6, <1>7, <1>8, SafeStepRests DEF stopVars

\* discard: the build failed or is out of date.
LEMMA DiscardKeeps ==
  ASSUME IInv, Discard
  PROVE  IInv'
<1>1. /\ worker[Safe].pc = "built" /\ snapshot' = {}
      /\ UNCHANGED <<document, states, live, retired, published, graph, revisionVars, stopVars,
                     attempts>>
  BY DEF Discard, At
<1>2. worker' = [worker EXCEPT ![Safe].pc = "sweep", ![Safe].built = worker[Safe].built]
      /\ worker[Safe].built = FALSE
  BY <1>1 DEF Discard, Go, IInv, Threaded, Placed, Fits, Types, All, AnyWorker
<1>3. /\ worker' \in [All -> AnyWorker] /\ Others(Safe) /\ worker'[Safe].pc = "sweep"
      /\ worker'[Safe].built = FALSE /\ HandsKept(Safe) /\ worker'[Safe].left = {}
  BY <1>2, SafeMoves
<1>4. Types'
  BY <1>1, <1>3 DEF IInv, Threaded, Types, stopVars, revisionVars
<1>5. Connections'
  BY <1>1, <1>2, <1>3, <1>4, ConnectionsDiscard DEF IInv, Threaded, stopVars
<1>6. Catalog'
  <2>1. Listed' = Listed
    BY <1>1 DEF Listed, ClientsOf
  <2>2. FatalIsOff' /\ Configured' /\ ConnectedHasClient'
    BY <1>1 DEF IInv, Catalog, FatalIsOff, Configured, ConnectedHasClient, stopVars
  <2>3. SnapshotCurrent' /\ CleanIsListed'
    BY <1>1, <2>1 DEF IInv, Catalog, SnapshotCurrent, CleanIsListed, stopVars, revisionVars
  <2> QED BY <2>2, <2>3 DEF Catalog
<1> QED
  BY <1>1, <1>3, <1>4, <1>5, <1>6, SafeStepRests DEF stopVars

\* commit: the snapshot is what is listed, so what is published is.
LEMMA CommitKeeps ==
  ASSUME IInv, Commit
  PROVE  IInv'
<1>1. /\ worker[Safe].pc = "built" /\ snapshot' = {} /\ published' = UNION snapshot
      /\ ~closed /\ ~moved /\ snapshot # {} /\ dirty' = FALSE
      /\ retired' = retired \cup (published \ published')
      /\ worker' = [worker EXCEPT ![Safe].pc = "sweep", ![Safe].built = TRUE]
      /\ UNCHANGED <<document, states, live, graph, moved, stopVars, attempts>>
  BY DEF Commit, At, Committable, LiveOf
<1>2. /\ worker' \in [All -> AnyWorker] /\ Others(Safe) /\ worker'[Safe].pc = "sweep"
      /\ worker'[Safe].built = TRUE /\ HandsKept(Safe) /\ worker'[Safe].left = {}
  BY <1>1, SafeMoves
<1>3. UNION snapshot = Listed /\ published' = Listed /\ published' \in SUBSET Clients
  BY <1>1 DEF IInv, Threaded, Types, Catalog, SnapshotCurrent
<1>4. Types'
  BY <1>1, <1>2, <1>3 DEF IInv, Threaded, Types, stopVars
<1>5. Connections'
  BY <1>1, <1>2, <1>3, <1>4, ConnectionsCommit DEF IInv, Threaded, stopVars
<1>6. Catalog'
  <2>1. Listed' = Listed
    BY <1>1 DEF Listed, ClientsOf
  <2>2. FatalIsOff' /\ Configured' /\ ConnectedHasClient'
    BY <1>1 DEF IInv, Catalog, FatalIsOff, Configured, ConnectedHasClient, stopVars
  <2>3. SnapshotCurrent' /\ CleanIsListed'
    BY <1>1, <1>3, <2>1 DEF SnapshotCurrent, CleanIsListed
  <2> QED BY <2>2, <2>3 DEF Catalog
<1> QED
  BY <1>1, <1>2, <1>4, <1>5, <1>6, SafeStepRests DEF stopVars

\* The graph is taken into use once what was replaced is closed.
LEMMA AdoptKeeps ==
  ASSUME IInv, Adopt
  PROVE  IInv'
<1>1. /\ worker[Safe].pc = "close" /\ live' = live \ worker[Safe].closing
      /\ worker' = [worker EXCEPT ![Safe] = Rested(Safe)]
      /\ graph' = published \/ (StoreFails /\ graph' = graph)
      /\ UNCHANGED <<document, states, retired, published, snapshot, revisionVars, stopVars,
                     attempts>>
  BY DEF Adopt, At, Rest
<1>2. Safe \in All /\ worker \in [All -> AnyWorker] /\ worker[Safe].client = NoClient
      /\ worker[Safe].left = {}
  BY <1>1 DEF All, IInv, Threaded, Types, Placed, Fits, SafeAtHome
<1>3. /\ worker' \in [All -> AnyWorker] /\ worker'[Safe].pc = "idle"
      /\ worker'[Safe].closing = {}
      /\ worker'[Safe].client = NoClient /\ ~worker'[Safe].built /\ worker'[Safe].left = {}
      /\ Others(Safe)
  BY <1>1, <1>2, RestedRests DEF IInv, Threaded, Others, Alike
<1>4. Types'
  BY <1>1, <1>3 DEF IInv, Threaded, Types, stopVars, revisionVars
<1>5. Fits(Safe)'
  BY <1>3 DEF Fits, Asking
<1>6. Placed' /\ SafeAtHome'
  BY <1>1, <1>2, <1>3, <1>5, AllFit DEF IInv, Threaded, SafeAtHome, stopVars
<1>7. GraphKept'
  BY <1>1 DEF GraphKept
<1>8. /\ \A v \in All : v # Safe =>
           worker'[v].closing = worker[v].closing /\ worker'[v].client = worker[v].client
      /\ \A v \in All : worker'[v].pc = "sweep" <=> worker[v].pc = "sweep"
  BY <1>1, <1>3 DEF Others, Alike
<1>9. Connections'
  BY <1>1, <1>2, <1>3, <1>4, <1>7, <1>8, ConnectionsClose DEF IInv, Threaded, stopVars
<1>10. attempts' = {a \in attempts : a.owner # Safe}
  BY <1>1, ThreadAssumption DEF IInv, Threaded, Types, Attempt
<1>11. \A v \in Threads : worker'[v].pc = "wait" => worker[v].owner # Safe
  <2> SUFFICES ASSUME NEW v \in Threads, worker'[v].pc = "wait" PROVE worker[v].owner # Safe
    OBVIOUS
  <2>1. worker[v].pc = "wait"
    BY <1>3, ThreadAssumption DEF Others, Alike, All
  <2>2. PICK a \in attempts : a.owner = worker[v].owner
    BY <2>1 DEF IInv, Serving, WaitersAreServed, At
  <2> QED
    BY <2>2, ThreadAssumption DEF IInv, Threaded, Types, Attempt
<1>12. Serving'
  <2>1. Types /\ Serving /\ attempts' \subseteq attempts
        /\ \A a \in attempts : a \in attempts' <=> a.owner # Safe
    BY <1>10 DEF IInv, Threaded
  <2>2. Wakes(Safe)
    BY <1>3 DEF Others, Wakes, Alike
  <2> QED
    BY <1>2, <1>3, <1>11, <2>1, <2>2, ServingEnds
<1>13. Catalog'
  BY <1>1, CatalogRests DEF IInv, revisionVars, stopVars
<1> QED
  BY <1>4, <1>6, <1>9, <1>12, <1>13 DEF IInv, Threaded

\* close: everything is taken.
LEMMA ShutdownKeeps ==
  ASSUME IInv, NEW w \in Threads, Shutdown(w)
  PROVE  IInv'
<1>1. worker[w].pc = "shutdown" /\ worker[w].closing = {} /\ worker[w].client = NoClient
      /\ ~worker[w].built /\ w \in All /\ worker[w] \in AnyWorker
         /\ worker \in [All -> AnyWorker]
  BY FreeHasNothing DEF Shutdown, At, IInv, Threaded, Types
<1>2. /\ closed' = TRUE /\ snapshot' = {} /\ retired' = {}
      /\ worker' = [worker EXCEPT ![w].pc = "drain", ![w].closing = Listed \cup retired \cup Pinned]
      /\ UNCHANGED <<document, live, published, graph, revisionVars, connectionCancel, down,
                     attempts>>
  BY DEF Shutdown, Listed
<1>3. Listed \cup retired \cup Pinned \in SUBSET Clients
  BY DEF Listed, ClientsOf, Pinned, IInv, Threaded, Types, State, Client
<1>4. worker'[w] = [worker[w] EXCEPT !.pc = "drain", !.closing = Listed \cup retired \cup Pinned]
      /\ worker' = [worker EXCEPT ![w] = worker'[w]]
  BY <1>1, <1>2
<1>5. worker'[w] \in AnyWorker /\ worker'[w].pc = "drain"
      /\ worker'[w].client = worker[w].client
      /\ worker'[w].closing = Listed \cup retired \cup Pinned
         /\ worker'[w].built = worker[w].built
  BY <1>1, <1>3, <1>4 DEF AnyWorker, Phases
<1>6. worker' \in [All -> AnyWorker] /\ Others(w) /\ GoesOn(w)
  BY <1>1, <1>4, <1>5 DEF Others, Alike, GoesOn, Working, Trying
<1>7. \A n \in Names : states[n] \in State
  BY DEF IInv, Threaded, Types
<1>8. states' = [n \in Names |-> [states[n] EXCEPT !.client = NoClient,
                   !.status = IF @ = "connected" THEN "disconnected" ELSE @]]
  BY DEF Shutdown
<1>9. \A n \in Names : /\ states'[n] \in State /\ states'[n].client = NoClient
                       /\ states'[n].status # "connected" /\ states'[n].entry = states[n].entry
                       /\ states[n].status # "connected" => states'[n].status = states[n].status
                       /\ states[n].status = "connected" => states'[n].status = "disconnected"
  BY <1>7, <1>8 DEF State, Client
<1>10. states' \in [Names -> State]
  BY <1>8, <1>9
<1>11. Types'
  BY <1>2, <1>6, <1>10 DEF IInv, Threaded, Types, revisionVars
<1>12. Fits(w)'
  BY <1>1, <1>2, <1>5 DEF Fits, Asking
<1>13. Placed' /\ SafeAtHome'
  BY <1>2, <1>6, <1>12, ThreadsFit DEF IInv, Threaded
<1>14. Connections'
  BY <1>1, <1>2, <1>5, <1>6, <1>9, <1>11, ConnectionsShutdown DEF IInv, Threaded
<1>15. Serving'
  BY <1>1, <1>2, <1>6, SameAttemptsMatch, ServingGoesOn DEF IInv, Threaded, Serving
<1>16. \A n \in Names : states[n] = Unlisted => states'[n] = Unlisted
  <2> SUFFICES ASSUME NEW n \in Names, states[n] = Unlisted PROVE states'[n] = Unlisted
    OBVIOUS
  <2>1. states'[n].status = "unlisted" /\ states'[n].entry = NoEntry
        /\ states'[n].client = NoClient /\ states'[n] \in State
    BY <1>9 DEF Unlisted
  <2> QED
    BY <2>1 DEF State, Unlisted
<1>17. FatalIsOff' /\ Configured' /\ ConnectedHasClient'
  BY <1>2, <1>9, <1>16 DEF IInv, Catalog, FatalIsOff, Configured, ConnectedHasClient
<1>18. SnapshotCurrent' /\ CleanIsListed'
  BY <1>2 DEF SnapshotCurrent, CleanIsListed
<1> QED
  BY <1>11, <1>13, <1>14, <1>15, <1>17, <1>18 DEF IInv, Threaded, Catalog

\* The end of the bridge: no connection is left.
LEMMA DrainKeeps ==
  ASSUME IInv, NEW w \in Threads, Drain(w)
  PROVE  IInv'
<1>1. worker[w].pc = "drain" /\ closed /\ w \in All /\ worker \in [All -> AnyWorker]
  BY DEF Drain, At, IInv, Threaded, Types, Placed, Fits, All
<1>2. /\ live' = {} /\ down' = TRUE /\ worker' = [worker EXCEPT ![w] = Rested(w)]
      /\ UNCHANGED <<document, states, retired, publishVars, revisionVars, connectionCancel,
                     closed,
                     attempts>>
  BY DEF Drain, Rest
<1>3. /\ worker' \in [All -> AnyWorker] /\ Others(w) /\ worker'[w].pc = "idle"
      /\ worker'[w].closing = {} /\ worker'[w].client = NoClient /\ ~worker'[w].built
  BY <1>1, <1>2, RestedRests DEF IInv, Threaded, Others, Alike
<1>4. Types'
  BY <1>2, <1>3 DEF IInv, Threaded, Types, publishVars, revisionVars
<1>5. Fits(w)'
  BY <1>3 DEF Fits, Asking
<1>6. Placed' /\ SafeAtHome'
  BY <1>2, <1>3, <1>5, ThreadsFit DEF IInv, Threaded
<1>7. Connections'
  BY <1>1, <1>2, <1>3, <1>4, ConnectionsDrain DEF IInv, Threaded, publishVars
<1>8. GoesOn(w)
  BY <1>1, <1>3 DEF GoesOn, Working, Trying
<1>9. Serving'
  BY <1>1, <1>2, <1>3, <1>8, SameAttemptsMatch, ServingGoesOn DEF IInv, Threaded, Serving
<1>10. Catalog'
  BY <1>2, CatalogRests DEF IInv, publishVars, revisionVars
<1> QED
  BY <1>4, <1>6, <1>7, <1>9, <1>10 DEF IInv, Threaded

-----------------------------------------------------------------------------
(* The theorems. *)

\* A catalog that was just loaded satisfies it.
LEMMA InitHolds == Init => IInv
<1> SUFFICES ASSUME Init PROVE IInv
  OBVIOUS
<1>1. PICK s \in [Names -> Entry], on \in BOOLEAN :
        document = [enabled |-> on, fatal |-> FALSE, server |-> s] /\ states = Listing(s)
  BY DEF Init
<1>2. \A n \in Names : /\ states[n] \in State /\ states[n].client = NoClient
                       /\ states[n].status # "connected"
                       /\ states[n] # Unlisted => states[n].entry = s[n] /\ s[n] # NoEntry
  BY <1>1 DEF Listing, Unlisted, State, Client, Entry
<1>3. states \in [Names -> State] /\ Listed = {}
  BY <1>1, <1>2 DEF Listing, Listed, ClientsOf
<1>4. Resting(Nowhere) \in AnyWorker /\ \A w \in All : worker[w] = Resting(Nowhere)
  BY DEF Init, Resting, AnyWorker, Phases, Entry, Client, Nowhere
<1>5. worker \in [All -> AnyWorker]
  BY <1>4 DEF Init, Nowhere
<1>6. \A w \in All : /\ worker[w].pc = "idle" /\ worker[w].closing = {} /\ worker[w].left = {}
                     /\ worker[w].client = NoClient /\ ~worker[w].built
  BY <1>4 DEF Resting
<1>7. Types
  BY <1>1, <1>3, <1>5 DEF Init, Types
<1>8. Placed /\ SafeAtHome
  BY <1>6 DEF Placed, Fits, SafeAtHome, Asking, All
<1>9. Pinned = {}
  BY DEF Init, Pinned
<1>10. Connections
  BY <1>2, <1>3, <1>6, <1>9
    DEF Init, Connections, ListedOnce, ListedInUse, ClosingUnused, NewUnlisted, NewUnused,
         InUseIsLive, NewIsLive, SnapshotHeld, SnapshotTracked, GraphKept, NothingForgotten,
         ReplacedAreClosed
<1>11. Catalog
  BY <1>1, <1>2, <1>3
    DEF Init, Catalog, FatalIsOff, Configured, ConnectedHasClient, SnapshotCurrent,
         CleanIsListed
<1>12. Serving
  BY <1>6
    DEF Init, Serving, OwnersWork, OneEach, HasAttempt, VersionGiven, WaitersAreServed, At,
         Trying, All
<1> QED
  BY <1>7, <1>8, <1>10, <1>11, <1>12 DEF IInv, Threaded

\* So does a step that changes nothing,
LEMMA StutterKeeps ==
  ASSUME IInv, UNCHANGED vars
  PROVE  IInv'
<1>1. UNCHANGED <<document, states, live, retired, published, snapshot, graph, dirty, moved,
                  connectionCancel, closed, down, attempts, worker>>
  BY DEF vars, publishVars, revisionVars, stopVars
<1>2. Types' /\ Placed' /\ SafeAtHome'
  BY <1>1 DEF IInv, Threaded, Types, Placed, Fits, SafeAtHome
<1>3. Listed' = Listed /\ Pinned' = Pinned /\ InHands' = InHands
  BY <1>1 DEF Listed, ClientsOf, Pinned, InHands
<1>4. Connections'
  BY <1>1, <1>3
    DEF IInv, Connections, ListedOnce, ListedInUse, ClosingUnused, NewUnlisted, NewUnused,
         InUseIsLive, NewIsLive, SnapshotHeld, SnapshotTracked, GraphKept, NothingForgotten,
         ReplacedAreClosed, At, Listed
<1>5. Catalog'
  BY <1>1, CatalogRests DEF IInv
<1>6. Serving'
  BY <1>1
    DEF IInv, Serving, OwnersWork, OneEach, HasAttempt, VersionGiven, WaitersAreServed, At
<1> QED
  BY <1>2, <1>4, <1>5, <1>6 DEF IInv, Threaded

\* and any step of a thread or of the safe point.
LEMMA StepKeeps == IInv /\ [Next]_vars => IInv'
<1> SUFFICES ASSUME IInv, [Next]_vars PROVE IInv'
  OBVIOUS
<1>1. ASSUME NEW w \in Editors, Edit(w) PROVE IInv'
  BY <1>1, ThreadAssumption, LoadKeeps, EnableKeeps, DisableKeeps, StopKeeps, RemoveKeeps
    DEF Edit
<1>2. ASSUME NEW w \in Threads, ThreadStep(w) PROVE IInv'
  <2>1. w \in All
    BY DEF All
  <2> QED
    BY <1>2, <2>1, SweepKeeps, ReturnKeeps, NextOfBatchKeeps, ActivateKeeps, OnceKeeps,
       OpenKeeps, PublishKeeps, CancelAttemptsKeeps, ShutdownKeeps, DrainKeeps DEF ThreadStep
<1>3. ASSUME NEW w \in Threads, ConnectPending(w) \/ \E n \in Names : Test(w, n) \/ Add(w, n)
      PROVE  IInv'
  BY <1>3, ConnectPendingKeeps, TestKeeps, AddKeeps
<1>4. CASE SafeStep
  <2>1. Safe \in All
    BY DEF All
  <2> QED
    BY <1>4, <2>1, SweepKeeps, ReturnKeeps, DiscardKeeps, CommitKeeps, AdoptKeeps DEF SafeStep
<1>5. CASE Next
  BY <1>1, <1>2, <1>3, <1>4, <1>5, SnapshotKeeps DEF Next
<1> QED
  BY <1>5, StutterKeeps

\* The invariant holds in every state.
THEOREM Invariance == Spec => []IInv
  BY InitHolds, StepKeeps, PTL DEF Spec

\* What a graph or a build in progress uses is open, whatever is loaded, added, removed,
\* disabled or replaced meanwhile; no open connection is lost track of; and what was
\* replaced is closed once the sweeps under way are over (_close_unpublished).
THEOREM PinnedAndTracked ==
  Spec => [](PinnedStayOpen /\ NothingForgotten /\ ReplacedAreClosed)
<1>1. IInv => PinnedStayOpen /\ NothingForgotten /\ ReplacedAreClosed
  BY DEF IInv, Connections, InUseIsLive, PinnedStayOpen
<1> QED
  BY <1>1, Invariance, PTL

\* In addition the graph in use is the one that was published, so that its tools have open
\* connections, if the session's row is written: when that fails the runner goes back to
\* the graph it had, whose connections the catalog gives up.
THEOREM ConnectionsAreThoseInUse ==
  ASSUME StoreFails = FALSE
  PROVE  Spec => []ConnectionsMatchUse
<1>1. IInv => GraphUsable
  <2> SUFFICES ASSUME IInv, ~closed, worker[Safe].pc = "idle" PROVE graph \subseteq live
    BY DEF GraphUsable, At
  <2>1. ~worker[Safe].built
    BY DEF IInv, Threaded, Placed, Fits, All
  <2>2. graph = published
    BY <2>1 DEF IInv, Connections, GraphKept
  <2> QED
    BY <2>2 DEF IInv, Connections, InUseIsLive, Pinned
<1>2. IInv => ConnectionsMatchUse
  BY <1>1 DEF IInv, Connections, InUseIsLive, PinnedStayOpen, ConnectionsMatchUse
<1> QED
  BY <1>2, Invariance, PTL

\* The catalog lists what is configured, with the connections made for it; a clean toolset
\* offers what is listed; and who waits for an attempt of another thread waits for one that
\* is being worked on (_activate_once, connect_pending, commit).
THEOREM CatalogTellsTheTruth == Spec => []CatalogIsCurrent
<1>1. IInv => CleanMeansCurrent
  BY AllIsOffered DEF IInv, Catalog, CleanIsListed, CleanMeansCurrent
<1>2. IInv => ListedIsConfigured
  BY DEF IInv, Catalog, Configured, ConnectedHasClient, ListedIsConfigured
<1>3. IInv => CatalogIsCurrent
  BY <1>1, <1>2 DEF IInv, Serving, CatalogIsCurrent
<1> QED
  BY <1>3, Invariance, PTL


-----------------------------------------------------------------------------
(* Configuration (RunnerConfig). *)

\* The types, and that a run in the graph has a session.
ConfigTypes ==
  /\ offered \in SUBSET Models /\ Active \in offered
  /\ row \in [Sessions -> Config!Row] /\ session \in Sessions \cup {Draft}
  /\ config \in Config!Config /\ pending \in Config!Pending
  /\ at = "graph" => session \in Sessions

\* What is in force is what the graph was built from, and can be had.
InForce == Config!GraphMatchesConfig /\ Config!EffortSupported

\* The row of the session has it too, at every moment.
RowInForce == session \in Sessions => row[session].config = config

ConfigInv == ConfigTypes /\ InForce

\* What the window knows of an abnormal end is what the row says, or what the row said
\* before a compaction.
NoteFits ==
  at = "idle" =>
    /\ session \notin Sessions => note = "none"
    /\ session \in Sessions /\ row[session].interrupt = "none"
       => \/ note = Config!Recovery(row[session])
          \/ row[session].status = "compacted" /\ note = "text"

SavedInv == RowInForce /\ NoteFits

\* Nothing but the rebuild and the write of the settings fails.
OnlyBuildsFail == "pending" \notin Failing /\ "rollback" \notin Failing

\* Sessions are no drafts, and None is no model.
LEMMA ConfigNames ==
  /\ Active \in Models /\ None \notin Models /\ None \notin Config!AllEfforts
  /\ None \notin Config!Modes /\ Draft \notin Sessions
  BY ConfigConstants DEF Config!NothingAssumption, Config!ActiveAssumption, Config!DraftAssumption

\* What queued changes come to is a configuration that can be had.
LEMMA WantedIsOffered ==
  ASSUME ConfigTypes, InForce
  PROVE  /\ Config!Wanted \in Config!Config
         /\ Config!Known(Config!Wanted.model, Config!Wanted.effort)
         /\ Config!Wanted.model \in offered
<1> DEFINE w == Config!Wanted
<1>1. pending.model \in Models \cup {None} /\ pending.effort \in Config!AllEfforts \cup {None}
      /\ pending.mode \in Config!Modes \cup {None}
  BY DEF ConfigTypes, Config!Pending
<1>2. config.model \in offered /\ config.effort \in Config!AllEfforts /\ config.mode \in Config!Modes
      /\ Config!Known(config.model, config.effort)
  BY DEF ConfigTypes, InForce, Config!GraphMatchesConfig, Config!EffortSupported, Config!Config
<1>3. w.model \in offered
  BY <1>1, <1>2 DEF Config!Wanted
<1>4. w.effort \in Config!AllEfforts /\ w.mode \in Config!Modes
  BY <1>1, <1>2 DEF Config!Wanted, Config!AllEfforts
<1>5. Config!Known(w.model, w.effort)
  BY <1>1, <1>2, ConfigNames DEF Config!Wanted, Config!Known, Config!AllEfforts
<1>6. w = [model |-> w.model, effort |-> w.effort, mode |-> w.mode]
  BY DEF Config!Wanted
<1> QED
  BY <1>3, <1>4, <1>5, <1>6 DEF ConfigTypes, Config!Config

\* The same for the plan to restore a row.
LEMMA PlanIsOffered ==
  ASSUME ConfigTypes, NEW saved \in Config!Config
  PROVE  /\ Config!Plan(saved) \in Config!Config
         /\ Config!Known(Config!Plan(saved).model, Config!Plan(saved).effort)
         /\ Config!Plan(saved).model \in offered
         /\ (Config!Known(saved.model, saved.effort) /\ saved.model \in offered
             => Config!Plan(saved) = saved)
<1> DEFINE p == Config!Plan(saved)
<1>1. saved \in [model : Models, effort : Config!AllEfforts, mode : Config!Modes]
  BY DEF Config!Config
<1>0. p = [saved EXCEPT !.model = IF saved.model \notin offered THEN Active ELSE saved.model,
                       !.effort = IF saved.model \notin offered
                                     \/ ~Config!Known(saved.model, saved.effort)
                                  THEN "default" ELSE saved.effort]
  BY <1>1 DEF Config!Plan
<1>2. p.model = (IF saved.model \notin offered THEN Active ELSE saved.model)
      /\ p.effort = (IF saved.model \notin offered \/ ~Config!Known(saved.model, saved.effort)
                    THEN "default" ELSE saved.effort)
      /\ p.mode = saved.mode
      /\ p = [model |-> p.model, effort |-> p.effort, mode |-> p.mode]
  BY <1>0, <1>1
<1>3. p.model \in offered /\ p.effort \in Config!AllEfforts
  BY <1>1, <1>2 DEF ConfigTypes, Config!AllEfforts
<1>4. Config!Known(p.model, p.effort)
  BY <1>2 DEF Config!Known
<1>5. Config!Known(saved.model, saved.effort) /\ saved.model \in offered => p = saved
  BY <1>1, <1>2
<1> QED
  BY <1>1, <1>2, <1>3, <1>4, <1>5 DEF ConfigTypes, Config!Config

\* There is a row exactly of a session that is no draft.
LEMMA PersistedIsRow ==
  ASSUME ConfigTypes
  PROVE  /\ Config!Persisted <=> session \in Sessions
         /\ session \in Sessions => Config!Interrupt = row[session].interrupt
         /\ session \notin Sessions => Config!Interrupt = "none"
         /\ Config!Here = row[session]
  BY ConfigNames DEF ConfigTypes, Config!Persisted, Config!Interrupt, Config!Here

\* A step that writes rows but not how their runs ended, nor the session's settings.
RunsKept ==
  /\ row' \in [Sessions -> Config!Row]
  /\ \A s \in Sessions :
       /\ row'[s].status = row[s].status /\ row'[s].interrupt = row[s].interrupt
       /\ row'[s].checkpoint = row[s].checkpoint

\* A write of one column of a row.
LEMMA ColumnWritten ==
  ASSUME NEW r \in Config!Row, NEW c \in Config!Config, NEW p \in Config!Pending
  PROVE  /\ [r EXCEPT !.pending = p] \in Config!Row
         /\ [r EXCEPT !.pending = p].config = r.config
         /\ [r EXCEPT !.pending = p].status = r.status
         /\ [r EXCEPT !.pending = p].interrupt = r.interrupt
         /\ [r EXCEPT !.pending = p].checkpoint = r.checkpoint
         /\ [r EXCEPT !.config = c] \in Config!Row
         /\ [r EXCEPT !.config = c].config = c
         /\ [r EXCEPT !.config = c].status = r.status
         /\ [r EXCEPT !.config = c].interrupt = r.interrupt
         /\ [r EXCEPT !.config = c].checkpoint = r.checkpoint
  BY DEF Config!Row

\* The pending record is written into the row of the session that is open, if there is one.
LEMMA PendingWritten ==
  ASSUME ConfigTypes, NEW p \in Config!Pending, row' = Config!Touch("pending", p)
  PROVE  RunsKept /\ \A s \in Sessions : row'[s].config = row[s].config
<1>1. CASE session \in Sessions
  <2>1. row[session] \in Config!Row
    BY <1>1 DEF ConfigTypes
  <2>2. row' = [row EXCEPT ![session] = [row[session] EXCEPT !.pending = p]]
    BY <1>1, PersistedIsRow DEF Config!Touch
  <2> DEFINE new == [row[session] EXCEPT !.pending = p]
  <2>3. /\ new \in Config!Row /\ new.config = row[session].config
        /\ new.status = row[session].status /\ new.interrupt = row[session].interrupt
        /\ new.checkpoint = row[session].checkpoint
    BY <2>1, ColumnWritten DEF Config!Row
  <2> HIDE DEF new
  <2> QED
    BY <1>1, <2>2, <2>3 DEF ConfigTypes, RunsKept, new
<1>2. CASE session \notin Sessions
  BY <1>2, PersistedIsRow DEF Config!Touch, ConfigTypes, RunsKept
<1> QED
  BY <1>1, <1>2

\* The note on an abnormal end reads nothing of a row but these three.
LEMMA RecoverySame ==
  ASSUME NEW r, NEW q, r.status = q.status, r.interrupt = q.interrupt, r.checkpoint = q.checkpoint
  PROVE  Config!Recovery(r) = Config!Recovery(q)
  BY DEF Config!Recovery

\* A rebuild for the queued changes, whether it succeeds or fails.
LEMMA AppliedKeeps ==
  ASSUME ConfigTypes, InForce, Config!Applied, UNCHANGED <<offered, session>>
  PROVE  /\ RunsKept /\ config' \in Config!Config /\ pending' \in Config!Pending
         /\ InForce' /\ (RowInForce => RowInForce')
<1>1. Config!Nothing \in Config!Pending
  BY DEF Config!Nothing, Config!Pending
<1>2. CASE Config!ApplySucceeds
  <2>1. config' = Config!Wanted /\ built' = config' /\ pending' = Config!Nothing
    BY <1>2 DEF Config!ApplySucceeds
  <2>2. InForce' /\ config' \in Config!Config
    BY <2>1, WantedIsOffered DEF InForce, Config!GraphMatchesConfig, Config!EffortSupported,
       Config!Known
  <2>3. CASE session \in Sessions
    <3> DEFINE half == [row[session] EXCEPT !.config = config']
               new == [half EXCEPT !.pending = Config!Nothing]
    <3>1. row' = [row EXCEPT ![session] = new]
      BY <1>2, <2>1, <2>3, PersistedIsRow DEF Config!ApplySucceeds, ConfigTypes
    <3>2. /\ new \in Config!Row /\ new.config = config'
          /\ new.status = row[session].status /\ new.interrupt = row[session].interrupt
          /\ new.checkpoint = row[session].checkpoint
      <4>1. row[session] \in Config!Row
        BY <2>3 DEF ConfigTypes
      <4>2. /\ half \in Config!Row /\ half.config = config'
            /\ half.status = row[session].status /\ half.interrupt = row[session].interrupt
            /\ half.checkpoint = row[session].checkpoint
        BY <2>2, <4>1 DEF Config!Row
      <4> HIDE DEF half
      <4> QED
        BY <1>1, <2>2, <4>2 DEF Config!Row
    <3> HIDE DEF new
    <3>3. RunsKept /\ row'[session].config = config'
      BY <2>3, <3>1, <3>2 DEF ConfigTypes, RunsKept
    <3> QED
      BY <1>1, <2>1, <2>2, <2>3, <3>3 DEF RowInForce
  <2>4. CASE session \notin Sessions
    <3>1. RunsKept
      BY <1>2, <2>4, PersistedIsRow DEF Config!ApplySucceeds, ConfigTypes, RunsKept
    <3> QED
      BY <1>1, <2>1, <2>2, <2>4, <3>1 DEF RowInForce
  <2> QED
    BY <2>3, <2>4
<1>3. CASE Config!ApplyFails
  <2>1. /\ config' = config /\ pending' = Config!Nothing /\ (built' = built)
        /\ row' = Config!Touch("pending", Config!Nothing)
    BY <1>3 DEF Config!ApplyFails, Config!Reverted
  <2>2. RunsKept /\ \A s \in Sessions : row'[s].config = row[s].config
    BY <1>1, <2>1, PendingWritten
  <2>3. InForce'
    BY <2>1 DEF InForce, Config!GraphMatchesConfig, Config!EffortSupported, Config!Known
  <2> QED
    BY <1>1, <2>1, <2>2, <2>3 DEF ConfigTypes, RowInForce
<1> QED
  BY <1>2, <1>3 DEF Config!Applied

\* What is said of the row of the session, when only other columns are written and the
\* settings stay.
LEMMA SettingsKept ==
  ASSUME InForce, UNCHANGED <<offered, config, built>>
  PROVE  InForce'
  BY DEF InForce, Config!GraphMatchesConfig, Config!EffortSupported, Config!Known

\* The note still fits when the runs in the rows stay as they are.
LEMMA NoteKept ==
  ASSUME ConfigTypes, NoteFits, RunsKept, UNCHANGED <<session, note, at>>
  PROVE  NoteFits'
<1> SUFFICES ASSUME at = "idle", session \in Sessions, row[session].interrupt = "none"
             PROVE  Config!Recovery(row'[session]) = Config!Recovery(row[session])
  BY DEF NoteFits, RunsKept
<1> QED
  BY RecoverySame DEF RunsKept

\* What happens to a row at the end of a step of a run.
LEMMA EndWritten ==
  ASSUME ConfigTypes, session \in Sessions, NEW r \in Config!Row, row' = [row EXCEPT ![session] = r],
         r.config = config', RowInForce, session' = session
  PROVE  row' \in [Sessions -> Config!Row] /\ RowInForce'
  BY DEF ConfigTypes, RowInForce

\* Requests of the user's thread.
LEMMA RequestsKeep ==
  ASSUME ConfigInv,
         \/ \E m \in Models, e \in Config!AllEfforts \cup {None} : Config!RequestModel(m, e)
         \/ \E mode \in Config!Modes : Config!RequestPermission(mode)
         \/ Config!RequestPause \/ Config!ToolsetChanges
  PROVE  ConfigInv' /\ (SavedInv => SavedInv')
<1> USE DEF ConfigInv
<1>1. UNCHANGED <<offered, session, config, built, note, at>>
  BY DEF Config!RequestModel, Config!RequestPermission, Config!RequestPause, Config!ToolsetChanges
<1>2. InForce'
  BY <1>1, SettingsKept
<1>3. (row' = row \/ row' = Config!Touch("pending", pending')) /\ pending' \in Config!Pending
  <2>1. ASSUME NEW m \in Models, NEW e \in Config!AllEfforts \cup {None}, Config!RequestModel(m, e)
        PROVE  row' = Config!Touch("pending", pending') /\ pending' \in Config!Pending
    <3>1. Config!EffortFor(m, e) \in Config!AllEfforts
      BY DEF Config!EffortFor, ConfigTypes, Config!Config, Config!AllEfforts
    <3> QED
      BY <2>1, <3>1 DEF Config!RequestModel, ConfigTypes, Config!Pending
  <2>2. ASSUME NEW mode \in Config!Modes, Config!RequestPermission(mode)
        PROVE  row' = Config!Touch("pending", pending') /\ pending' \in Config!Pending
    BY <2>2 DEF Config!RequestPermission, ConfigTypes, Config!Pending
  <2>3. CASE Config!RequestPause \/ Config!ToolsetChanges
    BY <2>3 DEF Config!RequestPause, Config!ToolsetChanges, ConfigTypes
  <2> QED
    BY <2>1, <2>2, <2>3
<1>4. RunsKept /\ \A s \in Sessions : row'[s].config = row[s].config
  BY <1>3, PendingWritten DEF RunsKept, ConfigTypes
<1>5. SavedInv => SavedInv'
  BY <1>1, <1>4, NoteKept DEF SavedInv, RowInForce
<1> QED
  BY <1>1, <1>2, <1>3, <1>4, <1>5 DEF ConfigTypes, RunsKept

\* Queued changes between runs.
LEMMA ApplyKeeps ==
  ASSUME ConfigInv, Config!ApplyIfIdle
  PROVE  ConfigInv' /\ (SavedInv => SavedInv')
<1>1. Config!Applied /\ at = "idle" /\ UNCHANGED <<offered, session, paused, note, at>>
  BY DEF Config!ApplyIfIdle
<1>2. /\ RunsKept /\ config' \in Config!Config /\ pending' \in Config!Pending
      /\ InForce' /\ (RowInForce => RowInForce')
  BY <1>1, AppliedKeeps DEF ConfigInv
<1> QED
  BY <1>1, <1>2, NoteKept DEF ConfigInv, SavedInv, ConfigTypes, RunsKept

\* Before a run, and its start.
LEMMA InvokeKeeps ==
  ASSUME ConfigInv, Config!Invoke
  PROVE  ConfigInv' /\ (SavedInv => SavedInv')
<1>1. at' = "starting" /\ UNCHANGED <<offered, session>>
  BY DEF Config!Invoke
<1>2. CASE Config!Applied
  BY <1>1, <1>2, AppliedKeeps DEF ConfigInv, SavedInv, ConfigTypes, RunsKept, NoteFits
<1>3. CASE UNCHANGED <<row, config, pending, built>>
  <2>1. InForce'
    BY <1>1, <1>3, SettingsKept DEF ConfigInv
  <2> QED
    BY <1>1, <1>3, <2>1 DEF ConfigInv, SavedInv, ConfigTypes, RowInForce, NoteFits
<1> QED
  BY <1>2, <1>3 DEF Config!Invoke

\* A run that starts writes the settings in force to its row.
LEMMA BeginKeeps ==
  ASSUME ConfigInv, Config!Begin
  PROVE  ConfigInv' /\ (SavedInv => SavedInv')
<1>1. at' = "graph" /\ UNCHANGED <<offered, config, pending, built>>
  BY DEF Config!Begin
<1>2. PICK s \in Sessions :
        /\ session' = s
        /\ row' = [row EXCEPT ![s].exists = TRUE, ![s].config = config,
                              ![s].status = "pending", ![s].interrupt = "none"]
  BY PersistedIsRow DEF ConfigInv, Config!Begin, Config!NewRow
<1>3. row' \in [Sessions -> Config!Row] /\ row'[s].config = config
  <2> DEFINE new == [row[s] EXCEPT !.exists = TRUE, !.config = config, !.status = "pending",
                                   !.interrupt = "none"]
  <2>1. new \in Config!Row /\ new.config = config
    BY DEF ConfigInv, ConfigTypes, Config!Row
  <2>2. row' = [row EXCEPT ![s] = new]
    BY <1>2 DEF ConfigInv, ConfigTypes
  <2> HIDE DEF new
  <2> QED
    BY <2>1, <2>2 DEF ConfigInv, ConfigTypes
<1>4. InForce'
  BY <1>1, SettingsKept DEF ConfigInv
<1> QED
  BY <1>1, <1>2, <1>3, <1>4 DEF ConfigInv, SavedInv, ConfigTypes, RowInForce, NoteFits

\* A run that pauses, waits at a boundary or ends.
LEMMA RunKeeps ==
  ASSUME ConfigInv,
         \/ Config!Pauses \/ Config!ReachBoundary \/ Config!ModelCall
         \/ \E how \in {"stop", "error", "aborted"} : Config!EndRun(how, "none")
         \/ Config!EndRun("deferred", "approval")
  PROVE  ConfigInv' /\ (SavedInv => SavedInv')
<1> USE DEF ConfigInv
<1>1. UNCHANGED <<offered, session, config, pending, built>> /\ session \in Sessions
  BY DEF Config!Pauses, Config!ReachBoundary, Config!ModelCall, Config!EndRun, ConfigTypes
<1>2. InForce'
  BY <1>1, SettingsKept
<1>3. CASE Config!Pauses \/ Config!ReachBoundary \/ Config!ModelCall
  <2>1. /\ row' \in [Sessions -> Config!Row] /\ row'[session].config = row[session].config
        /\ at' = "idle" => row'[session].interrupt = "pause"
    <3>1. row[session] \in Config!Row
      BY <1>1 DEF ConfigTypes
    <3>2. CASE Config!Pauses
      <4> DEFINE new == [row[session] EXCEPT !.interrupt = "pause", !.status = "deferred",
                                             !.checkpoint = TRUE]
      <4>1. new \in Config!Row /\ new.config = row[session].config /\ new.interrupt = "pause"
        BY <3>1 DEF Config!Row
      <4>2. row' = [row EXCEPT ![session] = new]
        BY <1>1, <3>2 DEF Config!Pauses, ConfigTypes
      <4> HIDE DEF new
      <4> QED
        BY <1>1, <4>1, <4>2 DEF ConfigTypes
    <3>3. CASE Config!ReachBoundary
      <4> DEFINE new == [row[session] EXCEPT !.interrupt = "boundary", !.checkpoint = TRUE]
      <4>1. new \in Config!Row /\ new.config = row[session].config
        BY <3>1 DEF Config!Row
      <4>2. row' = [row EXCEPT ![session] = new] /\ at' = "graph"
        BY <1>1, <3>3 DEF Config!ReachBoundary, ConfigTypes
      <4> HIDE DEF new
      <4> QED
        BY <1>1, <4>1, <4>2 DEF ConfigTypes
    <3>4. CASE Config!ModelCall
      <4> DEFINE new == [row[session] EXCEPT !.checkpoint = TRUE]
      <4>1. new \in Config!Row /\ new.config = row[session].config
        BY <3>1 DEF Config!Row
      <4>2. row' = [row EXCEPT ![session] = new] /\ at' = "graph"
        BY <1>1, <3>4 DEF Config!ModelCall, ConfigTypes
      <4> HIDE DEF new
      <4> QED
        BY <1>1, <4>1, <4>2 DEF ConfigTypes
    <3> QED
      BY <1>3, <3>2, <3>3, <3>4
  <2> QED
    BY <1>1, <1>2, <2>1 DEF ConfigTypes, SavedInv, RowInForce, NoteFits
<1>4. ASSUME NEW how \in {"stop", "error", "aborted", "deferred"}, NEW i \in {"none", "approval"},
             Config!EndRun(how, i), how = "deferred" <=> i = "approval"
      PROVE  ConfigInv' /\ (SavedInv => SavedInv')
  <2>1. row' = [row EXCEPT ![session].status = how, ![session].interrupt = i] /\ at' = "idle"
        /\ note' = Config!AfterRun(how)
    BY <1>4 DEF Config!EndRun
  <2>2. /\ row' \in [Sessions -> Config!Row] /\ row'[session].config = row[session].config
        /\ row'[session].interrupt = i /\ row'[session].status = how
    BY <1>1, <2>1 DEF ConfigTypes, Config!Row
  <2>3. i = "none" => note' = Config!Recovery(row'[session])
    BY <1>4, <2>1, <2>2 DEF Config!AfterRun, Config!Recovery
  <2> QED
    BY <1>1, <1>2, <2>1, <2>2, <2>3 DEF ConfigTypes, SavedInv, RowInForce, NoteFits
<1> QED
  BY <1>3, <1>4

\* A boundary is crossed, or an interrupted run goes on.
LEMMA CrossKeeps ==
  ASSUME ConfigInv, Config!CrossBoundary
  PROVE  ConfigInv' /\ (SavedInv => SavedInv')
<1> USE DEF ConfigInv
<1>1. session \in Sessions
  BY PersistedIsRow, ConfigNames DEF Config!CrossBoundary
<1>2. UNCHANGED <<offered, session>> /\ at' = "graph"
  BY DEF Config!CrossBoundary
<1>3. Config!Nothing \in Config!Pending
  BY DEF Config!Nothing, Config!Pending
<1>4. pending' \in Config!Pending
  BY <1>3 DEF Config!CrossBoundary, ConfigTypes
<1>5. \/ built' = Config!Wanted /\ config' = Config!Wanted
      \/ UNCHANGED <<built, config>>
  BY DEF Config!CrossBoundary, Config!Reverted
<1>6. InForce' /\ config' \in Config!Config
  BY <1>2, <1>5, WantedIsOffered DEF ConfigTypes, InForce, Config!GraphMatchesConfig,
     Config!EffortSupported, Config!Known
<1>7. row' = [row EXCEPT ![session].interrupt = "none", ![session].status = "pending",
                         ![session].pending = pending', ![session].config = config']
  BY DEF Config!CrossBoundary
<1>8. row' \in [Sessions -> Config!Row] /\ row'[session].config = config'
  <2> DEFINE new == [row[session] EXCEPT !.interrupt = "none", !.status = "pending",
                                         !.pending = pending', !.config = config']
  <2>1. new \in Config!Row /\ new.config = config'
    BY <1>1, <1>4, <1>6 DEF ConfigTypes, Config!Row
  <2>2. row' = [row EXCEPT ![session] = new]
    BY <1>1, <1>7 DEF ConfigTypes
  <2> HIDE DEF new
  <2> QED
    BY <1>1, <2>1, <2>2 DEF ConfigTypes
<1> QED
  BY <1>1, <1>2, <1>4, <1>6, <1>8 DEF ConfigTypes, SavedInv, RowInForce, NoteFits

\* An interrupted run that is answered leaves the settings alone.
LEMMA ResumeKeeps ==
  ASSUME ConfigInv, Config!Resume
  PROVE  ConfigInv' /\ (SavedInv => SavedInv')
<1> USE DEF ConfigInv
<1>1. session \in Sessions /\ at' = "graph" /\ UNCHANGED <<offered, session, config, pending, built>>
  BY PersistedIsRow DEF Config!Resume
<1>2. row' \in [Sessions -> Config!Row] /\ row'[session].config = row[session].config
  <2> DEFINE new == [row[session] EXCEPT !.status = "pending", !.interrupt = "none"]
  <2>1. new \in Config!Row /\ new.config = row[session].config
    BY <1>1 DEF ConfigTypes, Config!Row
  <2>2. row' = [row EXCEPT ![session] = new]
    BY <1>1 DEF Config!Resume, ConfigTypes
  <2> HIDE DEF new
  <2> QED
    BY <1>1, <2>1, <2>2 DEF ConfigTypes
<1>3. InForce'
  BY <1>1, SettingsKept
<1> QED
  BY <1>1, <1>2, <1>3 DEF ConfigTypes, SavedInv, RowInForce, NoteFits

\* A compaction writes the status of the row alone.
LEMMA CompactKeeps ==
  ASSUME ConfigInv, Config!Compact
  PROVE  ConfigInv' /\ (SavedInv => SavedInv')
<1> USE DEF ConfigInv
<1>1. /\ session \in Sessions /\ at' = "idle" /\ at = "idle" /\ row[session].interrupt = "none"
      /\ UNCHANGED <<offered, session, config, pending, built, note>>
  BY PersistedIsRow DEF Config!Compact
<1>2. /\ row' \in [Sessions -> Config!Row] /\ row'[session].config = row[session].config
      /\ row'[session].status = "compacted"
  <2> DEFINE new == [row[session] EXCEPT !.status = "compacted"]
  <2>1. new \in Config!Row /\ new.config = row[session].config /\ new.status = "compacted"
    BY <1>1 DEF ConfigTypes, Config!Row
  <2>2. row' = [row EXCEPT ![session] = new]
    BY <1>1 DEF Config!Compact, ConfigTypes
  <2> HIDE DEF new
  <2> QED
    BY <1>1, <2>1, <2>2 DEF ConfigTypes
<1>3. InForce'
  BY <1>1, SettingsKept
<1>4. Config!Recovery(row'[session]) = "none"
  BY <1>2 DEF Config!Recovery
<1>5. SavedInv => note \in {"none", "text"}
  BY <1>1 DEF SavedInv, NoteFits, Config!Recovery
<1> QED
  BY <1>1, <1>2, <1>3, <1>4, <1>5 DEF ConfigTypes, SavedInv, RowInForce, NoteFits

\* A switch.  When the write of the pending record fails the note is not set, and when a
\* rollback fails the settings are those of the other session.
LEMMA SwitchKeeps ==
  ASSUME ConfigInv, NEW s \in Sessions, Config!Switch(s)
  PROVE  ConfigInv' /\ (SavedInv /\ "pending" \notin Failing => SavedInv')
<1> USE DEF ConfigInv
<1> DEFINE plan == Config!Plan(row[s].config)
<1>1. /\ UNCHANGED <<offered, at>> /\ at = "idle" /\ session' = s /\ config' = plan
      /\ built' = (IF Config!PlanRebuilds(s) THEN plan ELSE built)
      /\ pending' = Config!StillOffered(row[s].pending)
  BY DEF Config!Switch
<1>2. row[s] \in Config!Row /\ row[s].config \in Config!Config /\ row[s].pending \in Config!Pending
  BY DEF ConfigTypes, Config!Row
<1>3. /\ plan \in Config!Config /\ Config!Known(plan.model, plan.effort)
      /\ plan.model \in offered
  BY <1>2, PlanIsOffered
<1>4. built' = plan
  BY <1>1 DEF Config!PlanRebuilds, InForce, Config!GraphMatchesConfig
<1>5. InForce'
  BY <1>1, <1>3, <1>4 DEF InForce, Config!GraphMatchesConfig, Config!EffortSupported, Config!Known
<1>6. pending' \in Config!Pending
  BY <1>1, <1>2 DEF Config!StillOffered, Config!Pending
<1> HIDE DEF plan
<1>7. CASE row' = [row EXCEPT ![s].config = config', ![s].pending = pending']
             /\ note' = Config!Recovery(row[s])
  <2> DEFINE new == [row[s] EXCEPT !.config = config', !.pending = pending']
  <2>1. /\ new \in Config!Row /\ new.config = config' /\ new.status = row[s].status
        /\ new.interrupt = row[s].interrupt /\ new.checkpoint = row[s].checkpoint
    BY <1>1, <1>2, <1>3, <1>6 DEF Config!Row
  <2>2. row' = [row EXCEPT ![s] = new]
    BY <1>7 DEF ConfigTypes
  <2>3. Config!Recovery(new) = Config!Recovery(row[s])
    BY <2>1, RecoverySame
  <2> HIDE DEF new
  <2>4. row' \in [Sessions -> Config!Row] /\ row'[s] = new
    BY <2>1, <2>2 DEF ConfigTypes
  <2> QED
    BY <1>1, <1>3, <1>5, <1>6, <1>7, <2>1, <2>3, <2>4 DEF ConfigTypes, SavedInv, RowInForce, NoteFits
<1>8. CASE "pending" \in Failing /\ row' = [row EXCEPT ![s].config = config']
  <2> DEFINE new == [row[s] EXCEPT !.config = config']
  <2>1. new \in Config!Row
    BY <1>1, <1>2, <1>3 DEF Config!Row
  <2>2. row' = [row EXCEPT ![s] = new]
    BY <1>8 DEF ConfigTypes
  <2> HIDE DEF new
  <2>3. row' \in [Sessions -> Config!Row]
    BY <2>1, <2>2 DEF ConfigTypes
  <2> QED
    BY <1>1, <1>3, <1>5, <1>6, <1>8, <2>3 DEF ConfigTypes
<1> QED
  BY <1>7, <1>8 DEF Config!Switch

\* A switch that fails goes back to the settings before it, unless the rollback fails.
LEMMA SwitchFailsKeeps ==
  ASSUME ConfigInv, NEW s \in Sessions, Config!SwitchFails(s)
  PROVE  ConfigInv' /\ (SavedInv /\ "rollback" \notin Failing => SavedInv')
<1> USE DEF ConfigInv
<1>1. UNCHANGED <<offered, row, session, pending, note, at>>
  BY DEF Config!SwitchFails
<1>2. row[s].config \in Config!Config
  BY DEF ConfigTypes, Config!Row
<1>3. CASE built' = config /\ config' = config
  BY <1>1, <1>3 DEF ConfigTypes, SavedInv, RowInForce, NoteFits, InForce,
     Config!GraphMatchesConfig, Config!EffortSupported, Config!Known
<1>4. CASE "rollback" \in Failing /\ config' = Config!Plan(row[s].config) /\ built' = config'
  BY <1>1, <1>2, <1>4, PlanIsOffered DEF ConfigTypes, InForce,
     Config!GraphMatchesConfig, Config!EffortSupported, Config!Known
<1> QED
  BY <1>3, <1>4 DEF Config!SwitchFails

\* A new session, and a restart.
LEMMA AfreshKeeps ==
  ASSUME ConfigInv, Config!NewSession \/ Config!Restart
  PROVE  ConfigInv' /\ (SavedInv => SavedInv')
<1> USE DEF ConfigInv
<1>1. Config!Nothing \in Config!Pending /\ Config!Default \in Config!Config
      /\ Config!Known(Active, "default")
  BY ConfigNames DEF Config!Nothing, Config!Pending, Config!Default, Config!Config,
     Config!AllEfforts, Config!Modes, Config!Known
<1>2. session' = Draft /\ row' = row /\ pending' = Config!Nothing /\ note' = "none" /\ at' = "idle"
  BY DEF Config!NewSession, Config!Restart
<1>3. CASE Config!NewSession
  <2>1. UNCHANGED <<offered, config, built>>
    BY <1>3 DEF Config!NewSession
  <2> QED
    BY <1>1, <1>2, <2>1, ConfigNames, SettingsKept DEF ConfigTypes, SavedInv, RowInForce, NoteFits
<1>4. CASE Config!Restart
  <2>1. offered' \in SUBSET Models /\ Active \in offered' /\ config' = Config!Default
        /\ built' = Config!Default
    BY <1>4 DEF Config!Restart
  <2>2. InForce'
    BY <1>1, <2>1 DEF InForce, Config!GraphMatchesConfig, Config!EffortSupported, Config!Known,
       Config!Default
  <2> QED
    BY <1>1, <1>2, <2>1, <2>2, ConfigNames DEF ConfigTypes, SavedInv, RowInForce, NoteFits
<1> QED
  BY <1>3, <1>4

\* The runner starts with the settings of a draft, and nothing queued.
LEMMA ConfigInitHolds == Config!Init => ConfigInv /\ SavedInv
<1> SUFFICES ASSUME Config!Init PROVE ConfigInv /\ SavedInv
  OBVIOUS
<1>1. Config!Nothing \in Config!Pending /\ Config!Default \in Config!Config
      /\ Config!Known(Active, "default")
  BY ConfigNames DEF Config!Nothing, Config!Pending, Config!Default, Config!Config,
     Config!AllEfforts, Config!Modes, Config!Known
<1>2. Config!NoRow \in Config!Row
  BY <1>1 DEF Config!NoRow, Config!Row
<1>3. InForce
  BY <1>1, ConfigNames DEF Config!Init, InForce, Config!GraphMatchesConfig,
     Config!EffortSupported, Config!Default
<1> QED
  BY <1>1, <1>2, <1>3, ConfigNames DEF Config!Init, ConfigInv, ConfigTypes, SavedInv, RowInForce,
     NoteFits

\* Each step.
LEMMA ConfigStepKeeps ==
  ASSUME ConfigInv, Config!Next
  PROVE  ConfigInv' /\ (SavedInv /\ OnlyBuildsFail => SavedInv')
  BY RequestsKeep, ApplyKeeps, InvokeKeeps, BeginKeeps, RunKeeps, CrossKeeps, ResumeKeeps,
     CompactKeeps, SwitchKeeps, SwitchFailsKeeps, AfreshKeeps DEF Config!Next, OnlyBuildsFail


-----------------------------------------------------------------------------
(* The panel (McpPanel). *)

OpPhases  == {"new", "working", "worked", "failed", "publish", "build", "built", "apply",
              "applied", "done"}
CmdPhases == {"new", "switch", "writing", "wrote", "refused", "publish", "build", "built", "done"}

PanelTypes ==
  /\ switch \in BOOLEAN /\ stale \in BOOLEAN /\ running \in BOOLEAN /\ busy \in BOOLEAN
  /\ switchEpoch \in Nat /\ runs \in Nat
  /\ notice \in {"none", "enabled", "disabled"}
  /\ run \in {"idle", "starting", "active", "approval"}
  /\ owner \in Ops \cup {"none"}
  /\ where \in [Panel!Procs -> OpPhases \cup CmdPhases]
  /\ \A i \in Ops : where[i] \in OpPhases
  /\ \A c \in Cmds : where[c] \in CmdPhases
  /\ mine \in [Panel!Procs -> Nat] /\ \A p \in Panel!Procs : mine[p] <= switchEpoch
  /\ quiet \in [Ops -> BOOLEAN] /\ want \in [Cmds -> BOOLEAN]
  /\ out \in [Panel!Procs -> {"none", "ok", "same", "failed", "blocked"}]

\* A run is shown while there is one.
RunsShown == (running <=> run \in {"starting", "active"}) /\ (runs = 0 => run = "idle")

\* The command that wrote the switch last, and wants what it is.
Newest(c) ==
  \/ where[c] = "wrote"
  \/ where[c] \in {"publish", "build", "built"} /\ mine[c] = switchEpoch
OneWrites  == \A c \in Cmds : where[c] \in {"writing", "wrote", "refused"} => switchLock = c
WantsTrue  == \A c \in Cmds : Newest(c) => want[c] = switch

\* A switch that nobody announced is still to be reported by its command.
SwitchPending == notice # "none" /\ \E c \in Cmds : Newest(c)

\* A status that is not true any more has someone who will change it.
LineIsMinded ==
  /\ status = "Working" => running
  /\ status = "mcp running" =>
       \/ running \/ SwitchPending
       \/ owner \in Ops /\ Panel!Live(owner) /\ mine[owner] = switchEpoch
  /\ status \in {"MCP: Enabled", "enable queued"} => switch \/ SwitchPending
  /\ status \in {"MCP: Disabled", "disable queued"} => ~switch \/ SwitchPending

\* Before the first run: a toolset that is not in the graph has someone who
\* will build it, or a build of it failed.
Tried == \E p \in Panel!Procs : out[p] = "failed"
BuildsAtEnd == \A p \in Panel!Procs : out[p] # "none" => where[p] \in {"built", "applied", "done"}
FailureSeen == cached.outcome = "failed" => Tried
BuildComes ==
  runs = 0 /\ stale =>
    Tried \/ \E p \in Panel!Procs : where[p] \in {"worked", "wrote", "publish", "build", "apply"}

PanelInv ==
  /\ PanelTypes /\ RunsShown /\ OneWrites /\ WantsTrue /\ Panel!BusyIsAlive
  /\ LineIsMinded /\ BuildsAtEnd /\ FailureSeen /\ BuildComes

\* Operations are no commands, and nobody is neither.
LEMMA PanelNames ==
  /\ Ops \cap Cmds = {} /\ "none" \notin Ops /\ "none" \notin Cmds
  /\ Panel!Procs = Ops \cup Cmds /\ Panel!Nobody = "none"
  BY PanelConstants DEF Panel!ProcAssumption, Panel!Procs, Panel!Nobody

\* What is to be shown of the panel follows from its invariant.
LEMMA PanelShows == PanelInv => Panel!BusyIsAlive /\ Panel!StatusIsTrue /\ Panel!NothingForgotten
<1> SUFFICES ASSUME PanelInv
             PROVE  Panel!BusyIsAlive /\ Panel!StatusIsTrue /\ Panel!NothingForgotten
  OBVIOUS
<1>1. Panel!Resting => ~running /\ ~SwitchPending /\ (owner \in Ops => ~Panel!Live(owner))
  BY PanelNames DEF PanelInv, PanelTypes, RunsShown, Panel!Resting, Panel!Live, SwitchPending, Newest
<1>2. Panel!StatusIsTrue
  BY <1>1 DEF PanelInv, LineIsMinded, Panel!StatusIsTrue
<1>3. Panel!NothingForgotten
  BY DEF PanelInv, BuildComes, Tried, Panel!Resting, Panel!Live, Panel!NothingForgotten
<1> QED
  BY <1>2, <1>3 DEF PanelInv

\* The panel starts with nothing shown and nothing under way.
LEMMA PanelInitHolds == Panel!Init => PanelInv
<1> SUFFICES ASSUME Panel!Init PROVE PanelInv
  OBVIOUS
<1>1. PanelTypes
  <2>1. where \in [Panel!Procs -> OpPhases \cup CmdPhases] /\ \A p \in Panel!Procs : where[p] = "new"
    BY DEF Panel!Init, OpPhases
  <2>2. mine \in [Panel!Procs -> Nat] /\ \A p \in Panel!Procs : mine[p] <= switchEpoch
    BY DEF Panel!Init
  <2>3. quiet \in [Ops -> BOOLEAN] /\ want \in [Cmds -> BOOLEAN]
    BY DEF Panel!Init
  <2>4. out \in [Panel!Procs -> {"none", "ok", "same", "failed", "blocked"}]
    BY PanelNames DEF Panel!Init
  <2> QED
    BY <2>1, <2>2, <2>3, <2>4, PanelNames DEF Panel!Init, PanelTypes, OpPhases, CmdPhases
<1>2. RunsShown /\ OneWrites /\ WantsTrue /\ Panel!BusyIsAlive
  BY PanelNames DEF Panel!Init, RunsShown, OneWrites, WantsTrue, Newest, Panel!BusyIsAlive, Panel!Live
<1>3. LineIsMinded /\ FailureSeen /\ BuildComes
  BY PanelNames DEF Panel!Init, LineIsMinded, FailureSeen, BuildComes
<1>4. BuildsAtEnd
  BY PanelNames DEF Panel!Init, BuildsAtEnd
<1> QED
  BY <1>1, <1>2, <1>3, <1>4 DEF PanelInv

\* What the return of a task does.
LEMMA ReturnDoes ==
  ASSUME NEW p \in Panel!Procs, NEW outcome, NEW byEvent, PanelTypes,
         Panel!Return(p, outcome, byEvent)
  PROVE  /\ where' = [where EXCEPT ![p] = "done"]
         /\ busy' = IF owner = p THEN FALSE ELSE busy
  BY PanelNames DEF PanelTypes, Panel!Return, Panel!Go, Panel!Finish, Panel!Owns

\* The end of a write of the switch; it may start the operation that loads the servers.
LEMMA WroteDoes ==
  ASSUME NEW c \in Cmds, Panel!Wrote(c)
  PROVE  /\ UNCHANGED <<Panel!manager, Panel!agent, want, out, cached>> /\ where[c] = "wrote"
         /\ \/ /\ where' = [where EXCEPT ![c] = "publish"]
               /\ mine' = [mine EXCEPT ![c] = switchEpoch]
               /\ UNCHANGED <<busy, owner, quiet, status>>
            \/ \E i \in Ops :
                 /\ where[i] = "new" /\ where' = [where EXCEPT ![c] = "publish", ![i] = "working"]
                 /\ mine' = [mine EXCEPT ![c] = switchEpoch, ![i] = switchEpoch]
                 /\ busy' = TRUE /\ owner' = i /\ quiet' = [quiet EXCEPT ![i] = TRUE]
                 /\ status' = "mcp running"
  BY DEF Panel!Wrote, Panel!Begin, Panel!Go

\* The types of the panel.
LEMMA PanelTyped ==
  ASSUME PanelTypes, Panel!Next
  PROVE  PanelTypes'
<1> USE PanelNames DEF PanelTypes, OpPhases, CmdPhases
<1>1. ASSUME NEW i \in Ops, NEW b \in BOOLEAN, Panel!StartOperation(i, b)
      PROVE  PanelTypes'
  <2>1. mine' = [mine EXCEPT ![i] = switchEpoch] /\ UNCHANGED Panel!manager
    BY <1>1 DEF Panel!StartOperation
  <2>2. mine' \in [Panel!Procs -> Nat] /\ \A p \in Panel!Procs : mine'[p] <= switchEpoch'
    BY <2>1 DEF Panel!manager
  <2>3. UNCHANGED <<Panel!manager, Panel!agent, want, out>> /\ busy' = TRUE /\ owner' = i
        /\ where' = [where EXCEPT ![i] = "working"] /\ quiet' = [quiet EXCEPT ![i] = b]
    BY <1>1 DEF Panel!StartOperation, Panel!Begin, Panel!Go
  <2> QED
    BY <2>2, <2>3 DEF Panel!manager, Panel!agent
<1>2. ASSUME NEW i \in Ops, NEW b \in BOOLEAN, NEW r \in BOOLEAN, Panel!Work(i, b, r)
      PROVE  PanelTypes'
  BY <1>2 DEF Panel!Work, Panel!manager, Panel!agent, Panel!control, Panel!task, Panel!locks,
     Panel!vars, Panel!Go, Panel!Begin, Panel!Finish, Panel!Owns, Panel!Return
<1>3. ASSUME NEW i \in Ops, Panel!Failed(i)
      PROVE  PanelTypes'
  BY <1>3 DEF Panel!Failed, Panel!manager, Panel!agent, Panel!control, Panel!task,
     Panel!locks, Panel!vars, Panel!Go, Panel!Begin, Panel!Finish, Panel!Owns, Panel!Return
<1>4. ASSUME NEW i \in Ops, Panel!Worked(i)
      PROVE  PanelTypes'
  BY <1>4, ZenonT(60) DEF Panel!Worked, Panel!manager, Panel!agent, Panel!control, Panel!task,
     Panel!locks, Panel!vars, Panel!Go, Panel!Begin, Panel!Finish, Panel!Owns, Panel!Return
<1>5. ASSUME NEW i \in Ops, Panel!Applied(i)
      PROVE  PanelTypes'
  BY <1>5 DEF Panel!Applied, Panel!manager, Panel!agent, Panel!control, Panel!task,
     Panel!locks, Panel!vars, Panel!Go, Panel!Begin, Panel!Finish, Panel!Owns, Panel!Return
<1>6. ASSUME NEW c \in Cmds, NEW w \in BOOLEAN, Panel!Switching(c, w)
      PROVE  PanelTypes'
  BY <1>6 DEF Panel!Switching, Panel!manager, Panel!agent, Panel!control, Panel!task,
     Panel!locks, Panel!vars, Panel!Go, Panel!Begin, Panel!Finish, Panel!Owns, Panel!Return
<1>7. ASSUME NEW c \in Cmds, Panel!TakeSwitch(c)
      PROVE  PanelTypes'
  BY <1>7 DEF Panel!TakeSwitch, Panel!manager, Panel!agent, Panel!control, Panel!task,
     Panel!locks, Panel!vars, Panel!Go, Panel!Begin, Panel!Finish, Panel!Owns, Panel!Return
<1>8. ASSUME NEW c \in Cmds, Panel!Write(c)
      PROVE  PanelTypes'
  <2>1. mine' = mine /\ (switchEpoch' = switchEpoch \/ switchEpoch' = switchEpoch + 1)
    BY <1>8 DEF Panel!Write, Panel!task, Panel!manager
  <2>2. mine' \in [Panel!Procs -> Nat] /\ \A p \in Panel!Procs : mine'[p] <= switchEpoch'
    BY <2>1
  <2>3. /\ where' \in [Panel!Procs -> OpPhases \cup CmdPhases]
        /\ \A i \in Ops : where'[i] \in OpPhases
        /\ \A d \in Cmds : where'[d] \in CmdPhases
    BY <1>8 DEF Panel!Write, Panel!Go
  <2>4. switch' \in BOOLEAN /\ stale' \in BOOLEAN
    BY <1>8 DEF Panel!Write, Panel!manager
  <2>6. switchEpoch' \in Nat
    BY <1>8 DEF Panel!Write, Panel!manager
  <2>7. notice' \in {"none", "enabled", "disabled"}
    BY <1>8 DEF Panel!Write, Panel!manager
  <2>5. UNCHANGED <<Panel!agent, Panel!control, Panel!task>>
    BY <1>8 DEF Panel!Write
  <2> QED
    BY <2>2, <2>3, <2>4, <2>5, <2>6, <2>7 DEF Panel!agent, Panel!control, Panel!task
<1>9. ASSUME NEW c \in Cmds, Panel!Refused(c)
      PROVE  PanelTypes'
  BY <1>9 DEF Panel!Refused, Panel!manager, Panel!agent, Panel!control, Panel!task,
     Panel!locks, Panel!vars, Panel!Go, Panel!Begin, Panel!Finish, Panel!Owns, Panel!Return
<1>10. ASSUME NEW c \in Cmds, Panel!Wrote(c)
      PROVE  PanelTypes'
  <2>1. /\ UNCHANGED <<Panel!manager, Panel!agent, want, out>>
        /\ \/ /\ where' = [where EXCEPT ![c] = "publish"]
              /\ mine' = [mine EXCEPT ![c] = switchEpoch] /\ UNCHANGED <<busy, owner, quiet>>
           \/ \E i \in Ops :
                /\ where' = [where EXCEPT ![c] = "publish", ![i] = "working"]
                /\ mine' = [mine EXCEPT ![c] = switchEpoch, ![i] = switchEpoch]
                /\ busy' = TRUE /\ owner' = i /\ quiet' = [quiet EXCEPT ![i] = TRUE]
    BY <1>10, WroteDoes
  <2>2. mine' \in [Panel!Procs -> Nat] /\ \A p \in Panel!Procs : mine'[p] <= switchEpoch'
    BY <2>1 DEF Panel!manager
  <2>3. /\ where' \in [Panel!Procs -> OpPhases \cup CmdPhases]
        /\ \A i \in Ops : where'[i] \in OpPhases
        /\ \A d \in Cmds : where'[d] \in CmdPhases
    BY <2>1
  <2>4. /\ busy' \in BOOLEAN /\ owner' \in Ops \cup {"none"} /\ quiet' \in [Ops -> BOOLEAN]
    BY <2>1
  <2> QED
    BY <2>1, <2>2, <2>3, <2>4 DEF Panel!manager, Panel!agent
<1>11. ASSUME NEW p \in Panel!Procs, Panel!Join(p)
      PROVE  PanelTypes'
  BY <1>11, ZenonT(60) DEF Panel!Join, Panel!manager, Panel!agent, Panel!control, Panel!task,
     Panel!locks, Panel!vars, Panel!Go, Panel!Begin, Panel!Finish, Panel!Owns, Panel!Return
<1>12. ASSUME NEW p \in Panel!Procs, Panel!Build(p)
      PROVE  PanelTypes'
  BY <1>12 DEF Panel!Build, Panel!manager, Panel!agent, Panel!control, Panel!task,
     Panel!locks, Panel!vars, Panel!Go, Panel!Begin, Panel!Finish, Panel!Owns, Panel!Return
<1>13. ASSUME NEW p \in Panel!Procs, Panel!Built(p)
      PROVE  PanelTypes'
  BY <1>13 DEF Panel!Built, Panel!manager, Panel!agent, Panel!control, Panel!task,
     Panel!locks, Panel!vars, Panel!Go, Panel!Begin, Panel!Finish, Panel!Owns, Panel!Return
<1>14. ASSUME Panel!RunStarts
      PROVE  PanelTypes'
  BY <1>14 DEF Panel!RunStarts, Panel!manager, Panel!agent, Panel!control, Panel!task,
     Panel!locks, Panel!vars, Panel!Go, Panel!Begin, Panel!Finish, Panel!Owns, Panel!Return
<1>15. ASSUME Panel!RunEnters
      PROVE  PanelTypes'
  BY <1>15 DEF Panel!RunEnters, Panel!manager, Panel!agent, Panel!control, Panel!task,
     Panel!locks, Panel!vars, Panel!Go, Panel!Begin, Panel!Finish, Panel!Owns, Panel!Return
<1>16. ASSUME Panel!SafePoint
      PROVE  PanelTypes'
  BY <1>16 DEF Panel!SafePoint, Panel!manager, Panel!agent, Panel!control, Panel!task,
     Panel!locks, Panel!vars, Panel!Go, Panel!Begin, Panel!Finish, Panel!Owns, Panel!Return
<1>17. ASSUME Panel!News
      PROVE  PanelTypes'
  BY <1>17 DEF Panel!News, Panel!manager, Panel!agent, Panel!control, Panel!task, Panel!locks,
     Panel!vars, Panel!Go, Panel!Begin, Panel!Finish, Panel!Owns, Panel!Return
<1>18. ASSUME Panel!Resumed
      PROVE  PanelTypes'
  BY <1>18 DEF Panel!Resumed, Panel!manager, Panel!agent, Panel!control, Panel!task,
     Panel!locks, Panel!vars, Panel!Go, Panel!Begin, Panel!Finish, Panel!Owns, Panel!Return
<1>19. ASSUME NEW how \in {"idle", "approval"}, Panel!RunStops(how)
      PROVE  PanelTypes'
  BY <1>19 DEF Panel!RunStops, Panel!manager, Panel!agent, Panel!control, Panel!task,
     Panel!locks, Panel!vars, Panel!Go, Panel!Begin, Panel!Finish, Panel!Owns, Panel!Return
<1>20. ASSUME UNCHANGED Panel!vars
      PROVE  PanelTypes'
  BY <1>20 DEF Panel!manager, Panel!agent, Panel!control, Panel!task, Panel!locks, Panel!vars,
     Panel!Go, Panel!Begin, Panel!Finish, Panel!Owns, Panel!Return
<1> QED
  BY <1>1, <1>2, <1>3, <1>4, <1>5, <1>6, <1>7, <1>8, <1>9, <1>10, <1>11, <1>12, <1>13, <1>14,
     <1>15, <1>16, <1>17, <1>18, <1>19, <1>20 DEF Panel!Next

\* A run is shown while there is one.
LEMMA PanelRuns ==
  ASSUME PanelTypes, RunsShown, Panel!Next
  PROVE  RunsShown'
<1> USE DEF PanelTypes, RunsShown
<1>1. ASSUME NEW i \in Ops, NEW b \in BOOLEAN, Panel!StartOperation(i, b)
      PROVE  RunsShown'
  BY <1>1 DEF Panel!StartOperation, Panel!manager, Panel!agent, Panel!control, Panel!task,
     Panel!locks, Panel!vars
<1>2. ASSUME NEW i \in Ops, NEW b \in BOOLEAN, NEW r \in BOOLEAN, Panel!Work(i, b, r)
      PROVE  RunsShown'
  BY <1>2 DEF Panel!Work, Panel!manager, Panel!agent, Panel!control, Panel!task, Panel!locks,
     Panel!vars
<1>3. ASSUME NEW i \in Ops, Panel!Failed(i)
      PROVE  RunsShown'
  BY <1>3 DEF Panel!Failed, Panel!manager, Panel!agent, Panel!control, Panel!task,
     Panel!locks, Panel!vars
<1>4. ASSUME NEW i \in Ops, Panel!Worked(i)
      PROVE  RunsShown'
  BY <1>4 DEF Panel!Worked, Panel!manager, Panel!agent, Panel!control, Panel!task,
     Panel!locks, Panel!vars
<1>5. ASSUME NEW i \in Ops, Panel!Applied(i)
      PROVE  RunsShown'
  BY <1>5 DEF Panel!Applied, Panel!manager, Panel!agent, Panel!control, Panel!task,
     Panel!locks, Panel!vars
<1>6. ASSUME NEW c \in Cmds, NEW w \in BOOLEAN, Panel!Switching(c, w)
      PROVE  RunsShown'
  BY <1>6 DEF Panel!Switching, Panel!manager, Panel!agent, Panel!control, Panel!task,
     Panel!locks, Panel!vars
<1>7. ASSUME NEW c \in Cmds, Panel!TakeSwitch(c)
      PROVE  RunsShown'
  BY <1>7 DEF Panel!TakeSwitch, Panel!manager, Panel!agent, Panel!control, Panel!task,
     Panel!locks, Panel!vars
<1>8. ASSUME NEW c \in Cmds, Panel!Write(c)
      PROVE  RunsShown'
  BY <1>8 DEF Panel!Write, Panel!manager, Panel!agent, Panel!control, Panel!task, Panel!locks,
     Panel!vars
<1>9. ASSUME NEW c \in Cmds, Panel!Refused(c)
      PROVE  RunsShown'
  BY <1>9 DEF Panel!Refused, Panel!manager, Panel!agent, Panel!control, Panel!task,
     Panel!locks, Panel!vars
<1>10. ASSUME NEW c \in Cmds, Panel!Wrote(c)
      PROVE  RunsShown'
  BY <1>10 DEF Panel!Wrote, Panel!manager, Panel!agent, Panel!control, Panel!task,
     Panel!locks, Panel!vars
<1>11. ASSUME NEW p \in Panel!Procs, Panel!Join(p)
      PROVE  RunsShown'
  BY <1>11 DEF Panel!Join, Panel!manager, Panel!agent, Panel!control, Panel!task, Panel!locks,
     Panel!vars
<1>12. ASSUME NEW p \in Panel!Procs, Panel!Build(p)
      PROVE  RunsShown'
  BY <1>12 DEF Panel!Build, Panel!manager, Panel!agent, Panel!control, Panel!task,
     Panel!locks, Panel!vars
<1>13. ASSUME NEW p \in Panel!Procs, Panel!Built(p)
      PROVE  RunsShown'
  BY <1>13 DEF Panel!Built, Panel!manager, Panel!agent, Panel!control, Panel!task,
     Panel!locks, Panel!vars
<1>14. ASSUME Panel!RunStarts
      PROVE  RunsShown'
  BY <1>14 DEF Panel!RunStarts, Panel!manager, Panel!agent, Panel!control, Panel!task,
     Panel!locks, Panel!vars
<1>15. ASSUME Panel!RunEnters
      PROVE  RunsShown'
  BY <1>15 DEF Panel!RunEnters, Panel!manager, Panel!agent, Panel!control, Panel!task,
     Panel!locks, Panel!vars
<1>16. ASSUME Panel!SafePoint
      PROVE  RunsShown'
  BY <1>16 DEF Panel!SafePoint, Panel!manager, Panel!agent, Panel!control, Panel!task,
     Panel!locks, Panel!vars
<1>17. ASSUME Panel!News
      PROVE  RunsShown'
  BY <1>17 DEF Panel!News, Panel!manager, Panel!agent, Panel!control, Panel!task, Panel!locks,
     Panel!vars
<1>18. ASSUME Panel!Resumed
      PROVE  RunsShown'
  BY <1>18 DEF Panel!Resumed, Panel!manager, Panel!agent, Panel!control, Panel!task,
     Panel!locks, Panel!vars
<1>19. ASSUME NEW how \in {"idle", "approval"}, Panel!RunStops(how)
      PROVE  RunsShown'
  BY <1>19 DEF Panel!RunStops, Panel!manager, Panel!agent, Panel!control, Panel!task,
     Panel!locks, Panel!vars
<1>20. ASSUME UNCHANGED Panel!vars
      PROVE  RunsShown'
  BY <1>20 DEF Panel!manager, Panel!agent, Panel!control, Panel!task, Panel!locks, Panel!vars
<1> QED
  BY <1>1, <1>2, <1>3, <1>4, <1>5, <1>6, <1>7, <1>8, <1>9, <1>10, <1>11, <1>12, <1>13, <1>14,
     <1>15, <1>16, <1>17, <1>18, <1>19, <1>20 DEF Panel!Next

\* The panel is busy while its owner lives.
LEMMA PanelBusy ==
  ASSUME PanelTypes, Panel!BusyIsAlive, Panel!Next
  PROVE  Panel!BusyIsAlive'
<1> USE PanelNames DEF PanelTypes, Panel!BusyIsAlive, Panel!Live
<1>1. ASSUME NEW i \in Ops, NEW b \in BOOLEAN, Panel!StartOperation(i, b)
      PROVE  Panel!BusyIsAlive'
  BY <1>1 DEF Panel!StartOperation, Panel!manager, Panel!agent, Panel!control, Panel!task,
     Panel!locks, Panel!vars, Panel!Go, Panel!Begin, Panel!Finish, Panel!Owns
<1>2. ASSUME NEW i \in Ops, NEW b \in BOOLEAN, NEW r \in BOOLEAN, Panel!Work(i, b, r)
      PROVE  Panel!BusyIsAlive'
  BY <1>2 DEF Panel!Work, Panel!manager, Panel!agent, Panel!control, Panel!task, Panel!locks,
     Panel!vars, Panel!Go, Panel!Begin, Panel!Finish, Panel!Owns
<1>3. ASSUME NEW i \in Ops, Panel!Failed(i)
      PROVE  Panel!BusyIsAlive'
  BY <1>3 DEF Panel!Failed, Panel!manager, Panel!agent, Panel!control, Panel!task,
     Panel!locks, Panel!vars, Panel!Go, Panel!Begin, Panel!Finish, Panel!Owns
<1>4. ASSUME NEW i \in Ops, Panel!Worked(i)
      PROVE  Panel!BusyIsAlive'
  BY <1>4 DEF Panel!Worked, Panel!manager, Panel!agent, Panel!control, Panel!task,
     Panel!locks, Panel!vars, Panel!Go, Panel!Begin, Panel!Finish, Panel!Owns
<1>5. ASSUME NEW i \in Ops, Panel!Applied(i)
      PROVE  Panel!BusyIsAlive'
  BY <1>5 DEF Panel!Applied, Panel!manager, Panel!agent, Panel!control, Panel!task,
     Panel!locks, Panel!vars, Panel!Go, Panel!Begin, Panel!Finish, Panel!Owns
<1>6. ASSUME NEW c \in Cmds, NEW w \in BOOLEAN, Panel!Switching(c, w)
      PROVE  Panel!BusyIsAlive'
  BY <1>6 DEF Panel!Switching, Panel!manager, Panel!agent, Panel!control, Panel!task,
     Panel!locks, Panel!vars, Panel!Go, Panel!Begin, Panel!Finish, Panel!Owns
<1>7. ASSUME NEW c \in Cmds, Panel!TakeSwitch(c)
      PROVE  Panel!BusyIsAlive'
  BY <1>7 DEF Panel!TakeSwitch, Panel!manager, Panel!agent, Panel!control, Panel!task,
     Panel!locks, Panel!vars, Panel!Go, Panel!Begin, Panel!Finish, Panel!Owns
<1>8. ASSUME NEW c \in Cmds, Panel!Write(c)
      PROVE  Panel!BusyIsAlive'
  BY <1>8 DEF Panel!Write, Panel!manager, Panel!agent, Panel!control, Panel!task, Panel!locks,
     Panel!vars, Panel!Go, Panel!Begin, Panel!Finish, Panel!Owns
<1>9. ASSUME NEW c \in Cmds, Panel!Refused(c)
      PROVE  Panel!BusyIsAlive'
  BY <1>9 DEF Panel!Refused, Panel!manager, Panel!agent, Panel!control, Panel!task,
     Panel!locks, Panel!vars, Panel!Go, Panel!Begin, Panel!Finish, Panel!Owns
<1>10. ASSUME NEW c \in Cmds, Panel!Wrote(c)
      PROVE  Panel!BusyIsAlive'
  <2>1. CASE \E i \in Ops : /\ where[i] = "new" /\ busy' = TRUE /\ owner' = i
                            /\ where' = [where EXCEPT ![c] = "publish", ![i] = "working"]
    BY <2>1
  <2>2. CASE where' = [where EXCEPT ![c] = "publish"] /\ UNCHANGED <<busy, owner>>
    BY <2>2
  <2> QED
    BY <1>10, <2>1, <2>2, WroteDoes
<1>11. ASSUME NEW p \in Panel!Procs, Panel!Join(p)
      PROVE  Panel!BusyIsAlive'
  BY <1>11, ReturnDoes DEF Panel!Join, Panel!Go
<1>12. ASSUME NEW p \in Panel!Procs, Panel!Build(p)
      PROVE  Panel!BusyIsAlive'
  BY <1>12 DEF Panel!Build, Panel!manager, Panel!agent, Panel!control, Panel!task,
     Panel!locks, Panel!vars, Panel!Go, Panel!Begin, Panel!Finish, Panel!Owns
<1>13. ASSUME NEW p \in Panel!Procs, Panel!Built(p)
      PROVE  Panel!BusyIsAlive'
  BY <1>13, ReturnDoes DEF Panel!Built
<1>14. ASSUME Panel!RunStarts
      PROVE  Panel!BusyIsAlive'
  BY <1>14 DEF Panel!RunStarts, Panel!manager, Panel!agent, Panel!control, Panel!task,
     Panel!locks, Panel!vars, Panel!Go, Panel!Begin, Panel!Finish, Panel!Owns
<1>15. ASSUME Panel!RunEnters
      PROVE  Panel!BusyIsAlive'
  BY <1>15 DEF Panel!RunEnters, Panel!manager, Panel!agent, Panel!control, Panel!task,
     Panel!locks, Panel!vars, Panel!Go, Panel!Begin, Panel!Finish, Panel!Owns
<1>16. ASSUME Panel!SafePoint
      PROVE  Panel!BusyIsAlive'
  BY <1>16 DEF Panel!SafePoint, Panel!manager, Panel!agent, Panel!control, Panel!task,
     Panel!locks, Panel!vars, Panel!Go, Panel!Begin, Panel!Finish, Panel!Owns
<1>17. ASSUME Panel!News
      PROVE  Panel!BusyIsAlive'
  BY <1>17 DEF Panel!News, Panel!manager, Panel!agent, Panel!control, Panel!task, Panel!locks,
     Panel!vars, Panel!Go, Panel!Begin, Panel!Finish, Panel!Owns
<1>18. ASSUME Panel!Resumed
      PROVE  Panel!BusyIsAlive'
  BY <1>18 DEF Panel!Resumed, Panel!manager, Panel!agent, Panel!control, Panel!task,
     Panel!locks, Panel!vars, Panel!Go, Panel!Begin, Panel!Finish, Panel!Owns
<1>19. ASSUME NEW how \in {"idle", "approval"}, Panel!RunStops(how)
      PROVE  Panel!BusyIsAlive'
  BY <1>19 DEF Panel!RunStops, Panel!manager, Panel!agent, Panel!control, Panel!task,
     Panel!locks, Panel!vars, Panel!Go, Panel!Begin, Panel!Finish, Panel!Owns
<1>20. ASSUME UNCHANGED Panel!vars
      PROVE  Panel!BusyIsAlive'
  BY <1>20 DEF Panel!manager, Panel!agent, Panel!control, Panel!task, Panel!locks, Panel!vars,
     Panel!Go, Panel!Begin, Panel!Finish, Panel!Owns
<1> QED
  BY <1>1, <1>2, <1>3, <1>4, <1>5, <1>6, <1>7, <1>8, <1>9, <1>10, <1>11, <1>12, <1>13, <1>14,
     <1>15, <1>16, <1>17, <1>18, <1>19, <1>20 DEF Panel!Next

\* Who writes the switch holds its lock.
LEMMA PanelWrites ==
  ASSUME PanelTypes, OneWrites, Panel!Next
  PROVE  OneWrites'
<1> USE PanelNames DEF PanelTypes, OneWrites
<1>1. ASSUME NEW i \in Ops, NEW b \in BOOLEAN, Panel!StartOperation(i, b)
      PROVE  OneWrites'
  BY <1>1 DEF Panel!StartOperation, Panel!manager, Panel!agent, Panel!control, Panel!task,
     Panel!locks, Panel!vars, Panel!Go, Panel!Begin
<1>2. ASSUME NEW i \in Ops, NEW b \in BOOLEAN, NEW r \in BOOLEAN, Panel!Work(i, b, r)
      PROVE  OneWrites'
  BY <1>2 DEF Panel!Work, Panel!manager, Panel!agent, Panel!control, Panel!task, Panel!locks,
     Panel!vars, Panel!Go, Panel!Begin
<1>3. ASSUME NEW i \in Ops, Panel!Failed(i)
      PROVE  OneWrites'
  BY <1>3 DEF Panel!Failed, Panel!manager, Panel!agent, Panel!control, Panel!task,
     Panel!locks, Panel!vars, Panel!Go, Panel!Begin
<1>4. ASSUME NEW i \in Ops, Panel!Worked(i)
      PROVE  OneWrites'
  BY <1>4 DEF Panel!Worked, Panel!manager, Panel!agent, Panel!control, Panel!task,
     Panel!locks, Panel!vars, Panel!Go, Panel!Begin
<1>5. ASSUME NEW i \in Ops, Panel!Applied(i)
      PROVE  OneWrites'
  BY <1>5 DEF Panel!Applied, Panel!manager, Panel!agent, Panel!control, Panel!task,
     Panel!locks, Panel!vars, Panel!Go, Panel!Begin
<1>6. ASSUME NEW c \in Cmds, NEW w \in BOOLEAN, Panel!Switching(c, w)
      PROVE  OneWrites'
  BY <1>6 DEF Panel!Switching, Panel!manager, Panel!agent, Panel!control, Panel!task,
     Panel!locks, Panel!vars, Panel!Go, Panel!Begin
<1>7. ASSUME NEW c \in Cmds, Panel!TakeSwitch(c)
      PROVE  OneWrites'
  BY <1>7 DEF Panel!TakeSwitch, Panel!manager, Panel!agent, Panel!control, Panel!task,
     Panel!locks, Panel!vars, Panel!Go, Panel!Begin
<1>8. ASSUME NEW c \in Cmds, Panel!Write(c)
      PROVE  OneWrites'
  BY <1>8 DEF Panel!Write, Panel!manager, Panel!agent, Panel!control, Panel!task, Panel!locks,
     Panel!vars, Panel!Go, Panel!Begin
<1>9. ASSUME NEW c \in Cmds, Panel!Refused(c)
      PROVE  OneWrites'
  BY <1>9 DEF Panel!Refused, Panel!manager, Panel!agent, Panel!control, Panel!task,
     Panel!locks, Panel!vars, Panel!Go, Panel!Begin
<1>10. ASSUME NEW c \in Cmds, Panel!Wrote(c)
      PROVE  OneWrites'
  BY <1>10, ZenonT(60) DEF Panel!Wrote, Panel!manager, Panel!agent, Panel!control, Panel!task,
     Panel!locks, Panel!vars, Panel!Go, Panel!Begin
<1>11. ASSUME NEW p \in Panel!Procs, Panel!Join(p)
      PROVE  OneWrites'
  BY <1>11, ReturnDoes DEF Panel!Join, Panel!Go
<1>12. ASSUME NEW p \in Panel!Procs, Panel!Build(p)
      PROVE  OneWrites'
  BY <1>12 DEF Panel!Build, Panel!manager, Panel!agent, Panel!control, Panel!task,
     Panel!locks, Panel!vars, Panel!Go, Panel!Begin
<1>13. ASSUME NEW p \in Panel!Procs, Panel!Built(p)
      PROVE  OneWrites'
  BY <1>13, ReturnDoes DEF Panel!Built
<1>14. ASSUME Panel!RunStarts
      PROVE  OneWrites'
  BY <1>14 DEF Panel!RunStarts, Panel!manager, Panel!agent, Panel!control, Panel!task,
     Panel!locks, Panel!vars, Panel!Go, Panel!Begin
<1>15. ASSUME Panel!RunEnters
      PROVE  OneWrites'
  BY <1>15 DEF Panel!RunEnters, Panel!manager, Panel!agent, Panel!control, Panel!task,
     Panel!locks, Panel!vars, Panel!Go, Panel!Begin
<1>16. ASSUME Panel!SafePoint
      PROVE  OneWrites'
  BY <1>16 DEF Panel!SafePoint, Panel!manager, Panel!agent, Panel!control, Panel!task,
     Panel!locks, Panel!vars, Panel!Go, Panel!Begin
<1>17. ASSUME Panel!News
      PROVE  OneWrites'
  BY <1>17 DEF Panel!News, Panel!manager, Panel!agent, Panel!control, Panel!task, Panel!locks,
     Panel!vars, Panel!Go, Panel!Begin
<1>18. ASSUME Panel!Resumed
      PROVE  OneWrites'
  BY <1>18 DEF Panel!Resumed, Panel!manager, Panel!agent, Panel!control, Panel!task,
     Panel!locks, Panel!vars, Panel!Go, Panel!Begin
<1>19. ASSUME NEW how \in {"idle", "approval"}, Panel!RunStops(how)
      PROVE  OneWrites'
  BY <1>19 DEF Panel!RunStops, Panel!manager, Panel!agent, Panel!control, Panel!task,
     Panel!locks, Panel!vars, Panel!Go, Panel!Begin
<1>20. ASSUME UNCHANGED Panel!vars
      PROVE  OneWrites'
  BY <1>20 DEF Panel!manager, Panel!agent, Panel!control, Panel!task, Panel!locks, Panel!vars,
     Panel!Go, Panel!Begin
<1> QED
  BY <1>1, <1>2, <1>3, <1>4, <1>5, <1>6, <1>7, <1>8, <1>9, <1>10, <1>11, <1>12, <1>13, <1>14,
     <1>15, <1>16, <1>17, <1>18, <1>19, <1>20 DEF Panel!Next

\* The newest command wants what the switch is.
LEMMA PanelWants ==
  ASSUME PanelTypes, OneWrites, WantsTrue, Panel!Next
  PROVE  WantsTrue'
<1> USE PanelNames DEF PanelTypes, WantsTrue, Newest
<1>1. ASSUME NEW i \in Ops, NEW b \in BOOLEAN, Panel!StartOperation(i, b)
      PROVE  WantsTrue'
  BY <1>1 DEF Panel!StartOperation, Panel!manager, Panel!agent, Panel!control, Panel!task,
     Panel!locks, Panel!vars, Panel!Go, Panel!Begin
<1>2. ASSUME NEW i \in Ops, NEW b \in BOOLEAN, NEW r \in BOOLEAN, Panel!Work(i, b, r)
      PROVE  WantsTrue'
  BY <1>2 DEF Panel!Work, Panel!manager, Panel!agent, Panel!control, Panel!task, Panel!locks,
     Panel!vars, Panel!Go, Panel!Begin
<1>3. ASSUME NEW i \in Ops, Panel!Failed(i)
      PROVE  WantsTrue'
  BY <1>3 DEF Panel!Failed, Panel!manager, Panel!agent, Panel!control, Panel!task,
     Panel!locks, Panel!vars, Panel!Go, Panel!Begin
<1>4. ASSUME NEW i \in Ops, Panel!Worked(i)
      PROVE  WantsTrue'
  BY <1>4 DEF Panel!Worked, Panel!manager, Panel!agent, Panel!control, Panel!task,
     Panel!locks, Panel!vars, Panel!Go, Panel!Begin
<1>5. ASSUME NEW i \in Ops, Panel!Applied(i)
      PROVE  WantsTrue'
  BY <1>5 DEF Panel!Applied, Panel!manager, Panel!agent, Panel!control, Panel!task,
     Panel!locks, Panel!vars, Panel!Go, Panel!Begin
<1>6. ASSUME NEW c \in Cmds, NEW w \in BOOLEAN, Panel!Switching(c, w)
      PROVE  WantsTrue'
  BY <1>6 DEF Panel!Switching, Panel!manager, Panel!agent, Panel!control, Panel!task,
     Panel!locks, Panel!vars, Panel!Go, Panel!Begin
<1>7. ASSUME NEW c \in Cmds, Panel!TakeSwitch(c)
      PROVE  WantsTrue'
  BY <1>7 DEF Panel!TakeSwitch, Panel!manager, Panel!agent, Panel!control, Panel!task,
     Panel!locks, Panel!vars, Panel!Go, Panel!Begin
<1>8. ASSUME NEW c \in Cmds, Panel!Write(c)
      PROVE  WantsTrue'
  <2>1. \A d \in Cmds \ {c} : where[d] # "wrote" /\ mine[d] # switchEpoch + 1
    BY <1>8 DEF OneWrites, Panel!Write
  <2> QED
    BY <1>8, <2>1 DEF Panel!Write, Panel!Go, Panel!manager, Panel!task
<1>9. ASSUME NEW c \in Cmds, Panel!Refused(c)
      PROVE  WantsTrue'
  BY <1>9 DEF Panel!Refused, Panel!manager, Panel!agent, Panel!control, Panel!task,
     Panel!locks, Panel!vars, Panel!Go, Panel!Begin
<1>10. ASSUME NEW c \in Cmds, Panel!Wrote(c)
      PROVE  WantsTrue'
  <2>1. CASE \E i \in Ops : /\ where' = [where EXCEPT ![c] = "publish", ![i] = "working"]
                            /\ mine' = [mine EXCEPT ![c] = switchEpoch, ![i] = switchEpoch]
    <3>1. PICK i \in Ops : /\ where' = [where EXCEPT ![c] = "publish", ![i] = "working"]
                          /\ mine' = [mine EXCEPT ![c] = switchEpoch, ![i] = switchEpoch]
      BY <2>1
    <3>2. \A d \in Cmds \ {c} : where'[d] = where[d] /\ mine'[d] = mine[d]
      BY <3>1
    <3>3. where[c] = "wrote" /\ want' = want /\ switch' = switch /\ switchEpoch' = switchEpoch
      BY <1>10, WroteDoes DEF Panel!manager
    <3> QED
      BY <3>2, <3>3
  <2>2. CASE where' = [where EXCEPT ![c] = "publish"] /\ mine' = [mine EXCEPT ![c] = switchEpoch]
    <3>1. where[c] = "wrote" /\ want' = want /\ switch' = switch /\ switchEpoch' = switchEpoch
      BY <1>10, WroteDoes DEF Panel!manager
    <3>2. \A d \in Cmds \ {c} : where'[d] = where[d] /\ mine'[d] = mine[d]
      BY <2>2
    <3> QED
      BY <3>1, <3>2
  <2> QED
    BY <1>10, <2>1, <2>2, WroteDoes
<1>11. ASSUME NEW p \in Panel!Procs, Panel!Join(p)
      PROVE  WantsTrue'
  BY <1>11, ReturnDoes DEF Panel!Join, Panel!Go, Panel!task
<1>12. ASSUME NEW p \in Panel!Procs, Panel!Build(p)
      PROVE  WantsTrue'
  BY <1>12 DEF Panel!Build, Panel!manager, Panel!agent, Panel!control, Panel!task,
     Panel!locks, Panel!vars, Panel!Go, Panel!Begin
<1>13. ASSUME NEW p \in Panel!Procs, Panel!Built(p)
      PROVE  WantsTrue'
  BY <1>13, ReturnDoes DEF Panel!Built, Panel!task
<1>14. ASSUME Panel!RunStarts
      PROVE  WantsTrue'
  BY <1>14 DEF Panel!RunStarts, Panel!manager, Panel!agent, Panel!control, Panel!task,
     Panel!locks, Panel!vars, Panel!Go, Panel!Begin
<1>15. ASSUME Panel!RunEnters
      PROVE  WantsTrue'
  BY <1>15 DEF Panel!RunEnters, Panel!manager, Panel!agent, Panel!control, Panel!task,
     Panel!locks, Panel!vars, Panel!Go, Panel!Begin
<1>16. ASSUME Panel!SafePoint
      PROVE  WantsTrue'
  BY <1>16 DEF Panel!SafePoint, Panel!manager, Panel!agent, Panel!control, Panel!task,
     Panel!locks, Panel!vars, Panel!Go, Panel!Begin
<1>17. ASSUME Panel!News
      PROVE  WantsTrue'
  BY <1>17 DEF Panel!News, Panel!manager, Panel!agent, Panel!control, Panel!task, Panel!locks,
     Panel!vars, Panel!Go, Panel!Begin
<1>18. ASSUME Panel!Resumed
      PROVE  WantsTrue'
  BY <1>18 DEF Panel!Resumed, Panel!manager, Panel!agent, Panel!control, Panel!task,
     Panel!locks, Panel!vars, Panel!Go, Panel!Begin
<1>19. ASSUME NEW how \in {"idle", "approval"}, Panel!RunStops(how)
      PROVE  WantsTrue'
  BY <1>19 DEF Panel!RunStops, Panel!manager, Panel!agent, Panel!control, Panel!task,
     Panel!locks, Panel!vars, Panel!Go, Panel!Begin
<1>20. ASSUME UNCHANGED Panel!vars
      PROVE  WantsTrue'
  BY <1>20 DEF Panel!manager, Panel!agent, Panel!control, Panel!task, Panel!locks, Panel!vars,
     Panel!Go, Panel!Begin
<1> QED
  BY <1>1, <1>2, <1>3, <1>4, <1>5, <1>6, <1>7, <1>8, <1>9, <1>10, <1>11, <1>12, <1>13, <1>14,
     <1>15, <1>16, <1>17, <1>18, <1>19, <1>20 DEF Panel!Next

\* A task has an outcome only after a build.
LEMMA PanelBuilds ==
  ASSUME PanelTypes, BuildsAtEnd, Panel!Next
  PROVE  BuildsAtEnd'
<1> USE PanelNames DEF PanelTypes, BuildsAtEnd, OpPhases, CmdPhases
<1>1. ASSUME NEW i \in Ops, NEW b \in BOOLEAN, Panel!StartOperation(i, b)
      PROVE  BuildsAtEnd'
  BY <1>1 DEF Panel!StartOperation, Panel!manager, Panel!agent, Panel!control, Panel!task,
     Panel!locks, Panel!vars, Panel!Go, Panel!Begin
<1>2. ASSUME NEW i \in Ops, NEW b \in BOOLEAN, NEW r \in BOOLEAN, Panel!Work(i, b, r)
      PROVE  BuildsAtEnd'
  BY <1>2 DEF Panel!Work, Panel!manager, Panel!agent, Panel!control, Panel!task, Panel!locks,
     Panel!vars, Panel!Go, Panel!Begin
<1>3. ASSUME NEW i \in Ops, Panel!Failed(i)
      PROVE  BuildsAtEnd'
  BY <1>3 DEF Panel!Failed, Panel!manager, Panel!agent, Panel!control, Panel!task,
     Panel!locks, Panel!vars, Panel!Go, Panel!Begin
<1>4. ASSUME NEW i \in Ops, Panel!Worked(i)
      PROVE  BuildsAtEnd'
  BY <1>4 DEF Panel!Worked, Panel!manager, Panel!agent, Panel!control, Panel!task,
     Panel!locks, Panel!vars, Panel!Go, Panel!Begin
<1>5. ASSUME NEW i \in Ops, Panel!Applied(i)
      PROVE  BuildsAtEnd'
  BY <1>5 DEF Panel!Applied, Panel!manager, Panel!agent, Panel!control, Panel!task,
     Panel!locks, Panel!vars, Panel!Go, Panel!Begin
<1>6. ASSUME NEW c \in Cmds, NEW w \in BOOLEAN, Panel!Switching(c, w)
      PROVE  BuildsAtEnd'
  BY <1>6 DEF Panel!Switching, Panel!manager, Panel!agent, Panel!control, Panel!task,
     Panel!locks, Panel!vars, Panel!Go, Panel!Begin
<1>7. ASSUME NEW c \in Cmds, Panel!TakeSwitch(c)
      PROVE  BuildsAtEnd'
  BY <1>7 DEF Panel!TakeSwitch, Panel!manager, Panel!agent, Panel!control, Panel!task,
     Panel!locks, Panel!vars, Panel!Go, Panel!Begin
<1>8. ASSUME NEW c \in Cmds, Panel!Write(c)
      PROVE  BuildsAtEnd'
  BY <1>8 DEF Panel!Write, Panel!manager, Panel!agent, Panel!control, Panel!task, Panel!locks,
     Panel!vars, Panel!Go, Panel!Begin
<1>9. ASSUME NEW c \in Cmds, Panel!Refused(c)
      PROVE  BuildsAtEnd'
  BY <1>9 DEF Panel!Refused, Panel!manager, Panel!agent, Panel!control, Panel!task,
     Panel!locks, Panel!vars, Panel!Go, Panel!Begin
<1>10. ASSUME NEW c \in Cmds, Panel!Wrote(c)
      PROVE  BuildsAtEnd'
  BY <1>10 DEF Panel!Wrote, Panel!manager, Panel!agent, Panel!control, Panel!task,
     Panel!locks, Panel!vars, Panel!Go, Panel!Begin
<1>11. ASSUME NEW p \in Panel!Procs, Panel!Join(p)
      PROVE  BuildsAtEnd'
  BY <1>11, ReturnDoes DEF Panel!Join, Panel!Go, Panel!task
<1>12. ASSUME NEW p \in Panel!Procs, Panel!Build(p)
      PROVE  BuildsAtEnd'
  BY <1>12 DEF Panel!Build, Panel!manager, Panel!agent, Panel!control, Panel!task,
     Panel!locks, Panel!vars, Panel!Go, Panel!Begin
<1>13. ASSUME NEW p \in Panel!Procs, Panel!Built(p)
      PROVE  BuildsAtEnd'
  BY <1>13, ReturnDoes DEF Panel!Built, Panel!task
<1>14. ASSUME Panel!RunStarts
      PROVE  BuildsAtEnd'
  BY <1>14 DEF Panel!RunStarts, Panel!manager, Panel!agent, Panel!control, Panel!task,
     Panel!locks, Panel!vars, Panel!Go, Panel!Begin
<1>15. ASSUME Panel!RunEnters
      PROVE  BuildsAtEnd'
  BY <1>15 DEF Panel!RunEnters, Panel!manager, Panel!agent, Panel!control, Panel!task,
     Panel!locks, Panel!vars, Panel!Go, Panel!Begin
<1>16. ASSUME Panel!SafePoint
      PROVE  BuildsAtEnd'
  BY <1>16 DEF Panel!SafePoint, Panel!manager, Panel!agent, Panel!control, Panel!task,
     Panel!locks, Panel!vars, Panel!Go, Panel!Begin
<1>17. ASSUME Panel!News
      PROVE  BuildsAtEnd'
  BY <1>17 DEF Panel!News, Panel!manager, Panel!agent, Panel!control, Panel!task, Panel!locks,
     Panel!vars, Panel!Go, Panel!Begin
<1>18. ASSUME Panel!Resumed
      PROVE  BuildsAtEnd'
  BY <1>18 DEF Panel!Resumed, Panel!manager, Panel!agent, Panel!control, Panel!task,
     Panel!locks, Panel!vars, Panel!Go, Panel!Begin
<1>19. ASSUME NEW how \in {"idle", "approval"}, Panel!RunStops(how)
      PROVE  BuildsAtEnd'
  BY <1>19 DEF Panel!RunStops, Panel!manager, Panel!agent, Panel!control, Panel!task,
     Panel!locks, Panel!vars, Panel!Go, Panel!Begin
<1>20. ASSUME UNCHANGED Panel!vars
      PROVE  BuildsAtEnd'
  BY <1>20 DEF Panel!manager, Panel!agent, Panel!control, Panel!task, Panel!locks, Panel!vars,
     Panel!Go, Panel!Begin
<1> QED
  BY <1>1, <1>2, <1>3, <1>4, <1>5, <1>6, <1>7, <1>8, <1>9, <1>10, <1>11, <1>12, <1>13, <1>14,
     <1>15, <1>16, <1>17, <1>18, <1>19, <1>20 DEF Panel!Next

\* A failure that is remembered is one of a task.
LEMMA PanelTried ==
  ASSUME PanelTypes, BuildsAtEnd, FailureSeen, Panel!Next
  PROVE  FailureSeen' /\ (Tried => Tried')
<1> USE PanelNames DEF PanelTypes, BuildsAtEnd, FailureSeen, Tried
<1>1. ASSUME NEW i \in Ops, NEW b \in BOOLEAN, Panel!StartOperation(i, b)
      PROVE  FailureSeen' /\ (Tried => Tried')
  BY <1>1 DEF Panel!StartOperation, Panel!manager, Panel!agent, Panel!control, Panel!task,
     Panel!locks, Panel!vars, Panel!Go, Panel!Begin
<1>2. ASSUME NEW i \in Ops, NEW b \in BOOLEAN, NEW r \in BOOLEAN, Panel!Work(i, b, r)
      PROVE  FailureSeen' /\ (Tried => Tried')
  BY <1>2 DEF Panel!Work, Panel!manager, Panel!agent, Panel!control, Panel!task, Panel!locks,
     Panel!vars, Panel!Go, Panel!Begin
<1>3. ASSUME NEW i \in Ops, Panel!Failed(i)
      PROVE  FailureSeen' /\ (Tried => Tried')
  BY <1>3 DEF Panel!Failed, Panel!manager, Panel!agent, Panel!control, Panel!task,
     Panel!locks, Panel!vars, Panel!Go, Panel!Begin
<1>4. ASSUME NEW i \in Ops, Panel!Worked(i)
      PROVE  FailureSeen' /\ (Tried => Tried')
  BY <1>4 DEF Panel!Worked, Panel!manager, Panel!agent, Panel!control, Panel!task,
     Panel!locks, Panel!vars, Panel!Go, Panel!Begin
<1>5. ASSUME NEW i \in Ops, Panel!Applied(i)
      PROVE  FailureSeen' /\ (Tried => Tried')
  BY <1>5 DEF Panel!Applied, Panel!manager, Panel!agent, Panel!control, Panel!task,
     Panel!locks, Panel!vars, Panel!Go, Panel!Begin
<1>6. ASSUME NEW c \in Cmds, NEW w \in BOOLEAN, Panel!Switching(c, w)
      PROVE  FailureSeen' /\ (Tried => Tried')
  BY <1>6 DEF Panel!Switching, Panel!manager, Panel!agent, Panel!control, Panel!task,
     Panel!locks, Panel!vars, Panel!Go, Panel!Begin
<1>7. ASSUME NEW c \in Cmds, Panel!TakeSwitch(c)
      PROVE  FailureSeen' /\ (Tried => Tried')
  BY <1>7 DEF Panel!TakeSwitch, Panel!manager, Panel!agent, Panel!control, Panel!task,
     Panel!locks, Panel!vars, Panel!Go, Panel!Begin
<1>8. ASSUME NEW c \in Cmds, Panel!Write(c)
      PROVE  FailureSeen' /\ (Tried => Tried')
  BY <1>8 DEF Panel!Write, Panel!manager, Panel!agent, Panel!control, Panel!task, Panel!locks,
     Panel!vars, Panel!Go, Panel!Begin
<1>9. ASSUME NEW c \in Cmds, Panel!Refused(c)
      PROVE  FailureSeen' /\ (Tried => Tried')
  BY <1>9 DEF Panel!Refused, Panel!manager, Panel!agent, Panel!control, Panel!task,
     Panel!locks, Panel!vars, Panel!Go, Panel!Begin
<1>10. ASSUME NEW c \in Cmds, Panel!Wrote(c)
      PROVE  FailureSeen' /\ (Tried => Tried')
  BY <1>10 DEF Panel!Wrote, Panel!manager, Panel!agent, Panel!control, Panel!task,
     Panel!locks, Panel!vars, Panel!Go, Panel!Begin
<1>11. ASSUME NEW p \in Panel!Procs, Panel!Join(p)
      PROVE  FailureSeen' /\ (Tried => Tried')
  <2>1. out' = out
    BY <1>11 DEF Panel!Join
  <2>2. cached' = cached \/ cached' = [revision |-> rev, outcome |-> "queued"]
    BY <1>11 DEF Panel!Join
  <2> QED
    BY <2>1, <2>2
<1>12. ASSUME NEW p \in Panel!Procs, Panel!Build(p)
      PROVE  FailureSeen' /\ (Tried => Tried')
  BY <1>12 DEF Panel!Build, Panel!manager, Panel!agent, Panel!control, Panel!task,
     Panel!locks, Panel!vars, Panel!Go, Panel!Begin
<1>13. ASSUME NEW p \in Panel!Procs, Panel!Built(p)
      PROVE  FailureSeen' /\ (Tried => Tried')
  BY <1>13 DEF Panel!Built, Panel!Remember, Panel!task
<1>14. ASSUME Panel!RunStarts
      PROVE  FailureSeen' /\ (Tried => Tried')
  BY <1>14 DEF Panel!RunStarts, Panel!manager, Panel!agent, Panel!control, Panel!task,
     Panel!locks, Panel!vars, Panel!Go, Panel!Begin
<1>15. ASSUME Panel!RunEnters
      PROVE  FailureSeen' /\ (Tried => Tried')
  BY <1>15 DEF Panel!RunEnters, Panel!manager, Panel!agent, Panel!control, Panel!task,
     Panel!locks, Panel!vars, Panel!Go, Panel!Begin
<1>16. ASSUME Panel!SafePoint
      PROVE  FailureSeen' /\ (Tried => Tried')
  BY <1>16 DEF Panel!SafePoint, Panel!manager, Panel!agent, Panel!control, Panel!task,
     Panel!locks, Panel!vars, Panel!Go, Panel!Begin
<1>17. ASSUME Panel!News
      PROVE  FailureSeen' /\ (Tried => Tried')
  BY <1>17 DEF Panel!News, Panel!manager, Panel!agent, Panel!control, Panel!task, Panel!locks,
     Panel!vars, Panel!Go, Panel!Begin
<1>18. ASSUME Panel!Resumed
      PROVE  FailureSeen' /\ (Tried => Tried')
  BY <1>18 DEF Panel!Resumed, Panel!manager, Panel!agent, Panel!control, Panel!task,
     Panel!locks, Panel!vars, Panel!Go, Panel!Begin
<1>19. ASSUME NEW how \in {"idle", "approval"}, Panel!RunStops(how)
      PROVE  FailureSeen' /\ (Tried => Tried')
  BY <1>19 DEF Panel!RunStops, Panel!manager, Panel!agent, Panel!control, Panel!task,
     Panel!locks, Panel!vars, Panel!Go, Panel!Begin
<1>20. ASSUME UNCHANGED Panel!vars
      PROVE  FailureSeen' /\ (Tried => Tried')
  BY <1>20 DEF Panel!manager, Panel!agent, Panel!control, Panel!task, Panel!locks, Panel!vars,
     Panel!Go, Panel!Begin
<1> QED
  BY <1>1, <1>2, <1>3, <1>4, <1>5, <1>6, <1>7, <1>8, <1>9, <1>10, <1>11, <1>12, <1>13, <1>14,
     <1>15, <1>16, <1>17, <1>18, <1>19, <1>20 DEF Panel!Next

\* A toolset that is not in the graph has someone who will build it.
LEMMA PanelComes ==
  ASSUME PanelTypes, RunsShown, FailureSeen, BuildComes, Tried => Tried', Panel!Next
  PROVE  BuildComes'
<1> USE PanelNames DEF PanelTypes, RunsShown, FailureSeen, BuildComes
<1>1. ASSUME NEW i \in Ops, NEW b \in BOOLEAN, Panel!StartOperation(i, b)
      PROVE  BuildComes'
  BY <1>1 DEF Panel!StartOperation, Panel!manager, Panel!agent, Panel!control, Panel!task,
     Panel!locks, Panel!vars, Panel!Go, Panel!Begin
<1>2. ASSUME NEW i \in Ops, NEW b \in BOOLEAN, NEW r \in BOOLEAN, Panel!Work(i, b, r)
      PROVE  BuildComes'
  BY <1>2 DEF Panel!Work, Panel!manager, Panel!agent, Panel!control, Panel!task, Panel!locks,
     Panel!vars, Panel!Go, Panel!Begin
<1>3. ASSUME NEW i \in Ops, Panel!Failed(i)
      PROVE  BuildComes'
  BY <1>3 DEF Panel!Failed, Panel!manager, Panel!agent, Panel!control, Panel!task,
     Panel!locks, Panel!vars, Panel!Go, Panel!Begin
<1>4. ASSUME NEW i \in Ops, Panel!Worked(i)
      PROVE  BuildComes'
  <2>1. runs' = runs /\ stale' = stale
    BY <1>4 DEF Panel!Worked, Panel!manager, Panel!agent
  <2>2. CASE runs = 0 /\ stale
    <3>1. where' = [where EXCEPT ![i] = "publish"] \/ where' = [where EXCEPT ![i] = "apply"]
      BY <1>4, <2>2 DEF Panel!Worked, Panel!Publishes, Panel!Go
    <3> QED
      BY <3>1
  <2> QED
    BY <2>1, <2>2
<1>5. ASSUME NEW i \in Ops, Panel!Applied(i)
      PROVE  BuildComes'
  BY <1>5 DEF Panel!Applied, Panel!manager, Panel!agent, Panel!control, Panel!task,
     Panel!locks, Panel!vars, Panel!Go, Panel!Begin
<1>6. ASSUME NEW c \in Cmds, NEW w \in BOOLEAN, Panel!Switching(c, w)
      PROVE  BuildComes'
  BY <1>6 DEF Panel!Switching, Panel!manager, Panel!agent, Panel!control, Panel!task,
     Panel!locks, Panel!vars, Panel!Go, Panel!Begin
<1>7. ASSUME NEW c \in Cmds, Panel!TakeSwitch(c)
      PROVE  BuildComes'
  BY <1>7 DEF Panel!TakeSwitch, Panel!manager, Panel!agent, Panel!control, Panel!task,
     Panel!locks, Panel!vars, Panel!Go, Panel!Begin
<1>8. ASSUME NEW c \in Cmds, Panel!Write(c)
      PROVE  BuildComes'
  BY <1>8 DEF Panel!Write, Panel!manager, Panel!agent, Panel!control, Panel!task, Panel!locks,
     Panel!vars, Panel!Go, Panel!Begin
<1>9. ASSUME NEW c \in Cmds, Panel!Refused(c)
      PROVE  BuildComes'
  BY <1>9 DEF Panel!Refused, Panel!manager, Panel!agent, Panel!control, Panel!task,
     Panel!locks, Panel!vars, Panel!Go, Panel!Begin
<1>10. ASSUME NEW c \in Cmds, Panel!Wrote(c)
      PROVE  BuildComes'
  BY <1>10 DEF Panel!Wrote, Panel!manager, Panel!agent, Panel!control, Panel!task,
     Panel!locks, Panel!vars, Panel!Go, Panel!Begin
<1>11. ASSUME NEW p \in Panel!Procs, Panel!Join(p)
      PROVE  BuildComes'
  BY <1>11, ReturnDoes DEF Panel!Join, Panel!task, Panel!agent, Panel!Cached, Panel!Blocked, Panel!Go
<1>12. ASSUME NEW p \in Panel!Procs, Panel!Build(p)
      PROVE  BuildComes'
  <2>1. runs' = runs
    BY <1>12 DEF Panel!Build, Panel!agent
  <2>2. runs = 0 /\ stale' => out'[p] = "failed"
    BY <1>12 DEF Panel!Build
  <2> QED
    BY <2>1, <2>2 DEF Tried
<1>13. ASSUME NEW p \in Panel!Procs, Panel!Built(p)
      PROVE  BuildComes'
  <2>1. where' = [where EXCEPT ![p] = "done"] /\ where[p] = "built"
    BY <1>13, ReturnDoes DEF Panel!Built
  <2>2. runs' = runs /\ stale' = stale
    BY <1>13 DEF Panel!Built, Panel!agent
  <2> QED
    BY <2>1, <2>2
<1>14. ASSUME Panel!RunStarts
      PROVE  BuildComes'
  BY <1>14 DEF Panel!RunStarts, Panel!manager, Panel!agent, Panel!control, Panel!task,
     Panel!locks, Panel!vars, Panel!Go, Panel!Begin
<1>15. ASSUME Panel!RunEnters
      PROVE  BuildComes'
  BY <1>15 DEF Panel!RunEnters, Panel!manager, Panel!agent, Panel!control, Panel!task,
     Panel!locks, Panel!vars, Panel!Go, Panel!Begin
<1>16. ASSUME Panel!SafePoint
      PROVE  BuildComes'
  BY <1>16 DEF Panel!SafePoint, Panel!manager, Panel!agent, Panel!control, Panel!task,
     Panel!locks, Panel!vars, Panel!Go, Panel!Begin
<1>17. ASSUME Panel!News
      PROVE  BuildComes'
  BY <1>17 DEF Panel!News, Panel!manager, Panel!agent, Panel!control, Panel!task, Panel!locks,
     Panel!vars, Panel!Go, Panel!Begin
<1>18. ASSUME Panel!Resumed
      PROVE  BuildComes'
  BY <1>18 DEF Panel!Resumed, Panel!manager, Panel!agent, Panel!control, Panel!task,
     Panel!locks, Panel!vars, Panel!Go, Panel!Begin
<1>19. ASSUME NEW how \in {"idle", "approval"}, Panel!RunStops(how)
      PROVE  BuildComes'
  BY <1>19 DEF Panel!RunStops, Panel!manager, Panel!agent, Panel!control, Panel!task,
     Panel!locks, Panel!vars, Panel!Go, Panel!Begin
<1>20. ASSUME UNCHANGED Panel!vars
      PROVE  BuildComes'
  BY <1>20 DEF Panel!manager, Panel!agent, Panel!control, Panel!task, Panel!locks, Panel!vars,
     Panel!Go, Panel!Begin
<1> QED
  BY <1>1, <1>2, <1>3, <1>4, <1>5, <1>6, <1>7, <1>8, <1>9, <1>10, <1>11, <1>12, <1>13, <1>14,
     <1>15, <1>16, <1>17, <1>18, <1>19, <1>20 DEF Panel!Next


\* A status that says nothing that could become untrue.
Harmless == {"Ready", "mcp finished", "mcp failed", "mcp queued", "tools updated",
             "update failed", "tool update failed"}

\* A status that cannot become untrue needs nobody.
LEMMA LineHarmless == ASSUME status' \in Harmless PROVE LineIsMinded'
  BY DEF Harmless, LineIsMinded

\* The status of the switch as it is.
LEMMA LineShown ==
  ASSUME status' = Panel!Shown, switch' = switch, PanelTypes PROVE LineIsMinded'
  BY DEF Panel!Shown, LineIsMinded, PanelTypes

\* A status that stays, while whoever minds it goes on to do so.
OwnerMinds == owner \in Ops /\ Panel!Live(owner) /\ mine[owner] = switchEpoch
LEMMA LineStays ==
  ASSUME LineIsMinded, status' = status, switch' = switch, running => running',
         SwitchPending => SwitchPending', status = "mcp running" => (OwnerMinds => OwnerMinds' \/ running')
  PROVE  LineIsMinded'
  BY DEF LineIsMinded, OwnerMinds

\* A step of one task that goes on, and of no command that wrote last.
LEMMA OthersMind ==
  ASSUME PanelTypes, NEW p \in Panel!Procs, NEW q, where' = [where EXCEPT ![p] = q],
         UNCHANGED <<mine, switchEpoch, owner>>
  PROVE  /\ (p \notin Cmds \/ ~Newest(p)) /\ notice' = notice => (SwitchPending => SwitchPending')
         /\ owner # p \/ q \notin {"new", "done"} => (OwnerMinds => OwnerMinds')
  BY PanelNames DEF PanelTypes, SwitchPending, Newest, OwnerMinds, Panel!Live

\* A task that takes a step, but stays the one to correct the status.
LEMMA LineGoesOn ==
  ASSUME PanelTypes, LineIsMinded, NEW p \in Ops \cup Cmds, NEW q,
         where' = [where EXCEPT ![p] = q],
         UNCHANGED <<mine, switch, switchEpoch, owner, running, notice, status>>,
         p \notin Cmds \/ ~Newest(p) \/ (SwitchPending => SwitchPending'),
         (status = "mcp running" /\ OwnerMinds /\ owner = p) => running \/ q \notin {"new", "done"}
  PROVE  LineIsMinded'
<1>1. SwitchPending => SwitchPending'
  BY OthersMind, PanelNames
<1>2. owner # p \/ q \notin {"new", "done"} => (OwnerMinds => OwnerMinds')
  BY OthersMind, PanelNames
<1> QED
  BY <1>1, <1>2, LineStays

\* A step that is no task's.
LEMMA AllMind ==
  ASSUME UNCHANGED <<where, mine, switchEpoch, owner, notice>>
  PROVE  (SwitchPending => SwitchPending') /\ (OwnerMinds => OwnerMinds')
  BY DEF SwitchPending, Newest, OwnerMinds, Panel!Live

\* What the return of a task says.
LEMMA LineAtReturn ==
  ASSUME PanelTypes, WantsTrue, LineIsMinded,
         NEW p \in Panel!Procs, where[p] \in {"publish", "built"},
         NEW outcome \in {"failed", "queued", "applied"}, NEW byEvent \in BOOLEAN,
         Panel!Return(p, outcome, byEvent), outcome = "applied" => ~stale,
         UNCHANGED <<switch, switchEpoch, stale, running, owner, mine, want>>
  PROVE  LineIsMinded'
<1> DEFINE tells == Panel!Announced /\ (byEvent \/ Panel!Announces(p, outcome))
           line  == IF tells THEN Panel!Shown ELSE status
<1>1. /\ status' = Panel!Reported(p, outcome, line) /\ notice' = (IF tells THEN "none" ELSE notice)
      /\ where' = [where EXCEPT ![p] = "done"]
  BY PanelNames DEF Panel!Return, Panel!Go
<1>2. tells => Panel!Shown = line
  OBVIOUS
<1>3. ~tells => line = status /\ notice' = notice
  BY <1>1
<1>4. Panel!Shown \in {"MCP: Enabled", "disable queued", "MCP: Disabled"}
  BY DEF Panel!Shown
<1>5. p \in Cmds /\ mine[p] = switchEpoch /\ outcome = "applied" => tells \/ notice = "none"
  BY PanelNames DEF Panel!Announced, Panel!Announces, Panel!Current
<1> HIDE DEF tells, line
<1>6. CASE p \in Ops
  <2>1. CASE status' = "Ready"
    BY <2>1, LineHarmless DEF Harmless
  <2>2. CASE tells /\ status' # "Ready"
    <3>1. status' = Panel!Shown
      BY <1>1, <1>2, <1>4, <1>6, <2>2 DEF Panel!Reported
    <3> QED
      BY <3>1, LineShown
  <2>3. CASE ~tells /\ status' # "Ready"
    <3>1. status' = status
      BY <1>1, <1>3, <1>6, <2>3 DEF Panel!Reported
    <3>2. status = "mcp running" /\ owner = p /\ mine[p] = switchEpoch => running
      BY <1>1, <1>3, <1>6, <2>3 DEF Panel!Reported, Panel!Owns, Panel!Current
    <3>3. status = "mcp running" => (OwnerMinds => OwnerMinds' \/ running')
      BY <1>1, <3>2, OthersMind DEF OwnerMinds
    <3>4. SwitchPending => SwitchPending'
      BY <1>1, <1>3, <1>6, <2>3, PanelNames, OthersMind
    <3> QED
      BY <3>1, <3>3, <3>4, LineStays
  <2> QED
    BY <2>1, <2>2, <2>3
<1>7. CASE p \in Cmds /\ mine[p] # switchEpoch
  <2>1. status' = line
    BY <1>1, <1>7, PanelNames DEF Panel!Reported, Panel!Current
  <2>2. CASE tells
    BY <1>2, <2>1, <2>2, LineShown
  <2>3. CASE ~tells
    <3>1. ~Newest(p)
      BY <1>7 DEF Newest
    <3>2. (SwitchPending => SwitchPending') /\ (OwnerMinds => OwnerMinds')
      BY <1>1, <1>3, <1>7, <2>3, <3>1, PanelNames, OthersMind DEF PanelTypes
    <3> QED
      BY <1>3, <2>1, <2>3, <3>2, LineStays
  <2> QED
    BY <2>2, <2>3
<1>8. CASE p \in Cmds /\ mine[p] = switchEpoch
  <2>1. want[p] = switch
    BY <1>8 DEF WantsTrue, Newest
  <2>2. CASE outcome = "failed"
    <3>1. status' = "tool update failed"
      BY <1>1, <1>8, <2>2, PanelNames DEF Panel!Reported, Panel!Current
    <3> QED
      BY <3>1, LineHarmless DEF Harmless
  <2>3. CASE outcome = "queued"
    <3>1. status' = IF switch THEN "enable queued" ELSE "disable queued"
      BY <1>1, <1>8, <2>1, <2>3, PanelNames DEF Panel!Reported, Panel!Current
    <3> QED
      BY <3>1 DEF LineIsMinded
  <2>4. CASE outcome = "applied"
    <3>1. status' = line
      BY <1>1, <1>8, <2>4, PanelNames DEF Panel!Reported, Panel!Current
    <3>2. CASE tells
      BY <1>2, <3>1, <3>2, LineShown
    <3>3. CASE ~tells
      <4>1. ~SwitchPending
        BY <1>5, <1>8, <2>4, <3>3 DEF SwitchPending
      <4>2. OwnerMinds => OwnerMinds'
        BY <1>1, <1>8, PanelNames, OthersMind DEF PanelTypes
      <4> QED
        BY <1>3, <3>1, <3>3, <4>1, <4>2, LineStays
    <3> QED
      BY <3>2, <3>3
  <2> QED
    BY <2>2, <2>3, <2>4
<1> QED
  BY <1>6, <1>7, <1>8, PanelNames

\* A status that is not true any more has someone who will correct it.
LEMMA PanelLine ==
  ASSUME PanelTypes, WantsTrue, LineIsMinded, Panel!Next
  PROVE  LineIsMinded'
<1> USE PanelNames
<1>1. ASSUME NEW i \in Ops, NEW b \in BOOLEAN, Panel!StartOperation(i, b)
      PROVE  LineIsMinded'
  <2>1. status' = "mcp running" /\ owner' = i /\ where' = [where EXCEPT ![i] = "working"]
        /\ mine' = [mine EXCEPT ![i] = switchEpoch] /\ switchEpoch' = switchEpoch
    BY <1>1 DEF Panel!StartOperation, Panel!Begin, Panel!Go, Panel!manager
  <2>2. OwnerMinds'
    BY <2>1 DEF OwnerMinds, PanelTypes, Panel!Live
  <2> QED
    BY <2>1, <2>2 DEF LineIsMinded, OwnerMinds
<1>2. ASSUME NEW i \in Ops, NEW b \in BOOLEAN, NEW r \in BOOLEAN, Panel!Work(i, b, r)
      PROVE  LineIsMinded'
  <2>1. UNCHANGED <<switch, switchEpoch, notice, running, owner, mine, status>>
    BY <1>2 DEF Panel!Work, Panel!agent, Panel!control, Panel!task
  <2>2. \E q \in {"failed", "worked"} : where' = [where EXCEPT ![i] = q]
    BY <1>2 DEF Panel!Work, Panel!Go
  <2> QED
    BY <2>1, <2>2, LineGoesOn
<1>3. ASSUME NEW i \in Ops, Panel!Failed(i)
      PROVE  LineIsMinded'
  <2>1. UNCHANGED <<switch, switchEpoch, notice, running, owner, mine>>
        /\ where' = [where EXCEPT ![i] = "done"]
    BY <1>3 DEF Panel!Failed, Panel!manager, Panel!agent, Panel!task, Panel!Go
  <2>2. CASE mine[i] = switchEpoch
    BY <1>3, <2>2, LineHarmless DEF Panel!Failed, Harmless
  <2>3. CASE mine[i] # switchEpoch
    <3>1. status' = status
      BY <1>3, <2>3 DEF Panel!Failed
    <3>2. ~(OwnerMinds /\ owner = i)
      BY <2>3 DEF OwnerMinds
    <3> QED
      BY <2>1, <3>1, <3>2, LineGoesOn
  <2> QED
    BY <2>2, <2>3
<1>4. ASSUME NEW i \in Ops, Panel!Worked(i)
      PROVE  LineIsMinded'
  <2>1. UNCHANGED <<switch, switchEpoch, notice, running, owner, mine>>
    BY <1>4 DEF Panel!Worked, Panel!manager, Panel!agent, Panel!task
  <2>2. CASE where' = [where EXCEPT ![i] = "publish"] /\ status' = status
    BY <2>1, <2>2, LineGoesOn
  <2>3. CASE /\ where' = [where EXCEPT ![i] = "done"]
             /\ status' = IF mine[i] = switchEpoch THEN Panel!Calm(i) ELSE status
    <3>1. CASE status' = "Ready"
      BY <3>1, LineHarmless DEF Harmless
    <3>2. CASE status' # "Ready" \/ status = "Ready"
      <4>1. status' = status
        BY <2>3, <3>2 DEF Panel!Calm
      <4>2. status = "mcp running" /\ OwnerMinds /\ owner = i => running
        BY <2>3, <3>2 DEF Panel!Calm, Panel!Owns, OwnerMinds
      <4> QED
        BY <2>1, <2>3, <4>1, <4>2, LineGoesOn
    <3> QED
      BY <3>1, <3>2
  <2>4. CASE /\ where' = [where EXCEPT ![i] = "done"] \/ where' = [where EXCEPT ![i] = "apply"]
             /\ mine[i] = switchEpoch
             /\ \E text \in {"mcp finished", "mcp failed", "mcp queued"} : status' = Panel!Plain(text)
    <3>1. CASE status' \in Harmless
      BY <3>1, LineHarmless
    <3>2. CASE status' = status /\ status \in Panel!Switch
      <4>1. status # "mcp running"
        BY <3>2 DEF Panel!Switch
      <4> QED
        BY <2>1, <2>4, <3>2, <4>1, LineGoesOn
    <3> QED
      BY <2>4, <3>1, <3>2 DEF Panel!Plain, Harmless
  <2> QED
    BY <1>4, <2>2, <2>3, <2>4 DEF Panel!Worked, Panel!Go
<1>5. ASSUME NEW i \in Ops, Panel!Applied(i)
      PROVE  LineIsMinded'
  <2>1. UNCHANGED <<switch, switchEpoch, running, owner, mine>>
        /\ where' = [where EXCEPT ![i] = "done"]
    BY <1>5 DEF Panel!Applied, Panel!agent, Panel!task, Panel!Go
  <2>2. \/ status' = Panel!Shown
        \/ /\ notice' = notice
           /\ \E text \in {"mcp queued", "tool update failed", "tools updated"} :
                status' = Panel!Plain(text)
    BY <1>5 DEF Panel!Applied
  <2>3. CASE status' = Panel!Shown
    BY <2>1, <2>3, LineShown
  <2>4. CASE status' \in Harmless
    BY <2>4, LineHarmless
  <2>5. CASE status' = status /\ status \in Panel!Switch /\ notice' = notice
    <3>1. status # "mcp running"
      BY <2>5 DEF Panel!Switch
    <3> QED
      BY <2>1, <2>5, <3>1, LineGoesOn
  <2> QED
    BY <2>2, <2>3, <2>4, <2>5 DEF Panel!Plain, Harmless
<1>6. ASSUME NEW c \in Cmds, NEW w \in BOOLEAN, Panel!Switching(c, w)
      PROVE  LineIsMinded'
  <2>1. UNCHANGED <<switch, switchEpoch, notice, running, owner, mine, status>>
        /\ where' = [where EXCEPT ![c] = "switch"] /\ ~Newest(c)
    BY <1>6 DEF Panel!Switching, Panel!manager, Panel!agent, Panel!control, Panel!Go, Newest
  <2> QED
    BY <2>1, LineGoesOn
<1>7. ASSUME NEW c \in Cmds, Panel!TakeSwitch(c)
      PROVE  LineIsMinded'
  <2>1. UNCHANGED <<switch, switchEpoch, notice, running, owner, mine>> /\ ~Newest(c)
    BY <1>7 DEF Panel!TakeSwitch, Panel!manager, Panel!agent, Panel!control, Panel!task, Newest
  <2>2. CASE status' = Panel!Shown
    BY <2>1, <2>2, LineShown
  <2>3. CASE status' = status /\ where' = [where EXCEPT ![c] = "writing"]
    BY <2>1, <2>3, LineGoesOn
  <2> QED
    BY <1>7, <2>2, <2>3 DEF Panel!TakeSwitch, Panel!Go
<1>8. ASSUME NEW c \in Cmds, Panel!Write(c)
      PROVE  LineIsMinded'
  <2>1. UNCHANGED <<running, owner, mine, status>>
    BY <1>8 DEF Panel!Write, Panel!agent, Panel!control, Panel!task
  <2>2. CASE where' = [where EXCEPT ![c] = "refused"] /\ UNCHANGED Panel!manager
    <3>1. ~Newest(c)
      BY <1>8 DEF Panel!Write, Newest
    <3> QED
      BY <2>1, <2>2, <3>1, LineGoesOn DEF Panel!manager
  <2>3. CASE where' = [where EXCEPT ![c] = "wrote"] /\ notice' \in {"enabled", "disabled"}
    <3>1. SwitchPending'
      BY <2>3 DEF SwitchPending, Newest, PanelTypes
    <3> QED
      BY <2>1, <3>1 DEF LineIsMinded
  <2> QED
    BY <1>8, <2>2, <2>3 DEF Panel!Write, Panel!Go
<1>9. ASSUME NEW c \in Cmds, Panel!Refused(c)
      PROVE  LineIsMinded'
  <2> QED
    BY <1>9, LineHarmless DEF Panel!Refused, Harmless
<1>10. ASSUME NEW c \in Cmds, Panel!Wrote(c)
      PROVE  LineIsMinded'
  <2>1. where'[c] = "publish" /\ mine'[c] = switchEpoch /\ switchEpoch' = switchEpoch
        /\ UNCHANGED <<switch, running, notice>>
    <3>0. UNCHANGED <<switch, switchEpoch, running, notice>>
      BY <1>10, WroteDoes DEF Panel!manager, Panel!agent
    <3>1. CASE where' = [where EXCEPT ![c] = "publish"] /\ mine' = [mine EXCEPT ![c] = switchEpoch]
      BY <3>0, <3>1 DEF PanelTypes
    <3>2. CASE \E i \in Ops : /\ where' = [where EXCEPT ![c] = "publish", ![i] = "working"]
                              /\ mine' = [mine EXCEPT ![c] = switchEpoch, ![i] = switchEpoch]
      BY <3>0, <3>2 DEF PanelTypes
    <3> QED
      BY <1>10, <3>1, <3>2, WroteDoes
  <2>2. SwitchPending => SwitchPending'
    <3>1. Newest(c)'
      BY <2>1 DEF Newest
    <3> QED
      BY <2>1, <3>1 DEF SwitchPending
  <2>3. CASE UNCHANGED <<owner, status>> /\ where' = [where EXCEPT ![c] = "publish"]
             /\ mine' = [mine EXCEPT ![c] = switchEpoch]
    <3>1. OwnerMinds => OwnerMinds'
      BY <2>1, <2>3, PanelNames DEF OwnerMinds, Panel!Live, PanelTypes
    <3> QED
      BY <2>1, <2>2, <2>3, <3>1, LineStays
  <2>4. CASE \E i \in Ops : /\ where' = [where EXCEPT ![c] = "publish", ![i] = "working"]
                            /\ mine' = [mine EXCEPT ![c] = switchEpoch, ![i] = switchEpoch]
                            /\ owner' = i /\ status' = "mcp running"
    <3>1. OwnerMinds'
      BY <2>1, <2>4, PanelNames DEF OwnerMinds, Panel!Live, PanelTypes
    <3> QED
      BY <2>4, <3>1 DEF LineIsMinded, OwnerMinds
  <2> QED
    BY <1>10, <2>3, <2>4, WroteDoes
<1>11. ASSUME NEW p \in Panel!Procs, Panel!Join(p)
      PROVE  LineIsMinded'
  <2>1. UNCHANGED <<switch, switchEpoch, stale, running, owner, mine, want>>
    BY <1>11 DEF Panel!Join, Panel!agent
  <2>2. CASE Panel!Cached # "none" /\ Panel!Return(p, Panel!Cached, FALSE)
    <3>1. Panel!Cached \in {"failed", "applied"} /\ (Panel!Cached = "applied" => ~stale)
      BY <2>2, PanelNames DEF Panel!Cached
    <3> QED
      BY <1>11, <2>1, <2>2, <3>1, LineAtReturn DEF Panel!Join
  <2>3. CASE Panel!Return(p, "queued", FALSE)
    BY <1>11, <2>1, <2>3, LineAtReturn DEF Panel!Join
  <2>4. CASE where' = [where EXCEPT ![p] = "build"] /\ UNCHANGED <<notice, status>>
    <3>1. SwitchPending => SwitchPending'
      BY <1>11, <2>1, <2>4 DEF Panel!Join, SwitchPending, Newest, PanelTypes
    <3> QED
      BY <2>1, <2>4, <3>1, LineGoesOn
  <2> QED
    BY <1>11, <2>2, <2>3, <2>4, PanelNames DEF Panel!Join, Panel!Go
<1>12. ASSUME NEW p \in Panel!Procs, Panel!Build(p)
      PROVE  LineIsMinded'
  <2>1. UNCHANGED <<switch, switchEpoch, notice, running, owner, mine, status>>
    BY <1>12 DEF Panel!Build, Panel!agent, Panel!control
  <2>2. CASE where[p] = "build" /\ where' = [where EXCEPT ![p] = "built"]
    <3>1. SwitchPending => SwitchPending'
      BY <2>1, <2>2 DEF SwitchPending, Newest, PanelTypes
    <3> QED
      BY <2>1, <2>2, <3>1, LineGoesOn
  <2>3. CASE where[p] = "apply" /\ where' = [where EXCEPT ![p] = "applied"]
    <3>1. ~Newest(p)
      BY <2>3 DEF Newest
    <3> QED
      BY <2>1, <2>3, <3>1, LineGoesOn
  <2> QED
    BY <1>12, <2>2, <2>3 DEF Panel!Build, Panel!Go
<1>13. ASSUME NEW p \in Panel!Procs, Panel!Built(p)
      PROVE  LineIsMinded'
  <2>1. UNCHANGED <<switch, switchEpoch, stale, running, owner, mine, want>>
    BY <1>13 DEF Panel!Built, Panel!agent, Panel!task
  <2>2. PICK outcome \in {"failed", "queued", "applied"} :
          Panel!Return(p, outcome, out[p] = "ok") /\ (outcome = "applied" => ~stale)
    BY <1>13 DEF Panel!Built
  <2> QED
    BY <1>13, <2>1, <2>2, LineAtReturn DEF Panel!Built
<1>14. ASSUME Panel!RunStarts
      PROVE  LineIsMinded'
  BY <1>14 DEF Panel!RunStarts, LineIsMinded
<1>15. ASSUME Panel!RunEnters
      PROVE  LineIsMinded'
  <2>1. UNCHANGED <<where, mine, switch, switchEpoch, owner, notice, running, status>>
    BY <1>15 DEF Panel!RunEnters, Panel!manager, Panel!control, Panel!task
  <2> QED
    BY <2>1, AllMind, LineStays
<1>16. ASSUME Panel!SafePoint
      PROVE  LineIsMinded'
  <2>1. UNCHANGED <<where, mine, switch, switchEpoch, owner, notice, running, status>>
    BY <1>16 DEF Panel!SafePoint, Panel!control, Panel!task
  <2> QED
    BY <2>1, AllMind, LineStays
<1>17. ASSUME Panel!News
      PROVE  LineIsMinded'
  <2>1. UNCHANGED <<where, mine, switch, switchEpoch, owner, running>>
    BY <1>17 DEF Panel!News, Panel!control, Panel!task
  <2>2. CASE status' = Panel!Shown
    BY <2>1, <2>2, LineShown
  <2>3. CASE status' = status /\ notice' = notice
    BY <2>1, <2>3, AllMind, LineStays
  <2> QED
    BY <1>17, <2>2, <2>3 DEF Panel!News
<1>18. ASSUME Panel!Resumed
      PROVE  LineIsMinded'
  BY <1>18 DEF Panel!Resumed, LineIsMinded
<1>19. ASSUME NEW how \in {"idle", "approval"}, Panel!RunStops(how)
      PROVE  LineIsMinded'
  BY <1>19, LineHarmless DEF Panel!RunStops, Harmless
<1>20. ASSUME UNCHANGED Panel!vars
      PROVE  LineIsMinded'
  <2>1. UNCHANGED <<where, mine, switch, switchEpoch, owner, notice, running, status>>
    BY <1>20 DEF Panel!vars, Panel!manager, Panel!agent, Panel!control, Panel!task
  <2> QED
    BY <2>1, AllMind, LineStays
<1> QED
  BY <1>1, <1>2, <1>3, <1>4, <1>5, <1>6, <1>7, <1>8, <1>9, <1>10, <1>11, <1>12, <1>13, <1>14,
     <1>15, <1>16, <1>17, <1>18, <1>19, <1>20 DEF Panel!Next


\* Each step keeps the invariant of the panel.
LEMMA PanelStepKeeps ==
  ASSUME PanelInv, Panel!Next PROVE PanelInv'
<1>1. PanelTypes' /\ RunsShown' /\ OneWrites' /\ WantsTrue' /\ Panel!BusyIsAlive'
  BY PanelTyped, PanelRuns, PanelWrites, PanelWants, PanelBusy DEF PanelInv
<1>2. BuildsAtEnd' /\ FailureSeen' /\ BuildComes'
  BY PanelBuilds, PanelTried, PanelComes DEF PanelInv
<1>3. LineIsMinded'
  BY PanelLine DEF PanelInv
<1> QED
  BY <1>1, <1>2, <1>3 DEF PanelInv

-----------------------------------------------------------------------------
(* The three together. *)

RuntimeInv == IInv /\ ConfigInv /\ PanelInv

\* A step of one of them leaves the others as they are.
LEMMA ConfigIdle ==
  ASSUME ConfigInv, UNCHANGED configVars
  PROVE  ConfigInv' /\ (SavedInv => SavedInv')
<1>1. UNCHANGED <<offered, row, session, config, pending, built, note, at>>
  BY DEF configVars
<1>2. InForce'
  BY <1>1, SettingsKept DEF ConfigInv
<1>3. SavedInv => SavedInv'
  BY <1>1 DEF SavedInv, RowInForce, NoteFits
<1> QED
  BY <1>1, <1>2, <1>3 DEF ConfigInv, ConfigTypes

\* A step of catalog or settings leaves the panel alone.
LEMMA PanelIdle == ASSUME PanelInv, UNCHANGED panelVars PROVE PanelInv'
<1>1. UNCHANGED <<switch, switchEpoch, stale, notice, running, run, runs, busy, owner, where, mine,
                  quiet, want, out, switchLock, cached, status>>
  BY DEF panelVars
<1>2. PanelTypes' /\ RunsShown' /\ OneWrites' /\ WantsTrue' /\ Panel!BusyIsAlive'
  BY <1>1 DEF PanelInv, PanelTypes, RunsShown, OneWrites, WantsTrue, Newest, Panel!BusyIsAlive,
     Panel!Live
<1>3. BuildsAtEnd' /\ FailureSeen' /\ BuildComes'
  BY <1>1 DEF PanelInv, BuildsAtEnd, FailureSeen, BuildComes, Tried
<1>4. LineIsMinded'
  BY <1>1 DEF PanelInv, LineIsMinded, SwitchPending, Newest, Panel!Live
<1> QED
  BY <1>2, <1>3, <1>4 DEF PanelInv

\* All of it holds at first, and every step of the composition keeps it.
LEMMA RuntimeStart == MCInit => RuntimeInv /\ SavedInv
  BY InitHolds, ConfigInitHolds, PanelInitHolds DEF MCInit, RuntimeInv

\* Every step of the composition keeps the invariants of its parts.
LEMMA RuntimeStep ==
  ASSUME RuntimeInv, [MCNext]_<<part, vars, configVars, panelVars>>
  PROVE  RuntimeInv' /\ (SavedInv /\ OnlyBuildsFail => SavedInv')
<1>1. /\ Next \/ UNCHANGED vars
      /\ Config!Next \/ UNCHANGED configVars
      /\ Panel!Next \/ UNCHANGED panelVars
  BY DEF MCNext, CatalogStep, ConfigStep, PanelStep
<1>2. IInv'
  BY <1>1, StepKeeps DEF RuntimeInv
<1>3. ConfigInv' /\ (SavedInv /\ OnlyBuildsFail => SavedInv')
  BY <1>1, ConfigStepKeeps, ConfigIdle DEF RuntimeInv
<1>4. PanelInv'
  BY <1>1, PanelStepKeeps, PanelIdle DEF RuntimeInv
<1> QED
  BY <1>2, <1>3, <1>4 DEF RuntimeInv

\* The invariants of catalog, settings and panel hold in every behaviour of the
\* composition.
THEOREM RuntimeInvariance == MCSpec => []RuntimeInv
<1>1. RuntimeInv /\ [MCNext]_<<part, vars, configVars, panelVars>> => RuntimeInv'
  BY RuntimeStep
<1> QED
  BY <1>1, RuntimeStart, PTL DEF MCSpec

\* The graph that answers is the one the settings shown describe, and no model is
\* called with an effort it does not have, whichever step of a change, a switch or a
\* rollback fails, and whatever models a restart finds gone.
THEOREM SettingsAreInForce ==
  MCSpec => [](Config!GraphMatchesConfig /\ Config!EffortSupported)
<1>1. RuntimeInv => Config!GraphMatchesConfig /\ Config!EffortSupported
  BY DEF RuntimeInv, ConfigInv, InForce
<1> QED
  BY <1>1, RuntimeInvariance, PTL

\* What is stored goes along when nothing but a rebuild or the write of the settings fails.
LEMMA SavedInvariance ==
  ASSUME OnlyBuildsFail
  PROVE  MCSpec => [](RuntimeInv /\ SavedInv)
<1>1. RuntimeInv /\ SavedInv /\ [MCNext]_<<part, vars, configVars, panelVars>>
      => (RuntimeInv /\ SavedInv)'
  BY RuntimeStep
<1> QED
  BY <1>1, RuntimeStart, PTL DEF MCSpec

\* Graph, settings, row and the note on an abnormal end agree between runs (runner.py,
\* session.py), when rebuilds and writes of the settings may fail, but for an end that a
\* compaction takes off the row and the window still knows.  With a write of the
\* pending record or a rollback that fails the code leaves them apart.
THEOREM ConfigurationAgrees ==
  ASSUME OnlyBuildsFail
  PROVE  MCSpec => []ConfigConsistent
<1>1. RuntimeInv /\ SavedInv => ConfigConsistent
  <2> SUFFICES ASSUME RuntimeInv, SavedInv PROVE Config!ConfigConsistent
    BY DEF ConfigConsistent
  <2>1. ConfigTypes
    BY DEF RuntimeInv, ConfigInv
  <2>2. Config!RowMatchesConfig
    BY <2>1, PersistedIsRow DEF SavedInv, RowInForce, Config!RowMatchesConfig
  <2>3. Config!NoteMatchesCatalog
    BY <2>1, PersistedIsRow DEF SavedInv, NoteFits, Config!NoteMatchesCatalog,
       Config!Forgotten
  <2> QED
    BY <2>2, <2>3 DEF RuntimeInv, ConfigInv, InForce, Config!ConfigConsistent
<1> QED
  BY <1>1, SavedInvariance, PTL

\* While an approval or a pause waits no step but a switch to another session changes the
\* graph: requested changes wait for the run that is resumed.
LEMMA WaitingKeepsGraph ==
  ASSUME ConfigInv, SavedInv, OnlyBuildsFail, Config!Next, at = "idle",
         Config!Interrupt \in {"approval", "pause"}, session' = session
  PROVE  built' = built
<1>1. session \in Sessions /\ row[session].interrupt \in {"approval", "pause"}
  BY PersistedIsRow DEF ConfigInv
<1>2. ASSUME Config!Invoke PROVE built' = built
  BY <1>2 DEF Config!Invoke
<1>3. ASSUME NEW s \in Sessions, Config!Switch(s) PROVE built' = built
  <2>1. s = session
    BY <1>3 DEF Config!Switch
  <2>2. row[s].config = config /\ config \in Config!Config /\ built = config
        /\ Config!Known(config.model, config.effort) /\ config.model \in offered
    BY <2>1 DEF ConfigInv, ConfigTypes, InForce, Config!GraphMatchesConfig,
       Config!EffortSupported, SavedInv, RowInForce
  <2>3. Config!Plan(config) = config
    BY <2>2, PlanIsOffered DEF ConfigInv
  <2> QED
    BY <1>3, <2>2, <2>3 DEF Config!Switch, Config!PlanRebuilds
<1>4. ASSUME NEW s \in Sessions, Config!SwitchFails(s) PROVE built' = built
  BY <1>4 DEF Config!SwitchFails, OnlyBuildsFail, ConfigInv, InForce, Config!GraphMatchesConfig
<1>5. ASSUME Config!NewSession \/ Config!Restart PROVE FALSE
  BY <1>1, <1>5, ConfigNames DEF Config!NewSession, Config!Restart
<1>6. ASSUME Config!ApplyIfIdle \/ Config!CrossBoundary PROVE FALSE
  BY <1>6 DEF Config!ApplyIfIdle, Config!CrossBoundary, Config!MayApply
<1>7. ASSUME \/ \E m \in Models, e \in Config!AllEfforts \cup {None} : Config!RequestModel(m, e)
             \/ \E mode \in Config!Modes : Config!RequestPermission(mode)
             \/ Config!RequestPause \/ Config!ToolsetChanges \/ Config!Resume
             \/ Config!Compact
      PROVE  built' = built
  BY <1>7 DEF Config!RequestModel, Config!RequestPermission, Config!RequestPause,
     Config!ToolsetChanges, Config!Resume, Config!Compact
<1>8. ASSUME \/ Config!Begin \/ Config!Pauses \/ Config!ReachBoundary \/ Config!ModelCall
             \/ \E how \in {"stop", "error", "aborted"} : Config!EndRun(how, "none")
             \/ Config!EndRun("deferred", "approval")
      PROVE  FALSE
  BY <1>8 DEF Config!Begin, Config!Pauses, Config!ReachBoundary, Config!ModelCall, Config!EndRun
<1> QED
  BY <1>2, <1>3, <1>4, <1>5, <1>6, <1>7, <1>8 DEF Config!Next

\* An approval or a pause is answered by the graph that asked: no change of a setting and
\* no new toolset is applied while it waits (runner.py, _apply_runtime_config).
THEOREM InterruptedGraphStays ==
  ASSUME OnlyBuildsFail
  PROVE  MCSpec => InterruptKeepsGraph
<1> DEFINE Stays == at = "idle" /\ Config!Interrupt \in {"approval", "pause"} /\ session' = session
                    => built' = built
<1>1. RuntimeInv /\ SavedInv /\ [MCNext]_<<part, vars, configVars, panelVars>>
      => [Stays]_(Config!vars)
  <2> SUFFICES ASSUME RuntimeInv, SavedInv, [MCNext]_<<part, vars, configVars, panelVars>>,
                      ~ UNCHANGED Config!vars
               PROVE  Stays
    OBVIOUS
  <2>1. Config!Next \/ UNCHANGED configVars
    BY DEF MCNext, CatalogStep, ConfigStep, PanelStep
  <2>2. ~ UNCHANGED configVars
    BY DEF configVars, Config!vars
  <2> QED
    BY <2>1, <2>2, WaitingKeepsGraph DEF RuntimeInv
<1> QED
  BY <1>1, SavedInvariance, PTL DEF MCSpec, InterruptKeepsGraph, Config!InterruptKeepsGraph

\* The panel shows a busy operation while its newest one is at work, no status that
\* contradicts the switch once all is quiet, and no toolset stays out of the graph that
\* nobody tried to build (mcp_ui.py, mcp_controller.py).
THEOREM PanelTellsTheTruth == MCSpec => []PanelIsTrue
<1>1. RuntimeInv => PanelIsTrue
  BY PanelShows DEF RuntimeInv, PanelIsTrue, Panel!PanelIsTrue
<1> QED
  BY <1>1, RuntimeInvariance, PTL
=============================================================================
