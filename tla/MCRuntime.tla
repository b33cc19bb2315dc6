------------------------------ MODULE MCRuntime ------------------------------
(* What a graph is built from and when, for TLC: the connections of          *)
(* McpCatalog, the model, permission and session of RunnerConfig, and the    *)
(* commands of McpPanel.  Each sees of the others only a rebuild or a        *)
(* revision, so a behaviour is one of the three.                             *)
EXTENDS McpCatalog, TLC

CONSTANTS Models, Active, Efforts, Sessions, Failing, Budget, None, Draft,
          Ops, Cmds, PanelBudget

VARIABLES part,
          offered, row, session, config, pending, built, toolset, paused, note, at, budget,
          switch, switchEpoch, stale, rev, notice, running, run, runs, news, busy, owner,
          where, mine, quiet, want, seen, out, switchLock, publishLock, cached, status

Config == INSTANCE RunnerConfig WITH graph <- built
Panel == INSTANCE McpPanel WITH enabled <- switch, epoch <- switchEpoch, dirty <- stale,
                                at <- where, Budget <- PanelBudget

\* Only the second model has another effort.
EffortsOf == [m \in {"m1", "m2"} |-> IF m = "m2" THEN {"high"} ELSE {}]

ASSUME ConfigConstants ==
  /\ Config!ActiveAssumption /\ Config!NothingAssumption
  /\ Config!DraftAssumption /\ Config!FailingAssumption
ASSUME PanelConstants == Panel!ProcAssumption

configVars == <<offered, row, session, config, pending, built, toolset, paused, note, at, budget>>
panelVars == <<switch, switchEpoch, stale, rev, notice, running, run, runs, news, busy, owner,
               where, mine, quiet, want, seen, out, switchLock, publishLock, cached, status>>

MCInit ==
  /\ part \in {"catalog", "config", "panel"} /\ Init /\ Config!Init /\ Panel!Init
  /\ part # "catalog" => document.enabled /\ \A n \in Names : document.server[n] = NoEntry
  /\ part # "panel" => switch
CatalogStep == part = "catalog" /\ Next /\ UNCHANGED <<part, configVars, panelVars>>
ConfigStep == part = "config" /\ Config!Next /\ UNCHANGED <<part, vars, panelVars>>
PanelStep == part = "panel" /\ Panel!Next /\ UNCHANGED <<part, vars, configVars>>
MCNext == CatalogStep \/ ConfigStep \/ PanelStep
MCSpec == MCInit /\ [][MCNext]_<<part, vars, configVars, panelVars>>

\* Connections are interchangeable.
Symmetry == Permutations(Clients)

\* The properties of the other two, under their names there.
ConfigConsistent == part = "config" => Config!ConfigConsistent
InterruptKeepsGraph == Config!InterruptKeepsGraph
PanelIsTrue == part = "panel" => Panel!PanelIsTrue
=============================================================================
