---------------------------- MODULE MCMissionCenter ----------------------------
(***************************************************************************)
(* One instance in which every component without a configuration of its    *)
(* own is checked: one of them runs, the others are idle.  The operations  *)
(* on the workspace share the writer lock, the receipts and the faults of  *)
(* LockedOperation.tla, the other components share nothing.  Each property *)
(* is one about the promises of a kind that the components make.           *)
(***************************************************************************)
EXTENDS ExternalOperations, PulseLedger, RetryGate, Sync, Closeout, ProjectMap,
        Scaffold, NormalizeTasks, RuntimeReducer, HudServers, HudTasks, Evidence,
        Reconciler, ResumePacket, ExperimentFront, ExperimentRoute, WorkingSet

VARIABLE part   \* the component that runs

\* Two kinds of configurations of the HUD: nothing is fixed, or a port and a nonce.
HudConfigs ==
    [workspace : Workspaces, nonce : {NoNonce}, port : {AnyPort}]
      \cup [workspace : Workspaces, nonce : Nonces, port : Ports]

opFileVars == <<extVars, pulseVars, snapshotVars, syncVars, closeoutVars, mapVars, scaffold, document>>
hudVars == <<reducerVars, hudServerVars, hudTaskVars>>
cliVars == <<evidenceVars, reconcilerVars, resumeVars, experimentVars, profile, workingVars>>
allVars == <<opVars, opFileVars, hudVars, cliVars, part>>

-------------------------------------------------------------------------------
(* Every component but p is idle. *)
Idle(p) ==
    /\ p # "external" => ExternalEmpty
    /\ p # "pulse" => PulseEmpty
    /\ p # "gate" => SnapshotEmpty
    /\ p # "sync" => SyncEmpty /\ views = [v \in Views |-> MissingView]
    /\ p # "closeout" => CloseoutEmpty
    /\ p # "map" => MapEmpty
    /\ p # "init" => ScaffoldEmpty
    /\ p # "normalize" => NormalizeEmpty
    /\ p # "reducer" => ReducerEmpty
    /\ p # "servers" => HudServersEmpty
    /\ p # "view" => HudTasksEmpty
    /\ p # "evidence" => EvidenceEmpty
    /\ p # "reconcile" => ReconcilerEmpty
    /\ p # "resume" => ResumeEmpty
    /\ p # "experiment" => ExperimentEmpty
    /\ p # "route" => RouteEmpty
    /\ p # "working" => WorkingEmpty

InitOf(p) ==
    CASE p = "external" -> ExternalInit
      [] p = "pulse" -> PulseInit
      [] p = "gate" -> SnapshotInit
      [] p = "sync" -> SyncInit
      [] p = "closeout" -> CloseoutInit
      [] p = "map" -> MapInit
      [] p = "init" -> ScaffoldInit
      [] p = "normalize" -> NormalizeInit
      [] p = "reducer" -> ReducerInit /\ OpInit({})
      [] p = "servers" -> HudServersInit /\ OpInit({})
      [] p = "view" -> HudTasksInit /\ OpInit({})
      [] p = "evidence" -> EvidenceInit /\ OpInit({})
      [] p = "reconcile" -> ReconcilerInit /\ OpInit({})
      [] p = "resume" -> ResumeInit /\ OpInit({})
      [] p = "experiment" -> ExperimentInit /\ OpInit({})
      [] p = "route" -> RouteInit /\ OpInit({})
      [] p = "working" -> WorkingInit /\ OpInit({})

Parts == {"external", "pulse", "gate", "sync", "closeout", "map", "init", "normalize",
          "reducer", "servers", "view", "evidence", "reconcile", "resume", "experiment",
          "route", "working"}

Init == \E p \in Parts : part = p /\ InitOf(p) /\ Idle(p)

-------------------------------------------------------------------------------
Frame(p) ==
    /\ p # "external" => UNCHANGED extVars
    /\ p # "pulse" => UNCHANGED pulseVars
    /\ p # "gate" => UNCHANGED snapshotVars
    /\ p # "sync" => UNCHANGED syncVars
    /\ p # "closeout" => UNCHANGED closeoutVars
    /\ p # "map" => UNCHANGED mapVars
    /\ p # "init" => UNCHANGED scaffold
    /\ p # "normalize" => UNCHANGED document
    /\ p # "reducer" => UNCHANGED reducerVars
    /\ p # "servers" => UNCHANGED hudServerVars
    /\ p # "view" => UNCHANGED hudTaskVars
    /\ p # "evidence" => UNCHANGED evidenceVars
    /\ p # "reconcile" => UNCHANGED reconcilerVars
    /\ p # "resume" => UNCHANGED resumeVars
    /\ p # "experiment" => UNCHANGED experimentVars
    /\ p # "route" => UNCHANGED profile
    /\ p # "working" => UNCHANGED workingVars
    /\ UNCHANGED part

Runs(p) == part = p /\ Frame(p)

\* The operations under the writer lock.
OperationNext ==
    \/ Runs("external") /\ ExternalNext
    \/ Runs("pulse") /\ PulseNext
    \/ Runs("gate") /\ SnapshotNext
    \/ Runs("sync") /\ SyncNext
    \/ Runs("closeout") /\ CloseoutNext
    \/ Runs("map") /\ MapNext
    \/ Runs("init") /\ ScaffoldNext
    \/ Runs("normalize") /\ NormalizeNext

\* The HUD and the commands that only read.
ReaderNext ==
    /\ \/ Runs("reducer") /\ ReducerNext
       \/ Runs("servers") /\ HudServersNext
       \/ Runs("view") /\ HudTasksNext
       \/ Runs("evidence") /\ EvidenceNext
       \/ Runs("reconcile") /\ ReconcilerNext
       \/ Runs("resume") /\ ResumeNext
       \/ Runs("experiment") /\ ExperimentNext
       \/ Runs("route") /\ RouteNext
       \/ Runs("working") /\ WorkingNext
    /\ UNCHANGED opVars

Next == OperationNext \/ ReaderNext

Spec == Init /\ [][Next]_allVars

-------------------------------------------------------------------------------
\* The state of the component that runs has the types that its module declares.
TypeOK ==
    /\ part \in Parts
    /\ part = "external" => ExternalTypeOK
    /\ part = "pulse" => PulseTypeOK
    /\ part = "gate" => SnapshotTypeOK
    /\ part = "sync" => SyncTypeOK
    /\ part = "closeout" => CloseoutTypeOK
    /\ part = "map" => MapTypeOK
    /\ part = "init" => ScaffoldTypeOK
    /\ part = "normalize" => NormalizeTypeOK
    /\ part = "reducer" => ReducerTypeOK
    /\ part = "servers" => HudServersTypeOK
    /\ part = "view" => HudTasksTypeOK
    /\ part = "evidence" => EvidenceTypeOK
    /\ part = "reconcile" => ReconcilerTypeOK
    /\ part = "resume" => ResumeTypeOK
    /\ part = "experiment" => ExperimentTypeOK
    /\ part = "route" => RouteTypeOK
    /\ part = "working" => WorkingTypeOK

\* What a caller was told stays true, whatever fails later and whoever retries:
\* an external result counts, a pulse is on the ledger, and the archive of a
\* closeout stays as it is.
ToldStands == /\ part = "external" => ToldIsFinal
              /\ part = "pulse" => ToldOnLedger
              /\ part = "closeout" => ToldArchived

\* sync, closeout, project-map and init: an operation that fails leaves the files
\* it found, unless its rollback was disturbed as well.
Restored == /\ part = "sync" => SyncRestored
            /\ part = "closeout" => CloseoutRestored
            /\ part = "map" => MapRestored
            /\ part = "init" => InitRestored

\* What operations write can be used: the ledger is readable and tells true
\* handoffs, no entry of the daily log is lost, and a project map that is
\* reported as written shows sources that were current.
FilesTrue == /\ part = "pulse" => LedgerReadable /\ HandoffTrue
             /\ part = "sync" => EntriesKept
             /\ part = "map" => MapIsCurrent

\* Runtime events are applied once and the newest is shown; servers of the HUD
\* that listen are accounted for and hand over their ports.
HudTrue == /\ part = "reducer" => AppliedOnce /\ NewestShown
           /\ part = "servers" => ListenersAccounted /\ PortHandedOver

\* The verdicts of inspect-evidence, commitments and reconcile are about one
\* state of the files, and agree with what was written.
VerdictsTrue == /\ part = "evidence" => PassSatisfies /\ SatisfiedByOneState
                /\ part = "reconcile" => WrittenPasses

\* What an agent is shown to go on with, the headline of the HUD, the working
\* set, and the packet of resume, hides nothing that comes first.
OverviewsTrue == /\ part = "view" => HeadlineTrue
                 /\ part = "working" => WorkingSetFair
                 /\ part = "resume" => PacketHonest

\* Experiments keep to their budget, lose no good candidate, and are advised
\* only where they can be measured.
AdviceSound == /\ part = "experiment" => BudgetKept /\ FrontCovers
               /\ part = "route" => RouteJustified

\* No step of an operation gives up a result that counts or a verification
\* that is due, and a normalised tasks.md holds the same tasks.
StepsSound ==
    [][/\ part = "external" => ErrorBringsNothing /\ ResultsKept
       /\ part = "gate" => VerificationKept
       /\ part = "normalize" => RewritesSameTasks]_allVars
===============================================================================
