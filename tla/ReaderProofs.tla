------------------------------ MODULE ReaderProofs -----------------------------
(***************************************************************************)
(* Proofs about what users and agents are shown, for any number of rows,   *)
(* agents, events, servers, threads, envelopes, edits and observations:    *)
(* the view of the tasks is the last that was read (HudTasks.tla), events  *)
(* are applied once and the newest is shown (RuntimeReducer.tla), every    *)
(* server that listens is accounted for (HudServers.tla), the verdicts on  *)
(* evidence and on derived files are true (Evidence.tla, Reconciler.tla),  *)
(* the packet of resume hides nothing (ResumePacket.tla), the working set  *)
(* leaves out nothing that comes first (WorkingSet.tla), and experiments   *)
(* keep their budget and their front (ExperimentFront.tla,                 *)
(* ExperimentRoute.tla).  The last part takes these to                     *)
(* MCMissionCenter.tla, where the components stand next to the others, and *)
(* with OperationsProofs.tla to the types of all of them.                  *)
(***************************************************************************)
EXTENDS OperationsProofs

-------------------------------------------------------------------------------
(* HudTasks.tla *)

\* Between two refreshes the thread and the server have what was last read; in
\* between the thread has it in hand.
ViewInv ==
    /\ tasksFile \in HudTable \cup {Unreadable}
    /\ lastRead \in {TaskSnapshot(t) : t \in HudTable} \cup {NoView}
    /\ thread = "publish" =>
          \/ readable /\ lastRead # NoView /\ payload = lastRead
          \/ ~readable /\ lastValid = lastRead /\ payload = Outdated(lastRead)
    /\ thread # "publish" =>
          /\ payload = NoView
          /\ lastValid = lastRead
          /\ \/ readable /\ lastRead # NoView /\ shown = lastRead
             \/ shown = Outdated(lastRead)

\* A share of a hundred, rounded, is at most a hundred.
LEMMA RoundedShare ==
    ASSUME NEW m \in Nat \ {0}, NEW c \in 0 .. m
    PROVE  (c * 100 + m \div 2) \div m \in 0 .. 100
<1>1. m \div 2 \in Nat /\ m \div 2 < m
  OBVIOUS
<1>. DEFINE a == c * 100 + m \div 2
            q == a \div m
<1>2. a \in Nat /\ a < 101 * m
  BY <1>1
<1>. HIDE DEF a
<1>3. q \in Nat /\ q * m <= a
  BY <1>2
<1>. HIDE DEF q
<1>4. ~(q >= 101)
  <2>. SUFFICES ASSUME q >= 101  PROVE FALSE
    OBVIOUS
  <2>1. PICK d \in Nat : q = 101 + d
    BY <1>3
  <2>2. q * m = 101 * m + d * m /\ d * m \in Nat
    BY <2>1
  <2>. QED  BY <1>2, <1>3, <2>2
<1>. QED  BY <1>3, <1>4 DEF a, q

\* What the thread makes of a table is a payload that the server accepts.
LEMMA SnapshotIsPayload ==
    ASSUME NEW t \in HudTable
    PROVE  /\ TaskSnapshot(t) \in Payload
           /\ TaskSnapshot(t).freshness = "VALID"
           /\ Acceptable(TaskSnapshot(t))
<1>1. MaxHudRow \in Nat
  BY HudTasksAssumption
<1>2. IsFiniteSet(HudRows) /\ Cardinality(HudRows) = MaxHudRow
  BY <1>1, FS_Interval DEF HudRows
<1>3. \A S \in SUBSET HudRows : Cardinality(S) \in 0 .. MaxHudRow
  <2>. SUFFICES ASSUME NEW S \in SUBSET HudRows  PROVE  Cardinality(S) \in 0 .. MaxHudRow
    OBVIOUS
  <2>1. IsFiniteSet(S) /\ Cardinality(S) <= MaxHudRow
    BY <1>2, FS_Subset
  <2>. QED  BY <1>1, <2>1, FS_CardinalityType
<1>. DEFINE helpers == Selected(t) \ LongIds
<1>4. /\ helpers \in SUBSET HudRows
      /\ With(t, "Done") \in SUBSET HudRows
      /\ With(t, "Blocked") \ LongIds \in SUBSET HudRows
      /\ Leaves(t) \in SUBSET HudRows
      /\ Leaves(t) \cap With(t, "Done") \in SUBSET HudRows
  BY DEF Selected, FirstRows, LastRows, Open, With, Leaves
<1>5. Progress(t) \in 0 .. 100
  <2>1. CASE HudRows = {}
    BY <2>1 DEF Progress
  <2>2. CASE HudRows # {}
    <3>1. MaxHudRow \in Nat \ {0}
      BY <1>1, <2>2 DEF HudRows
    <3>. QED  BY <1>3, <1>4, <2>2, <3>1, RoundedShare DEF Progress
  <2>. QED  BY <2>1, <2>2
<1>6. Headline(t) \in Headlines
  BY DEF Headline, Headlines
<1>. DEFINE s == TaskSnapshot(t)
<1>7. s = [status |-> Headline(t), progress |-> Progress(t), helpers |-> helpers,
           blocked |-> With(t, "Blocked") \ LongIds,
           visible |-> Cardinality(helpers), total |-> MaxHudRow,
           hidden |-> MaxHudRow - Cardinality(helpers),
           leaves |-> Cardinality(Leaves(t)),
           leafDone |-> Cardinality(Leaves(t) \cap With(t, "Done")),
           freshness |-> "VALID"]
  BY DEF TaskSnapshot
<1>8. /\ Cardinality(helpers) \in 0 .. MaxHudRow
      /\ Cardinality(Leaves(t)) \in 0 .. MaxHudRow
      /\ Cardinality(Leaves(t) \cap With(t, "Done")) \in 0 .. MaxHudRow
  BY <1>3, <1>4
<1>. HIDE DEF helpers, s
<1>9. MaxHudRow \in 0 .. MaxHudRow /\ MaxHudRow - Cardinality(helpers) \in 0 .. MaxHudRow
  BY <1>1, <1>8
<1>10. s \in Payload
  BY <1>4, <1>5, <1>6, <1>7, <1>8, <1>9 DEF Payload, Freshness
<1>11. s.freshness = "VALID" /\ Acceptable(s)
  BY <1>5, <1>7, <1>8, <1>9, <1>1 DEF Acceptable
<1>. QED  BY <1>10, <1>11 DEF s

\* So is what is shown while tasks.md cannot be read.
LEMMA OutdatedIsPayload ==
    ASSUME NEW v \in {TaskSnapshot(t) : t \in HudTable} \cup {NoView}
    PROVE  /\ Outdated(v) \in Payload /\ Acceptable(Outdated(v))
           /\ v = NoView => Outdated(v).freshness = "UNAVAILABLE"
           /\ v # NoView => /\ Outdated(v).freshness = "STALE"
                            /\ Outdated(v) = [v EXCEPT !.freshness = "STALE"]
<1>1. CASE v = NoView
  <2>1. MaxHudRow \in Nat
    BY HudTasksAssumption
  <2>. QED
    BY <1>1, <2>1 DEF Outdated, Unavailable, Payload, Acceptable, Headlines, Freshness
<1>2. CASE v # NoView
  <2>1. v \in Payload /\ Acceptable(v)
    BY <1>2, SnapshotIsPayload
  <2>2. Outdated(v) = [v EXCEPT !.freshness = "STALE"]
    BY <1>2 DEF Outdated
  <2>. QED  BY <1>2, <2>1, <2>2 DEF Payload, Acceptable, Freshness
<1>. QED  BY <1>1, <1>2

\* Every step of the thread, the server and the agents keeps the invariant.
LEMMA ViewKept == ViewInv /\ [HudTasksNext]_hudTaskVars => ViewInv'
<1>. SUFFICES ASSUME ViewInv, [HudTasksNext]_hudTaskVars
              PROVE  ViewInv'
  OBVIOUS
<1>. USE DEF ViewInv
<1>1. CASE Refresh
  <2>1. CASE tasksFile = Unreadable
    BY <1>1, <2>1 DEF Refresh
  <2>2. CASE tasksFile # Unreadable
    <3>1. TaskSnapshot(tasksFile) \in Payload
      BY <2>2, SnapshotIsPayload
    <3>. QED  BY <1>1, <2>2, <3>1, NoViewAssumption DEF Refresh
  <2>. QED  BY <2>1, <2>2
<1>2. CASE Publish
  <2>1. CASE readable /\ lastRead # NoView /\ payload = lastRead
    <3>1. Acceptable(payload) /\ payload.freshness = "VALID"
      BY <2>1, SnapshotIsPayload
    <3>. QED  BY <1>2, <2>1, <3>1 DEF Publish
  <2>2. CASE ~readable /\ lastValid = lastRead /\ payload = Outdated(lastRead)
    <3>1. Acceptable(payload) /\ payload.freshness # "VALID"
      BY <2>2, OutdatedIsPayload
    <3>. QED  BY <1>2, <2>2, <3>1 DEF Publish
  <2>. QED  BY <1>2, <2>1, <2>2 DEF Publish
<1>3. CASE ThreadStops \/ ServerStops \/ UNCHANGED hudTaskVars
  BY <1>3 DEF ThreadStops, ServerStops, hudTaskVars
<1>4. ASSUME NEW t \in HudTable \cup {Unreadable}, WriteTable(t)
      PROVE  ViewInv'
  BY <1>4 DEF WriteTable
<1>. QED  BY <1>1, <1>2, <1>3, <1>4 DEF HudTasksNext

\* The thread starts with nothing read and nothing shown.
LEMMA ViewInitial == HudTasksInit => ViewInv
BY DEF HudTasksInit, HudTasksIdle, ViewInv, Outdated

\* The invariant says that what is shown is what was last read.
LEMMA ViewInvShows == ViewInv => ViewIsLastRead
<1>. SUFFICES ASSUME ViewInv  PROVE  ViewIsLastRead
  OBVIOUS
<1>. USE DEF ViewInv
<1>1. payload # NoView => Acceptable(payload)
  BY SnapshotIsPayload, OutdatedIsPayload
<1>2. ASSUME thread # "publish", readable, lastRead # NoView, shown = lastRead
      PROVE  shown.freshness = "VALID"
  BY <1>2, SnapshotIsPayload
<1>3. ASSUME thread # "publish", shown = Outdated(lastRead), lastRead # NoView
      PROVE  shown.freshness = "STALE" /\ shown = [lastRead EXCEPT !.freshness = "STALE"]
  BY <1>3, OutdatedIsPayload
<1>4. ASSUME thread # "publish", shown = Outdated(lastRead), lastRead = NoView
      PROVE  shown.freshness = "UNAVAILABLE"
  BY <1>4, OutdatedIsPayload
<1>. QED  BY <1>1, <1>2, <1>3, <1>4 DEF ViewIsLastRead

\* The headline of a table speaks of all of its rows.
LEMMA HeadlineOfAllRows == HeadlineTrue
<1>. DEFINE t == tasksFile
<1>1. TaskSnapshot(t).status = Headline(t)
  BY DEF TaskSnapshot
<1>2. Open(t) = {} => With(t, "Blocked") = {}
  <2>. SUFFICES ASSUME NEW i \in With(t, "Blocked")  PROVE  i \in Open(t)
    OBVIOUS
  <2>. QED  BY DEF Open, With
<1>3. /\ With(t, "Blocked") # {} => Headline(t) = "Blocked"
      /\ With(t, "Blocked") = {} => ((Headline(t) = "Done") <=> (HudRows # {} /\ Open(t) = {}))
  BY DEF Headline
<1>4. /\ (Headline(t) = "Done") <=> (HudRows # {} /\ Open(t) = {})
      /\ With(t, "Blocked") # {} => Headline(t) = "Blocked"
  BY <1>2, <1>3
<1>. QED  BY <1>1, <1>4 DEF HeadlineTrue

\* What the thread and the server have is well formed.
LEMMA ViewTypesKept ==
    ViewInv /\ HudTasksTypeOK /\ [HudTasksNext]_hudTaskVars => HudTasksTypeOK'
<1>. SUFFICES ASSUME ViewInv, HudTasksTypeOK, [HudTasksNext]_hudTaskVars
              PROVE  HudTasksTypeOK'
  OBVIOUS
<1>1. /\ tasksFile' \in HudTable \cup {Unreadable}
      /\ lastRead' \in Payload \cup {NoView}
  <2>1. ViewInv'
    BY ViewKept
  <2>. QED  BY <2>1, SnapshotIsPayload DEF ViewInv
<1>. USE DEF HudTasksTypeOK
<1>2. CASE Refresh
  <2>1. payload' \in Payload
    <3>1. tasksFile = Unreadable => payload' = Outdated(lastValid)
      BY <1>2 DEF Refresh
    <3>2. lastValid = lastRead /\ lastRead \in {TaskSnapshot(t) : t \in HudTable} \cup {NoView}
      BY <1>2 DEF Refresh, ViewInv
    <3>3. tasksFile # Unreadable => payload' \in Payload
      <4>1. tasksFile # Unreadable => tasksFile \in HudTable /\ payload' = TaskSnapshot(tasksFile)
        BY <1>2 DEF Refresh
      <4>. QED  BY <4>1, SnapshotIsPayload
    <3>. QED  BY <3>1, <3>2, <3>3, OutdatedIsPayload
  <2>. QED  BY <1>1, <1>2, <2>1 DEF Refresh
<1>3. CASE Publish
  <2>1. payload \in Payload
    BY <1>3, SnapshotIsPayload, OutdatedIsPayload DEF Publish, ViewInv
  <2>2. shown' \in Payload \cup {NoView} /\ lastValid' \in Payload \cup {NoView}
    BY <1>3, <2>1 DEF Publish
  <2>. QED  BY <1>1, <1>3, <2>2 DEF Publish
<1>4. CASE ThreadStops \/ ServerStops \/ UNCHANGED hudTaskVars
  BY <1>1, <1>4 DEF ThreadStops, ServerStops, hudTaskVars
<1>5. ASSUME NEW t \in HudTable \cup {Unreadable}, WriteTable(t)  PROVE HudTasksTypeOK'
  BY <1>1, <1>5 DEF WriteTable
<1>. QED  BY <1>2, <1>3, <1>4, <1>5 DEF HudTasksNext

\* At first the server shows that nothing was read.
LEMMA ViewTypesInitial == HudTasksInit => HudTasksTypeOK
<1>1. Unavailable \in Payload
  <2>1. MaxHudRow \in Nat
    BY HudTasksAssumption
  <2>. QED  BY <2>1 DEF Unavailable, Payload, Headlines, Freshness
<1>. QED  BY <1>1 DEF HudTasksInit, HudTasksIdle, HudTasksTypeOK

-------------------------------------------------------------------------------
(* RuntimeReducer.tla *)

AgentRecord == [event : Event, aged : {"fresh", "stale", "disconnected"},
                started : Event, recent : Seq(EventIds), last : Nat]

\* Every agent that is known shows the newest of its events that were applied,
\* and every id that is remembered is that of an event that was applied.
ReducerInv ==
    /\ IsFiniteSet(DOMAIN agents) /\ Cardinality(DOMAIN agents) <= MaxAgents
    /\ agents \in [DOMAIN agents -> AgentRecord]
    /\ clock \in Nat
    /\ seen \in Seq(EventIds)
    /\ heard \subseteq Event /\ applied \subseteq heard /\ repeated = {}
    /\ \A a \in DOMAIN agents : agents[a].event \in applied /\ agents[a].event.agent = a
    /\ \A e \in applied : Known(e.agent) /\ agents[e.agent].event.sequence >= e.sequence
    /\ \A i \in 1 .. Len(seen) : \E f \in applied : f.id = seen[i]
    /\ NewestShown

\* A reducer that has heard nothing.
LEMMA ReducerInitial == ReducerInit => ReducerInv
<1>. SUFFICES ASSUME ReducerInit  PROVE  ReducerInv
  OBVIOUS
<1>1. DOMAIN agents = {} /\ MaxAgents \in Nat
  BY ReducerLimits DEF ReducerInit, ReducerEmpty
<1>2. IsFiniteSet(DOMAIN agents) /\ Cardinality(DOMAIN agents) = 0
  BY <1>1, FS_EmptySet
<1>. QED
  BY <1>1, <1>2 DEF ReducerInit, ReducerEmpty, ReducerInv, NewestShown, Known

\* The ids that are remembered are the new one and some of those before.
LEMMA RememberIsSeq ==
    ASSUME NEW ids \in Seq(EventIds), NEW id \in EventIds, NEW n \in Nat
    PROVE  /\ Remember(ids, id, n) \in Seq(EventIds)
           /\ \A i \in 1 .. Len(Remember(ids, id, n)) :
                 \/ Remember(ids, id, n)[i] = id
                 \/ \E j \in 1 .. Len(ids) : Remember(ids, id, n)[i] = ids[j]
<1>. DEFINE all == Append(ids, id)
<1>1. /\ all \in Seq(EventIds) /\ Len(all) = Len(ids) + 1 /\ Len(ids) \in Nat
      /\ \A i \in 1 .. Len(all) : all[i] = IF i <= Len(ids) THEN ids[i] ELSE id
  OBVIOUS
<1>2. /\ Tail(all) \in Seq(EventIds) /\ Len(Tail(all)) = Len(ids)
      /\ \A i \in 1 .. Len(ids) : Tail(all)[i] = all[i + 1]
  <2>. HIDE DEF all
  <2>. QED  BY <1>1
<1>3. Remember(ids, id, n) = IF Len(all) > n THEN Tail(all) ELSE all
  BY DEF Remember
<1>. HIDE DEF all
<1>4. CASE Remember(ids, id, n) = all
  BY <1>1, <1>4
<1>5. CASE Remember(ids, id, n) = Tail(all)
  <2>1. \A i \in 1 .. Len(ids) : i + 1 \in 1 .. Len(all)
    BY <1>1
  <2>2. \A i \in 1 .. Len(ids) : i + 1 <= Len(ids) => i + 1 \in 1 .. Len(ids)
    BY <1>1
  <2>. QED  BY <1>1, <1>2, <1>5, <2>1, <2>2
<1>. QED  BY <1>3, <1>4, <1>5

\* An event that is left out is older than what is shown, or its id was used,
\* or it is of an agent too many.
LEMMA LeaveKept ==
    ASSUME ReducerInv, NEW e \in Event, Leave(e)
    PROVE  ReducerInv'
<1>. USE DEF ReducerInv
<1>1. /\ agents' = agents /\ seen' = seen /\ applied' = applied /\ repeated' = repeated
      /\ clock' = clock /\ heard' = heard \cup {e}
  BY DEF Leave, Receive
<1>2. e.sequence \in Nat /\ \A f \in Event : f.sequence \in Nat
  BY ReducerLimits DEF Event
<1>3. CASE Contains(seen, e.id)
  <2>1. PICK i \in 1 .. Len(seen) : seen[i] = e.id
    BY <1>3 DEF Contains
  <2>2. PICK f \in applied : f.id = e.id
    BY <2>1
  <2>3. \/ Known(e.agent) /\ agents[e.agent].event.sequence >= e.sequence
        \/ \E g \in applied \ {e} : g.id = e.id
    BY <2>2
  <2>. QED  BY <1>1, <2>3 DEF NewestShown, Known
<1>4. CASE OutOfOrder(e)
  <2>1. Known(e.agent) /\ agents[e.agent].event.sequence >= e.sequence
    BY <1>2, <1>4 DEF OutOfOrder, Known, AgentRecord
  <2>. QED  BY <1>1, <2>1 DEF NewestShown, Known
<1>5. CASE AgentLimit(e)
  <2>1. Cardinality(DOMAIN agents) \in Nat /\ MaxAgents \in Nat
    BY FS_CardinalityType, ReducerLimits
  <2>2. ~Known(e.agent) /\ Cardinality(DOMAIN agents) = MaxAgents
    BY <1>5, <2>1 DEF AgentLimit
  <2>. QED  BY <1>1, <2>2 DEF NewestShown, Known
<1>. QED  BY <1>3, <1>4, <1>5 DEF Leave

\* An event that is applied is newer than all that was applied for its agent.
LEMMA ApplyKept ==
    ASSUME ReducerInv, NEW e \in Event, Apply(e)
    PROVE  ReducerInv'
<1>. USE DEF ReducerInv
<1>1. /\ agents' = [a \in DOMAIN agents \cup {e.agent} |->
                       IF a = e.agent THEN SnapshotOf(e) ELSE agents[a]]
      /\ seen' = Remember(seen, e.id, MaxReplay)
      /\ repeated' = repeated \cup (applied \cap {e}) /\ applied' = applied \cup {e}
      /\ clock' = clock /\ heard' = heard \cup {e}
      /\ ~OutOfOrder(e) /\ ~AgentLimit(e)
  BY DEF Apply, Receive
<1>2. /\ e.sequence \in Nat /\ e.id \in EventIds /\ MaxAgents \in Nat
      /\ MaxReplay \in Nat /\ MaxRecentIds \in Nat
      /\ \A f \in Event : f.sequence \in Nat
  BY ReducerLimits DEF Event
<1>3. DOMAIN agents' = DOMAIN agents \cup {e.agent}
  BY <1>1
<1>4. SnapshotOf(e) \in AgentRecord /\ SnapshotOf(e).event = e
  <2>1. ASSUME Known(e.agent)
        PROVE  agents[e.agent].started \in Event /\ agents[e.agent].recent \in Seq(EventIds)
    BY <2>1 DEF Known, AgentRecord
  <2>2. /\ (IF Known(e.agent) THEN agents[e.agent].started ELSE e) \in Event
        /\ (IF Known(e.agent) THEN agents[e.agent].recent ELSE <<>>) \in Seq(EventIds)
    BY <2>1
  <2>3. Remember(IF Known(e.agent) THEN agents[e.agent].recent ELSE <<>>, e.id, MaxRecentIds)
           \in Seq(EventIds)
    BY <1>2, <2>2, RememberIsSeq
  <2>. QED  BY <2>2, <2>3 DEF SnapshotOf, AgentRecord
<1>5. IsFiniteSet(DOMAIN agents') /\ Cardinality(DOMAIN agents') <= MaxAgents
  <2>1. CASE Known(e.agent)
    <3>1. DOMAIN agents' = DOMAIN agents
      BY <1>3, <2>1 DEF Known
    <3>. QED  BY <3>1
  <2>2. CASE ~Known(e.agent)
    <3>1. IsFiniteSet(DOMAIN agents') /\ Cardinality(DOMAIN agents') = Cardinality(DOMAIN agents) + 1
      BY <1>3, <2>2, FS_AddElement DEF Known
    <3>2. Cardinality(DOMAIN agents) \in Nat /\ Cardinality(DOMAIN agents) < MaxAgents
      BY <1>1, <1>2, <2>2, FS_CardinalityType DEF AgentLimit
    <3>. QED  BY <1>2, <3>1, <3>2
  <2>. QED  BY <2>1, <2>2
<1>6. agents' \in [DOMAIN agents' -> AgentRecord]
  BY <1>1, <1>3, <1>4
<1>7. e \notin applied
  <2>. SUFFICES ASSUME e \in applied  PROVE  FALSE
    OBVIOUS
  <2>1. Known(e.agent) /\ agents[e.agent].event.sequence >= e.sequence
    OBVIOUS
  <2>2. agents[e.agent].event.sequence \in Nat
    BY <1>2, <2>1 DEF Known
  <2>. QED  BY <1>1, <1>2, <2>1, <2>2 DEF OutOfOrder
<1>8. \A f \in Event : Known(f.agent) /\ agents[f.agent].event.sequence >= f.sequence
         => Known(f.agent)' /\ agents'[f.agent].event.sequence >= f.sequence
  <2>. SUFFICES ASSUME NEW f \in Event, Known(f.agent),
                       agents[f.agent].event.sequence >= f.sequence
                PROVE  Known(f.agent)' /\ agents'[f.agent].event.sequence >= f.sequence
    OBVIOUS
  <2>1. agents[f.agent].event.sequence \in Nat
    BY <1>2 DEF Known
  <2>2. CASE f.agent = e.agent
    <3>1. e.sequence > agents[f.agent].event.sequence
      BY <1>1, <1>2, <2>1, <2>2 DEF OutOfOrder
    <3>2. agents'[f.agent].event = e
      BY <1>1, <1>4, <2>2
    <3>. QED  BY <1>2, <1>3, <2>1, <2>2, <3>1, <3>2 DEF Known
  <2>3. CASE f.agent # e.agent
    BY <1>1, <1>3, <2>3 DEF Known
  <2>. QED  BY <2>2, <2>3
<1>9. Known(e.agent)' /\ agents'[e.agent].event.sequence >= e.sequence
  BY <1>1, <1>2, <1>3, <1>4 DEF Known
<1>10. \A a \in DOMAIN agents' : agents'[a].event \in applied' /\ agents'[a].event.agent = a
  BY <1>1, <1>3, <1>4
<1>11. \A f \in applied' : Known(f.agent)' /\ agents'[f.agent].event.sequence >= f.sequence
  BY <1>1, <1>8, <1>9
<1>12. seen' \in Seq(EventIds) /\ \A i \in 1 .. Len(seen') : \E f \in applied' : f.id = seen'[i]
  <2>1. /\ seen' \in Seq(EventIds)
        /\ \A i \in 1 .. Len(seen') :
              seen'[i] = e.id \/ \E j \in 1 .. Len(seen) : seen'[i] = seen[j]
    BY <1>1, <1>2, RememberIsSeq
  <2>. QED  BY <1>1, <2>1
<1>13. NewestShown'
  <2>1. ASSUME NEW f \in heard'
        PROVE  \/ Known(f.agent)' /\ agents'[f.agent].event.sequence >= f.sequence
               \/ ~Known(f.agent)' /\ Cardinality(DOMAIN agents') = MaxAgents
               \/ \E g \in applied' \ {f} : g.id = f.id
    <3>1. CASE f = e
      BY <1>9, <3>1
    <3>2. CASE f \in heard /\ Known(f.agent) /\ agents[f.agent].event.sequence >= f.sequence
      BY <1>8, <3>2
    <3>3. CASE f \in heard /\ ~Known(f.agent) /\ Cardinality(DOMAIN agents) = MaxAgents
      <4>1. Known(e.agent)
        BY <1>1, <1>2, <3>3 DEF AgentLimit
      <4>2. DOMAIN agents' = DOMAIN agents
        BY <1>3, <4>1 DEF Known
      <4>. QED  BY <3>3, <4>2 DEF Known
    <3>4. CASE \E g \in applied \ {f} : g.id = f.id
      BY <1>1, <3>4
    <3>. QED  BY <1>1, <3>1, <3>2, <3>3, <3>4 DEF NewestShown
  <2>. QED  BY <1>10, <2>1 DEF NewestShown
<1>14. heard' \subseteq Event /\ applied' \subseteq heard' /\ repeated' = {}
  BY <1>1, <1>7
<1>15. clock' \in Nat
  BY <1>1
<1>. QED
  BY <1>5, <1>6, <1>10, <1>11, <1>12, <1>13, <1>14, <1>15, Zenon

\* Age, the end of a replay and the clock change no event.
LEMMA AgingKept ==
    ASSUME ReducerInv, AgeClosed \/ Age \/ EndReplay \/ RuntimeTick
    PROVE  ReducerInv'
<1>. USE DEF ReducerInv
<1>1. /\ seen' = seen /\ heard' = heard /\ applied' = applied /\ repeated' = repeated
      /\ clock' \in Nat
  BY DEF AgeClosed, Age, EndReplay, RuntimeTick
<1>2. /\ DOMAIN agents' = DOMAIN agents
      /\ agents' \in [DOMAIN agents -> AgentRecord]
      /\ \A a \in DOMAIN agents : agents'[a].event = agents[a].event
  <2>. DEFINE Aged(a, s) == [agents[a] EXCEPT !.aged = s]
  <2>0. ASSUME NEW a \in DOMAIN agents, NEW s \in {"stale", "disconnected"}
        PROVE  Aged(a, s) \in AgentRecord /\ Aged(a, s).event = agents[a].event
    BY DEF AgentRecord
  <2>1. CASE AgeClosed
    <3>1. agents' = [a \in DOMAIN agents |-> Aged(a, "disconnected")]
      BY <2>1 DEF AgeClosed
    <3>. HIDE DEF Aged
    <3>. QED  BY <2>0, <3>1
  <2>2. CASE Age
    <3>1. agents' = [a \in DOMAIN agents |->
                       IF a \in Silent THEN Aged(a, "stale") ELSE agents[a]]
      BY <2>2 DEF Age
    <3>. HIDE DEF Aged
    <3>. QED  BY <2>0, <3>1
  <2>3. CASE EndReplay \/ RuntimeTick
    BY <2>3 DEF EndReplay, RuntimeTick
  <2>. QED  BY <2>1, <2>2, <2>3
<1>. QED  BY <1>1, <1>2 DEF NewestShown, Known

\* Every step of the reducer keeps the invariant.
LEMMA ReducerKept == ReducerInv /\ [ReducerNext]_reducerVars => ReducerInv'
<1>1. ReducerInv /\ UNCHANGED reducerVars => ReducerInv'
  BY DEF ReducerInv, reducerVars, NewestShown, Known
<1>. QED  BY <1>1, LeaveKept, ApplyKept, AgingKept DEF ReducerNext

\* The lists of ids are the sequences that are not too long.
LEMMA BoundedIds ==
    ASSUME NEW n \in Nat
    PROVE  IdsUpTo(n) = {s \in Seq(EventIds) : Len(s) <= n}
<1>1. ASSUME NEW s \in IdsUpTo(n)  PROVE s \in Seq(EventIds) /\ Len(s) <= n
  <2>1. PICK k \in 0 .. n : s \in [1 .. k -> EventIds]
    BY DEF IdsUpTo
  <2>. QED  BY <2>1
<1>2. ASSUME NEW s \in Seq(EventIds), Len(s) <= n  PROVE s \in IdsUpTo(n)
  <2>1. Len(s) \in 0 .. n /\ s \in [1 .. Len(s) -> EventIds]
    BY <1>2, LenProperties
  <2>. QED  BY <2>1 DEF IdsUpTo
<1>. QED  BY <1>1, <1>2

\* A list of remembered ids stays within its bound.
LEMMA RememberIsBounded ==
    ASSUME NEW n \in Nat, NEW ids \in IdsUpTo(n), NEW id \in EventIds
    PROVE  Remember(ids, id, n) \in IdsUpTo(n)
<1>. DEFINE all == Append(ids, id)
<1>1. ids \in Seq(EventIds) /\ Len(ids) <= n
  BY BoundedIds
<1>2. all \in Seq(EventIds) /\ Len(all) = Len(ids) + 1 /\ Len(ids) \in Nat
  BY <1>1
<1>. HIDE DEF all
<1>3. Tail(all) \in Seq(EventIds) /\ Len(Tail(all)) = Len(ids)
  BY <1>2
<1>4. Remember(ids, id, n) = IF Len(all) > n THEN Tail(all) ELSE all
  BY DEF Remember, all
<1>5. Remember(ids, id, n) \in Seq(EventIds) /\ Len(Remember(ids, id, n)) <= n
  <2>1. CASE Len(all) > n
    BY <1>1, <1>3, <1>4, <2>1
  <2>2. CASE ~(Len(all) > n)
    BY <1>2, <1>4, <2>2
  <2>. QED  BY <2>1, <2>2
<1>. QED  BY <1>5, BoundedIds

\* The empty list is one of them.
LEMMA NoIdsBounded == \A n \in Nat : <<>> \in IdsUpTo(n)
<1>. TAKE n \in Nat
<1>1. <<>> \in Seq(EventIds) /\ Len(<<>>) = 0
  OBVIOUS
<1>2. IdsUpTo(n) = {s \in Seq(EventIds) : Len(s) <= n}
  BY BoundedIds
<1>. QED  BY <1>1, <1>2

\* The types of the reducer, under every step.
LEMMA ReducerTypesKept ==
    ReducerInv /\ ReducerTypeOK /\ [ReducerNext]_reducerVars => ReducerTypeOK'
<1>. SUFFICES ASSUME ReducerInv, ReducerTypeOK, [ReducerNext]_reducerVars
              PROVE  ReducerTypeOK'
  OBVIOUS
<1>1. Cardinality(DOMAIN agents') <= MaxAgents
      /\ repeated' = {} /\ applied' \subseteq heard' /\ heard' \subseteq Event
  <2>1. ReducerInv'
    BY ReducerKept
  <2>. QED  BY <2>1 DEF ReducerInv
<1>. USE DEF ReducerTypeOK
<1>2. MaxClock \in Nat /\ {MaxReplay, MaxRecentIds} \subseteq Nat
  BY ReducerLimits
<1>3. ASSUME NEW e \in Event, Leave(e)  PROVE ReducerTypeOK'
  BY <1>1, <1>3 DEF Leave, Receive
<1>4. ASSUME NEW e \in Event, Apply(e)  PROVE ReducerTypeOK'
  <2>1. /\ agents' = [a \in DOMAIN agents \cup {e.agent} |->
                         IF a = e.agent THEN SnapshotOf(e) ELSE agents[a]]
        /\ seen' = Remember(seen, e.id, MaxReplay)
        /\ transport' = clock /\ clock' = clock /\ source' = "connected"
    BY <1>4 DEF Apply, Receive
  <2>2. e.id \in EventIds /\ e.agent \in RuntimeAgents
    BY DEF Event
  <2>3. seen' \in IdsUpTo(MaxReplay)
    BY <1>2, <2>1, <2>2, RememberIsBounded
  <2>4. SnapshotOf(e) \in AgentSnapshot
    <3>. DEFINE old == IF Known(e.agent) THEN agents[e.agent].recent ELSE <<>>
    <3>1. old \in IdsUpTo(MaxRecentIds)
      <4>1. <<>> \in IdsUpTo(MaxRecentIds)
        BY <1>2, NoIdsBounded
      <4>. QED  BY <4>1 DEF Known, AgentSnapshot
    <3>2. Remember(old, e.id, MaxRecentIds) \in IdsUpTo(MaxRecentIds)
      <4>. HIDE DEF old
      <4>. QED  BY <1>2, <2>2, <3>1, RememberIsBounded
    <3>3. (IF Known(e.agent) THEN agents[e.agent].started ELSE e) \in Event
      BY DEF Known, AgentSnapshot
    <3>. QED  BY <3>2, <3>3 DEF SnapshotOf, AgentSnapshot
  <2>5. /\ DOMAIN agents' \subseteq RuntimeAgents
        /\ \A a \in DOMAIN agents' : agents'[a] \in AgentSnapshot
    BY <2>1, <2>2, <2>4
  <2>. QED  BY <1>1, <2>1, <2>3, <2>5
<1>5. CASE AgeClosed
  BY <1>1, <1>5 DEF AgeClosed, AgentSnapshot
<1>6. CASE Age
  BY <1>1, <1>6 DEF Age, AgentSnapshot
<1>7. CASE EndReplay \/ RuntimeTick \/ UNCHANGED reducerVars
  BY <1>1, <1>2, <1>7 DEF EndReplay, RuntimeTick, reducerVars
<1>. QED  BY <1>3, <1>4, <1>5, <1>6, <1>7 DEF ReducerNext

\* At first no event was heard.
LEMMA ReducerTypesInitial == ReducerInit => ReducerTypeOK
<1>1. <<>> \in IdsUpTo(MaxReplay)
  BY NoIdsBounded, ReducerLimits
<1>2. Cardinality({}) = 0 /\ 0 <= MaxAgents /\ 0 \in 0 .. MaxClock
  BY FS_EmptySet, ReducerLimits
<1>3. DOMAIN <<>> = {}
  OBVIOUS
<1>. QED  BY <1>1, <1>2, <1>3 DEF ReducerInit, ReducerEmpty, ReducerTypeOK

-------------------------------------------------------------------------------
(* HudServers.tla *)

\* The caller is somewhere in a shutdown.
InShutdown(c) == at[c] \in {"swap", "stop", "join"}

\* The caller has the lock of the table.
HasTable(c) == \/ at[c] \in {"check", "bind", "probe", "unlock"}
               \/ InShutdown(c) /\ job[c].then \in {"bind", "unlock"}

\* It goes on to bind a new server.
Binds(c) == InShutdown(c) /\ job[c].then = "bind"

\* A server that has been told to end has somebody who sees to it.
Seeing(c, s) == at[c] \in {"stop", "join"} /\ job[c].server = s

\* What callers are about: who has the table is alone with it, who is going to
\* bind has cleared the entry, who probes has a server of its workspace, and
\* only a shutdown of all has more servers to see to.
JobsInOrder ==
    /\ \A c \in Callers : HasTable(c) => holder = c
    /\ \A c \in Callers : at[c] \in {"bind", "probe"} \/ Binds(c) =>
          table[job[c].config.workspace] = NoServer
    /\ \A c \in Callers : at[c] \in {"lock", "check", "bind", "probe"} \/ Binds(c) =>
          job[c].config \in Configs
    /\ \A c \in Callers : at[c] = "probe" =>
          /\ job[c].server \in Started
          /\ servers[job[c].server].workspace = job[c].config.workspace
    /\ \A c \in Callers : InShutdown(c) => job[c].server \in Started
    /\ \A c \in Callers : job[c].todo # {} =>
          at[c] = "next" \/ (InShutdown(c) /\ job[c].then = "next")
    /\ \A c \in Callers : job[c].todo \subseteq Started
    /\ \A w \in Workspaces : table[w] # NoServer =>
          table[w] \in Started /\ servers[table[w]].workspace = w

ServersTypes ==
    /\ table \in [Workspaces -> ServerIds \cup {NoServer}]
    /\ assets \in 0 .. MaxAssets
    /\ \E n \in 0 .. MaxServers : Started = 1 .. n
    /\ servers \in [Started -> Server]
    /\ at \in [Callers -> Places]
    /\ job \in [Callers -> Job]
    /\ abandoned \subseteq ServerIds

\* The server has been told to end and listens still.
Ending(s) == \/ Listening(s) /\ servers[s].stop
             \/ servers[s].thread = "serving" /\ ~servers[s].running

\* A server that takes connections is in the table, is being launched, somebody
\* is about to stop it, or it was given up; once it has been told to end,
\* somebody sees to it.
ListenersSeen ==
    \A s \in Started :
        /\ servers[s].thread = "serving" =>
              \/ table[servers[s].workspace] = s
              \/ \E c \in Callers : at[c] = "probe" /\ job[c].server = s
              \/ \E c \in Callers : Stopping(c, s)
              \/ s \in abandoned
        /\ Ending(s) => \E c \in Callers : Seeing(c, s)

ServersInv == ServersTypes /\ JobsInOrder /\ ListenersSeen

\* No server has been started yet.
LEMMA ServersInitial == HudServersInit => ServersInv
<1>. SUFFICES ASSUME HudServersInit  PROVE  ServersInv
  OBVIOUS
<1>. USE ServersAssumption DEF HudServersInit, HudServersEmpty
<1>1. Started = {} /\ Started = 1 .. 0
  BY DEF Started
<1>2. NoJob \in Job
  BY DEF Job, NoJob, ServerIds, NoServer
<1>3. ServersTypes
  BY <1>1, <1>2 DEF ServersTypes, Places, Server, NoServer
<1>4. \A c \in Callers : at[c] = "idle" /\ job[c] = NoJob /\ job[c].todo = {}
  BY DEF NoJob
<1>5. JobsInOrder
  BY <1>1, <1>4 DEF JobsInOrder, HasTable, Binds, InShutdown
<1>6. ListenersSeen
  BY <1>1 DEF ListenersSeen
<1>. QED  BY <1>3, <1>5, <1>6 DEF ServersInv

\* What a configuration says.
LEMMA ConfigFields ==
    \A k \in Configs : /\ k.workspace \in Workspaces
                        /\ k.nonce \in Nonces \cup {NoNonce}
                        /\ k.port \in Ports \cup {AnyPort}
BY ServersAssumption DEF Config

\* The servers are numbered, and none of them is 0.
LEMMA StartedIds == ServersTypes => Started \subseteq ServerIds /\ NoServer \notin Started
BY ServersAssumption DEF ServersTypes, ServerIds, NoServer

\* The flags of a server say nothing about its workspace and its thread.
LEMMA ServerFlags ==
    ASSUME NEW x \in Server
    PROVE  LET r == [x EXCEPT !.running = FALSE]
               q == [x EXCEPT !.stop = TRUE]
           IN  /\ r \in Server /\ r.workspace = x.workspace /\ r.thread = x.thread
               /\ r.stop = x.stop
               /\ q \in Server /\ q.workspace = x.workspace /\ q.thread = x.thread
<1>1. [x EXCEPT !.running = FALSE] \in Server
  BY DEF Server
<1>2. [x EXCEPT !.stop = TRUE] \in Server
  BY DEF Server
<1>. QED  BY <1>1, <1>2 DEF Server

\* A caller gets a job of the right type.
LEMMA JobOfCaller ==
    ASSUME job \in [Callers -> Job], NEW c \in Callers, NEW j \in Job,
           job' = [job EXCEPT ![c] = j]
    PROVE  /\ job' \in [Callers -> Job] /\ job'[c] = j
           /\ \A d \in Callers \ {c} : job'[d] = job[d]
OBVIOUS

\* A caller goes to a place.
LEMMA PlaceOfCaller ==
    ASSUME at \in [Callers -> Places], NEW c \in Callers, NEW place \in Places, Goto(c, place)
    PROVE  /\ at' \in [Callers -> Places] /\ at'[c] = place
           /\ \A d \in Callers \ {c} : at'[d] = at[d]
BY DEF Goto

\* What a launch asks for.
LEMMA LaunchJob ==
    ASSUME ServersTypes, NEW c \in Callers, NEW config \in Configs, Launch(c, config)
    PROVE  /\ job' \in [Callers -> Job]
           /\ job'[c].config = config /\ job'[c].todo = job[c].todo
           /\ \A d \in Callers \ {c} : job'[d] = job[d]
<1>. DEFINE j == [job[c] EXCEPT !.config = config, !.assets = assets, !.server = NoServer]
<1>1. j \in Job /\ j.config = config /\ j.todo = job[c].todo
  BY DEF ServersTypes, Job, NoServer
<1>2. job' = [job EXCEPT ![c] = j]
  BY DEF Launch
<1>. HIDE DEF j
<1>. QED  BY <1>1, <1>2, JobOfCaller DEF ServersTypes

\* A caller is about to shut a server down.
LEMMA ShutDownJob ==
    ASSUME ServersTypes, NEW c \in Callers, NEW s \in ServerIds,
           NEW then \in {"idle", "bind", "unlock", "next"}, ShutDown(c, s, then)
    PROVE  /\ job' \in [Callers -> Job] /\ at' \in [Callers -> Places]
           /\ job'[c].server = s /\ job'[c].then = then /\ job'[c].todo = job[c].todo
           /\ job'[c].config = job[c].config
           /\ at'[c] = "swap"
           /\ \A d \in Callers \ {c} : job'[d] = job[d] /\ at'[d] = at[d]
<1>. DEFINE j == [job[c] EXCEPT !.server = s, !.then = then]
<1>1. j \in Job /\ j.server = s /\ j.then = then /\ j.todo = job[c].todo /\ j.config = job[c].config
  BY DEF ServersTypes, Job
<1>2. job' = [job EXCEPT ![c] = j]
  BY DEF ShutDown
<1>. HIDE DEF j
<1>3. Goto(c, "swap") /\ "swap" \in Places
  BY DEF ShutDown, Places
<1>. QED  BY <1>1, <1>2, <1>3, JobOfCaller, PlaceOfCaller DEF ServersTypes

\* A caller goes on, and forgets its job when it is done.
LEMMA GoOnJob ==
    ASSUME ServersTypes, NEW c \in Callers, NEW place \in Places, GoOn(c, place)
    PROVE  /\ job' \in [Callers -> Job] /\ at' \in [Callers -> Places]
           /\ at'[c] = place
           /\ place # "idle" => job' = job
           /\ place = "idle" => job'[c] = NoJob /\ job'[c].todo = {}
           /\ \A d \in Callers \ {c} : job'[d] = job[d] /\ at'[d] = at[d]
<1>1. NoJob \in Job /\ NoJob.todo = {}
  BY ServersAssumption DEF Job, NoJob, NoServer
<1>. QED  BY <1>1, JobOfCaller, PlaceOfCaller DEF ServersTypes, GoOn

\* Who is where decides who has the table and who sees to what.
LEMMA Unmoved ==
    ASSUME NEW d, job'[d] = job[d], at'[d] = at[d]
    PROVE  /\ HasTable(d)' = HasTable(d) /\ InShutdown(d)' = InShutdown(d)
           /\ Binds(d)' = Binds(d)
           /\ \A s : /\ Stopping(d, s)' = Stopping(d, s)
                     /\ Seeing(d, s)' = Seeing(d, s)
BY DEF HasTable, InShutdown, Binds, Stopping, Seeing

\* A launch begins, or goes on without a change of the servers.
LEMMA LaunchKept ==
    ASSUME ServersInv, NEW c \in Callers, abandoned' = abandoned,
           \/ \E config \in Configs : Launch(c, config)
           \/ LockTable(c) \/ CheckNone(c) \/ CheckKept(c) \/ BindFails(c) \/ UnlockTable(c)
    PROVE  ServersInv'
<1>. USE DEF ServersInv
<1>1. servers' = servers /\ Started' = Started /\ table' = table /\ assets' = assets
  BY DEF Launch, LockTable, CheckNone, CheckKept, BindFails, UnlockTable, Started
<1>2. /\ job' \in [Callers -> Job] /\ at' \in [Callers -> Places]
      /\ \A d \in Callers \ {c} : job'[d] = job[d] /\ at'[d] = at[d]
      /\ job'[c].todo = {} /\ at[c] \in {"idle", "lock", "check", "bind", "unlock"}
      /\ at'[c] \in {"idle", "lock", "check", "bind", "unlock"}
  <2>1. {"idle", "lock", "check", "bind", "unlock"} \subseteq Places
    BY DEF Places
  <2>2. at[c] \in {"idle", "lock", "check", "bind", "unlock"} /\ job[c].todo = {}
    BY DEF Launch, LockTable, CheckNone, CheckKept, BindFails, UnlockTable, JobsInOrder, InShutdown
  <2>3. CASE \E config \in Configs : Launch(c, config)
    <3>1. PICK config \in Configs : Launch(c, config)
      BY <2>3
    <3>2. Goto(c, "lock")
      BY <3>1 DEF Launch
    <3>. QED  BY <2>1, <2>2, <3>1, <3>2, LaunchJob, PlaceOfCaller DEF ServersTypes
  <2>4. CASE LockTable(c)
    BY <2>1, <2>2, <2>4, PlaceOfCaller DEF LockTable, ServersTypes
  <2>5. CASE CheckNone(c)
    BY <2>1, <2>2, <2>5, PlaceOfCaller DEF CheckNone, ServersTypes
  <2>6. CASE CheckKept(c) \/ BindFails(c)
    BY <2>1, <2>2, <2>6, PlaceOfCaller DEF CheckKept, BindFails, ServersTypes
  <2>7. CASE UnlockTable(c)
    BY <2>1, <2>2, <2>7, GoOnJob DEF UnlockTable
  <2>. QED  BY <2>3, <2>4, <2>5, <2>6, <2>7
<1>3. ServersTypes'
  BY <1>1, <1>2 DEF ServersTypes
<1>4. \A d \in Callers \ {c} :
         /\ HasTable(d)' = HasTable(d) /\ InShutdown(d)' = InShutdown(d)
         /\ Binds(d)' = Binds(d)
         /\ \A s : Stopping(d, s)' = Stopping(d, s) /\ Seeing(d, s)' = Seeing(d, s)
  BY <1>2, Unmoved
<1>5. \A s : ~Stopping(c, s) /\ ~Seeing(c, s) /\ at[c] # "probe"
  BY <1>2 DEF Stopping, Seeing, JobsInOrder, InShutdown
<1>6. ListenersSeen'
  <2>1. \A s : Ending(s)' <=> Ending(s)
    BY <1>1 DEF Ending, Listening
  <2>. QED  BY <1>1, <1>2, <1>4, <1>5, <2>1 DEF ListenersSeen
<1>7. /\ \A d \in Callers : HasTable(d)' => holder' = d
      /\ at'[c] \in {"lock", "check", "bind"} => job'[c].config \in Configs
      /\ at'[c] = "bind" => table[job'[c].config.workspace] = NoServer
  <2>1. CASE \E config \in Configs : Launch(c, config)
    <3>1. PICK config \in Configs : Launch(c, config)
      BY <2>1
    <3>2. holder' = holder /\ at'[c] = "lock" /\ job'[c].config = config
      BY <3>1, LaunchJob, PlaceOfCaller DEF Launch, ServersTypes, Goto
    <3>. QED  BY <1>2, <1>4, <3>2 DEF JobsInOrder, HasTable, InShutdown
  <2>2. CASE LockTable(c)
    <3>1. holder' = c /\ job' = job /\ at'[c] = "check" /\ at[c] = "lock" /\ holder = Nobody
      BY <2>2 DEF LockTable, Goto, ServersTypes
    <3>2. \A d \in Callers : ~HasTable(d)
      BY <3>1, ServersAssumption DEF JobsInOrder
    <3>. QED  BY <1>4, <3>1, <3>2 DEF JobsInOrder
  <2>3. CASE CheckNone(c) \/ CheckKept(c) \/ BindFails(c)
    <3>1. holder' = holder /\ job' = job /\ HasTable(c) /\ at[c] \in {"check", "bind"}
      BY <2>3 DEF CheckNone, CheckKept, BindFails, HasTable
    <3>2. at'[c] = "bind" => table[job[c].config.workspace] = NoServer
      BY <2>3 DEF CheckNone, CheckKept, BindFails, Goto, ServersTypes
    <3>. QED  BY <1>4, <3>1, <3>2 DEF JobsInOrder
  <2>4. CASE UnlockTable(c)
    <3>1. HasTable(c) /\ at'[c] = "idle"
      BY <2>4, GoOnJob DEF UnlockTable, HasTable, Places
    <3>2. \A d \in Callers \ {c} : ~HasTable(d)
      BY <3>1 DEF JobsInOrder
    <3>. QED  BY <1>2, <1>4, <3>1, <3>2 DEF HasTable, InShutdown
  <2>. QED  BY <2>1, <2>2, <2>3, <2>4
<1>8. ~InShutdown(c)' /\ ~Binds(c)' /\ at'[c] # "probe"
  BY <1>2 DEF InShutdown, Binds
<1>9. JobsInOrder'
  BY <1>1, <1>2, <1>4, <1>7, <1>8 DEF JobsInOrder
<1>. QED  BY <1>3, <1>6, <1>9

\* A server is bound and has to answer.
LEMMA BindKept ==
    ASSUME ServersInv, NEW c \in Callers, abandoned' = abandoned, Bind(c)
    PROVE  ServersInv'
<1>. USE DEF ServersInv
<1>. DEFINE new == Cardinality(Started) + 1
            j == [job[c] EXCEPT !.server = new]
            config == job[c].config
<1>1. PICK n \in 0 .. MaxServers : Started = 1 .. n
  BY DEF ServersTypes
<1>2. new = n + 1 /\ new \in ServerIds /\ new \notin Started /\ Started \cup {new} = 1 .. new
  <2>1. Cardinality(Started) = n
    BY <1>1, FS_Interval
  <2>2. n < MaxServers
    BY <2>1 DEF Bind
  <2>3. Started \cup {n + 1} = 1 .. n + 1
    BY <1>1
  <2>. QED  BY <1>1, <2>1, <2>2, <2>3, ServersAssumption DEF ServerIds
<1>3. at[c] = "bind" /\ config \in Configs /\ job[c].todo = {}
      /\ table[config.workspace] = NoServer
  BY DEF Bind, JobsInOrder, InShutdown
<1>4. /\ table' = table /\ holder' = holder /\ assets' = assets
      /\ job' \in [Callers -> Job] /\ at' \in [Callers -> Places]
      /\ at'[c] = "probe" /\ job'[c].server = new /\ job'[c].config = config /\ job'[c].todo = {}
      /\ \A d \in Callers \ {c} : job'[d] = job[d] /\ at'[d] = at[d]
  <2>1. j \in Job /\ j.server = new /\ j.config = config /\ j.todo = {}
    BY <1>2, <1>3 DEF ServersTypes, Job
  <2>2. job' = [job EXCEPT ![c] = j] /\ Goto(c, "probe") /\ "probe" \in Places
    BY DEF Bind, Places
  <2>. HIDE DEF j
  <2>. QED  BY <2>1, <2>2, JobOfCaller, PlaceOfCaller DEF ServersTypes, Bind
<1>5. /\ Started' = Started \cup {new}
      /\ servers' \in [Started' -> Server]
      /\ \A s \in Started : servers'[s] = servers[s]
      /\ servers'[new].workspace = config.workspace /\ servers'[new].running
      /\ ~servers'[new].stop
  <2>. DEFINE r == [workspace |-> config.workspace, nonce |-> config.nonce, port |-> config.port,
                    assets |-> job[c].assets, running |-> TRUE, stop |-> FALSE,
                    thread |-> "serving"]
  <2>1. servers' = [s \in Started \cup {new} |-> IF s = new THEN r ELSE servers[s]]
    BY DEF Bind
  <2>2. r \in Server
    BY <1>3, ConfigFields DEF Server, Threads, ServersTypes, Job
  <2>3. r.workspace = config.workspace /\ r.running /\ ~r.stop
    OBVIOUS
  <2>. HIDE DEF r, new
  <2>4. Started' = Started \cup {new}
    BY <2>1 DEF Started
  <2>. QED  BY <1>2, <2>1, <2>2, <2>3, <2>4 DEF ServersTypes
<1>. HIDE DEF new, j
<1>6. \A d \in Callers \ {c} :
         /\ HasTable(d)' = HasTable(d) /\ InShutdown(d)' = InShutdown(d)
         /\ Binds(d)' = Binds(d)
         /\ \A s : Stopping(d, s)' = Stopping(d, s) /\ Seeing(d, s)' = Seeing(d, s)
  BY <1>4, Unmoved
<1>7. ServersTypes'
  <2>1. new \in 0 .. MaxServers /\ Started' = 1 .. new
    BY <1>2, <1>5, ServersAssumption DEF ServerIds
  <2>. QED  BY <1>4, <1>5, <2>1 DEF ServersTypes
<1>8. \A s : ~Stopping(c, s) /\ ~Seeing(c, s)
  BY <1>3 DEF Stopping, Seeing
<1>9. ListenersSeen'
  <2>1. ASSUME NEW s \in Started
        PROVE  /\ servers'[s].thread = "serving" =>
                    \/ table'[servers'[s].workspace] = s
                    \/ \E d \in Callers : at'[d] = "probe" /\ job'[d].server = s
                    \/ \E d \in Callers : Stopping(d, s)'
                    \/ s \in abandoned
               /\ Ending(s)' => \E d \in Callers : Seeing(d, s)'
    <3>1. servers'[s] = servers[s] /\ table' = table
      BY <1>4, <1>5
    <3>2. Ending(s)' <=> Ending(s)
      BY <3>1 DEF Ending, Listening
    <3>. QED  BY <1>3, <1>4, <1>6, <1>8, <2>1, <3>1, <3>2 DEF ListenersSeen
  <2>2. ASSUME NEW s, s = new
        PROVE  /\ at'[c] = "probe" /\ job'[c].server = s
               /\ ~Ending(s)'
    BY <1>4, <1>5, <2>2 DEF Ending
  <2>. QED  BY <1>5, <2>1, <2>2, <1>4 DEF ListenersSeen
<1>10. JobsInOrder'
  <2>1. HasTable(c) /\ ~InShutdown(c)' /\ ~Binds(c)'
    BY <1>3, <1>4 DEF HasTable, InShutdown, Binds
  <2>2. \A w \in Workspaces : table'[w] # NoServer =>
           table'[w] \in Started' /\ servers'[table'[w]].workspace = w
    BY <1>4, <1>5 DEF JobsInOrder
  <2>3. \A d \in Callers \ {c} : at'[d] = "probe" =>
           /\ job'[d].server \in Started'
           /\ servers'[job'[d].server].workspace = job'[d].config.workspace
    BY <1>4, <1>5 DEF JobsInOrder
  <2>4. \A d \in Callers : job'[d].todo \subseteq Started'
    BY <1>4, <1>5 DEF JobsInOrder
  <2>. QED  BY <1>3, <1>4, <1>5, <1>6, <2>1, <2>2, <2>3, <2>4 DEF JobsInOrder
<1>. QED  BY <1>7, <1>9, <1>10

\* The server that answers is entered where there was none.
LEMMA ProbeOkKept ==
    ASSUME ServersInv, NEW c \in Callers, abandoned' = abandoned, ProbeOk(c)
    PROVE  ServersInv'
<1>. USE DEF ServersInv
<1>. DEFINE s == job[c].server
            w == job[c].config.workspace
<1>1. /\ at[c] = "probe" /\ s \in Started /\ servers[s].workspace = w /\ w \in Workspaces
      /\ table[w] = NoServer /\ job[c].config \in Configs /\ job[c].todo = {}
      /\ s \in ServerIds
  <2>1. at[c] = "probe" /\ s \in Started /\ servers[s].workspace = w /\ table[w] = NoServer
        /\ job[c].config \in Configs /\ job[c].todo = {}
    BY DEF ProbeOk, JobsInOrder, InShutdown
  <2>. QED  BY <2>1, StartedIds, ConfigFields
<1>2. /\ table' = [table EXCEPT ![w] = s] /\ holder' = holder /\ servers' = servers
      /\ job' = job /\ assets' = assets /\ Started' = Started
      /\ at' \in [Callers -> Places] /\ at'[c] = "unlock"
      /\ \A d \in Callers \ {c} : job'[d] = job[d] /\ at'[d] = at[d]
  <2>1. Goto(c, "unlock") /\ "unlock" \in Places
    BY DEF ProbeOk, Places
  <2>. QED  BY <2>1, PlaceOfCaller DEF ProbeOk, Started, ServersTypes
<1>3. \A d \in Callers \ {c} :
         /\ HasTable(d)' = HasTable(d) /\ InShutdown(d)' = InShutdown(d)
         /\ Binds(d)' = Binds(d)
         /\ \A t : Stopping(d, t)' = Stopping(d, t) /\ Seeing(d, t)' = Seeing(d, t)
  BY <1>2, Unmoved
<1>4. ServersTypes'
  BY <1>1, <1>2 DEF ServersTypes
<1>5. \A t : ~Stopping(c, t) /\ ~Seeing(c, t)
  BY <1>1 DEF Stopping, Seeing
<1>6. /\ table'[w] = s
      /\ \A v \in Workspaces \ {w} : table'[v] = table[v]
  BY <1>1, <1>2 DEF ServersTypes
<1>7. s # NoServer /\ \A t \in Started : t # NoServer
  BY <1>1, StartedIds
<1>8. \A t \in Started : servers[t].workspace \in Workspaces
  BY DEF ServersTypes, Server
<1>. HIDE DEF s, w
<1>9. ListenersSeen'
  <2>0. \A t : Ending(t)' <=> Ending(t)
    BY <1>2 DEF Ending, Listening
  <2>1. ASSUME NEW t \in Started
        PROVE  /\ servers[t].thread = "serving" =>
                    \/ table'[servers[t].workspace] = t
                    \/ \E d \in Callers : at'[d] = "probe" /\ job[d].server = t
                    \/ \E d \in Callers : Stopping(d, t)'
                    \/ t \in abandoned
               /\ Ending(t)' => \E d \in Callers : Seeing(d, t)'
    <3>1. CASE t = s
      BY <1>1, <1>3, <1>5, <1>6, <2>0, <2>1, <3>1 DEF ListenersSeen
    <3>2. CASE t # s
      <4>1. table[servers[t].workspace] = t => servers[t].workspace # w
        BY <1>1, <1>7
      <4>2. ~(at[c] = "probe" /\ job[c].server = t)
        BY <3>2 DEF s
      <4>. QED  BY <1>2, <1>3, <1>5, <1>6, <1>8, <2>0, <2>1, <4>1, <4>2 DEF ListenersSeen
    <3>. QED  BY <3>1, <3>2
  <2>. QED  BY <1>2, <2>1 DEF ListenersSeen
<1>10. JobsInOrder'
  <2>1. HasTable(c) /\ ~InShutdown(c)' /\ ~Binds(c)'
    BY <1>1, <1>2 DEF HasTable, InShutdown, Binds
  <2>2. \A d \in Callers \ {c} : ~HasTable(d)
    BY <2>1 DEF JobsInOrder
  <2>3. \A d \in Callers \ {c} : ~(at'[d] \in {"bind", "probe"}) /\ ~Binds(d)'
    BY <1>2, <1>3, <2>2 DEF HasTable, Binds
  <2>4. \A v \in Workspaces : table'[v] # NoServer =>
           table'[v] \in Started /\ servers[table'[v]].workspace = v
    BY <1>1, <1>6 DEF JobsInOrder
  <2>. QED  BY <1>1, <1>2, <1>3, <2>1, <2>3, <2>4 DEF JobsInOrder
<1>. QED  BY <1>4, <1>9, <1>10

\* A caller begins to shut a server down.
LEMMA ShutDownKept ==
    ASSUME ServersInv, NEW c \in Callers, abandoned' = abandoned,
           \/ CheckStale(c) \/ ProbeFails(c)
           \/ \E s \in ServerIds : ShutDownOne(c, s)
    PROVE  ServersInv'
<1>. USE DEF ServersInv
<1>1. PICK s \in ServerIds, then \in {"idle", "bind", "unlock"} :
         /\ ShutDown(c, s, then) /\ s \in Started
         /\ at[c] \in {"idle", "check", "probe"} /\ job[c].todo = {}
         /\ at[c] = "probe" => s = job[c].server
         /\ then # "idle" <=> at[c] # "idle"
         /\ then = "bind" <=> at[c] = "check"
         /\ at[c] = "check" => /\ job[c].config \in Configs
                               /\ s = table[job[c].config.workspace]
                               /\ table' = [table EXCEPT ![job[c].config.workspace] = NoServer]
         /\ at[c] # "check" => table' = table
         /\ servers' = servers /\ holder' = holder /\ assets' = assets /\ Started' = Started
  <2>1. Started \subseteq ServerIds
    BY StartedIds
  <2>2. CASE CheckStale(c)
    <3>. DEFINE s == table[job[c].config.workspace]
    <3>1. at[c] = "check" /\ job[c].config \in Configs /\ job[c].todo = {} /\ s # NoServer
      BY <2>2 DEF CheckStale, JobsInOrder, InShutdown
    <3>2. s \in Started
      BY <3>1, ConfigFields DEF JobsInOrder
    <3>. QED  BY <2>1, <2>2, <3>1, <3>2 DEF CheckStale, DropStale, Started
  <2>3. CASE ProbeFails(c)
    BY <2>1, <2>3 DEF ProbeFails, JobsInOrder, InShutdown, Started
  <2>4. CASE \E s \in ServerIds : ShutDownOne(c, s)
    BY <2>4 DEF ShutDownOne, JobsInOrder, InShutdown, Started
  <2>. QED  BY <2>2, <2>3, <2>4
<1>2. /\ job' \in [Callers -> Job] /\ at' \in [Callers -> Places]
      /\ job'[c].server = s /\ job'[c].then = then /\ job'[c].todo = {}
      /\ job'[c].config = job[c].config /\ at'[c] = "swap"
      /\ \A d \in Callers \ {c} : job'[d] = job[d] /\ at'[d] = at[d]
  BY <1>1, ShutDownJob
<1>3. \A d \in Callers \ {c} :
         /\ HasTable(d)' = HasTable(d) /\ InShutdown(d)' = InShutdown(d)
         /\ Binds(d)' = Binds(d)
         /\ \A t : Stopping(d, t)' = Stopping(d, t) /\ Seeing(d, t)' = Seeing(d, t)
  BY <1>2, Unmoved
<1>4. table' \in [Workspaces -> ServerIds \cup {NoServer}]
      /\ \A v \in Workspaces : table'[v] = table[v] \/ (table'[v] = NoServer /\ table[v] = s)
  BY <1>1 DEF ServersTypes
<1>5. ServersTypes'
  BY <1>1, <1>2, <1>4 DEF ServersTypes
<1>6. Stopping(c, s)' /\ \A t : ~Seeing(c, t) /\ ~Stopping(c, t)
  BY <1>1, <1>2 DEF Stopping, Seeing
<1>7. \A t \in Started : servers[t].workspace \in Workspaces
  BY DEF ServersTypes, Server
<1>8. ListenersSeen'
  <2>0. \A t : Ending(t)' <=> Ending(t)
    BY <1>1 DEF Ending, Listening
  <2>1. ASSUME NEW t \in Started
        PROVE  /\ servers[t].thread = "serving" =>
                    \/ table'[servers[t].workspace] = t
                    \/ \E d \in Callers : at'[d] = "probe" /\ job'[d].server = t
                    \/ \E d \in Callers : Stopping(d, t)'
                    \/ t \in abandoned
               /\ Ending(t)' => \E d \in Callers : Seeing(d, t)'
    <3>1. CASE t = s
      BY <1>3, <1>6, <2>0, <2>1, <3>1 DEF ListenersSeen
    <3>2. CASE t # s
      <4>1. ~(at[c] = "probe" /\ job[c].server = t)
        BY <1>1, <3>2
      <4>. QED  BY <1>2, <1>3, <1>4, <1>6, <1>7, <2>0, <2>1, <3>2, <4>1 DEF ListenersSeen
    <3>. QED  BY <3>1, <3>2
  <2>. QED  BY <1>1, <2>1 DEF ListenersSeen
<1>9. JobsInOrder'
  <2>1. HasTable(c)' => HasTable(c)
    BY <1>1, <1>2 DEF HasTable, InShutdown
  <2>2. Binds(c)' => job'[c].config \in Configs /\ table'[job'[c].config.workspace] = NoServer
    BY <1>1, <1>2, ConfigFields DEF Binds, ServersTypes
  <2>3. \A v \in Workspaces : table'[v] # NoServer => table'[v] = table[v]
    BY <1>4
  <2>4. \A d \in Callers \ {c} : at'[d] \in {"bind", "probe"} \/ Binds(d)' =>
           job'[d].config \in Configs /\ table'[job'[d].config.workspace] = NoServer
    BY <1>2, <1>3, <1>4, ConfigFields DEF JobsInOrder
  <2>. QED  BY <1>1, <1>2, <1>3, <2>1, <2>2, <2>3, <2>4 DEF JobsInOrder
<1>. QED  BY <1>5, <1>8, <1>9

\* All servers are taken out of the table, to be shut down one after the other.
LEMMA DrainKept ==
    ASSUME ServersInv, NEW c \in Callers, abandoned' = abandoned,
           \/ DrainTable(c) \/ AllShutDown(c)
           \/ \E s \in ServerIds : ShutDownNext(c, s)
    PROVE  ServersInv'
<1>. USE DEF ServersInv
<1>1. /\ servers' = servers /\ holder' = holder /\ assets' = assets /\ Started' = Started
      /\ at[c] \in {"idle", "next"}
      /\ \A t : ~Seeing(c, t) /\ (Stopping(c, t) <=> t \in job[c].todo)
      /\ ~HasTable(c)
  BY DEF DrainTable, AllShutDown, ShutDownNext, Started, Seeing, Stopping, HasTable, InShutdown
<1>2. /\ job' \in [Callers -> Job] /\ at' \in [Callers -> Places]
      /\ \A d \in Callers \ {c} : job'[d] = job[d] /\ at'[d] = at[d]
      /\ job'[c].todo \subseteq Started
      /\ at'[c] \in {"idle", "next", "swap"}
      /\ at'[c] = "swap" => job'[c].server \in Started /\ job'[c].then = "next"
      /\ at'[c] = "idle" => job'[c].todo = {}
      /\ table' \in [Workspaces -> ServerIds \cup {NoServer}]
      /\ \A v \in Workspaces :
            \/ table'[v] = table[v]
            \/ table'[v] = NoServer /\ \E t \in ServerIds : table[v] = t /\ Stopping(c, t)'
            \/ table'[v] = NoServer /\ table[v] = NoServer
      /\ \A t : Stopping(c, t) => Stopping(c, t)'
  <2>0. {"next", "swap", "idle"} \subseteq Places
    BY DEF Places
  <2>1. CASE DrainTable(c)
    <3>. DEFINE todo == {table[w] : w \in Workspaces} \ {NoServer}
                j == [job[c] EXCEPT !.todo = todo]
    <3>1. todo \subseteq Started /\ Started \subseteq ServerIds
      BY StartedIds DEF JobsInOrder
    <3>2. j \in Job /\ j.todo = todo
      BY <3>1 DEF ServersTypes, Job
    <3>3. job' = [job EXCEPT ![c] = j] /\ Goto(c, "next")
          /\ table' = [w \in Workspaces |-> NoServer]
      BY <2>1 DEF DrainTable
    <3>. HIDE DEF j
    <3>4. /\ job' \in [Callers -> Job] /\ at' \in [Callers -> Places]
          /\ \A d \in Callers \ {c} : job'[d] = job[d] /\ at'[d] = at[d]
          /\ job'[c] = j /\ at'[c] = "next"
      BY <2>0, <3>2, <3>3, JobOfCaller, PlaceOfCaller DEF ServersTypes
    <3>5. \A t \in todo : Stopping(c, t)'
      BY <3>2, <3>4 DEF Stopping
    <3>6. job[c].todo = {}
      BY <2>1 DEF DrainTable, JobsInOrder, InShutdown
    <3>7. \A v \in Workspaces :
             /\ table'[v] = NoServer
             /\ table[v] # NoServer => \E t \in ServerIds : table[v] = t /\ Stopping(c, t)'
      BY <3>1, <3>3, <3>5
    <3>8. table' \in [Workspaces -> ServerIds \cup {NoServer}]
      BY <3>3
    <3>9. \A t : ~Stopping(c, t)
      BY <1>1, <3>6
    <3>. HIDE DEF todo
    <3>. QED  BY <3>1, <3>2, <3>4, <3>7, <3>8, <3>9
  <2>2. CASE AllShutDown(c)
    <3>1. GoOn(c, "idle") /\ job[c].todo = {} /\ table' = table
      BY <2>2 DEF AllShutDown
    <3>. QED  BY <1>1, <2>0, <3>1, GoOnJob DEF ServersTypes
  <2>3. CASE \E s \in ServerIds : ShutDownNext(c, s)
    <3>1. PICK s \in ServerIds : ShutDownNext(c, s)
      BY <2>3
    <3>. DEFINE todo == job[c].todo \ {s}
                j == [job[c] EXCEPT !.server = s, !.then = "next", !.todo = todo]
    <3>2. s \in job[c].todo /\ job[c].todo \subseteq Started /\ table' = table
      BY <3>1 DEF ShutDownNext, JobsInOrder
    <3>3. j \in Job /\ j.server = s /\ j.then = "next" /\ j.todo = todo
      BY DEF ServersTypes, Job
    <3>4. job' = [job EXCEPT ![c] = j] /\ Goto(c, "swap")
      BY <3>1 DEF ShutDownNext
    <3>. HIDE DEF j
    <3>5. /\ job' \in [Callers -> Job] /\ at' \in [Callers -> Places]
          /\ \A d \in Callers \ {c} : job'[d] = job[d] /\ at'[d] = at[d]
          /\ job'[c] = j /\ at'[c] = "swap"
      BY <2>0, <3>3, <3>4, JobOfCaller, PlaceOfCaller DEF ServersTypes
    <3>6. \A t \in job[c].todo : Stopping(c, t)'
      BY <3>3, <3>5 DEF Stopping
    <3>. QED  BY <1>1, <3>2, <3>3, <3>5, <3>6 DEF ServersTypes
  <2>. QED  BY <2>1, <2>2, <2>3
<1>3. \A d \in Callers \ {c} :
         /\ HasTable(d)' = HasTable(d) /\ InShutdown(d)' = InShutdown(d)
         /\ Binds(d)' = Binds(d)
         /\ \A t : Stopping(d, t)' = Stopping(d, t) /\ Seeing(d, t)' = Seeing(d, t)
  BY <1>2, Unmoved
<1>4. ServersTypes'
  BY <1>1, <1>2 DEF ServersTypes
<1>5. \A t \in Started : servers[t].workspace \in Workspaces /\ t # NoServer
  BY StartedIds DEF ServersTypes, Server
<1>6. ListenersSeen'
  <2>0. \A t : Ending(t)' <=> Ending(t)
    BY <1>1 DEF Ending, Listening
  <2>1. ASSUME NEW t \in Started
        PROVE  /\ servers[t].thread = "serving" =>
                    \/ table'[servers[t].workspace] = t
                    \/ \E d \in Callers : at'[d] = "probe" /\ job'[d].server = t
                    \/ \E d \in Callers : Stopping(d, t)'
                    \/ t \in abandoned
               /\ Ending(t)' => \E d \in Callers : Seeing(d, t)'
    <3>1. table[servers[t].workspace] = t =>
             table'[servers[t].workspace] = t \/ Stopping(c, t)'
      BY <1>2, <1>5
    <3>2. at[c] # "probe"
      BY <1>1
    <3>. QED  BY <1>1, <1>2, <1>3, <2>0, <2>1, <3>1, <3>2 DEF ListenersSeen
  <2>. QED  BY <1>1, <2>1 DEF ListenersSeen
<1>7. JobsInOrder'
  <2>1. ~HasTable(c)' /\ ~Binds(c)' /\ at'[c] \notin {"lock", "check", "bind", "probe"}
    BY <1>2 DEF HasTable, InShutdown, Binds
  <2>2. \A v \in Workspaces : table'[v] # NoServer => table'[v] = table[v]
    BY <1>2
  <2>3. \A d \in Callers \ {c} : at'[d] \in {"bind", "probe"} \/ Binds(d)' =>
           job'[d].config \in Configs /\ table'[job'[d].config.workspace] = NoServer
    BY <1>2, <1>3, <2>2, ConfigFields DEF JobsInOrder
  <2>4. InShutdown(c)' => at'[c] = "swap"
    BY <1>2 DEF InShutdown
  <2>5. \A w \in Workspaces : table'[w] # NoServer =>
           table'[w] \in Started' /\ servers'[table'[w]].workspace = w
    BY <1>1, <2>2 DEF JobsInOrder
  <2>6. \A d \in Callers : HasTable(d)' => holder' = d
    BY <1>1, <1>3, <2>1 DEF JobsInOrder
  <2>7. \A d \in Callers : at'[d] \in {"bind", "probe"} \/ Binds(d)' =>
           table'[job'[d].config.workspace] = NoServer
    BY <2>1, <2>3
  <2>8. \A d \in Callers : at'[d] \in {"lock", "check", "bind", "probe"} \/ Binds(d)' =>
           job'[d].config \in Configs
    BY <1>2, <1>3, <2>1 DEF JobsInOrder
  <2>9. \A d \in Callers : at'[d] = "probe" =>
           /\ job'[d].server \in Started'
           /\ servers'[job'[d].server].workspace = job'[d].config.workspace
    BY <1>1, <1>2, <2>1 DEF JobsInOrder
  <2>10. \A d \in Callers : InShutdown(d)' => job'[d].server \in Started'
    BY <1>1, <1>2, <1>3, <2>4 DEF JobsInOrder
  <2>11. \A d \in Callers : job'[d].todo # {} =>
            at'[d] = "next" \/ (InShutdown(d)' /\ job'[d].then = "next")
    <3>1. job'[c].todo # {} =>
             at'[c] = "next" \/ (InShutdown(c)' /\ job'[c].then = "next")
      BY <1>2 DEF InShutdown
    <3>2. \A d \in Callers \ {c} : job'[d].todo # {} =>
             at'[d] = "next" \/ (InShutdown(d)' /\ job'[d].then = "next")
      BY <1>2, <1>3 DEF JobsInOrder
    <3>. QED  BY <3>1, <3>2
  <2>12. \A d \in Callers : job'[d].todo \subseteq Started'
    BY <1>1, <1>2 DEF JobsInOrder
  <2>. QED
    BY <2>5, <2>6, <2>7, <2>8, <2>9, <2>10, <2>11, <2>12 DEF JobsInOrder
<1>. QED  BY <1>4, <1>6, <1>7

\* The steps of one shutdown: whoever finds that the server has been told to
\* end leaves it to the one who has told it.
LEMMA ShutdownStepKept ==
    ASSUME ServersInv, NEW c \in Callers, abandoned' = abandoned,
           SwapRunning(c) \/ StoreStop(c) \/ JoinThread(c)
    PROVE  ServersInv'
<1>. USE DEF ServersInv
<1>1. PICK s \in Started :
      /\ s = job[c].server /\ InShutdown(c) /\ table' = table /\ holder' = holder
      /\ assets' = assets
      /\ job[c] \in Job /\ job[c].then \in {"idle", "bind", "unlock", "next"}
  BY DEF SwapRunning, StoreStop, JoinThread, InShutdown, JobsInOrder, ServersTypes, Job
<1>2. /\ Started' = Started /\ servers' \in [Started -> Server]
      /\ \A t \in Started : /\ servers'[t].workspace = servers[t].workspace
                            /\ servers'[t].thread = servers[t].thread
                            /\ t # s => servers'[t] = servers[t]
      /\ SwapRunning(c) => servers'[s].stop = servers[s].stop
  <2>. DEFINE r == [servers[s] EXCEPT !.running = FALSE]
              q == [servers[s] EXCEPT !.stop = TRUE]
  <2>1. /\ r \in Server /\ r.workspace = servers[s].workspace /\ r.thread = servers[s].thread
        /\ r.stop = servers[s].stop
        /\ q \in Server /\ q.workspace = servers[s].workspace /\ q.thread = servers[s].thread
    BY ServerFlags DEF ServersTypes
  <2>2. /\ \/ servers' = [servers EXCEPT ![s] = r]
           \/ servers' = [servers EXCEPT ![s] = q]
           \/ servers' = servers
        /\ SwapRunning(c) => servers' = [servers EXCEPT ![s] = r]
    BY <1>1 DEF SwapRunning, StoreStop, JoinThread
  <2>. HIDE DEF r, q
  <2>3. DOMAIN servers' = DOMAIN servers
    BY <2>2
  <2>. QED  BY <1>1, <2>1, <2>2, <2>3 DEF ServersTypes, Started
<1>3. /\ job' \in [Callers -> Job] /\ at' \in [Callers -> Places]
      /\ \A d \in Callers \ {c} : job'[d] = job[d] /\ at'[d] = at[d]
      /\ at'[c] # "idle" => job'[c] = job[c]
      /\ at'[c] = "idle" => job'[c].todo = {}
      /\ at'[c] \in {"stop", "join", job[c].then}
      /\ Listening(s) /\ Seeing(c, s) => Seeing(c, s)'
      /\ Listening(s) =>
            Seeing(c, s)' \/ (~servers[s].running /\ servers'[s].stop = servers[s].stop)
  <2>0. {"stop", "join", "idle", "bind", "unlock", "next"} \subseteq Places
    BY DEF Places
  <2>1. CASE SwapRunning(c)
    <3>. DEFINE place == IF servers[s].running THEN "stop" ELSE job[c].then
    <3>1. place \in Places /\ GoOn(c, place) /\ at[c] = "swap"
      BY <1>1, <2>0, <2>1 DEF SwapRunning
    <3>2. place = "stop" => Seeing(c, s)'
      BY <1>1, <3>1, GoOnJob DEF Seeing
    <3>3. ~Seeing(c, s)
      BY <3>1 DEF Seeing
    <3>. QED  BY <1>1, <1>2, <2>1, <3>1, <3>2, <3>3, GoOnJob
  <2>2. CASE StoreStop(c)
    <3>1. Goto(c, "join") /\ job' = job
      BY <2>2 DEF StoreStop
    <3>2. /\ at' \in [Callers -> Places] /\ at'[c] = "join"
          /\ \A d \in Callers \ {c} : at'[d] = at[d]
      BY <2>0, <3>1, PlaceOfCaller DEF ServersTypes
    <3>3. Seeing(c, s)'
      BY <1>1, <3>1, <3>2 DEF Seeing
    <3>. QED  BY <3>1, <3>2, <3>3 DEF ServersTypes
  <2>3. CASE JoinThread(c)
    <3>1. GoOn(c, job[c].then) /\ ~Listening(s)
      BY <1>1, <2>3 DEF JoinThread, Listening
    <3>. QED  BY <1>1, <2>0, <3>1, GoOnJob
  <2>. QED  BY <2>1, <2>2, <2>3
<1>4. \A d \in Callers \ {c} :
         /\ HasTable(d)' = HasTable(d) /\ InShutdown(d)' = InShutdown(d)
         /\ Binds(d)' = Binds(d)
         /\ \A t : Stopping(d, t)' = Stopping(d, t) /\ Seeing(d, t)' = Seeing(d, t)
  BY <1>3, Unmoved
<1>5. ServersTypes'
  BY <1>1, <1>2, <1>3 DEF ServersTypes
<1>6. /\ \A t : Seeing(c, t) => t = s
      /\ \A t : Stopping(c, t) => t = s \/ t \in job[c].todo
      /\ Seeing(c, s)' => Stopping(c, s)'
  BY <1>1 DEF Seeing, Stopping
<1>7. \A t \in job[c].todo : Stopping(c, t)'
  <2>1. job[c].todo # {} => job[c].then = "next"
    BY <1>1 DEF JobsInOrder, InShutdown
  <2>2. job[c].todo # {} => at'[c] # "idle"
    BY <1>3, <2>1
  <2>. QED  BY <1>3, <2>2 DEF Stopping
<1>8. ListenersSeen'
  <2>1. ASSUME NEW t \in Started
        PROVE  /\ servers[t].thread = "serving" =>
                    \/ table[servers[t].workspace] = t
                    \/ \E d \in Callers : at'[d] = "probe" /\ job'[d].server = t
                    \/ \E d \in Callers : Stopping(d, t)'
                    \/ t \in abandoned
               /\ Ending(t)' => \E d \in Callers : Seeing(d, t)'
    <3>0. at[c] # "probe"
      BY <1>1 DEF InShutdown
    <3>1. CASE t = s
      <4>1. Listening(s) /\ Ending(s) => \E d \in Callers : Seeing(d, s)'
        <5>1. Ending(s) => \E d \in Callers : Seeing(d, s)
          BY DEF ListenersSeen
        <5>. QED  BY <1>3, <1>4, <5>1
      <4>2. \A d \in Callers : Seeing(d, s)' => Stopping(d, s)'
        BY DEF Seeing, Stopping
      <4>3. servers[s].thread = "serving" => Seeing(c, s)' \/ Ending(s)
        BY <1>3 DEF Ending, Listening
      <4>4. Ending(s)' => Listening(s) /\ (Seeing(c, s)' \/ Ending(s))
        BY <1>2, <1>3 DEF Ending, Listening
      <4>5. servers[s].thread = "serving" => Listening(s)
        BY DEF Listening
      <4>. QED  BY <3>1, <4>1, <4>2, <4>3, <4>4, <4>5
    <3>2. CASE t # s
      <4>1. servers'[t] = servers[t]
        BY <1>2, <3>2
      <4>2. Ending(t)' <=> Ending(t)
        BY <4>1 DEF Ending, Listening
      <4>3. /\ servers[t].thread = "serving" =>
                  \/ table[servers[t].workspace] = t
                  \/ \E d \in Callers : at[d] = "probe" /\ job[d].server = t
                  \/ \E d \in Callers : Stopping(d, t)
                  \/ t \in abandoned
            /\ Ending(t) => \E d \in Callers : Seeing(d, t)
        BY DEF ListenersSeen
      <4>. QED  BY <1>3, <1>4, <1>6, <1>7, <3>0, <3>2, <4>2, <4>3
    <3>. QED  BY <3>1, <3>2
  <2>. QED  BY <1>1, <1>2, <2>1 DEF ListenersSeen
<1>9. JobsInOrder'
  <2>1. HasTable(c)' => HasTable(c)
    BY <1>1, <1>3 DEF HasTable, InShutdown
  <2>2. Binds(c)' \/ at'[c] = "bind" => Binds(c) /\ job'[c] = job[c]
    BY <1>1, <1>3 DEF Binds, InShutdown
  <2>3. /\ at'[c] \notin {"lock", "check", "probe"}
        /\ InShutdown(c)' => job'[c].server \in Started
        /\ job'[c].todo \subseteq Started
        /\ job'[c].todo # {} => job'[c] = job[c] /\ job[c].then = "next"
    BY <1>1, <1>3 DEF JobsInOrder, InShutdown
  <2>4. job'[c].todo # {} => at'[c] = "next" \/ (InShutdown(c)' /\ job'[c].then = "next")
    BY <1>3, <2>3 DEF InShutdown
  <2>5. \A w \in Workspaces : table'[w] # NoServer =>
           table'[w] \in Started' /\ servers'[table'[w]].workspace = w
    BY <1>1, <1>2 DEF JobsInOrder
  <2>6. \A d \in Callers : HasTable(d)' => holder' = d
    BY <1>1, <1>4, <2>1 DEF JobsInOrder
  <2>7. \A d \in Callers : at'[d] \in {"bind", "probe"} \/ Binds(d)' =>
           table'[job'[d].config.workspace] = NoServer
    BY <1>1, <1>3, <1>4, <2>2, <2>3 DEF JobsInOrder
  <2>8. \A d \in Callers : at'[d] \in {"lock", "check", "bind", "probe"} \/ Binds(d)' =>
           job'[d].config \in Configs
    BY <1>3, <1>4, <2>2, <2>3 DEF JobsInOrder
  <2>9. \A d \in Callers : at'[d] = "probe" =>
           /\ job'[d].server \in Started'
           /\ servers'[job'[d].server].workspace = job'[d].config.workspace
    BY <1>2, <1>3, <2>3 DEF JobsInOrder
  <2>10. \A d \in Callers : InShutdown(d)' => job'[d].server \in Started'
    BY <1>2, <1>3, <1>4, <2>3 DEF JobsInOrder
  <2>11. \A d \in Callers : job'[d].todo # {} =>
            at'[d] = "next" \/ (InShutdown(d)' /\ job'[d].then = "next")
    BY <1>3, <1>4, <2>4 DEF JobsInOrder
  <2>12. \A d \in Callers : job'[d].todo \subseteq Started'
    BY <1>2, <1>3, <2>3 DEF JobsInOrder
  <2>. QED
    BY <2>5, <2>6, <2>7, <2>8, <2>9, <2>10, <2>11, <2>12 DEF JobsInOrder
<1>. QED  BY <1>5, <1>8, <1>9

\* The thread of the server had panicked: a launch fails, and a shutdown of all
\* gives up the servers that it has not come to.
LEMMA JoinFailsKept ==
    ASSUME ServersInv, NEW c \in Callers, JoinFails(c)
    PROVE  ServersInv'
<1>. USE DEF ServersInv
<1>1. PICK s \in Started :
      /\ s = job[c].server /\ InShutdown(c) /\ at[c] = "join"
      /\ table' = table /\ holder' = holder /\ assets' = assets /\ servers' = servers
      /\ Started' = Started /\ servers[s].thread = "panicked"
      /\ job[c] \in Job /\ job[c].then \in {"idle", "bind", "unlock", "next"}
      /\ job[c].todo \subseteq ServerIds
  BY DEF JoinFails, InShutdown, JobsInOrder, ServersTypes, Job, Started
<1>2. /\ AfterPanic(job[c].then) \in {"idle", "unlock"}
      /\ AfterPanic(job[c].then) = "unlock" => job[c].then \in {"bind", "unlock"}
      /\ {"idle", "unlock"} \subseteq Places
  BY <1>1 DEF AfterPanic, Places
<1>3. job[c].todo # {} => job[c].then = "next"
  BY <1>1 DEF JobsInOrder
<1>4. /\ job' \in [Callers -> Job] /\ at' \in [Callers -> Places]
      /\ at'[c] \in {"idle", "unlock"} /\ job'[c].todo = {}
      /\ at'[c] = "unlock" => job[c].then \in {"bind", "unlock"}
      /\ \A d \in Callers \ {c} : job'[d] = job[d] /\ at'[d] = at[d]
  <2>1. GoOn(c, AfterPanic(job[c].then))
    BY DEF JoinFails
  <2>. QED  BY <1>2, <1>3, <2>1, GoOnJob
<1>5. abandoned \cup job[c].todo \subseteq abandoned' /\ abandoned' \subseteq ServerIds
  BY <1>1, <1>3 DEF JoinFails, ServersTypes
<1>6. ServersTypes'
  BY <1>1, <1>4, <1>5 DEF ServersTypes
<1>7. \A d \in Callers \ {c} :
         /\ HasTable(d)' = HasTable(d) /\ InShutdown(d)' = InShutdown(d)
         /\ Binds(d)' = Binds(d)
         /\ \A t : Stopping(d, t)' = Stopping(d, t) /\ Seeing(d, t)' = Seeing(d, t)
  BY <1>4, Unmoved
<1>8. ListenersSeen'
  <2>1. \A t : Ending(t)' <=> Ending(t)
    BY <1>1 DEF Ending, Listening
  <2>2. ~Ending(s) /\ servers[s].thread # "serving"
    BY <1>1 DEF Ending, Listening
  <2>3. \A t : /\ Seeing(c, t) => t = s
               /\ Stopping(c, t) => t = s \/ t \in abandoned'
    BY <1>1, <1>5 DEF Seeing, Stopping
  <2>4. at[c] # "probe"
    BY <1>1
  <2>. QED  BY <1>1, <1>4, <1>5, <1>7, <2>1, <2>2, <2>3, <2>4 DEF ListenersSeen
<1>9. JobsInOrder'
  <2>1. HasTable(c)' => HasTable(c)
    BY <1>1, <1>4 DEF HasTable, InShutdown
  <2>2. /\ ~InShutdown(c)' /\ ~Binds(c)'
        /\ at'[c] \notin {"lock", "check", "bind", "probe"}
    BY <1>4 DEF Binds, InShutdown
  <2>. QED  BY <1>1, <1>4, <1>7, <2>1, <2>2 DEF JobsInOrder
<1>. QED  BY <1>6, <1>8, <1>9

\* A thread leaves its loop, returns or panics, or the assets change.
LEMMA ThreadsKept ==
    ASSUME ServersInv, abandoned' = abandoned,
           \/ \E s \in ServerIds : ThreadNext(s)
           \/ AssetsChange \/ UNCHANGED hudServerVars
    PROVE  ServersInv'
<1>. USE DEF ServersInv
<1>1. /\ table' = table /\ holder' = holder /\ at' = at /\ job' = job
      /\ assets' \in 0 .. MaxAssets
  <2>1. assets' = assets \/ (assets < MaxAssets /\ assets' = assets + 1)
    BY DEF ThreadNext, ThreadLeaves, ListenerCloses, ThreadPanics, AssetsChange, hudServerVars
  <2>2. assets \in 0 .. MaxAssets
    BY DEF ServersTypes
  <2>3. assets' \in 0 .. MaxAssets
    BY <2>1, <2>2, ServersAssumption
  <2>. QED
    BY <2>3 DEF ThreadNext, ThreadLeaves, ListenerCloses, ThreadPanics, AssetsChange,
                hudServerVars
<1>2. /\ Started' = Started /\ servers' \in [Started -> Server]
      /\ \A t \in Started :
            /\ servers'[t].workspace = servers[t].workspace
            /\ servers'[t].stop = servers[t].stop
            /\ servers'[t].thread = "serving" => servers'[t] = servers[t]
            /\ servers'[t].thread = "closing" => Listening(t)
  <2>1. CASE \E s \in ServerIds : ThreadNext(s)
    <3>1. PICK s \in Started : ThreadLeaves(s) \/ ListenerCloses(s) \/ ThreadPanics(s)
      BY <2>1 DEF ThreadNext, ThreadLeaves, ListenerCloses, ThreadPanics
    <3>2. PICK r \in Server :
             /\ servers' = [servers EXCEPT ![s] = r]
             /\ r.workspace = servers[s].workspace /\ r.stop = servers[s].stop
             /\ r.thread # "serving" /\ (r.thread = "closing" => servers[s].thread = "serving")
      <4>1. servers[s] \in Server
        BY DEF ServersTypes
      <4>2. CASE ThreadLeaves(s)
        <5>. DEFINE q == [servers[s] EXCEPT !.thread = "closing", !.running = FALSE]
        <5>1. q \in Server /\ q.workspace = servers[s].workspace /\ q.stop = servers[s].stop
              /\ q.thread = "closing"
          BY <4>1 DEF Server, Threads
        <5>2. servers' = [servers EXCEPT ![s] = q] /\ servers[s].thread = "serving"
          BY <4>2 DEF ThreadLeaves
        <5>. HIDE DEF q
        <5>. QED  BY <5>1, <5>2
      <4>3. CASE ListenerCloses(s)
        <5>. DEFINE q == [servers[s] EXCEPT !.thread = "ended"]
        <5>1. q \in Server /\ q.workspace = servers[s].workspace /\ q.stop = servers[s].stop
              /\ q.thread = "ended"
          BY <4>1 DEF Server, Threads
        <5>2. servers' = [servers EXCEPT ![s] = q]
          BY <4>3 DEF ListenerCloses
        <5>. HIDE DEF q
        <5>. QED  BY <5>1, <5>2
      <4>4. CASE ThreadPanics(s)
        <5>. DEFINE q == [servers[s] EXCEPT !.thread = "panicked"]
        <5>1. q \in Server /\ q.workspace = servers[s].workspace /\ q.stop = servers[s].stop
              /\ q.thread = "panicked"
          BY <4>1 DEF Server, Threads
        <5>2. servers' = [servers EXCEPT ![s] = q]
          BY <4>4 DEF ThreadPanics
        <5>. HIDE DEF q
        <5>. QED  BY <5>1, <5>2
      <4>. QED  BY <3>1, <4>2, <4>3, <4>4
    <3>. QED  BY <3>2 DEF ServersTypes, Started, Listening
  <2>2. CASE AssetsChange \/ UNCHANGED hudServerVars
    BY <2>2 DEF AssetsChange, hudServerVars, ServersTypes, Started, Listening
  <2>. QED  BY <2>1, <2>2
<1>3. \A d :
         /\ HasTable(d)' = HasTable(d) /\ InShutdown(d)' = InShutdown(d)
         /\ Binds(d)' = Binds(d)
         /\ \A t : Stopping(d, t)' = Stopping(d, t) /\ Seeing(d, t)' = Seeing(d, t)
  BY <1>1, Unmoved
<1>4. ServersTypes'
  BY <1>1, <1>2 DEF ServersTypes
<1>5. ListenersSeen'
  <2>1. \A t \in Started : Ending(t)' => Ending(t)
    BY <1>2 DEF Ending, Listening
  <2>. QED  BY <1>1, <1>2, <1>3, <2>1 DEF ListenersSeen
<1>6. JobsInOrder'
  BY <1>1, <1>2, <1>3 DEF JobsInOrder
<1>. QED  BY <1>4, <1>5, <1>6

\* Every step of the threads keeps the invariant.
LEMMA ServersKept == ServersInv /\ [HudServersNext]_hudServerVars => ServersInv'
<1>. SUFFICES ASSUME ServersInv, [HudServersNext]_hudServerVars  PROVE ServersInv'
  OBVIOUS
<1>1. CASE \E c \in Callers : JoinFails(c)
  BY <1>1, JoinFailsKept
<1>2. CASE UNCHANGED abandoned /\ \E c \in Callers : LaunchNext(c) \/ ShutdownNext(c)
  BY <1>2, LaunchKept, BindKept, ProbeOkKept, ShutDownKept, DrainKept, ShutdownStepKept
     DEF LaunchNext, ShutdownNext
<1>3. CASE /\ UNCHANGED abandoned
           /\ (\E s \in ServerIds : ThreadNext(s)) \/ AssetsChange
  BY <1>3, ThreadsKept
<1>4. CASE UNCHANGED hudServerVars
  BY <1>4, ThreadsKept DEF hudServerVars
<1>. QED  BY <1>1, <1>2, <1>3, <1>4 DEF HudServersNext

\* By the invariant servers that listen are accounted for, and a port is handed
\* over.
LEMMA ServersInvAccounts == ServersInv => ListenersAccounted /\ PortHandedOver
<1>. SUFFICES ASSUME ServersInv  PROVE  ListenersAccounted /\ PortHandedOver
  OBVIOUS
<1>. USE DEF ServersInv
<1>1. ListenersAccounted
  BY DEF ListenersAccounted, ListenersSeen, Listening
<1>2. ASSUME NEW c \in Callers, NEW s \in Started, at[c] = "bind", Listening(s),
             servers[s].workspace = job[c].config.workspace
      PROVE  \/ \E d \in Callers \ {c} : Stopping(d, s)
             \/ servers[s].thread = "closing" /\ ~servers[s].stop
             \/ s \in abandoned
  <2>1. ~Stopping(c, s)
    BY <1>2 DEF JobsInOrder, Stopping, InShutdown
  <2>2. CASE servers[s].thread = "serving"
    <3>1. table[servers[s].workspace] # s
      BY <1>2, StartedIds DEF JobsInOrder
    <3>2. \A d \in Callers : at[d] # "probe"
      <4>1. HasTable(c)
        BY <1>2 DEF HasTable
      <4>. QED  BY <1>2, <4>1 DEF JobsInOrder, HasTable
    <3>. QED  BY <1>2, <2>1, <2>2, <3>1, <3>2 DEF ListenersSeen
  <2>3. CASE servers[s].thread = "closing" /\ servers[s].stop
    <3>1. \E d \in Callers : Seeing(d, s)
      BY <1>2, <2>3 DEF ListenersSeen, Ending
    <3>. QED  BY <2>1, <3>1 DEF Seeing, Stopping
  <2>. QED  BY <1>2, <2>2, <2>3 DEF Listening
<1>. QED  BY <1>1, <1>2 DEF PortHandedOver

\* The lock of the table is held by a caller or by nobody.
LEMMA HolderKnown ==
    ASSUME holder \in Callers \cup {Nobody}, [HudServersNext]_hudServerVars
    PROVE  holder' \in Callers \cup {Nobody}
<1>1. ASSUME NEW c \in Callers, LaunchNext(c)  PROVE holder' \in {holder, c, Nobody}
  <2>1. CASE \E config \in Configs : Launch(c, config)
    BY <2>1 DEF Launch
  <2>2. CASE LockTable(c) \/ CheckNone(c) \/ CheckKept(c) \/ CheckStale(c)
    BY <2>2 DEF LockTable, CheckNone, CheckKept, CheckStale
  <2>3. CASE Bind(c) \/ BindFails(c) \/ ProbeOk(c) \/ ProbeFails(c) \/ UnlockTable(c)
    BY <2>3 DEF Bind, BindFails, ProbeOk, ProbeFails, UnlockTable
  <2>. QED  BY <1>1, <2>1, <2>2, <2>3 DEF LaunchNext
<1>2. ASSUME NEW c \in Callers, ShutdownNext(c)  PROVE holder' = holder
  <2>1. CASE DrainTable(c) \/ AllShutDown(c) \/ SwapRunning(c) \/ StoreStop(c) \/ JoinThread(c)
    BY <2>1 DEF DrainTable, AllShutDown, SwapRunning, StoreStop, JoinThread
  <2>2. CASE \E s \in ServerIds : ShutDownNext(c, s) \/ ShutDownOne(c, s)
    BY <2>2 DEF ShutDownNext, ShutDownOne
  <2>. QED  BY <1>2, <2>1, <2>2 DEF ShutdownNext
<1>3. CASE (\E s \in ServerIds : ThreadNext(s)) \/ AssetsChange \/ UNCHANGED hudServerVars
  BY <1>3 DEF ThreadNext, ThreadLeaves, ListenerCloses, ThreadPanics, AssetsChange,
              hudServerVars
<1>4. CASE \E c \in Callers : JoinFails(c)
  BY <1>4 DEF JoinFails
<1>. QED  BY <1>1, <1>2, <1>3, <1>4 DEF HudServersNext

\* The invariant of the servers has their types, but for the holder of the lock.
LEMMA ServersTyped ==
    ServersInv /\ holder \in Callers \cup {Nobody} => HudServersTypeOK
BY DEF ServersInv, ServersTypes, HudServersTypeOK, Started

-------------------------------------------------------------------------------
(* The components by themselves. *)

\* hud_tasks.rs: what the server shows of tasks.md is the table that was read
\* last, marked as what it is, and is never refused, for any number of rows.
THEOREM ViewShowsLastRead == HudTasksSpec => []ViewIsLastRead
BY ViewInitial, ViewKept, ViewInvShows, PTL DEF HudTasksSpec

\* RuntimeReducer: events that arrive late, twice or out of order are applied
\* once and the newest is shown, for any bound on agents and on replay ids.
THEOREM EventsAppliedOnce == ReducerSpec => [](AppliedOnce /\ NewestShown)
<1>1. ReducerInv => AppliedOnce /\ NewestShown
  BY DEF ReducerInv, AppliedOnce
<1>. QED  BY <1>1, ReducerInitial, ReducerKept, PTL DEF ReducerSpec

\* HudLauncher: a server that listens is in the table, or somebody is about to
\* put it there or to stop it, or it is told to stop or closing already; and a
\* launch finds the former listener of its workspace closed, unless another
\* thread is stopping it or its thread has left its loop untold.  Servers that a
\* shutdown_all gave up over a panic are excepted.  For any number of callers and
\* servers.
THEOREM ServersAccounted == HudServersSpec => [](ListenersAccounted /\ PortHandedOver)
BY ServersInitial, ServersKept, ServersInvAccounts, PTL DEF HudServersSpec

-------------------------------------------------------------------------------
(* Evidence.tla *)

\* An envelope that was judged valid carries the digest of its scope file as the
\* inspection has read it, and so does every other one about that file.
EvidenceInv ==
    /\ judged \in [Files -> Judgements]
    /\ DOMAIN cache = Locators
    /\ versions \in [Locators -> Contents]
    /\ \A n \in Files : directory[n] \in Envelope \cup {Vacant, Garbled}
    /\ DOMAIN directory = Files
    /\ \A n \in Files :
          reading = 0 \/ n >= reading => judged[n] = "unread"
    /\ \A n \in Files : judged[n] = "valid" =>
          /\ IsEnvelope(n)
          /\ cache[directory[n].scope] # Unread
          /\ directory[n].digest # Flaw
          /\ directory[n].status = "current" =>
                directory[n].digest = cache[directory[n].scope]

\* Nothing was judged in the beginning.
LEMMA EvidenceInitial == EvidenceInit => EvidenceInv
<1>. SUFFICES ASSUME EvidenceInit  PROVE  EvidenceInv
  OBVIOUS
<1>1. 0 \in Contents
  BY EvidenceAssumption DEF Contents, Versions
<1>2. /\ directory = [n \in Files |-> Vacant]
      /\ versions = [l \in Locators |-> 0]
      /\ cache = [l \in Locators |-> Unread]
      /\ judged = [n \in Files |-> "unread"]
  BY DEF EvidenceInit, EvidenceEmpty
<1>3. judged \in [Files -> Judgements] /\ \A n \in Files : judged[n] = "unread"
  BY <1>2 DEF Judgements
<1>4. versions \in [Locators -> Contents] /\ DOMAIN cache = Locators
  BY <1>1, <1>2
<1>5. DOMAIN directory = Files /\ \A n \in Files : directory[n] \in {Vacant, Garbled}
  BY <1>2
<1>. QED  BY <1>3, <1>4, <1>5 DEF EvidenceInv

\* The first reading of a scope file stands until the inspection ends.
LEMMA EvidenceKept == EvidenceInv /\ [EvidenceNext]_evidenceVars => EvidenceInv'
<1>. SUFFICES ASSUME EvidenceInv, [EvidenceNext]_evidenceVars  PROVE  EvidenceInv'
  OBVIOUS
<1>. USE DEF EvidenceInv
<1>1. CASE UNCHANGED evidenceVars
  BY <1>1 DEF evidenceVars, IsEnvelope
<1>2. CASE StartInspection \/ EndInspection
  BY <1>2 DEF StartInspection, EndInspection, Judgements, Files
<1>3. CASE Inspect
  <2>1. /\ reading \in Files /\ reading' = reading + 1 /\ UNCHANGED directory
        /\ judged[reading] = "unread"
    <3>1. reading \in Files /\ reading' = reading + 1 /\ UNCHANGED directory
      BY <1>3 DEF Inspect
    <3>2. reading >= reading
      BY <3>1, EvidenceAssumption DEF Files
    <3>. QED  BY <3>1, <3>2
  <2>2. CASE IsEnvelope(reading)
    <3>. DEFINE e == directory[reading]
    <3>1. /\ judged' = [judged EXCEPT ![reading] = Judge(e)]
          /\ cache' = [cache EXCEPT ![e.scope] = ReadScope(e.scope)]
      BY <1>3, <2>2 DEF Inspect
    <3>2. e \in Envelope /\ e.scope \in Locators
      BY <2>1, <2>2 DEF IsEnvelope, Envelope
    <3>3. Judge(e) \in Judgements
      BY DEF Judge, Judgements
    <3>4. Judge(e) = "valid" => /\ e.digest # Flaw
                                /\ e.status = "current" => e.digest = ReadScope(e.scope)
      BY DEF Judge
    <3>5. ReadScope(e.scope) # Unread
      BY <3>2, UnreadAssumption DEF ReadScope
    <3>6. cache[e.scope] # Unread => ReadScope(e.scope) = cache[e.scope]
      BY DEF ReadScope
    <3>7. ASSUME NEW n \in Files, judged'[n] = "valid"
          PROVE  /\ IsEnvelope(n)
                 /\ cache'[directory[n].scope] # Unread
                 /\ directory[n].digest # Flaw
                 /\ directory[n].status = "current" =>
                       directory[n].digest = cache'[directory[n].scope]
      <4>1. CASE n = reading
        BY <2>2, <3>1, <3>2, <3>4, <3>5, <3>7, <4>1
      <4>2. CASE n # reading
        <5>1. judged[n] = "valid"
          BY <3>1, <3>7, <4>2
        <5>2. cache'[directory[n].scope] = cache[directory[n].scope]
          BY <3>1, <3>2, <3>6, <5>1
        <5>. QED  BY <5>1, <5>2
      <4>. QED  BY <4>1, <4>2
    <3>8. /\ judged' \in [Files -> Judgements] /\ DOMAIN cache' = Locators
          /\ UNCHANGED versions
      BY <1>3, <3>1, <3>3 DEF Inspect
    <3>9. ASSUME NEW n \in Files, reading' = 0 \/ n >= reading'
          PROVE  judged'[n] = "unread"
      <4>1. n # reading /\ n >= reading
        BY <2>1, <3>9 DEF Files
      <4>. QED  BY <3>1, <4>1
    <3>. QED  BY <2>1, <3>7, <3>8, <3>9 DEF IsEnvelope
  <2>3. CASE ~IsEnvelope(reading)
    <3>1. /\ UNCHANGED <<cache, versions>>
          /\ \E j \in {"unread", "unknown"} : judged' = [judged EXCEPT ![reading] = j]
      BY <1>3, <2>3 DEF Inspect
    <3>2. ASSUME NEW n \in Files, reading' = 0 \/ n >= reading'
          PROVE  judged'[n] = "unread"
      <4>1. n # reading /\ n >= reading
        BY <2>1, <3>2 DEF Files
      <4>. QED  BY <3>1, <4>1
    <3>3. judged' \in [Files -> Judgements]
      BY <3>1 DEF Judgements
    <3>4. \A n \in Files : judged'[n] = "valid" => judged[n] = "valid"
      BY <3>1
    <3>. QED  BY <2>1, <3>1, <3>2, <3>3, <3>4 DEF IsEnvelope
  <2>. QED  BY <2>2, <2>3
<1>4. CASE \/ \E n \in Files, e \in Envelope \cup {Garbled} : Put(n, e)
           \/ \E n \in Files : Clear(n)
  <2>1. /\ reading = 0 /\ UNCHANGED <<versions, reading, cache, judged>>
        /\ \E n \in Files, e \in Envelope \cup {Vacant, Garbled} :
              directory' = [directory EXCEPT ![n] = e]
    BY <1>4 DEF Put, Clear
  <2>2. \A n \in Files : judged[n] # "valid"
    BY <2>1
  <2>3. /\ DOMAIN directory' = Files
        /\ \A n \in Files : directory'[n] \in Envelope \cup {Vacant, Garbled}
    BY <2>1
  <2>. QED  BY <2>1, <2>2, <2>3
<1>5. CASE \E l \in Locators, content \in Contents : Edit(l, content)
  BY <1>5 DEF Edit, IsEnvelope
<1>. QED  BY <1>1, <1>2, <1>3, <1>4, <1>5 DEF EvidenceNext

\* The two reports on the evidence agree, and each is about one state of the
\* files.
LEMMA EvidenceInvTrue == EvidenceInv => PassSatisfies /\ SatisfiedByOneState
<1>. SUFFICES ASSUME EvidenceInv  PROVE  PassSatisfies /\ SatisfiedByOneState
  OBVIOUS
<1>1. PassSatisfies
  <2>. SUFFICES ASSUME EvidenceStatus = "pass", NEW t \in Required
                PROVE  Commitment(t) = "satisfied"
    BY DEF PassSatisfies
  <2>1. Complaints = {}
    BY DEF EvidenceStatus
  <2>2. /\ Garbage = {}
        /\ \A n \in Records : judged[n] \notin {"stale", "unknown"}
    <3>1. "corrupt" \notin Complaints
      BY <2>1
    <3>. QED  BY <3>1 DEF Complaints
  <2>3. (\A n \in Records : ~Conflicting(n)) /\ ~Doubled(t)
    <3>1. "conflict" \notin Complaints
      BY <2>1
    <3>. QED  BY <3>1 DEF Complaints
  <2>4. \A n \in Records : judged[n] # "outdated"
    <3>1. "stale" \notin Complaints
      BY <2>1
    <3>. QED  BY <3>1 DEF Complaints
  <2>5. /\ Current(t) # {}
        /\ \A n \in Current(t) : directory[n].result # "unknown"
    <3>1. "unknown" \notin Complaints
      BY <2>1
    <3>. QED  BY <3>1 DEF Complaints, Current
  <2>6. \A n \in Current(t) : n \in Records /\ directory[n].result # "fail"
    BY <2>3 DEF Current, Conflicting
  <2>. QED
    BY <2>2, <2>3, <2>4, <2>5, <2>6 DEF Commitment, IsStale, SomeResult
<1>2. SatisfiedByOneState
  <2>. SUFFICES ASSUME NEW t \in Required, Commitment(t) = "satisfied"
                PROVE  /\ Current(t) # {}
                       /\ \A m, n \in Current(t) :
                             directory[m].scope = directory[n].scope
                                => directory[m].digest = directory[n].digest
                       /\ \A n \in Current(t) : directory[n].digest # Flaw
    BY DEF SatisfiedByOneState
  <2>1. /\ Current(t) # {}
        /\ \A n \in Current(t) : ~IsStale(n) /\ judged[n] # "unknown"
    BY DEF Commitment
  <2>2. ASSUME NEW n \in Current(t)
        PROVE  /\ directory[n].digest # Flaw
               /\ directory[n].digest = cache[directory[n].scope]
    <3>1. n \in Files /\ judged[n] # "unread" /\ directory[n].status = "current"
      BY DEF Current, Records
    <3>2. judged[n] = "valid"
      BY <2>1, <3>1 DEF IsStale, EvidenceInv, Judgements
    <3>. QED  BY <3>1, <3>2 DEF EvidenceInv
  <2>. QED  BY <2>1, <2>2
<1>. QED  BY <1>1, <1>2

\* The types of inspect-evidence, under every step.
LEMMA EvidenceTypesKept ==
    EvidenceTypeOK /\ [EvidenceNext]_evidenceVars => EvidenceTypeOK'
<1>. SUFFICES ASSUME EvidenceTypeOK, [EvidenceNext]_evidenceVars  PROVE EvidenceTypeOK'
  OBVIOUS
<1>. USE DEF EvidenceTypeOK
<1>1. MaxFiles \in Nat
  BY EvidenceAssumption
<1>2. CASE StartInspection \/ EndInspection
  BY <1>1, <1>2 DEF StartInspection, EndInspection, Judgements
<1>3. CASE Inspect
  <2>1. reading' \in 0 .. MaxFiles + 1 /\ reading \in Files
    BY <1>1, <1>3 DEF Inspect, Files
  <2>2. ASSUME IsEnvelope(reading)
        PROVE  cache' \in [Locators -> Contents \cup {Unread}] /\ judged' \in [Files -> Judgements]
    <3>. DEFINE e == directory[reading]
    <3>1. e \in Envelope /\ e.scope \in Locators
      BY <2>1, <2>2 DEF IsEnvelope, Envelope
    <3>. HIDE DEF e
    <3>2. ReadScope(e.scope) \in Contents \cup {Unread} /\ Judge(e) \in Judgements
      BY <3>1 DEF ReadScope, Judge, Judgements
    <3>3. judged' = [judged EXCEPT ![reading] = Judge(e)]
          /\ cache' = [cache EXCEPT ![e.scope] = ReadScope(e.scope)]
      BY <1>3, <2>2 DEF Inspect, e
    <3>. QED  BY <2>1, <3>1, <3>2, <3>3
  <2>3. ASSUME ~IsEnvelope(reading)
        PROVE  cache' \in [Locators -> Contents \cup {Unread}] /\ judged' \in [Files -> Judgements]
    BY <1>3, <2>1, <2>3 DEF Inspect, Judgements
  <2>. QED  BY <1>3, <2>1, <2>2, <2>3 DEF Inspect
<1>4. ASSUME NEW n \in Files, NEW e \in Envelope \cup {Garbled}, Put(n, e)
      PROVE  EvidenceTypeOK'
  BY <1>4 DEF Put
<1>5. ASSUME NEW n \in Files, Clear(n)  PROVE EvidenceTypeOK'
  BY <1>5 DEF Clear
<1>6. ASSUME NEW l \in Locators, NEW content \in Contents, Edit(l, content)
      PROVE  EvidenceTypeOK'
  BY <1>6 DEF Edit
<1>7. CASE UNCHANGED evidenceVars
  BY <1>7 DEF evidenceVars
<1>. QED  BY <1>2, <1>3, <1>4, <1>5, <1>6, <1>7 DEF EvidenceNext

\* At first there are no envelopes.
LEMMA EvidenceTypesInitial == EvidenceInit => EvidenceTypeOK
<1>1. 0 \in Contents /\ 0 \in 0 .. MaxFiles + 1
  BY EvidenceAssumption DEF Contents, Versions
<1>. QED  BY <1>1 DEF EvidenceInit, EvidenceEmpty, EvidenceTypeOK, Judgements

-------------------------------------------------------------------------------
(* Reconciler.tla *)

\* Until something changes, what sync and closeout have written is as it was.
ReconcilerInv ==
    /\ ReconcilerTypeOK
    /\ synced => /\ progress = SummaryNow
                 /\ \A v \in ViewNames : viewsNow[v] = FingerprintNow(v)
                 /\ organised
    /\ closed => /\ closeoutNow \in Closing
                 /\ closeoutNow.of = FingerprintNow("closeout")
                 /\ \A i \in closeoutNow.completed : taskTable[i] = "Done"
                 /\ \A i \in closeoutNow.unfinished : taskTable[i] # "Done"

\* What is derived from the sources has the types of the derived files.
LEMMA DerivedTypes ==
    ASSUME ReconcilerTypeOK
    PROVE  SummaryNow \in Summary /\ \A v : FingerprintNow(v) \in Fingerprint
<1>1. \A s : Listed(s) \subseteq Ids
  BY DEF Listed, ReconcilerTypeOK
<1>2. \A s : FoundIn(Listed(s)) \subseteq Ids
  BY <1>1 DEF FoundIn, ReconcilerTypeOK
<1>3. FoundIn(Active) \subseteq Ids /\ FoundIn(Blocked) \subseteq Ids /\ Done \subseteq Ids
  BY <1>2 DEF Active, Blocked, Done, ReconcilerTypeOK
<1>4. SummaryNow \in Summary
  BY <1>3 DEF SummaryNow, Summary
<1>5. \A v : FingerprintNow(v) \in Fingerprint
  BY ReconcilerAssumption DEF FingerprintNow, Fingerprint, ReconcilerTypeOK
<1>. QED  BY <1>4, <1>5

\* While changes are left, either version can be counted up.
LEMMA OneMoreChange ==
    ASSUME ReconcilerTypeOK, project + notes < MaxChanges
    PROVE  project + 1 \in 0 .. MaxChanges /\ notes + 1 \in 0 .. MaxChanges
<1>1. project \in 0 .. MaxChanges /\ notes \in 0 .. MaxChanges /\ MaxChanges \in Nat
  BY ReconcilerAssumption DEF ReconcilerTypeOK
<1>. QED  BY <1>1

\* Nothing is written in the beginning.
LEMMA ReconcilerInitial == ReconcilerInit => ReconcilerInv
<1>. SUFFICES ASSUME ReconcilerInit  PROVE  ReconcilerInv
  OBVIOUS
<1>1. /\ project = 0 /\ notes = 0 /\ closeoutNow = Absent
      /\ organised = FALSE /\ synced = FALSE /\ closed = FALSE
  BY DEF ReconcilerInit, ReconcilerFiles
<1>2. {project, notes} \subseteq 0 .. MaxChanges
  BY <1>1, ReconcilerAssumption
<1>3. taskTable \in Table /\ titles \in [Ids -> SUBSET Ids] /\ leaves \subseteq Ids
  <2>1. taskTable \in [Ids -> FirstStatuses] /\ FirstStatuses \subseteq TaskStatus
    BY ReconcilerAssumption DEF ReconcilerInit
  <2>2. taskTable \in [Ids -> TaskStatus]
    BY <2>1
  <2>. QED  BY <2>2 DEF ReconcilerInit, Table
<1>4. /\ progress \in {Absent, Own, Damaged}
      /\ \A v \in ViewNames : viewsNow[v] \in {Absent, Own}
  BY DEF ReconcilerInit
<1>5. ReconcilerTypeOK
  BY <1>1, <1>2, <1>3, <1>4 DEF ReconcilerTypeOK
<1>. QED  BY <1>1, <1>5 DEF ReconcilerInv

\* Every change of a source takes the marks of what it makes out of date.
LEMMA ReconcilerKept == ReconcilerInv /\ [ReconcilerNext]_reconcilerVars => ReconcilerInv'
<1>. SUFFICES ASSUME ReconcilerInv, [ReconcilerNext]_reconcilerVars
              PROVE  ReconcilerInv'
  OBVIOUS
<1>. USE DEF ReconcilerInv
<1>1. CASE UNCHANGED reconcilerVars
  <2>1. /\ UNCHANGED <<taskTable, titles, leaves, project, notes>>
        /\ UNCHANGED <<progress, viewsNow, organised, synced, closeoutNow, closed>>
    BY <1>1 DEF reconcilerVars, sourceVars
  <2>2. SummaryNow' = SummaryNow /\ \A v \in ViewNames \cup {"closeout"} :
                                       FingerprintNow(v)' = FingerprintNow(v)
    BY <2>1 DEF SummaryNow, FoundIn, Active, Blocked, Listed, Done, FingerprintNow
  <2>3. ReconcilerTypeOK'
    BY <2>1 DEF ReconcilerTypeOK
  <2>. QED  BY <2>1, <2>2, <2>3
<1>2. CASE SyncFiles
  <2>1. /\ UNCHANGED <<taskTable, titles, leaves, project, notes, closeoutNow, closed>>
        /\ progress' \in {progress, SummaryNow} /\ organised' = TRUE
        /\ synced' \in BOOLEAN
        /\ \A v \in ViewNames : viewsNow'[v] \in {viewsNow[v], FingerprintNow(v)}
        /\ synced' => /\ progress' = SummaryNow
                      /\ \A v \in ViewNames : viewsNow'[v] = FingerprintNow(v)
    BY <1>2 DEF SyncFiles, sourceVars
  <2>2. SummaryNow' = SummaryNow /\ \A v \in ViewNames \cup {"closeout"} :
                                       FingerprintNow(v)' = FingerprintNow(v)
    BY <2>1 DEF SummaryNow, FoundIn, Active, Blocked, Listed, Done, FingerprintNow
  <2>3. ReconcilerTypeOK'
    BY <2>1, DerivedTypes DEF ReconcilerTypeOK
  <2>. QED  BY <2>1, <2>2, <2>3
<1>3. ASSUME NEW i \in Ids, NEW completed \in {{}, {i}}, NEW unfinished \in {{}, {i}},
             CloseOut(completed, unfinished)
      PROVE  ReconcilerInv'
  <2>1. /\ UNCHANGED <<taskTable, titles, leaves, project, notes, progress, viewsNow,
                       organised, synced>>
        /\ closeoutNow' = [completed |-> completed, unfinished |-> unfinished,
                           of |-> FingerprintNow("closeout")]
        /\ closed' \in BOOLEAN
        /\ closed' => /\ \A j \in completed : taskTable[j] = "Done"
                      /\ \A j \in unfinished : taskTable[j] # "Done"
    BY <1>3 DEF CloseOut, sourceVars
  <2>2. closeoutNow' \in Closing
    BY <2>1, DerivedTypes DEF Closing
  <2>3. SummaryNow' = SummaryNow /\ \A v \in ViewNames \cup {"closeout"} :
                                       FingerprintNow(v)' = FingerprintNow(v)
    BY <2>1 DEF SummaryNow, FoundIn, Active, Blocked, Listed, Done, FingerprintNow
  <2>4. ReconcilerTypeOK'
    BY <2>1, <2>2 DEF ReconcilerTypeOK
  <2>. QED  BY <2>1, <2>2, <2>3, <2>4
<1>4. CASE OldCloseout
  <2>1. /\ UNCHANGED <<taskTable, titles, leaves, project, notes, progress, viewsNow,
                       organised, synced>>
        /\ closeoutNow' \in Closing \cup {Damaged} /\ closed' = FALSE
    BY <1>4 DEF OldCloseout, sourceVars, Closing
  <2>2. SummaryNow' = SummaryNow /\ \A v \in ViewNames : FingerprintNow(v)' = FingerprintNow(v)
    BY <2>1 DEF SummaryNow, FoundIn, Active, Blocked, Listed, Done, FingerprintNow
  <2>3. ReconcilerTypeOK'
    BY <2>1 DEF ReconcilerTypeOK
  <2>. QED  BY <2>1, <2>2, <2>3
<1>5. ASSUME NEW i \in Ids, NEW s \in TaskStatus, MoveTask(i, s)
      PROVE  ReconcilerInv'
  <2>1. /\ synced' = FALSE /\ closed' = FALSE /\ notes' = notes + 1
        /\ UNCHANGED <<titles, leaves, project, progress, viewsNow, closeoutNow, organised>>
        /\ taskTable' = [taskTable EXCEPT ![i] = s]
    BY <1>5 DEF MoveTask
  <2>2. notes + 1 \in 0 .. MaxChanges
    BY <1>5, OneMoreChange DEF MoveTask
  <2>3. taskTable' \in Table
    BY <2>1 DEF Table, ReconcilerTypeOK
  <2>4. ReconcilerTypeOK'
    BY <2>1, <2>2, <2>3 DEF ReconcilerTypeOK
  <2>. QED  BY <2>1, <2>4
<1>6. CASE EditProject
  <2>1. /\ synced' = FALSE /\ closed' = FALSE /\ project' = project + 1
        /\ UNCHANGED <<taskTable, titles, leaves, notes, progress, viewsNow, closeoutNow,
                       organised>>
    BY <1>6 DEF EditProject
  <2>2. project + 1 \in 0 .. MaxChanges
    BY <1>6, OneMoreChange DEF EditProject
  <2>3. ReconcilerTypeOK'
    BY <2>1, <2>2 DEF ReconcilerTypeOK
  <2>. QED  BY <2>1, <2>3
<1>7. CASE EditNotes
  <2>1. /\ synced' = FALSE /\ notes' = notes + 1
        /\ UNCHANGED <<taskTable, titles, leaves, project, progress, viewsNow, closeoutNow,
                       organised, closed>>
    BY <1>7 DEF EditNotes
  <2>2. notes + 1 \in 0 .. MaxChanges
    BY <1>7, OneMoreChange DEF EditNotes
  <2>3. FingerprintNow("closeout")' = FingerprintNow("closeout")
    BY <2>1 DEF FingerprintNow
  <2>4. ReconcilerTypeOK'
    BY <2>1, <2>2 DEF ReconcilerTypeOK
  <2>. QED  BY <2>1, <2>3, <2>4
<1>8. CASE Midnight
  BY <1>8 DEF Midnight, ReconcilerTypeOK, sourceVars, FingerprintNow
<1>. QED
  BY <1>1, <1>2, <1>3, <1>4, <1>5, <1>6, <1>7, <1>8 DEF ReconcilerNext

\* What was written last passes its checks.
LEMMA ReconcilerInvPasses == ReconcilerInv => WrittenPasses
<1>. SUFFICES ASSUME ReconcilerInv  PROVE  WrittenPasses
  OBVIOUS
<1>1. SummaryNow \in Summary /\ \A v : FingerprintNow(v) \in Fingerprint
  BY DerivedTypes DEF ReconcilerInv
<1>2. ASSUME synced, Unambiguous
      PROVE  /\ ProgressCheck = "pass" /\ DayCheck = "pass"
             /\ \A v \in ViewNames : ViewCheck(v) = "pass"
  <2>1. progress = SummaryNow /\ progress \notin {Absent, Own, Damaged}
    BY <1>1, <1>2, MarksAssumption DEF ReconcilerInv
  <2>2. /\ progress.active = Active /\ progress.blocked = Blocked /\ progress.done = Done
    BY <1>2, <2>1 DEF SummaryNow, Unambiguous
  <2>3. \A i : ~(i \in Active /\ taskTable[i] = "Blocked") /\ ~(i \in Active /\ i \in Blocked)
    BY DEF Active, Blocked, Listed
  <2>4. ProgressCheck = "pass"
    BY <2>1, <2>2, <2>3 DEF ProgressCheck
  <2>5. ASSUME NEW v \in ViewNames  PROVE  ViewCheck(v) = "pass"
    BY <1>1, <1>2, MarksAssumption DEF ReconcilerInv, ViewCheck
  <2>. QED  BY <1>2, <2>4, <2>5 DEF DayCheck, ReconcilerInv
<1>3. ASSUME closed  PROVE  CloseoutCheck = "pass"
  <2>1. closeoutNow \notin {Absent, Damaged}
    BY <1>3, MarksAssumption DEF ReconcilerInv
  <2>2. ~Contradicts(closeoutNow)
    BY <1>3 DEF ReconcilerInv, Contradicts
  <2>. QED  BY <1>3, <2>1, <2>2 DEF CloseoutCheck, ReconcilerInv
<1>4. "brief" \in ViewNames
  BY DEF ViewNames
<1>5. ASSUME synced, closed, Unambiguous  PROVE  Reconcile("pass", "pass") = "pass"
  <2>1. {"pass", ProgressCheck, CloseoutCheck, DayCheck, "pass"}
           \cup {ViewCheck(v) : v \in ViewNames} = {"pass"}
    BY <1>2, <1>3, <1>5
  <2>. QED  BY <2>1 DEF Reconcile, Worst
<1>6. synced /\ Unambiguous =>
         {ProgressCheck, DayCheck} \cup {ViewCheck(v) : v \in ViewNames} = {"pass"}
  BY <1>2
<1>. QED  BY <1>3, <1>5, <1>6 DEF WrittenPasses

-------------------------------------------------------------------------------
(* ResumePacket.tla *)

\* What the sections take up is a number.
LEMMA TextIsNumber ==
    ASSUME NEW sizes \in [Sections -> Nat]
    PROVE  TextSize(sizes) \in Nat
<1>1. IsFiniteSet(Sections)
  <2>1. 6 \in Nat
    OBVIOUS
  <2>. QED  BY <2>1, IntervalGrows DEF Sections
<1>2. PICK h : IsChoiceSum(h, Sections, sizes) /\ TextSize(sizes) = h[Sections]
  <2>1. \E h : IsChoiceSum(h, Sections, sizes)
    BY <1>1, ChosenSum
  <2>. QED  BY <2>1 DEF IsChoiceSum, TextSize, MapThenSumSet, MapThenFoldSet
<1>3. IsSum(h, Sections, sizes)
  BY <1>1, <1>2, ChosenSum
<1>4. h[Sections] \in Nat
  BY <1>3 DEF IsSum
<1>. QED  BY <1>2, <1>4

\* The prints are of sources as they were meanwhile.
PrintsAreMoments(p) ==
    /\ IsFiniteSet(moments)
    /\ p.step \in {"print", "board", "missing", "brief", "working"} => SourcesNow \in moments
    /\ p.step # "print" => p.print \in moments
    /\ p.step \notin {"print", "board"} => \E m \in moments : m.board = p.boardPrint

\* A file that was not found is to be read next.
AbsentIsNamed(p) ==
    /\ p.step \notin {"print", "board", "missing", "brief"} => 2 \in p.found \cup p.readNext
    /\ p.step \notin {"print", "board", "missing", "brief", "working"} =>
          3 \in p.found \cup p.readNext
    /\ p.step \notin {"print", "board", "missing", "brief", "working", "others"} =>
          4 \in p.found \cup p.readNext
    /\ 1 \in p.readNext =>
          p.bad /\ p.step \in {"snapshot", "assemble", "fit", "told", "refused"}

\* The sections are cut from the last one.
CutFromTheEnd(p) ==
    p.step \in {"fit", "told", "refused"} =>
        /\ \A s \in Sections : p.sizes[s] <= p.full[s] /\ (p.sizes[s] < p.full[s] => s \in p.cut)
        /\ \A s, r \in Sections : p.sizes[s] < p.full[s] /\ p.sizes[r] > 0 => r <= s
        /\ p.object < p.full[1] => 1 \in p.cut
        /\ p.step = "fit" => p.object = p.full[1]
        /\ p.step = "told" => Total(p) <= PacketLimit

PacketInv(p) == PrintsAreMoments(p) /\ AbsentIsNamed(p) /\ CutFromTheEnd(p)

ResumeInv == ResumeTypeOK /\ (packet # NoPacket => PacketInv(packet))

\* At first no packet is being made.
LEMMA ResumeInitial == ResumeInit => ResumeInv
<1>. SUFFICES ASSUME ResumeInit  PROVE ResumeInv
  OBVIOUS
<1>1. 0 \in 0 .. MaxEdits
  BY ResumeAssumption
<1>. QED  BY <1>1 DEF ResumeInit, ResumeEmpty, ResumeInv, ResumeTypeOK, SourcesNow, Sources, Boards

\* The total of a packet is a number.
LEMMA TotalIsNumber ==
    ASSUME NEW p \in Packet
    PROVE  Total(p) \in Nat
<1>1. /\ p.overhead \in Nat /\ p.object \in Nat /\ p.sizes \in [Sections -> Nat]
      /\ p.readNext \cup p.cut \subseteq 0 .. 6
  <2>1. /\ p.overhead \in Overheads \cup {0} /\ p.object \in Nat /\ p.sizes \in [Sections -> Nat]
        /\ p.readNext \subseteq Names /\ p.cut \subseteq Sections
    BY DEF Packet
  <2>2. Names \subseteq 0 .. 6 /\ Sections \subseteq 0 .. 6
    BY DEF Names, Sections
  <2>3. p.overhead \in Nat
    <3>1. Overheads \subseteq Nat /\ 0 \in Nat
      BY ResumeAssumption
    <3>2. p.overhead \in Overheads \cup {0}
      BY <2>1
    <3>. QED  BY <3>1, <3>2
  <2>4. p.readNext \cup p.cut \subseteq 0 .. 6
    BY <2>1, <2>2
  <2>. QED  BY <2>1, <2>3, <2>4
<1>2. IsFiniteSet(p.readNext \cup p.cut)
  <2>1. IsFiniteSet(0 .. 6)
    <3>1. 0 \in Int /\ 6 \in Int
      OBVIOUS
    <3>. QED  BY <3>1, FS_Interval
  <2>. QED  BY <1>1, <2>1, FS_Subset
<1>3. Cardinality(p.readNext \cup p.cut) \in Nat /\ TextSize(p.sizes) \in Nat
  BY <1>1, <1>2, FS_CardinalityType, TextIsNumber
<1>. QED  BY <1>1, <1>3 DEF Total

\* A packet starts with the sources as they are.
LEMMA StartKept ==
    ASSUME ResumeInv, StartPacket
    PROVE  ResumeInv'
<1>1. UnreadPacket \in Packet
  BY ResumeAssumption DEF UnreadPacket, Packet, PacketSteps, Sources, Boards, Names, Sections
<1>2. IsFiniteSet({SourcesNow}) /\ SourcesNow \in Sources
  BY FS_Singleton DEF ResumeInv, ResumeTypeOK
<1>3. /\ packet' = UnreadPacket /\ moments' = {SourcesNow} /\ SourcesNow' = SourcesNow
      /\ UNCHANGED <<others, board, syncRead, brief, working>>
  BY DEF StartPacket, SourcesNow
<1>4. ResumeTypeOK'
  BY <1>1, <1>2, <1>3 DEF ResumeInv, ResumeTypeOK
<1>5. PacketInv(UnreadPacket)'
  <2>1. UnreadPacket.step = "print" /\ UnreadPacket.readNext = {}
    BY DEF UnreadPacket
  <2>. QED  BY <1>2, <1>3, <2>1 DEF PacketInv, PrintsAreMoments, AbsentIsNamed, CutFromTheEnd
<1>. QED  BY <1>3, <1>4, <1>5 DEF ResumeInv

\* The steps that read are about the packet alone.
LEMMA ProceedKept ==
    ASSUME ResumeInv, NEW p, Proceed(p), p \in Packet, PacketInv(p)
    PROVE  ResumeInv'
<1>1. /\ packet' = p /\ UNCHANGED <<others, board, syncRead, brief, working, moments>>
      /\ SourcesNow' = SourcesNow
  BY DEF Proceed, SourcesNow
<1>2. ResumeTypeOK'
  BY <1>1 DEF ResumeInv, ResumeTypeOK
<1>3. PacketInv(packet)'
  BY <1>1 DEF PacketInv, PrintsAreMoments, AbsentIsNamed, CutFromTheEnd, Total
<1>. QED  BY <1>2, <1>3 DEF ResumeInv

\* The prints are taken while the sources are watched.
LEMMA PrintKept ==
    ASSUME ResumeInv, ReadPrint \/ ReadBoard \/ (\E gone \in BOOLEAN : FindMissing(gone))
    PROVE  ResumeInv'
<1>1. packet \in Packet /\ PacketInv(packet) /\ SourcesNow \in Sources /\ board \in Boards
  BY DEF ReadPrint, ReadBoard, FindMissing, At, ResumeInv, ResumeTypeOK, SourcesNow, Sources, Boards
<1>2. CASE ReadPrint
  <2>. DEFINE p == [packet EXCEPT !.step = "board", !.print = SourcesNow]
  <2>1. /\ p \in Packet /\ p.step = "board" /\ p.print = SourcesNow /\ p.readNext = packet.readNext
        /\ packet.step = "print" /\ Proceed(p)
    BY <1>1, <1>2 DEF ReadPrint, At, Packet, PacketSteps
  <2>. HIDE DEF p
  <2>2. PacketInv(p)
    BY <1>1, <2>1 DEF PacketInv, PrintsAreMoments, AbsentIsNamed, CutFromTheEnd
  <2>. QED  BY <2>1, <2>2, ProceedKept
<1>3. CASE ReadBoard
  <2>. DEFINE p == [packet EXCEPT !.step = "missing", !.boardPrint = board]
  <2>1. /\ p \in Packet /\ p.step = "missing" /\ p.print = packet.print /\ p.boardPrint = board
        /\ p.readNext = packet.readNext /\ packet.step = "board" /\ Proceed(p)
    BY <1>1, <1>3 DEF ReadBoard, At, Packet, PacketSteps
  <2>. HIDE DEF p
  <2>2. SourcesNow.board = board
    BY DEF SourcesNow
  <2>3. PacketInv(p)
    BY <1>1, <2>1, <2>2 DEF PacketInv, PrintsAreMoments, AbsentIsNamed, CutFromTheEnd
  <2>. QED  BY <2>1, <2>3, ProceedKept
<1>4. ASSUME NEW gone \in BOOLEAN, FindMissing(gone)  PROVE ResumeInv'
  <2>. DEFINE p == [packet EXCEPT !.step = "brief",
                                  !.missing = gone \/ NoText \in {brief, working}]
  <2>1. /\ p \in Packet /\ p.step = "brief" /\ p.print = packet.print
        /\ p.boardPrint = packet.boardPrint
        /\ p.readNext = packet.readNext /\ packet.step = "missing" /\ Proceed(p)
    BY <1>1, <1>4 DEF FindMissing, At, Packet, PacketSteps
  <2>. HIDE DEF p
  <2>2. PacketInv(p)
    BY <1>1, <2>1 DEF PacketInv, PrintsAreMoments, AbsentIsNamed, CutFromTheEnd
  <2>. QED  BY <2>1, <2>2, ProceedKept
<1>. QED  BY <1>2, <1>3, <1>4

\* A section is found, or named.
LEMMA TakeNames ==
    ASSUME NEW p \in Packet, NEW s \in Sections, NEW q,
           q = [p EXCEPT !.found = @ \cup {s}] \/ q = [p EXCEPT !.readNext = @ \cup {s}]
    PROVE  /\ q \in Packet
           /\ q.step = p.step /\ q.print = p.print /\ q.boardPrint = p.boardPrint
           /\ q.bad = p.bad
           /\ q.found \cup q.readNext = p.found \cup p.readNext \cup {s}
           /\ q.readNext \subseteq p.readNext \cup {s}
BY DEF Packet, Names

\* The brief and the working set are found or named.
LEMMA ReadViewsKept ==
    ASSUME ResumeInv, ReadBrief \/ ReadWorking
    PROVE  ResumeInv'
<1>1. packet \in Packet /\ PacketInv(packet)
  BY DEF ReadBrief, ReadWorking, At, ResumeInv, ResumeTypeOK
<1>2. brief \in Sources \cup {NoText} /\ working \in Boards \cup {NoText}
  BY DEF ResumeInv, ResumeTypeOK
<1>3. 2 \in Sections /\ 3 \in Sections
  BY DEF Sections
<1>4. CASE ReadBrief
  <2>. DEFINE p == [packet EXCEPT !.step = "working", !.brief = brief]
              q == Take(p, 2, brief # NoText)
  <2>1. /\ p \in Packet /\ p.step = "working" /\ p.print = packet.print
        /\ p.boardPrint = packet.boardPrint /\ p.bad = packet.bad
        /\ p.readNext = packet.readNext /\ packet.step = "brief"
    BY <1>1, <1>2, <1>4 DEF ReadBrief, At, Packet, PacketSteps
  <2>2. Proceed(q)
    BY <1>4 DEF ReadBrief
  <2>. HIDE DEF p
  <2>5. q = [p EXCEPT !.found = @ \cup {2}] \/ q = [p EXCEPT !.readNext = @ \cup {2}]
    BY DEF Take
  <2>. HIDE DEF q
  <2>3. /\ q \in Packet /\ q.step = "working" /\ q.print = packet.print
        /\ q.boardPrint = packet.boardPrint
        /\ 2 \in q.found \cup q.readNext /\ (1 \in q.readNext => 1 \in packet.readNext)
    BY <1>3, <2>1, <2>5, TakeNames
  <2>4. PacketInv(q)
    BY <1>1, <2>1, <2>3 DEF PacketInv, PrintsAreMoments, AbsentIsNamed, CutFromTheEnd
  <2>. QED  BY <2>2, <2>3, <2>4, ProceedKept
<1>5. CASE ReadWorking
  <2>. DEFINE p == [packet EXCEPT !.step = "others", !.working = working]
              q == Take(p, 3, working # NoText)
  <2>1. /\ p \in Packet /\ p.step = "others" /\ p.print = packet.print
        /\ p.boardPrint = packet.boardPrint /\ p.bad = packet.bad
        /\ p.found = packet.found
        /\ p.readNext = packet.readNext /\ packet.step = "working"
    BY <1>1, <1>2, <1>5 DEF ReadWorking, At, Packet, PacketSteps
  <2>2. Proceed(q)
    BY <1>5 DEF ReadWorking
  <2>. HIDE DEF p
  <2>5. q = [p EXCEPT !.found = @ \cup {3}] \/ q = [p EXCEPT !.readNext = @ \cup {3}]
    BY DEF Take
  <2>. HIDE DEF q
  <2>3. /\ q \in Packet /\ q.step = "others" /\ q.print = packet.print
        /\ q.boardPrint = packet.boardPrint
        /\ 3 \in q.found \cup q.readNext /\ (1 \in q.readNext => 1 \in packet.readNext)
        /\ (2 \in packet.found \cup packet.readNext => 2 \in q.found \cup q.readNext)
    BY <1>3, <2>1, <2>5, TakeNames
  <2>4. PacketInv(q)
    BY <1>1, <2>1, <2>3 DEF PacketInv, PrintsAreMoments, AbsentIsNamed, CutFromTheEnd
  <2>. QED  BY <2>2, <2>3, <2>4, ProceedKept
<1>. QED  BY <1>4, <1>5

\* The lessons are found or named.
LEMMA ReadOthersKept ==
    ASSUME ResumeInv, NEW lessons \in BOOLEAN, NEW dated \in BOOLEAN, NEW cards \in Findings,
           ReadOthers(lessons, dated, cards)
    PROVE  ResumeInv'
<1>1. packet \in Packet /\ PacketInv(packet) /\ packet.step = "others"
  BY DEF ReadOthers, At, ResumeInv, ResumeTypeOK
<1>. DEFINE p == [packet EXCEPT !.step = "ledger"]
            q == Take(p, 4, lessons)
            bad == (~dated \/ cards = "invalid")
            r == [q EXCEPT !.found = @ \cup (IF cards = "absent" THEN {} ELSE {5}), !.bad = bad]
<1>2. /\ p \in Packet /\ p.step = "ledger" /\ p.print = packet.print
      /\ p.boardPrint = packet.boardPrint /\ p.found = packet.found
      /\ p.readNext = packet.readNext
  BY <1>1 DEF Packet, PacketSteps
<1>3. Proceed(r)
  BY DEF ReadOthers
<1>. HIDE DEF p
<1>4. q = [p EXCEPT !.found = @ \cup {4}] \/ q = [p EXCEPT !.readNext = @ \cup {4}]
  BY DEF Take
<1>5. 4 \in Sections /\ 5 \in Sections
  BY DEF Sections
<1>. HIDE DEF q
<1>6. /\ q \in Packet /\ q.step = "ledger" /\ q.print = packet.print
      /\ q.boardPrint = packet.boardPrint
      /\ q.found \cup q.readNext = packet.found \cup packet.readNext \cup {4}
      /\ (1 \in q.readNext => 1 \in packet.readNext)
  BY <1>2, <1>4, <1>5, TakeNames
<1>7. /\ r.step = q.step /\ r.print = q.print /\ r.boardPrint = q.boardPrint
      /\ r.readNext = q.readNext /\ q.found \subseteq r.found
  BY <1>6 DEF Packet
<1>8. r \in Packet
  <2>1. bad \in BOOLEAN
    OBVIOUS
  <2>. HIDE DEF bad
  <2>. QED  BY <1>5, <1>6, <2>1 DEF Packet
<1>. HIDE DEF r
<1>9. PacketInv(r)
  BY <1>1, <1>6, <1>7 DEF PacketInv, PrintsAreMoments, AbsentIsNamed, CutFromTheEnd
<1>. QED  BY <1>3, <1>8, <1>9, ProceedKept

\* A ledger that cannot be read is named and falls back on the handoff.
LEMMA ReadLedgerKept ==
    ASSUME ResumeInv, NEW found \in Findings, ReadLedger(found) \/ ReadSnapshot(found)
    PROVE  ResumeInv'
<1>1. packet \in Packet /\ PacketInv(packet) /\ packet.step \in {"ledger", "snapshot"}
  BY DEF ReadLedger, ReadSnapshot, At, ResumeInv, ResumeTypeOK
<1>2. PICK q : /\ Proceed(q)
               /\ \/ q = [packet EXCEPT !.step = "snapshot"]
                  \/ q = [packet EXCEPT !.step = "snapshot", !.found = @ \cup {1}]
                  \/ q = [packet EXCEPT !.step = "snapshot", !.bad = TRUE,
                                        !.readNext = @ \cup {0, 1}]
                  \/ packet.step = "snapshot" /\ q = [packet EXCEPT !.step = "assemble"]
                  \/ /\ packet.step = "snapshot"
                     /\ q = [packet EXCEPT !.step = "assemble", !.found = @ \cup {6}]
                  \/ /\ packet.step = "snapshot"
                     /\ q = [packet EXCEPT !.step = "assemble", !.bad = TRUE,
                                           !.readNext = @ \cup {6}]
  <2>1. CASE ReadLedger(found)
    BY <2>1 DEF ReadLedger, Findings
  <2>2. CASE ReadSnapshot(found)
    BY <2>2 DEF ReadSnapshot, At, Findings
  <2>. QED  BY <2>1, <2>2
<1>3. /\ q \in Packet
      /\ q.print = packet.print /\ q.boardPrint = packet.boardPrint
      /\ q.step \in {"snapshot", "assemble"}
      /\ packet.found \cup packet.readNext \subseteq q.found \cup q.readNext
  <2>1. /\ {0, 1, 6} \subseteq Names /\ {1, 6} \subseteq Sections
        /\ "snapshot" \in PacketSteps /\ "assemble" \in PacketSteps
    BY DEF Names, Sections, PacketSteps
  <2>2. CASE q = [packet EXCEPT !.step = "snapshot"]
    BY <1>1, <2>1, <2>2 DEF Packet
  <2>3. CASE q = [packet EXCEPT !.step = "snapshot", !.found = @ \cup {1}]
    BY <1>1, <2>1, <2>3 DEF Packet
  <2>4. CASE q = [packet EXCEPT !.step = "snapshot", !.bad = TRUE, !.readNext = @ \cup {0, 1}]
    BY <1>1, <2>1, <2>4 DEF Packet
  <2>5. CASE q = [packet EXCEPT !.step = "assemble"]
    BY <1>1, <2>1, <2>5 DEF Packet
  <2>6. CASE q = [packet EXCEPT !.step = "assemble", !.found = @ \cup {6}]
    BY <1>1, <2>1, <2>6 DEF Packet
  <2>7. CASE q = [packet EXCEPT !.step = "assemble", !.bad = TRUE, !.readNext = @ \cup {6}]
    BY <1>1, <2>1, <2>7 DEF Packet
  <2>. QED  BY <1>2, <2>2, <2>3, <2>4, <2>5, <2>6, <2>7
<1>4. 1 \in q.readNext => q.bad
  BY <1>1, <1>2 DEF Packet, PacketInv, AbsentIsNamed
<1>5. PacketInv(q)
  BY <1>1, <1>3, <1>4 DEF PacketInv, PrintsAreMoments, AbsentIsNamed, CutFromTheEnd
<1>. QED  BY <1>2, <1>3, <1>5, ProceedKept

\* A packet begins with whole sections.
LEMMA AssembleKept ==
    ASSUME ResumeInv, NEW size \in [Sections -> Sizes], NEW overhead \in Overheads,
           Assemble(size, overhead)
    PROVE  ResumeInv'
<1>1. packet \in Packet /\ PacketInv(packet) /\ packet.step = "assemble"
  BY DEF Assemble, At, ResumeInv, ResumeTypeOK
<1>. DEFINE full == [s \in Sections |-> IF s \in packet.found THEN size[s] ELSE 0]
            q == [packet EXCEPT !.step = "fit", !.overhead = overhead, !.full = full,
                                !.sizes = full, !.object = full[1]]
<1>2. full \in [Sections -> Nat] /\ full[1] \in Nat
  <2>1. \A s \in Sections : size[s] \in Nat
    BY ResumeAssumption
  <2>2. 1 \in Sections
    BY DEF Sections
  <2>. QED  BY <2>1, <2>2
<1>3. Proceed(q)
  BY DEF Assemble
<1>. HIDE DEF full
<1>4. /\ q \in Packet /\ q.step = "fit" /\ q.print = packet.print
      /\ q.boardPrint = packet.boardPrint /\ q.found = packet.found
      /\ q.readNext = packet.readNext /\ q.bad = packet.bad
      /\ q.full = full /\ q.sizes = full /\ q.object = full[1]
  BY <1>1, <1>2 DEF Packet, PacketSteps
<1>. HIDE DEF q
<1>5. PacketInv(q)
  <2>1. \A s \in Sections : full[s] <= full[s] /\ ~(full[s] < full[s])
    BY <1>2
  <2>2. CutFromTheEnd(q)
    <3>1. ~(full[1] < full[1]) /\ "fit" # "told"
      BY <1>2
    <3>. QED  BY <1>4, <2>1, <3>1 DEF CutFromTheEnd
  <2>. QED  BY <1>1, <1>4, <2>2 DEF PacketInv, PrintsAreMoments, AbsentIsNamed
<1>. QED  BY <1>3, <1>4, <1>5, ProceedKept

\* The section that is cut is the last one that is left.
LEMMA CutKept ==
    ASSUME ResumeInv, CutSection
    PROVE  ResumeInv'
<1>1. packet \in Packet /\ PacketInv(packet) /\ packet.step = "fit" /\ Total(packet) > PacketLimit
  BY DEF CutSection, At, ResumeInv, ResumeTypeOK
<1>. DEFINE last == LastFilled(packet)
            gone == Total(packet) - PacketLimit + 1
            left == IF packet.sizes[last] > gone THEN packet.sizes[last] - gone ELSE 0
            q == [packet EXCEPT !.cut = @ \cup {last}, !.sizes[last] = left]
<1>2. /\ last \in Sections /\ packet.sizes[last] > 0
      /\ \A r \in Sections : packet.sizes[r] > 0 => r <= last
  <2>1. 6 \in Nat /\ Filled(packet) \subseteq 0 .. 6 /\ Filled(packet) # {}
    BY DEF Filled, Sections, CutSection
  <2>2. \E m \in Filled(packet) : \A k \in Filled(packet) : k <= m
    BY <2>1, GreatestNatural
  <2>3. last \in Filled(packet) /\ \A r \in Filled(packet) : r <= last
    BY <2>2 DEF LastFilled
  <2>. QED  BY <2>3 DEF Filled
<1>3. gone \in Nat /\ gone > 0
  <2>1. Total(packet) \in Nat /\ PacketLimit \in Nat
    BY <1>1, TotalIsNumber, ResumeAssumption
  <2>. QED  BY <1>1, <2>1
<1>4. Proceed(q)
  BY DEF CutSection
<1>5. packet.sizes \in [Sections -> Nat] /\ packet.full \in [Sections -> Nat]
  BY <1>1 DEF Packet
<1>. HIDE DEF last, gone
<1>6. left \in Nat /\ left < packet.sizes[last]
  BY <1>2, <1>3, <1>5
<1>. HIDE DEF left
<1>7. /\ q \in Packet /\ q.step = "fit" /\ q.print = packet.print
      /\ q.boardPrint = packet.boardPrint /\ q.found = packet.found
      /\ q.readNext = packet.readNext /\ q.bad = packet.bad
      /\ q.full = packet.full /\ q.object = packet.object
      /\ q.cut = packet.cut \cup {last} /\ q.sizes = [packet.sizes EXCEPT ![last] = left]
  BY <1>1, <1>2, <1>6 DEF Packet, PacketSteps
<1>. HIDE DEF q
<1>8. CutFromTheEnd(q)
  <2>1. /\ \A s \in Sections : packet.sizes[s] <= packet.full[s]
                               /\ (packet.sizes[s] < packet.full[s] => s \in packet.cut)
        /\ \A s, r \in Sections : packet.sizes[s] < packet.full[s] /\ packet.sizes[r] > 0 => r <= s
        /\ packet.object < packet.full[1] => 1 \in packet.cut
        /\ packet.object = packet.full[1]
    BY <1>1 DEF PacketInv, CutFromTheEnd
  <2>2. ASSUME NEW s \in Sections
        PROVE  q.sizes[s] <= q.full[s] /\ (q.sizes[s] < q.full[s] => s \in q.cut)
    <3>1. CASE s = last
      BY <1>2, <1>5, <1>6, <1>7, <2>1, <3>1
    <3>2. CASE s # last
      BY <1>5, <1>7, <2>1, <3>2
    <3>. QED  BY <3>1, <3>2
  <2>3. ASSUME NEW s \in Sections, NEW r \in Sections, q.sizes[s] < q.full[s], q.sizes[r] > 0
        PROVE  r <= s
    <3>1. packet.sizes[r] > 0
      BY <1>2, <1>5, <1>7, <2>3
    <3>2. CASE s = last
      BY <1>2, <3>1, <3>2
    <3>3. CASE s # last
      <4>1. packet.sizes[s] < packet.full[s]
        BY <1>5, <1>7, <2>3, <3>3
      <4>. QED  BY <2>1, <3>1, <4>1
    <3>. QED  BY <3>2, <3>3
  <2>. QED  BY <1>7, <2>1, <2>2, <2>3 DEF CutFromTheEnd
<1>9. PacketInv(q)
  BY <1>1, <1>7, <1>8 DEF PacketInv, PrintsAreMoments, AbsentIsNamed
<1>. QED  BY <1>4, <1>7, <1>9, ProceedKept

\* The object goes only when every section is empty.
LEMMA TellKept ==
    ASSUME ResumeInv, Tell
    PROVE  ResumeInv'
<1>1. packet \in Packet /\ PacketInv(packet) /\ packet.step = "fit"
  BY DEF Tell, At, ResumeInv, ResumeTypeOK
<1>. DEFINE p == IF Total(packet) > PacketLimit THEN [packet EXCEPT !.object = 0] ELSE packet
            q == [p EXCEPT !.step = IF Total(p) > PacketLimit THEN "refused" ELSE "told"]
<1>2. Proceed(q) /\ (Total(packet) <= PacketLimit \/ Filled(packet) = {})
  BY DEF Tell
<1>3. Total(packet) \in Nat /\ PacketLimit \in Nat
  BY <1>1, TotalIsNumber, ResumeAssumption
<1>4. /\ p \in Packet /\ p.step = "fit" /\ p.print = packet.print
      /\ p.boardPrint = packet.boardPrint /\ p.found = packet.found
      /\ p.readNext = packet.readNext /\ p.bad = packet.bad
      /\ p.full = packet.full /\ p.cut = packet.cut /\ p.sizes = packet.sizes
      /\ p.object = packet.object \/ Filled(packet) = {}
  <2>1. CASE Total(packet) > PacketLimit
    <3>1. p = [packet EXCEPT !.object = 0] /\ Filled(packet) = {}
      BY <1>2, <1>3, <2>1
    <3>. HIDE DEF p
    <3>. QED  BY <1>1, <3>1 DEF Packet
  <2>2. CASE ~(Total(packet) > PacketLimit)
    BY <1>1, <2>2
  <2>. QED  BY <2>1, <2>2
<1>. HIDE DEF p
<1>5. /\ q \in Packet /\ q.step \in {"told", "refused"} /\ q.print = packet.print
      /\ q.boardPrint = packet.boardPrint /\ q.found = packet.found
      /\ q.readNext = packet.readNext /\ q.bad = packet.bad
      /\ q.full = packet.full /\ q.cut = packet.cut /\ q.sizes = packet.sizes
      /\ q.object = p.object /\ q.overhead = p.overhead
      /\ q.step = "told" => ~(Total(p) > PacketLimit)
  BY <1>4 DEF Packet, PacketSteps
<1>. HIDE DEF q
<1>6. Total(q) = Total(p)
  BY <1>4, <1>5 DEF Total
<1>7. q.step = "told" => Total(q) <= PacketLimit
  <2>1. Total(p) \in Nat
    BY <1>4, TotalIsNumber
  <2>. QED  BY <1>3, <1>5, <1>6, <2>1
<1>8. CutFromTheEnd(q)
  <2>1. /\ \A s \in Sections : packet.sizes[s] <= packet.full[s]
                               /\ (packet.sizes[s] < packet.full[s] => s \in packet.cut)
        /\ \A s, r \in Sections : packet.sizes[s] < packet.full[s] /\ packet.sizes[r] > 0 => r <= s
        /\ packet.object = packet.full[1]
    BY <1>1 DEF PacketInv, CutFromTheEnd
  <2>2. q.object < q.full[1] => 1 \in q.cut
    <3>1. packet.sizes \in [Sections -> Nat] /\ packet.full \in [Sections -> Nat]
          /\ q.object \in Nat /\ 1 \in Sections
      BY <1>1, <1>5 DEF Packet, Sections
    <3>2. CASE p.object = packet.object
      BY <1>5, <2>1, <3>1, <3>2
    <3>3. CASE Filled(packet) = {}
      <4>1. packet.sizes[1] = 0
        BY <3>1, <3>3 DEF Filled
      <4>. QED  BY <1>5, <2>1, <3>1, <4>1
    <3>. QED  BY <1>4, <3>2, <3>3
  <2>. QED  BY <1>5, <1>7, <2>1, <2>2 DEF CutFromTheEnd
<1>9. PacketInv(q)
  BY <1>1, <1>5, <1>8 DEF PacketInv, PrintsAreMoments, AbsentIsNamed
<1>. QED  BY <1>2, <1>5, <1>9, ProceedKept

\* Edits of the sources are seen as long as the packet watches them; what a sync
\* writes is nothing that it has not read.
LEMMA ScribesKept ==
    ASSUME ResumeInv, EditInput \/ SyncReads \/ WriteBrief \/ WriteWorking
    PROVE  ResumeInv'
<1>. USE DEF ResumeInv
<1>1. CASE EditInput
  <2>1. /\ others' \in 0 .. MaxEdits /\ board' \in 0 .. MaxEdits
        /\ UNCHANGED <<syncRead, brief, working, packet>>
    BY <1>1, ResumeAssumption DEF EditInput, ResumeTypeOK, SourcesNow, Sources, Boards
  <2>2. SourcesNow' \in Sources
    BY <2>1 DEF SourcesNow, Sources, Boards
  <2>3. moments' = IF packet = NoPacket THEN {} ELSE moments \cup {SourcesNow'}
    BY <1>1 DEF EditInput, Witness
  <2>4. ResumeTypeOK'
    BY <2>1, <2>2, <2>3 DEF ResumeTypeOK
  <2>5. ASSUME packet # NoPacket  PROVE PacketInv(packet)'
    <3>1. moments' = moments \cup {SourcesNow'} /\ PacketInv(packet)
      BY <2>3, <2>5
    <3>2. IsFiniteSet(moments')
      BY <3>1, FS_AddElement DEF PacketInv, PrintsAreMoments
    <3>. QED  BY <2>1, <3>1, <3>2 DEF PacketInv, PrintsAreMoments, AbsentIsNamed, CutFromTheEnd, Total
  <2>. QED  BY <2>1, <2>4, <2>5
<1>2. CASE SyncReads \/ WriteBrief \/ WriteWorking
  <2>1. UNCHANGED <<others, board, packet, moments>> /\ SourcesNow' = SourcesNow
    BY <1>2 DEF SyncReads, WriteBrief, WriteWorking, SourcesNow
  <2>2. ResumeTypeOK'
    BY <1>2, <2>1 DEF SyncReads, WriteBrief, WriteWorking, ResumeTypeOK, Sources
  <2>3. packet # NoPacket => PacketInv(packet)'
    BY <2>1 DEF PacketInv, PrintsAreMoments, AbsentIsNamed, CutFromTheEnd, Total
  <2>. QED  BY <2>1, <2>2, <2>3
<1>. QED  BY <1>1, <1>2

\* The invariant of the packet, under every step.
LEMMA ResumeKept == ResumeInv /\ [ResumeNext]_resumeVars => ResumeInv'
<1>. SUFFICES ASSUME ResumeInv, [ResumeNext]_resumeVars  PROVE ResumeInv'
  OBVIOUS
<1>1. CASE ForgetPacket
  <2>1. packet' = NoPacket /\ moments' = {} /\ UNCHANGED <<others, board, syncRead, brief, working>>
    BY <1>1 DEF ForgetPacket
  <2>. QED  BY <2>1 DEF ResumeInv, ResumeTypeOK, SourcesNow
<1>2. CASE UNCHANGED resumeVars
  BY <1>2 DEF resumeVars, ResumeInv, ResumeTypeOK, SourcesNow, PacketInv, PrintsAreMoments,
              AbsentIsNamed, CutFromTheEnd, Total
<1>3. CASE ReadContext
  BY <1>3, PrintKept, ReadViewsKept, ReadOthersKept, ReadLedgerKept DEF ReadContext
<1>. QED
  BY <1>1, <1>2, <1>3, StartKept, AssembleKept, CutKept, TellKept, ScribesKept DEF ResumeNext

\* What the invariant says of a packet that was told.
LEMMA ResumeInvHonest == ResumeInv => PacketHonest
<1>. SUFFICES ASSUME ResumeInv, At("told")  PROVE PacketHonest
  BY DEF PacketHonest
<1>1. packet \in Packet /\ PacketInv(packet) /\ packet.step = "told" /\ 1 \in Sections
  BY DEF At, ResumeInv, ResumeTypeOK, Sections
<1>. DEFINE short == {s \in Sections : packet.sizes[s] < packet.full[s]}
<1>2. /\ Total(packet) <= PacketLimit
      /\ short \subseteq packet.cut
      /\ packet.object < packet.full[1] => 1 \in packet.cut
      /\ \A s \in short, r \in Filled(packet) : r <= s
  BY <1>1 DEF PacketInv, CutFromTheEnd, Filled
<1>3. {2, 3, 4} \ packet.found \subseteq packet.readNext
  BY <1>1 DEF PacketInv, AbsentIsNamed
<1>4. 1 \in packet.readNext => Fallback(packet)
  BY <1>1 DEF PacketInv, AbsentIsNamed, Fallback
<1>5. ASSUME Fresh(packet)
      PROVE  /\ packet.brief \in moments
             /\ \E m \in moments : m.board = packet.working
             /\ Cardinality(moments) = 1 => packet.brief.board = packet.working
  <2>1. /\ packet.print \in moments /\ IsFiniteSet(moments)
        /\ \E m \in moments : m.board = packet.boardPrint
    BY <1>1 DEF PacketInv, PrintsAreMoments
  <2>2. packet.brief = packet.print /\ packet.working = packet.boardPrint
    BY <1>5 DEF Fresh
  <2>3. Cardinality(moments) = 1 => \E x : moments = {x}
    BY <2>1, FS_Singleton
  <2>. QED  BY <2>1, <2>2, <2>3
<1>. QED  BY <1>2, <1>3, <1>4, <1>5 DEF PacketHonest

-------------------------------------------------------------------------------
(* ExperimentFront.tla *)

\* The cost of a list of observations is the sum of their tokens.
LEMMA CostIsSum ==
    ASSUME NEW l \in Seq(Observation)
    PROVE  \E g : IsSum(g, 1 .. Len(l), [n \in 1 .. Len(l) |-> l[n].tokens])
                  /\ Cost(l) = g[1 .. Len(l)]
<1>. DEFINE S == 1 .. Len(l)
            w == [n \in S |-> l[n].tokens]
            Def(h) == h = [T \in SUBSET S |-> IF T = {} THEN 0
                             ELSE l[CHOOSE x \in T : TRUE].tokens + h[T \ {CHOOSE x \in T : TRUE}]]
<1>1. IsFiniteSet(S) /\ w \in [S -> Nat]
  <2>1. Len(l) \in Nat /\ \A n \in 1 .. Len(l) : l[n].tokens \in Nat
    <3>1. \A r \in Observation : r.tokens \in Nat
      BY ManifestAssumption DEF Observation
    <3>2. Len(l) \in Nat /\ \A n \in 1 .. Len(l) : l[n] \in Observation
      OBVIOUS
    <3>. QED  BY <3>1, <3>2
  <2>2. IsFiniteSet(S)
    BY <2>1, IntervalGrows
  <2>. HIDE DEF S
  <2>. QED  BY <2>1, <2>2 DEF S
<1>2. ASSUME NEW h  PROVE Def(h) <=> IsChoiceSum(h, S, w)
  <2>1. \A T \in SUBSET S : T # {} => w[CHOOSE x \in T : TRUE] = l[CHOOSE x \in T : TRUE].tokens
    <3>. HIDE DEF S
    <3>. QED  OBVIOUS
  <2>. HIDE DEF S, w
  <2>2. [T \in SUBSET S |-> IF T = {} THEN 0
           ELSE l[CHOOSE x \in T : TRUE].tokens + h[T \ {CHOOSE x \in T : TRUE}]]
      = [T \in SUBSET S |-> IF T = {} THEN 0
           ELSE w[CHOOSE x \in T : TRUE] + h[T \ {CHOOSE x \in T : TRUE}]]
    BY <2>1
  <2>. QED  BY <2>2 DEF IsChoiceSum
<1>. HIDE DEF w
<1>3. \E h : Def(h)
  <2>. HIDE DEF S, Def
  <2>. QED  BY <1>1, <1>2, ChosenSum
<1>4. PICK h : Def(h) /\ Cost(l) = h[S]
  BY <1>3 DEF Cost, MapThenSumSet, MapThenFoldSet
<1>5. IsSum(h, S, w)
  <2>. HIDE DEF S, Def
  <2>. QED  BY <1>1, <1>2, <1>4, ChosenSum
<1>. QED  BY <1>4, <1>5 DEF w

\* One more observation costs its own tokens.
LEMMA CostGrows ==
    ASSUME NEW l \in Seq(Observation), NEW r \in Observation
    PROVE  Cost(Append(l, r)) = Cost(l) + r.tokens /\ Cost(l) \in Nat
<1>. DEFINE L == Append(l, r)
            n == Len(l)
            w == [k \in 1 .. n |-> l[k].tokens]
            W == [k \in 1 .. n + 1 |-> L[k].tokens]
<1>1. /\ n \in Nat /\ L \in Seq(Observation) /\ Len(L) = n + 1
      /\ L[n + 1] = r /\ \A k \in 1 .. n : L[k] = l[k]
  OBVIOUS
<1>2. PICK h : IsSum(h, 1 .. n, w) /\ Cost(l) = h[1 .. n]
  BY CostIsSum
<1>. HIDE DEF L
<1>3. PICK g : IsSum(g, 1 .. n + 1, W) /\ Cost(L) = g[1 .. n + 1]
  BY <1>1, CostIsSum
<1>. DEFINE R == 1 .. n
            S == 1 .. n + 1
<1>4. IsFiniteSet(S) /\ n + 1 \in S /\ R \subseteq S /\ S \ {n + 1} = R
  BY <1>1, IntervalGrows
<1>5. \A k \in R : W[k] = w[k]
  BY <1>1, <1>4
<1>6. W[n + 1] = r.tokens
  BY <1>1, <1>4
<1>. HIDE DEF w, W, R, S
<1>7. g[R] = h[R]
  <2>1. IsSum(g, S, W) /\ IsSum(h, R, w)
    BY <1>2, <1>3 DEF R, S
  <2>2. \A T \in SUBSET R : g[T] = h[T]
    BY <2>1, <1>4, <1>5, SumsAgree
  <2>. QED  BY <2>2
<1>8. g[S] = W[n + 1] + g[R]
  <2>1. IsSum(g, S, W)
    BY <1>3 DEF S
  <2>. QED  BY <2>1, <1>4 DEF IsSum
<1>9. h[R] \in Nat /\ r.tokens \in Nat
  <2>1. h[R] \in Nat
    BY <1>2 DEF IsSum, R
  <2>. QED  BY <2>1, ManifestAssumption DEF Observation
<1>. QED  BY <1>2, <1>3, <1>6, <1>7, <1>8, <1>9 DEF L, R, S

\* The best of what is no worse than a row is beaten by nothing.
LEMMA Beaten ==
    ASSUME NEW r, NEW s, NEW t,
           \A m \in Metrics : r.metrics[m] \in Nat,
           \A m \in Metrics : s.metrics[m] \in Nat,
           \A m \in Metrics : t.metrics[m] \in Nat
    PROVE  /\ NoWorse(r, r) /\ ~Dominates(r, r)
           /\ NoWorse(t, s) /\ NoWorse(s, r) => NoWorse(t, r)
           /\ Dominates(t, s) /\ Dominates(s, r) => Dominates(t, r)
<1>. DEFINE a == r.metrics
            b == s.metrics
            c == t.metrics
<1>1. \A m \in Metrics : a[m] \in Nat /\ b[m] \in Nat /\ c[m] \in Nat
  OBVIOUS
<1>. HIDE DEF a, b, c
<1>2. NoWorse(r, r) /\ ~Dominates(r, r)
  BY <1>1 DEF NoWorse, Dominates, a
<1>3. NoWorse(t, s) /\ NoWorse(s, r) => NoWorse(t, r)
  BY <1>1 DEF NoWorse, a, b, c
<1>4. ASSUME Dominates(t, s), Dominates(s, r)  PROVE Dominates(t, r)
  <2>1. NoWorse(t, r)
    BY <1>3, <1>4 DEF Dominates
  <2>2. PICK m \in Metrics : IF m \in Maximized THEN c[m] > b[m] ELSE c[m] < b[m]
    BY <1>4 DEF Dominates, b, c
  <2>3. IF m \in Maximized THEN b[m] >= a[m] ELSE b[m] <= a[m]
    BY <1>4 DEF Dominates, NoWorse, a, b
  <2>4. IF m \in Maximized THEN c[m] > a[m] ELSE c[m] < a[m]
    BY <1>1, <2>2, <2>3
  <2>. QED  BY <2>1, <2>4 DEF Dominates, a, c
<1>. QED  BY <1>2, <1>3, <1>4

\* The rows that count are finitely many and have all their metrics.
LEMMA ValidRowsKnown ==
    ASSUME accepted \in Seq(Observation)
    PROVE  IsFiniteSet(ValidRows)
           /\ \A r \in ValidRows : \A m \in Metrics : r.metrics[m] \in Nat
<1>1. IsFiniteSet(AcceptedRows)
  <2>1. IsFiniteSet(1 .. Len(accepted))
    <3>1. Len(accepted) \in Nat
      OBVIOUS
    <3>. QED  BY <3>1, IntervalGrows
  <2>. DEFINE f == [n \in 1 .. Len(accepted) |-> accepted[n]]
  <2>2. AcceptedRows = {f[n] : n \in 1 .. Len(accepted)}
    BY DEF AcceptedRows
  <2>3. f \in Surjection(1 .. Len(accepted), AcceptedRows)
    BY <2>2 DEF Surjection
  <2>. QED  BY <2>1, <2>3, FS_Surjection
<1>2. IsFiniteSet(ValidRows)
  BY <1>1, FS_Subset DEF ValidRows
<1>3. ASSUME NEW r \in ValidRows, NEW m \in Metrics  PROVE r.metrics[m] \in Nat
  <2>1. r \in Observation
    <3>1. r \in AcceptedRows
      BY DEF ValidRows
    <3>. QED  BY <3>1 DEF AcceptedRows
  <2>2. r.metrics[m] \in (0 .. MaxValue) \cup {NoValue}
    BY <2>1 DEF Observation
  <2>3. r.metrics[m] # NoValue
    BY DEF ValidRows, Complete
  <2>. QED  BY <2>2, <2>3, ManifestAssumption
<1>. QED  BY <1>2, <1>3

\* Among what is no worse than a row, what fewest rows beat is on the front.
LEMMA FrontOfRows ==
    ASSUME accepted \in Seq(Observation)
    PROVE  FrontCovers
<1>1. ASSUME NEW r \in ValidRows
      PROVE  \E s \in ParetoFront : NoWorse(s, r)
  <2>. DEFINE Better(s) == {t \in ValidRows : Dominates(t, s)}
              near == {s \in ValidRows : NoWorse(s, r)}
              sizes == {Cardinality(Better(s)) : s \in near}
  <2>1. ASSUME NEW s \in ValidRows  PROVE IsFiniteSet(Better(s)) /\ Cardinality(Better(s)) \in Nat
    BY ValidRowsKnown, FS_Subset, FS_CardinalityType
  <2>2. r \in near
    BY ValidRowsKnown, Beaten
  <2>3. sizes \subseteq Nat /\ sizes # {}
    <3>. HIDE DEF Better
    <3>. QED  BY <2>1, <2>2
  <2>4. PICK n \in sizes : \A m \in sizes : n <= m
    <3>. HIDE DEF sizes
    <3>. QED  BY <2>3, LeastNatural
  <2>5. PICK s \in near : n = Cardinality(Better(s))
    BY <2>4
  <2>6. ASSUME NEW t \in ValidRows, Dominates(t, s)  PROVE FALSE
    <3>1. t \in near
      <4>1. NoWorse(t, s) /\ NoWorse(s, r) /\ s \in ValidRows
        BY <2>6 DEF Dominates
      <4>. QED  BY <4>1, ValidRowsKnown, Beaten
    <3>2. Better(t) \subseteq Better(s)
      <4>1. ASSUME NEW u \in ValidRows, Dominates(u, t)  PROVE Dominates(u, s)
        BY <2>6, <4>1, ValidRowsKnown, Beaten
      <4>. QED  BY <4>1
    <3>3. t \in Better(s) /\ t \notin Better(t)
      <4>1. ~Dominates(t, t)
        BY ValidRowsKnown, Beaten
      <4>. QED  BY <2>6, <4>1
    <3>4. Cardinality(Better(t)) < Cardinality(Better(s))
      <4>. HIDE DEF Better
      <4>1. Better(t) # Better(s) /\ s \in ValidRows
        BY <3>3
      <4>. QED  BY <2>1, <3>2, <4>1, FS_Subset
    <3>5. n <= Cardinality(Better(t))
      BY <2>4, <3>1
    <3>. HIDE DEF Better
    <3>6. Cardinality(Better(t)) \in Nat /\ Cardinality(Better(s)) \in Nat
      BY <2>1
    <3>. QED  BY <2>5, <3>4, <3>5, <3>6
  <2>7. s \in ParetoFront
    BY <2>5, <2>6 DEF ParetoFront
  <2>. QED  BY <2>5, <2>7
<1>2. ASSUME Recommendation = "review"  PROVE ValidRows # {}
  BY <1>2 DEF Recommendation, Pareto, ParetoFront
<1>. QED  BY <1>1, <1>2 DEF FrontCovers, Pareto

\* The accepted observations of a case of a candidate.
OfCase(c, k) == {n \in 1 .. Len(accepted) : accepted[n].candidate = c /\ accepted[n].case = k}

ExperimentInv ==
    /\ ExperimentTypeOK
    /\ Len(accepted) <= Trials
    /\ Used <= TokenLimit
    /\ \A c \in Candidates, k \in Cases :
          /\ attempts[<<c, k>>] <= rows
          /\ Cardinality(OfCase(c, k)) <= attempts[<<c, k>>]
          /\ Cardinality(OfCase(c, k)) <= Retries + 1

\* At first nothing was observed.
LEMMA ExperimentInitial == ExperimentInit => ExperimentInv
<1>. SUFFICES ASSUME ExperimentInit  PROVE ExperimentInv
  OBVIOUS
<1>1. accepted = <<>> /\ exhausted = FALSE /\ rows = 0
      /\ attempts = [k \in Candidates \X Cases |-> 0]
  BY DEF ExperimentInit, ExperimentEmpty
<1>2. accepted \in Seq(Observation) /\ Len(accepted) = 0
  BY <1>1
<1>3. ExperimentTypeOK
  <2>1. 0 \in 0 .. MaxRows
    BY ManifestAssumption
  <2>2. attempts \in [Candidates \X Cases -> 0 .. MaxRows]
    BY <1>1, <2>1
  <2>. QED  BY <1>1, <1>2, <2>1, <2>2 DEF ExperimentTypeOK
<1>4. Used = 0
  <2>1. PICK g : IsSum(g, 1 .. Len(accepted), [n \in 1 .. Len(accepted) |-> accepted[n].tokens])
                 /\ Cost(accepted) = g[1 .. Len(accepted)]
    BY <1>2, CostIsSum
  <2>2. 1 .. Len(accepted) = {}
    BY <1>2
  <2>. QED  BY <2>1, <2>2 DEF IsSum, Used
<1>5. ASSUME NEW c \in Candidates, NEW k \in Cases
      PROVE  attempts[<<c, k>>] = 0 /\ Cardinality(OfCase(c, k)) = 0
  <2>1. OfCase(c, k) = {}
    BY <1>2 DEF OfCase
  <2>. QED  BY <1>1, <2>1, FS_EmptySet
<1>. QED  BY <1>1, <1>2, <1>3, <1>4, <1>5, ManifestAssumption DEF ExperimentInv

\* An observation is accepted within the limits, and only then.
LEMMA ExperimentKept == ExperimentInv /\ [ExperimentNext]_experimentVars => ExperimentInv'
<1>1. ASSUME ExperimentInv, UNCHANGED experimentVars  PROVE ExperimentInv'
  BY <1>1 DEF ExperimentInv, ExperimentTypeOK, experimentVars, Used, OfCase
<1>2. ASSUME ExperimentInv, NEW r \in Observation, Observe(r)  PROVE ExperimentInv'
  <2>. DEFINE key == <<r.candidate, r.case>>
  <2>1. /\ attempts \in [Candidates \X Cases -> 0 .. MaxRows]
        /\ accepted \in Seq(Observation) /\ rows \in 0 .. MaxRows /\ rows < MaxRows
        /\ MaxRows \in Nat /\ Retries \in Nat /\ {Trials, TokenLimit} \subseteq Nat
        /\ rows' = rows + 1
        /\ attempts' = [attempts EXCEPT ![key] = @ + 1]
    BY <1>2, ManifestAssumption
       DEF ExperimentInv, ExperimentTypeOK, Observe, Skip, Accept, Exhaust, Attempt
  <2>2. r.candidate \in Candidates /\ r.case \in Cases /\ r.tokens \in Nat
    BY ManifestAssumption DEF Observation
  <2>3. ASSUME NEW c \in Candidates, NEW k \in Cases
        PROVE  /\ attempts[<<c, k>>] \in Nat /\ attempts[<<c, k>>] <= rows
               /\ attempts'[<<c, k>>] = IF <<c, k>> = key THEN attempts[<<c, k>>] + 1
                                                         ELSE attempts[<<c, k>>]
    <3>1. <<c, k>> \in Candidates \X Cases
      OBVIOUS
    <3>2. attempts[<<c, k>>] \in 0 .. MaxRows /\ attempts[<<c, k>>] <= rows
      BY <1>2, <2>1, <3>1 DEF ExperimentInv
    <3>. HIDE DEF key
    <3>3. attempts[<<c, k>>] \in Nat
      BY <2>1, <3>2
    <3>. QED  BY <2>1, <3>1, <3>2, <3>3
  <2>4. attempts' \in [Candidates \X Cases -> 0 .. MaxRows] /\ rows' \in 0 .. MaxRows
    <3>1. key \in Candidates \X Cases /\ attempts[key] + 1 \in 0 .. MaxRows
      BY <2>1, <2>2, <2>3
    <3>. HIDE DEF key
    <3>. QED  BY <2>1, <3>1
  <2>5. CASE UNCHANGED accepted /\ exhausted' \in BOOLEAN
    <3>1. ExperimentTypeOK'
      BY <2>1, <2>4, <2>5 DEF ExperimentTypeOK
    <3>2. Len(accepted') <= Trials /\ Used' <= TokenLimit
      BY <1>2, <2>5 DEF ExperimentInv, Used
    <3>3. ASSUME NEW c \in Candidates, NEW k \in Cases
          PROVE  /\ attempts'[<<c, k>>] <= rows'
                 /\ Cardinality(OfCase(c, k))' <= attempts'[<<c, k>>]
                 /\ Cardinality(OfCase(c, k))' <= Retries + 1
      <4>1. OfCase(c, k)' = OfCase(c, k)
        BY <2>5 DEF OfCase
      <4>2. Cardinality(OfCase(c, k)) \in Nat
        <5>1. Len(accepted) \in Nat
          BY <2>1
        <5>2. IsFiniteSet(OfCase(c, k))
          BY <5>1, IntervalGrows, FS_Subset DEF OfCase
        <5>. QED  BY <5>2, FS_CardinalityType
      <4>3. Cardinality(OfCase(c, k)) <= attempts[<<c, k>>]
            /\ Cardinality(OfCase(c, k)) <= Retries + 1
        BY <1>2 DEF ExperimentInv
      <4>. HIDE DEF key
      <4>. QED  BY <2>1, <2>3, <4>1, <4>2, <4>3
    <3>. QED  BY <3>1, <3>2, <3>3 DEF ExperimentInv
  <2>6. CASE Accept(r)
    <3>1. /\ accepted' = Append(accepted, r) /\ exhausted' = exhausted
          /\ Len(accepted) < Trials /\ Used + r.tokens <= TokenLimit
          /\ attempts[key] <= Retries
      <4>1. Used \in Nat
        BY <2>1, CostGrows DEF Used
      <4>2. Len(accepted) \in Nat
        BY <2>1
      <4>. QED  BY <2>1, <2>2, <2>6, <4>1, <4>2 DEF Accept, Exhausts
    <3>2. ExperimentTypeOK'
      BY <1>2, <2>1, <2>4, <3>1 DEF ExperimentInv, ExperimentTypeOK
    <3>3. Len(accepted') = Len(accepted) + 1 /\ Len(accepted) \in Nat
      BY <2>1, <3>1
    <3>4. Used' <= TokenLimit
      <4>1. Used' = Cost(Append(accepted, r)) /\ Used = Cost(accepted)
        BY <3>1 DEF Used
      <4>. QED  BY <2>1, <3>1, <4>1, CostGrows
    <3>5. ASSUME NEW c \in Candidates, NEW k \in Cases
          PROVE  /\ attempts'[<<c, k>>] <= rows'
                 /\ Cardinality(OfCase(c, k))' <= attempts'[<<c, k>>]
                 /\ Cardinality(OfCase(c, k))' <= Retries + 1
      <4>. DEFINE n == Len(accepted) + 1
      <4>1. OfCase(c, k)' = IF <<c, k>> = key THEN OfCase(c, k) \cup {n} ELSE OfCase(c, k)
        <5>1. /\ accepted'[n] = r /\ 1 .. Len(accepted') = (1 .. Len(accepted)) \cup {n}
              /\ \A i \in 1 .. Len(accepted) : accepted'[i] = accepted[i]
          BY <2>1, <3>1, <3>3
        <5>2. OfCase(c, k)' = {i \in 1 .. Len(accepted') : accepted'[i].candidate = c
                                                          /\ accepted'[i].case = k}
          BY DEF OfCase
        <5>3. OfCase(c, k) = {i \in 1 .. Len(accepted) : accepted[i].candidate = c
                                                          /\ accepted[i].case = k}
          BY DEF OfCase
        <5>. HIDE DEF n
        <5>. QED  BY <5>1, <5>2, <5>3
      <4>2. n \notin OfCase(c, k) /\ IsFiniteSet(OfCase(c, k))
        BY <3>3, IntervalGrows, FS_Subset DEF OfCase
      <4>3. /\ Cardinality(OfCase(c, k)) \in Nat
            /\ Cardinality(OfCase(c, k) \cup {n}) = Cardinality(OfCase(c, k)) + 1
        <5>. HIDE DEF n
        <5>. QED  BY <4>2, FS_CardinalityType, FS_AddElement
      <4>4. Cardinality(OfCase(c, k)) <= attempts[<<c, k>>]
            /\ Cardinality(OfCase(c, k)) <= Retries + 1
        BY <1>2 DEF ExperimentInv
      <4>5. CASE <<c, k>> = key
        <5>1. /\ Cardinality(OfCase(c, k))' = Cardinality(OfCase(c, k)) + 1
              /\ attempts'[<<c, k>>] = attempts[<<c, k>>] + 1
              /\ attempts[<<c, k>>] <= Retries
          BY <2>3, <3>1, <4>1, <4>3, <4>5
        <5>. QED  BY <2>1, <2>3, <4>3, <4>4, <5>1
      <4>6. CASE <<c, k>> # key
        <5>1. /\ Cardinality(OfCase(c, k))' = Cardinality(OfCase(c, k))
              /\ attempts'[<<c, k>>] = attempts[<<c, k>>]
          BY <2>3, <4>1, <4>6
        <5>. QED  BY <2>1, <2>3, <4>3, <4>4, <5>1
      <4>. QED  BY <4>5, <4>6
    <3>6. Len(accepted') <= Trials
      BY <2>1, <3>1, <3>3
    <3>. QED  BY <3>2, <3>4, <3>5, <3>6 DEF ExperimentInv
  <2>. QED
    BY <1>2, <2>5, <2>6 DEF Observe, Skip, Exhaust, ExperimentInv, ExperimentTypeOK
<1>. QED  BY <1>1, <1>2 DEF ExperimentNext

\* What the invariant says of the budget and of the front.
LEMMA ExperimentInvSound == ExperimentInv => BudgetKept /\ FrontCovers
BY FrontOfRows DEF ExperimentInv, BudgetKept, OfCase, ExperimentTypeOK

-------------------------------------------------------------------------------
(* ExperimentRoute.tla *)

\* Every revision leaves a profile of the fields.
LEMMA RouteTypesKept == RouteTypeOK /\ [RouteNext]_profile => RouteTypeOK'
<1>. SUFFICES ASSUME RouteTypeOK, [RouteNext]_profile  PROVE RouteTypeOK'
  OBVIOUS
<1>1. ASSUME NEW f \in DOMAIN Fields, NEW value \in Fields[f], Revise(f, value)
      PROVE  RouteTypeOK'
  <2>1. /\ DOMAIN profile = DOMAIN Fields
        /\ \A g \in DOMAIN Fields : profile[g] \in Fields[g]
        /\ profile' = [profile EXCEPT ![f] = value]
    BY <1>1 DEF RouteTypeOK, Revise
  <2>2. DOMAIN profile' = DOMAIN Fields
    BY <2>1
  <2>3. ASSUME NEW g \in DOMAIN Fields  PROVE profile'[g] \in Fields[g]
    BY <2>1
  <2>. QED  BY <2>2, <2>3 DEF RouteTypeOK
<1>2. CASE UNCHANGED profile
  BY <1>2 DEF RouteTypeOK
<1>. QED  BY <1>1, <1>2 DEF RouteNext

\* The profile that is filled in where nothing is known is one.
LEMMA RouteTypesInitial == RouteInit => RouteTypeOK
<1>. SUFFICES ASSUME RouteInit  PROVE RouteTypeOK
  OBVIOUS
<1>1. profile = DefaultProfile
  BY DEF RouteInit, RouteEmpty
<1>2. DOMAIN profile = DOMAIN Fields
  BY <1>1 DEF DefaultProfile, Fields
<1>3. ASSUME NEW f \in DOMAIN Fields  PROVE profile[f] \in Fields[f]
  <2>1. f \in {"task", "shape"} \cup {"measurement", "noise", "risk"}
                \cup {"trials", "objectives", "factors"} \cup {"differentiable", "cases"}
    BY <1>3 DEF Fields
  <2>2. CASE f \in {"task", "shape"}
    BY <1>1, <2>2 DEF DefaultProfile, Fields
  <2>5. CASE f \in {"measurement", "noise", "risk"}
    BY <1>1, <2>5 DEF DefaultProfile, Fields
  <2>3. CASE f \in {"trials", "objectives", "factors"}
    <3>1. profile.trials = 0 /\ profile.objectives = 0 /\ profile.factors = 0
      BY <1>1 DEF DefaultProfile
    <3>2. /\ Fields.trials = {0, 1, 19, 20} /\ Fields.objectives = {0, 2}
          /\ Fields.factors = {0, 4, 13}
      BY DEF Fields
    <3>. QED  BY <2>3, <3>1, <3>2
  <2>4. CASE f \in {"differentiable", "cases"}
    <3>1. profile.differentiable \in BOOLEAN /\ profile.cases \in BOOLEAN
      BY <1>1 DEF DefaultProfile
    <3>2. Fields.differentiable = BOOLEAN /\ Fields.cases = BOOLEAN
      BY DEF Fields
    <3>. QED  BY <2>4, <3>1, <3>2
  <2>. QED  BY <2>1, <2>2, <2>3, <2>4, <2>5
<1>. QED  BY <1>2, <1>3 DEF RouteTypeOK

\* Every profile of the fields is advised for a reason.
LEMMA AdviceJustified == RouteTypeOK => RouteJustified
<1>. SUFFICES ASSUME RouteTypeOK  PROVE RouteJustified
  OBVIOUS
<1>1. profile.trials \in {0, 1, 19, 20} /\ profile.cases \in BOOLEAN
  BY DEF RouteTypeOK, Fields
<1>2. ASSUME NEW p
      PROVE  /\ Experiments(p).mode \in {"experimental", "hybrid", "decision"}
             /\ Experiments(p).missing = {}
  BY DEF Experiments, Advice
<1>. QED  BY <1>1, <1>2 DEF RouteJustified, Route, Spikes, Advice, Unmeasured

-------------------------------------------------------------------------------
(* WorkingSet.tla: arrangements of finite sets, and the rows of the table. *)

\* A relation that orders S totally.
Orders(R, S) ==
    /\ \A x, y \in S : x # y => <<x, y>> \in R \/ <<y, x>> \in R
    /\ \A x, y, z \in S : <<x, y>> \in R /\ <<y, z>> \in R => <<x, z>> \in R

\* Every part of it has a last one.
LEMMA LastOfOrder ==
    ASSUME NEW S, IsFiniteSet(S), NEW R, Orders(R, S)
    PROVE  \A T \in SUBSET S : T # {} => \E x \in T : \A y \in T \ {x} : <<y, x>> \in R
<1>. DEFINE P == {T \in SUBSET S : T # {} => \E x \in T : \A y \in T \ {x} : <<y, x>> \in R}
<1>1. ASSUME NEW T \in SUBSET S, T # {}, \A x \in T : T \ {x} \in P  PROVE T \in P
  <2>1. PICK y \in T : TRUE
    BY <1>1
  <2>2. CASE T \ {y} = {}
    BY <1>1, <2>1, <2>2
  <2>3. CASE T \ {y} # {}
    <3>1. PICK x \in T \ {y} : \A z \in (T \ {y}) \ {x} : <<z, x>> \in R
      BY <1>1, <2>1, <2>3
    <3>2. CASE <<y, x>> \in R
      BY <1>1, <2>1, <3>1, <3>2
    <3>3. CASE <<x, y>> \in R
      <4>1. ASSUME NEW z \in T \ {y}  PROVE <<z, y>> \in R
        BY <2>1, <3>1, <3>3 DEF Orders
      <4>. QED  BY <1>1, <2>1, <4>1
    <3>. QED  BY <2>1, <3>1, <3>2, <3>3 DEF Orders
  <2>. QED  BY <2>2, <2>3
<1>2. SUBSET S \subseteq P
  <2>1. {} \in P
    OBVIOUS
  <2>. HIDE DEF P
  <2>. QED  BY <1>1, <2>1, SubsetInduction
<1>. QED  BY <1>2

\* The sequences of SetToSeqs enumerate the whole set.
LEMMA EnumerationIsWhole ==
    ASSUME NEW T, IsFiniteSet(T), NEW s \in SetToSeqs(T)
    PROVE  /\ s \in Seq(T) /\ Len(s) = Cardinality(T) /\ DOMAIN s = 1 .. Cardinality(T)
           /\ \A m \in DOMAIN s : s[m] \in T
           /\ \A x \in T : \E m \in DOMAIN s : s[m] = x
           /\ \A m, n \in DOMAIN s : m # n => s[m] # s[n]
<1>. DEFINE n == Cardinality(T)
            D == 1 .. n
<1>1. n \in Nat /\ IsFiniteSet(D) /\ Cardinality(D) = n
  <2>1. n \in Nat
    BY FS_CardinalityType
  <2>2. IsFiniteSet(1 .. n) /\ Cardinality(1 .. n) = IF 1 > n THEN 0 ELSE n - 1 + 1
    <3>1. 1 \in Int /\ n \in Int
      BY <2>1
    <3>. HIDE DEF n
    <3>. QED  BY <3>1, FS_Interval
  <2>. HIDE DEF n
  <2>. QED  BY <2>1, <2>2
<1>2. s \in [D -> T] /\ \A i, j \in D : i # j => s[i] # s[j]
  BY DEF SetToSeqs
<1>3. ASSUME NEW x \in T, \A m \in D : s[m] # x  PROVE FALSE
  <2>1. s \in [D -> T \ {x}]
    BY <1>2, <1>3
  <2>2. IsFiniteSet(T \ {x}) /\ Cardinality(T \ {x}) = n - 1
    BY <1>3, FS_RemoveElement
  <2>3. Cardinality(T \ {x}) < Cardinality(D)
    <3>. HIDE DEF n, D
    <3>. QED  BY <1>1, <2>2
  <2>4. \E i, j \in D : i # j /\ s[i] = s[j]
    <3>. HIDE DEF D
    <3>. QED  BY <1>1, <2>1, <2>2, <2>3, FS_PigeonHole
  <2>. QED  BY <1>2, <2>4
<1>4. s \in Seq(T) /\ Len(s) = n /\ DOMAIN s = D
  <2>. HIDE DEF n
  <2>. QED  BY <1>1, <1>2
<1>. QED  BY <1>2, <1>3, <1>4

\* Every part of a finite set can be arranged in an order of the set.
LEMMA ArrangementExists ==
    ASSUME NEW S, IsFiniteSet(S), NEW R, Orders(R, S)
    PROVE  \A T \in SUBSET S :
              \E s \in SetToSeqs(T) : \A m, n \in DOMAIN s : m < n => <<s[m], s[n]>> \in R
<1>. DEFINE Sorted(s) == \A m, n \in DOMAIN s : m < n => <<s[m], s[n]>> \in R
            P == {T \in SUBSET S : \E s \in SetToSeqs(T) : Sorted(s)}
<1>1. ASSUME NEW T \in SUBSET S, T # {}, \A x \in T : T \ {x} \in P  PROVE T \in P
  <2>1. PICK x \in T : \A y \in T \ {x} : <<y, x>> \in R
    BY <1>1, LastOfOrder
  <2>2. PICK s \in SetToSeqs(T \ {x}) : Sorted(s)
    BY <1>1, <2>1
  <2>. DEFINE n == Cardinality(T \ {x})
              t == [k \in 1 .. n + 1 |-> IF k = n + 1 THEN x ELSE s[k]]
  <2>3. n \in Nat /\ Cardinality(T) = n + 1 /\ IsFiniteSet(T \ {x})
    <3>1. IsFiniteSet(T) /\ IsFiniteSet(T \ {x})
      BY FS_Subset
    <3>2. Cardinality(T) \in Nat /\ n \in Nat /\ n = Cardinality(T) - 1
      BY <2>1, <3>1, FS_CardinalityType, FS_RemoveElement
    <3>. HIDE DEF n
    <3>. QED  BY <3>1, <3>2
  <2>4. s \in [1 .. n -> T \ {x}] /\ \A i, j \in 1 .. n : i # j => s[i] # s[j]
    BY DEF SetToSeqs
  <2>. HIDE DEF n
  <2>5. /\ t \in [1 .. n + 1 -> T]
        /\ \A i, j \in 1 .. n + 1 : i # j => t[i] # t[j]
    <3>1. ASSUME NEW k \in 1 .. n + 1
          PROVE  k = n + 1 \/ (k \in 1 .. n /\ s[k] \in T \ {x})
      BY <2>3, <2>4
    <3>2. t \in [1 .. n + 1 -> T]
      BY <2>1, <3>1
    <3>3. ASSUME NEW i \in 1 .. n + 1, NEW j \in 1 .. n + 1, i # j  PROVE t[i] # t[j]
      BY <2>4, <3>1, <3>3
    <3>. QED  BY <3>2, <3>3
  <2>6. t \in SetToSeqs(T)
    <3>. HIDE DEF t
    <3>. QED  BY <2>3, <2>5 DEF SetToSeqs
  <2>7. Sorted(t)
    <3>. SUFFICES ASSUME NEW i \in 1 .. n + 1, NEW j \in 1 .. n + 1, i < j
                  PROVE  <<t[i], t[j]>> \in R
      BY <2>5
    <3>1. i \in 1 .. n /\ t[i] = s[i] /\ s[i] \in T \ {x}
      BY <2>3, <2>4
    <3>2. CASE j = n + 1
      BY <2>1, <3>1, <3>2
    <3>3. CASE j # n + 1
      <4>1. j \in 1 .. n /\ t[j] = s[j] /\ DOMAIN s = 1 .. n
        BY <2>3, <2>4, <3>3
      <4>2. <<s[i], s[j]>> \in R
        BY <2>2, <3>1, <4>1
      <4>. QED  BY <3>1, <4>1, <4>2
    <3>. QED  BY <3>2, <3>3
  <2>. HIDE DEF t, Sorted
  <2>. QED  BY <2>6, <2>7
<1>2. {} \in P
  <2>1. Cardinality({}) = 0
    BY FS_EmptySet
  <2>2. <<>> \in SetToSeqs({}) /\ DOMAIN <<>> = {}
    BY <2>1 DEF SetToSeqs
  <2>. QED  BY <2>2
<1>3. SUBSET S \subseteq P
  <2>. HIDE DEF P
  <2>. QED  BY <1>1, <1>2, SubsetInduction
<1>. QED  BY <1>3

\* Arranged gives such an arrangement.
LEMMA ArrangedIsWhole ==
    ASSUME NEW S, IsFiniteSet(S), NEW R, Orders(R, S), NEW T \in SUBSET S
    PROVE  /\ Arranged(T, R) \in Seq(T)
           /\ ToSet(Arranged(T, R)) = T
           /\ \A m, n \in DOMAIN Arranged(T, R) :
                 m < n => <<Arranged(T, R)[m], Arranged(T, R)[n]>> \in R
<1>. DEFINE s == Arranged(T, R)
<1>1. s \in SetToSeqs(T) /\ \A m, n \in DOMAIN s : m < n => <<s[m], s[n]>> \in R
  <2>1. \E q \in SetToSeqs(T) : \A m, n \in DOMAIN q : m < n => <<q[m], q[n]>> \in R
    BY ArrangementExists
  <2>. QED  BY <2>1 DEF Arranged
<1>2. IsFiniteSet(T)
  BY FS_Subset
<1>. HIDE DEF s
<1>3. /\ s \in Seq(T)
      /\ \A x \in T : \E m \in DOMAIN s : s[m] = x
  BY <1>1, <1>2, EnumerationIsWhole
<1>4. ToSet(s) = T
  BY <1>3 DEF ToSet
<1>. QED  BY <1>1, <1>3, <1>4 DEF s

\* Priority, then the number of the row, orders the rows totally.
LEMMA UrgencyOrders ==
    ASSUME WorkingTypeOK
    PROVE  Orders({p \in TaskIds \X TaskIds : MoreUrgent(p[1], p[2])}, TaskIds)
<1>1. \A i \in TaskIds : i \in Nat /\ taskRows[i].priority \in Nat
  <2>1. Priorities \subseteq Nat
    BY WorkingSetAssumption
  <2>2. \A i \in TaskIds : taskRows[i].priority \in Priorities
    BY DEF WorkingTypeOK, TaskRow
  <2>3. TaskIds \subseteq Nat
    BY DEF TaskIds
  <2>. QED  BY <2>1, <2>2, <2>3
<1>2. \A i, j \in TaskIds : i # j => MoreUrgent(i, j) \/ MoreUrgent(j, i)
  BY <1>1 DEF MoreUrgent
<1>3. \A i, j, k \in TaskIds : MoreUrgent(i, j) /\ MoreUrgent(j, k) => MoreUrgent(i, k)
  BY <1>1 DEF MoreUrgent
<1>. DEFINE R == {p \in TaskIds \X TaskIds : MoreUrgent(p[1], p[2])}
<1>4. ASSUME NEW i \in TaskIds, NEW j \in TaskIds
      PROVE  <<i, j>> \in R <=> MoreUrgent(i, j)
  <2>1. <<i, j>> \in TaskIds \X TaskIds /\ <<i, j>>[1] = i /\ <<i, j>>[2] = j
    OBVIOUS
  <2>. QED  BY <2>1
<1>. HIDE DEF R
<1>5. Orders(R, TaskIds)
  BY <1>2, <1>3, <1>4 DEF Orders
<1>. QED  BY <1>5 DEF R

\* The rows of the table are finitely many.
LEMMA RowNumbers == MaxRow \in Nat /\ IsFiniteSet(TaskIds) /\ Cardinality(TaskIds) = MaxRow
<1>1. MaxRow \in Nat
  BY WorkingSetAssumption
<1>2. IsFiniteSet(1 .. MaxRow) /\ Cardinality(1 .. MaxRow) = IF 1 > MaxRow THEN 0 ELSE MaxRow - 1 + 1
  <2>1. 1 \in Int /\ MaxRow \in Int
    BY <1>1
  <2>. QED  BY <2>1, FS_Interval
<1>. QED  BY <1>1, <1>2 DEF TaskIds

\* So does their place in the table.
LEMMA RowsOrder ==
    ASSUME WorkingTypeOK
    PROVE  Orders(RowOrder, TaskIds)
<1>1. /\ DOMAIN order = TaskIds /\ TaskIds \subseteq Nat
      /\ \A m \in TaskIds : order[m] \in TaskIds
      /\ \A x \in TaskIds : \E m \in TaskIds : order[m] = x
      /\ \A m, n \in TaskIds : m # n => order[m] # order[n]
  <2>1. DOMAIN order = TaskIds /\ TaskIds \subseteq Nat
    BY RowNumbers, EnumerationIsWhole DEF WorkingTypeOK, TaskIds
  <2>. QED  BY <2>1, RowNumbers, EnumerationIsWhole DEF WorkingTypeOK
<1>2. ASSUME NEW m \in TaskIds, NEW n \in TaskIds, m < n
      PROVE  <<order[m], order[n]>> \in RowOrder
  BY <1>1, <1>2 DEF RowOrder
<1>3. ASSUME NEW x, NEW y, <<x, y>> \in RowOrder
      PROVE  \E m, n \in TaskIds : m < n /\ x = order[m] /\ y = order[n]
  <2>1. PICK m \in TaskIds, n \in TaskIds : m < n /\ <<x, y>> = <<order[m], order[n]>>
    BY <1>3 DEF RowOrder
  <2>2. x = order[m] /\ y = order[n]
    BY <2>1
  <2>. QED  BY <2>1, <2>2
<1>4. ASSUME NEW x \in TaskIds, NEW y \in TaskIds, x # y
      PROVE  <<x, y>> \in RowOrder \/ <<y, x>> \in RowOrder
  <2>1. PICK m, n \in TaskIds : order[m] = x /\ order[n] = y
    BY <1>1
  <2>2. m < n \/ n < m
    BY <1>1, <1>4, <2>1
  <2>. QED  BY <1>2, <2>1, <2>2
<1>5. ASSUME NEW x \in TaskIds, NEW y \in TaskIds, NEW z \in TaskIds,
             <<x, y>> \in RowOrder, <<y, z>> \in RowOrder
      PROVE  <<x, z>> \in RowOrder
  <2>1. PICK m, n \in TaskIds : m < n /\ x = order[m] /\ y = order[n]
    BY <1>3, <1>5
  <2>2. PICK k, l \in TaskIds : k < l /\ y = order[k] /\ z = order[l]
    BY <1>3, <1>5
  <2>3. n = k
    BY <1>1, <2>1, <2>2
  <2>4. m < l
    BY <1>1, <2>1, <2>2, <2>3
  <2>. QED  BY <1>2, <2>1, <2>2, <2>4
<1>. QED  BY <1>4, <1>5 DEF Orders

\* The orders of the table are its permutations.
LEMMA RowOrders == SetToSeqs(TaskIds) =
    {f \in [TaskIds -> TaskIds] : \A i, j \in TaskIds : i # j => f[i] # f[j]}
<1>1. Cardinality(TaskIds) = MaxRow
  BY RowNumbers
<1>2. TaskIds = 1 .. MaxRow
  BY DEF TaskIds
<1>. QED  BY <1>1, <1>2 DEF SetToSeqs

\* A table whose rows have their number as id.
LEMMA WorkingTypesInitial == WorkingInit => WorkingTypeOK
<1>. SUFFICES ASSUME WorkingInit  PROVE WorkingTypeOK
  OBVIOUS
<1>1. order = [n \in TaskIds |-> n] /\ order \in SetToSeqs(TaskIds)
  BY RowOrders DEF WorkingInit, WorkingEmpty
<1>2. taskRows \in [TaskIds -> TaskRow]
  BY WorkingSetAssumption DEF WorkingInit, WorkingEmpty, TaskRow
<1>. QED  BY <1>1, <1>2 DEF WorkingTypeOK

\* The types of the table of tasks, under every edit.
LEMMA WorkingTypesKept == WorkingTypeOK /\ [WorkingNext]_workingVars => WorkingTypeOK'
<1>. SUFFICES ASSUME WorkingTypeOK, [WorkingNext]_workingVars  PROVE WorkingTypeOK'
  OBVIOUS
<1>. USE DEF WorkingTypeOK
<1>1. ASSUME NEW i \in TaskIds, NEW row \in TaskRow, EditTask(i, row)  PROVE WorkingTypeOK'
  BY <1>1 DEF EditTask
<1>2. ASSUME NEW i \in TaskIds,
             \/ \E s \in RowStatuses : EditTask(i, [taskRows[i] EXCEPT !.status = s])
             \/ \E p \in Priorities : EditTask(i, [taskRows[i] EXCEPT !.priority = p])
             \/ \E needs \in SUBSET (TaskIds \ {i}) :
                   EditTask(i, [taskRows[i] EXCEPT !.needs = needs])
      PROVE  WorkingTypeOK'
  <2>1. taskRows[i] \in TaskRow
    OBVIOUS
  <2>2. ASSUME NEW s \in RowStatuses  PROVE [taskRows[i] EXCEPT !.status = s] \in TaskRow
    BY <2>1 DEF TaskRow
  <2>3. ASSUME NEW p \in Priorities  PROVE [taskRows[i] EXCEPT !.priority = p] \in TaskRow
    BY <2>1 DEF TaskRow
  <2>4. ASSUME NEW needs \in SUBSET (TaskIds \ {i})
        PROVE  [taskRows[i] EXCEPT !.needs = needs] \in TaskRow
    BY <2>1 DEF TaskRow
  <2>. HIDE DEF WorkingTypeOK
  <2>. QED  BY <1>1, <1>2, <2>2, <2>3, <2>4
<1>3. ASSUME NEW n \in 1 .. MaxRow - 1, MoveRow(n)  PROVE WorkingTypeOK'
  <2>1. n \in TaskIds /\ n + 1 \in TaskIds /\ n # n + 1
    BY RowNumbers DEF TaskIds
  <2>2. order' = [order EXCEPT ![n] = order[n + 1], ![n + 1] = order[n]] /\ taskRows' = taskRows
    BY <1>3 DEF MoveRow
  <2>3. order \in [TaskIds -> TaskIds] /\ \A i, j \in TaskIds : i # j => order[i] # order[j]
    BY RowOrders
  <2>. DEFINE m == n + 1
  <2>4. m \in TaskIds /\ n # m /\ order' = [order EXCEPT ![n] = order[m], ![m] = order[n]]
    BY <2>1, <2>2
  <2>. HIDE DEF m
  <2>5. order' \in [TaskIds -> TaskIds] /\ \A i, j \in TaskIds : i # j => order'[i] # order'[j]
    BY <2>1, <2>3, <2>4
  <2>6. order' \in SetToSeqs(TaskIds)
    BY <2>5, RowOrders
  <2>. QED  BY <2>2, <2>6
<1>4. CASE UNCHANGED workingVars
  BY <1>4 DEF workingVars
<1>. QED  BY <1>2, <1>3, <1>4 DEF WorkingNext

-------------------------------------------------------------------------------
(* WorkingSet.tla: the queue, and the selection from it. *)

RowsIn(s) == s \in Seq(TaskIds)

\* The rows that are considered are rows of the table.
LEMMA QueueParts ==
    ASSUME WorkingTypeOK
    PROVE  /\ \A ids \in SUBSET TaskIds : RowsIn(RowsOf(ids)) /\ ToSet(RowsOf(ids)) = ids
           /\ \A ids \in SUBSET TaskIds :
                 /\ RowsIn(ByPriority(ids)) /\ ToSet(ByPriority(ids)) = ids
                 /\ \A m, n \in DOMAIN ByPriority(ids) :
                       m < n => MoreUrgent(ByPriority(ids)[m], ByPriority(ids)[n])
<1>1. ASSUME NEW ids \in SUBSET TaskIds
      PROVE  RowsIn(RowsOf(ids)) /\ ToSet(RowsOf(ids)) = ids
  <2>1. RowsOf(ids) \in Seq(ids) /\ ToSet(RowsOf(ids)) = ids
    BY RowNumbers, RowsOrder, ArrangedIsWhole DEF RowsOf
  <2>. QED  BY <2>1 DEF RowsIn
<1>2. ASSUME NEW ids \in SUBSET TaskIds
      PROVE  /\ RowsIn(ByPriority(ids)) /\ ToSet(ByPriority(ids)) = ids
             /\ \A m, n \in DOMAIN ByPriority(ids) :
                   m < n => MoreUrgent(ByPriority(ids)[m], ByPriority(ids)[n])
  <2>. DEFINE R == {p \in TaskIds \X TaskIds : MoreUrgent(p[1], p[2])}
              s == ByPriority(ids)
  <2>1. Orders(R, TaskIds)
    BY UrgencyOrders
  <2>2. \A x, y : <<x, y>> \in R => MoreUrgent(x, y)
    OBVIOUS
  <2>3. s = Arranged(ids, R)
    BY DEF ByPriority
  <2>. HIDE DEF R, s
  <2>4. s \in Seq(ids) /\ ToSet(s) = ids /\ \A m, n \in DOMAIN s : m < n => <<s[m], s[n]>> \in R
    BY <2>1, <2>3, RowNumbers, ArrangedIsWhole
  <2>5. s \in Seq(TaskIds) /\ ToSet(s) = ids /\ \A m, n \in DOMAIN s : m < n => MoreUrgent(s[m], s[n])
    <3>1. s \in Seq(TaskIds)
      BY <2>4
    <3>2. ASSUME NEW m \in DOMAIN s, NEW n \in DOMAIN s, m < n  PROVE MoreUrgent(s[m], s[n])
      <4>1. <<s[m], s[n]>> \in R
        BY <2>4, <3>2
      <4>. QED  BY <2>2, <4>1
    <3>. QED  BY <2>4, <3>1, <3>2
  <2>. QED  BY <2>5 DEF RowsIn, s
<1>. QED  BY <1>1, <1>2

\* A sequence that begins another one.
Begins(s, q) == Len(s) <= Len(q) /\ \A k \in 1 .. Len(s) : q[k] = s[k]

\* Two lists of rows, one after the other.
LEMMA ConcatRows ==
    ASSUME NEW s, RowsIn(s), NEW t, RowsIn(t)
    PROVE  RowsIn(s \o t) /\ ToSet(s \o t) = ToSet(s) \cup ToSet(t) /\ Begins(s, s \o t)
<1>1. /\ s \in Seq(TaskIds) /\ t \in Seq(TaskIds)
      /\ Len(s) \in Nat /\ Len(t) \in Nat /\ DOMAIN s = 1 .. Len(s) /\ DOMAIN t = 1 .. Len(t)
  BY DEF RowsIn
<1>. DEFINE q == s \o t
<1>2. /\ q \in Seq(TaskIds) /\ Len(q) = Len(s) + Len(t) /\ DOMAIN q = 1 .. Len(q)
      /\ \A i \in 1 .. Len(s) + Len(t) : q[i] = IF i <= Len(s) THEN s[i] ELSE t[i - Len(s)]
  BY <1>1, ConcatProperties
<1>. HIDE DEF q
<1>3. \A i \in 1 .. Len(s) : i \in 1 .. Len(q) /\ q[i] = s[i]
  BY <1>1, <1>2
<1>4. \A i \in 1 .. Len(t) : Len(s) + i \in 1 .. Len(q) /\ q[Len(s) + i] = t[i]
  <2>. TAKE i \in 1 .. Len(t)
  <2>1. Len(s) + i \in 1 .. Len(q) /\ ~(Len(s) + i <= Len(s)) /\ (Len(s) + i) - Len(s) = i
    BY <1>1, <1>2
  <2>. QED  BY <1>2, <2>1
<1>5. \A i \in 1 .. Len(q) : q[i] \in ToSet(s) \cup ToSet(t)
  <2>. TAKE i \in 1 .. Len(q)
  <2>1. CASE i <= Len(s)
    BY <1>1, <1>2, <2>1 DEF ToSet
  <2>2. CASE ~(i <= Len(s))
    <3>1. i - Len(s) \in 1 .. Len(t) /\ q[i] = t[i - Len(s)]
      BY <1>1, <1>2, <2>2
    <3>. QED  BY <1>1, <3>1 DEF ToSet
  <2>. QED  BY <2>1, <2>2
<1>6. ToSet(s) \cup ToSet(t) \subseteq ToSet(q)
  <2>1. ASSUME NEW x \in ToSet(s)  PROVE x \in ToSet(q)
    <3>1. PICK i \in 1 .. Len(s) : x = s[i]
      BY <1>1 DEF ToSet
    <3>. QED  BY <1>2, <1>3, <3>1 DEF ToSet
  <2>2. ASSUME NEW x \in ToSet(t)  PROVE x \in ToSet(q)
    <3>1. PICK i \in 1 .. Len(t) : x = t[i]
      BY <1>1 DEF ToSet
    <3>. QED  BY <1>2, <1>4, <3>1 DEF ToSet
  <2>. QED  BY <2>1, <2>2
<1>7. ToSet(q) \subseteq ToSet(s) \cup ToSet(t)
  BY <1>2, <1>5 DEF ToSet
<1>8. Begins(s, q)
  BY <1>1, <1>2, <1>3 DEF Begins
<1>. QED  BY <1>2, <1>6, <1>7, <1>8 DEF RowsIn, q

\* What begins the beginning of a list begins the list.
LEMMA BeginsOn ==
    ASSUME NEW s, RowsIn(s), NEW q, RowsIn(q), NEW r, RowsIn(r), Begins(s, q), Begins(q, r)
    PROVE  Begins(s, r)
<1>1. Len(s) \in Nat /\ Len(q) \in Nat /\ Len(r) \in Nat
  BY DEF RowsIn
<1>. QED  BY <1>1 DEF Begins

\* How far the selection has come after each row of the queue.
IsSelection(w) ==
    /\ w \in [0 .. Len(Queue) -> Seq(TaskIds)]
    /\ w[0] = <<>>
    /\ \A k \in 1 .. Len(Queue) : w[k] = Admit(w[k - 1], Queue[k])
    /\ Working = w[Len(Queue)]

\* The selection is made row by row.
LEMMA SelectionExists ==
    ASSUME RowsIn(Queue)
    PROVE  \E w : IsSelection(w)
<1>. DEFINE n == Len(Queue)
            S == 1 .. n
            pick == [T \in SUBSET S |-> Max(T)]
            f == [p \in S \X Seq(TaskIds) |-> Admit(p[2], Queue[p[1]])]
<1>1. n \in Nat /\ IsFiniteSet(S) /\ DOMAIN Queue = S /\ \A k \in S : Queue[k] \in TaskIds
  <2>1. Queue \in Seq(TaskIds) /\ n \in Nat /\ DOMAIN Queue = 1 .. n
    BY DEF RowsIn
  <2>2. IsFiniteSet(1 .. n)
    <3>. HIDE DEF n
    <3>. QED  BY <2>1, IntervalGrows
  <2>. QED  BY <2>1, <2>2
<1>. HIDE DEF n
<1>2. ASSUME NEW s \in Seq(TaskIds), NEW i \in TaskIds  PROVE Admit(s, i) \in Seq(TaskIds)
  BY DEF Admit
<1>3. f \in [S \X Seq(TaskIds) -> Seq(TaskIds)]
  <2>1. \A p \in S \X Seq(TaskIds) : p[1] \in S /\ p[2] \in Seq(TaskIds)
    OBVIOUS
  <2>. HIDE DEF S
  <2>. QED  BY <1>1, <1>2, <2>1
<1>4. ASSUME NEW T \in SUBSET S, T # {}  PROVE Max(T) \in T /\ \A x \in T : Max(T) >= x
  <2>1. T \subseteq 0 .. n /\ \A x \in T : x \in Nat
    BY <1>1
  <2>2. \E m \in T : \A k \in T : k <= m
    BY <1>1, <1>4, <2>1, GreatestNatural
  <2>3. \E m \in T : \A k \in T : m >= k
    BY <2>1, <2>2
  <2>. QED  BY <2>3 DEF Max
<1>5. \A T \in SUBSET S : T # {} => pick[T] \in T
  BY <1>4
<1>6. <<>> \in Seq(TaskIds)
  OBVIOUS
<1>7. PICK g \in [SUBSET S -> Seq(TaskIds)] : IsFold(g, S, pick, <<>>, f)
  <2>. HIDE DEF S, pick, f
  <2>. QED  BY <1>1, <1>3, <1>5, <1>6, FoldExists
<1>8. ASSUME NEW T \in SUBSET S, T # {}
      PROVE  g[T] = Admit(g[T \ {Max(T)}], Queue[Max(T)])
  <2>1. pick[T] \in S /\ g[T \ {pick[T]}] \in Seq(TaskIds) /\ pick[T] = Max(T)
    <3>. HIDE DEF S
    <3>. QED  BY <1>5, <1>8
  <2>2. g[T] = f[<<pick[T], g[T \ {pick[T]}]>>]
    BY <1>7, <1>8 DEF IsFold
  <2>. HIDE DEF S, pick
  <2>. QED  BY <2>1, <2>2
<1>9. g[{}] = <<>>
  BY <1>7 DEF IsFold
<1>10. \E h : h = [T \in SUBSET S |-> IF T = {} THEN <<>> ELSE Admit(h[T \ {Max(T)}], Queue[Max(T)])]
  <2>1. g = [T \in SUBSET S |-> IF T = {} THEN <<>> ELSE Admit(g[T \ {Max(T)}], Queue[Max(T)])]
    <3>. HIDE DEF S
    <3>. QED  BY <1>7, <1>8, <1>9
  <2>. QED  BY <2>1
<1>11. PICK h : /\ h = [T \in SUBSET S |-> IF T = {} THEN <<>>
                                           ELSE Admit(h[T \ {Max(T)}], Queue[Max(T)])]
                /\ Working = h[S]
  BY <1>1, <1>10 DEF Working, FoldLeft, MapThenFoldSet
<1>. DEFINE w == [k \in 0 .. n |-> h[1 .. k]]
<1>12. h[{}] = <<>> /\ \A T \in SUBSET S : T # {} => h[T] = Admit(h[T \ {Max(T)}], Queue[Max(T)])
  <2>. HIDE DEF S
  <2>. QED  BY <1>11
<1>13. \A T \in SUBSET S : h[T] \in Seq(TaskIds)
  <2>. DEFINE P == {T \in SUBSET S : h[T] \in Seq(TaskIds)}
  <2>1. ASSUME NEW T \in SUBSET S, T # {}, \A x \in T : T \ {x} \in P  PROVE T \in P
    <3>1. Max(T) \in T /\ Max(T) \in S /\ h[T \ {Max(T)}] \in Seq(TaskIds)
      BY <1>4, <2>1
    <3>2. h[T] = Admit(h[T \ {Max(T)}], Queue[Max(T)])
      BY <1>12, <2>1
    <3>3. Queue[Max(T)] \in TaskIds
      BY <1>1, <3>1
    <3>4. h[T] \in Seq(TaskIds)
      BY <1>2, <3>1, <3>2, <3>3
    <3>. QED  BY <2>1, <3>4
  <2>2. {} \in P
    BY <1>6, <1>12
  <2>3. SUBSET S \subseteq P
    <3>. HIDE DEF P, S
    <3>. QED  BY <1>1, <2>1, <2>2, SubsetInduction
  <2>. QED  BY <2>3
<1>14. ASSUME NEW k \in 1 .. n  PROVE w[k] = Admit(w[k - 1], Queue[k])
  <2>1. k - 1 \in Nat /\ (k - 1) + 1 = k /\ k - 1 \in 0 .. n /\ k \in 0 .. n
    BY <1>1
  <2>2. k \in 1 .. k /\ (1 .. k) \ {k} = 1 .. k - 1 /\ 1 .. k \subseteq S
    BY <1>1, <2>1
  <2>3. Max(1 .. k) = k
    <3>1. Max(1 .. k) \in 1 .. k /\ Max(1 .. k) >= k
      BY <1>4, <2>2
    <3>. QED  BY <1>1, <3>1
  <2>4. h[1 .. k] = Admit(h[1 .. k - 1], Queue[k])
    BY <1>12, <2>2, <2>3
  <2>. QED  BY <2>1, <2>4
<1>15. w \in [0 .. n -> Seq(TaskIds)]
  <2>1. \A k \in 0 .. n : 1 .. k \in SUBSET S
    BY <1>1
  <2>. QED  BY <1>13, <2>1
<1>16. w[0] = <<>> /\ Working = w[n]
  <2>1. 0 \in 0 .. n /\ n \in 0 .. n /\ 1 .. 0 = {}
    BY <1>1
  <2>. QED  BY <1>11, <1>12, <2>1
<1>17. IsSelection(w)
  <2>. HIDE DEF w
  <2>. QED  BY <1>14, <1>15, <1>16 DEF IsSelection, n
<1>. QED  BY <1>17

\* What was admitted comes from the rows considered so far, and stays.
LEMMA SelectionGrows ==
    ASSUME RowsIn(Queue), NEW w, IsSelection(w)
    PROVE  /\ \A k \in 0 .. Len(Queue) :
                 /\ w[k] \in Seq(TaskIds) /\ Len(w[k]) <= WorkingLimit
                 /\ \A x \in ToSet(w[k]) : \E m \in 1 .. k : Queue[m] = x
           /\ \A k \in 0 .. Len(Queue) : \A l \in k .. Len(Queue) :
                 /\ ToSet(w[k]) \subseteq ToSet(w[l])
                 /\ Len(w[k]) = WorkingLimit => w[l] = w[k]
<1>. DEFINE n == Len(Queue)
            Bounded(k) == /\ w[k] \in Seq(TaskIds) /\ Len(w[k]) <= WorkingLimit
                          /\ \A x \in ToSet(w[k]) : \E m \in 1 .. k : Queue[m] = x
<1>1. /\ n \in Nat /\ WorkingLimit \in Nat /\ \A k \in 1 .. n : Queue[k] \in TaskIds
      /\ w \in [0 .. n -> Seq(TaskIds)] /\ w[0] = <<>>
      /\ \A k \in 1 .. n : w[k] = Admit(w[k - 1], Queue[k])
  <2>1. Queue \in Seq(TaskIds) /\ n \in Nat /\ DOMAIN Queue = 1 .. n
    BY DEF RowsIn
  <2>. QED  BY <2>1, WorkingSetAssumption DEF IsSelection
<1>. HIDE DEF n
<1>2. ASSUME NEW s \in Seq(TaskIds), NEW i \in TaskIds, Len(s) <= WorkingLimit
      PROVE  /\ Len(Admit(s, i)) <= WorkingLimit
             /\ ToSet(s) \subseteq ToSet(Admit(s, i))
             /\ ToSet(Admit(s, i)) \subseteq ToSet(s) \cup {i}
             /\ Len(s) = WorkingLimit => Admit(s, i) = s
  <2>. DEFINE t == Append(s, i)
  <2>1. /\ Len(s) \in Nat /\ Len(t) = Len(s) + 1 /\ DOMAIN s = 1 .. Len(s)
        /\ t \in Seq(TaskIds) /\ DOMAIN t = 1 .. Len(s) + 1
        /\ t[Len(s) + 1] = i /\ \A k \in 1 .. Len(s) : t[k] = s[k]
    BY AppendProperties
  <2>2. Admit(s, i) = s \/ (Len(s) < WorkingLimit /\ Admit(s, i) = t)
    BY DEF Admit
  <2>. HIDE DEF t
  <2>3. Len(s) < WorkingLimit => Len(t) <= WorkingLimit
    BY <1>1, <2>1
  <2>4. ToSet(s) \subseteq ToSet(t)
    <3>1. \A k \in 1 .. Len(s) : k \in 1 .. Len(s) + 1
      BY <2>1
    <3>. QED  BY <2>1, <3>1 DEF ToSet
  <2>5. ToSet(t) \subseteq ToSet(s) \cup {i}
    <3>1. \A k \in 1 .. Len(s) + 1 : k \in 1 .. Len(s) \/ k = Len(s) + 1
      BY <2>1
    <3>. QED  BY <2>1, <3>1 DEF ToSet
  <2>6. ~(WorkingLimit < WorkingLimit)
    BY <1>1
  <2>. QED  BY <1>2, <2>2, <2>3, <2>4, <2>5, <2>6
<1>3. \A k \in 0 .. n : Bounded(k)
  <2>. DEFINE N == {k \in Nat : k \in 0 .. n => Bounded(k)}
  <2>1. 0 \in N
    <3>1. w[0] \in Seq(TaskIds) /\ Len(w[0]) = 0 /\ ToSet(w[0]) = {}
      BY <1>1 DEF ToSet
    <3>2. 0 <= WorkingLimit
      BY <1>1
    <3>. QED  BY <3>1, <3>2
  <2>2. ASSUME NEW k \in Nat, k \in N  PROVE k + 1 \in N
    <3>. SUFFICES ASSUME k + 1 \in 0 .. n  PROVE Bounded(k + 1)
      OBVIOUS
    <3>1. k \in 0 .. n /\ k + 1 \in 1 .. n /\ (k + 1) - 1 = k
      BY <1>1
    <3>2. Bounded(k) /\ w[k + 1] = Admit(w[k], Queue[k + 1]) /\ Queue[k + 1] \in TaskIds
      BY <1>1, <2>2, <3>1
    <3>3. /\ Len(w[k + 1]) <= WorkingLimit
          /\ ToSet(w[k + 1]) \subseteq ToSet(w[k]) \cup {Queue[k + 1]}
      BY <1>2, <3>2
    <3>4. w[k + 1] \in Seq(TaskIds)
      BY <1>1, <3>1
    <3>5. ASSUME NEW x \in ToSet(w[k + 1])  PROVE \E m \in 1 .. k + 1 : Queue[m] = x
      <4>1. CASE x = Queue[k + 1]
        <5>1. k + 1 \in 1 .. k + 1
          OBVIOUS
        <5>. QED  BY <4>1, <5>1
      <4>2. CASE x \in ToSet(w[k])
        <5>1. PICK m \in 1 .. k : Queue[m] = x
          BY <3>2, <4>2
        <5>2. m \in 1 .. k + 1
          BY <5>1
        <5>. QED  BY <5>1, <5>2
      <4>. QED  BY <3>3, <3>5, <4>1, <4>2
    <3>. QED  BY <3>3, <3>4, <3>5
  <2>3. \A k \in Nat : k \in N
    <3>. HIDE DEF N
    <3>. QED  BY <2>1, <2>2, NatSetInduction
  <2>. HIDE DEF Bounded
  <2>. QED  BY <1>1, <2>3
<1>4. ASSUME NEW k \in 0 .. n
      PROVE  \A l \in k .. n :
                /\ ToSet(w[k]) \subseteq ToSet(w[l])
                /\ Len(w[k]) = WorkingLimit => w[l] = w[k]
  <2>. DEFINE After(l) == /\ ToSet(w[k]) \subseteq ToSet(w[l])
                          /\ Len(w[k]) = WorkingLimit => w[l] = w[k]
              N == {d \in Nat : k + d \in k .. n => After(k + d)}
  <2>1. 0 \in N
    <3>1. k + 0 = k
      BY <1>1
    <3>. QED  BY <3>1
  <2>2. ASSUME NEW d \in Nat, d \in N  PROVE d + 1 \in N
    <3>. SUFFICES ASSUME k + (d + 1) \in k .. n  PROVE After(k + (d + 1))
      OBVIOUS
    <3>. DEFINE l == k + d
    <3>1. l \in k .. n /\ l \in 0 .. n /\ k + (d + 1) = l + 1 /\ l + 1 \in 1 .. n /\ (l + 1) - 1 = l
      BY <1>1
    <3>2. After(l)
      BY <2>2, <3>1
    <3>. HIDE DEF l
    <3>3. w[l + 1] = Admit(w[l], Queue[l + 1]) /\ Queue[l + 1] \in TaskIds
      BY <1>1, <3>1
    <3>4. w[l] \in Seq(TaskIds) /\ Len(w[l]) <= WorkingLimit
      BY <1>3, <3>1
    <3>5. ToSet(w[l]) \subseteq ToSet(w[l + 1]) /\ (Len(w[l]) = WorkingLimit => w[l + 1] = w[l])
      BY <1>2, <3>3, <3>4
    <3>. QED  BY <3>1, <3>2, <3>5
  <2>3. \A d \in Nat : d \in N
    <3>. HIDE DEF N
    <3>. QED  BY <2>1, <2>2, NatSetInduction
  <2>4. ASSUME NEW l \in k .. n  PROVE After(l)
    <3>1. l - k \in Nat /\ k + (l - k) = l
      BY <1>1
    <3>2. l - k \in N
      <4>. HIDE DEF N
      <4>. QED  BY <2>3, <3>1
    <3>. HIDE DEF After
    <3>. QED  BY <3>1, <3>2
  <2>. QED  BY <2>4
<1>. QED  BY <1>3, <1>4 DEF n

\* Who is left out gives way to the rows before it, and they fill the set.
LEMMA LeftOutBehind ==
    ASSUME RowsIn(Queue), NEW k \in 1 .. Len(Queue), LeftOut(Queue[k])
    PROVE  /\ Len(Working) = WorkingLimit
           /\ \A x \in ToSet(Working) : \E m \in 1 .. k - 1 : Queue[m] = x
<1>1. PICK w : IsSelection(w)
  BY SelectionExists
<1>. DEFINE n == Len(Queue)
            i == Queue[k]
            before == w[k - 1]
<1>2. /\ n \in Nat /\ k \in Nat /\ k - 1 \in 0 .. n /\ k \in 0 .. n /\ n \in 0 .. n
      /\ n \in k .. n /\ n \in k - 1 .. n /\ i \in TaskIds
  <2>1. Queue \in Seq(TaskIds) /\ n \in Nat /\ DOMAIN Queue = 1 .. n /\ k \in 1 .. n
    BY DEF RowsIn
  <2>2. i \in TaskIds
    BY <2>1
  <2>. HIDE DEF n
  <2>. QED  BY <2>1, <2>2
<1>3. /\ before \in Seq(TaskIds) /\ Len(before) <= WorkingLimit
      /\ \A x \in ToSet(before) : \E m \in 1 .. k - 1 : Queue[m] = x
      /\ ToSet(before) \subseteq ToSet(Working) /\ ToSet(w[k]) \subseteq ToSet(Working)
      /\ Len(before) = WorkingLimit => Working = before
  BY <1>1, <1>2, SelectionGrows DEF IsSelection
<1>4. w[k] = Admit(before, i)
  BY <1>1 DEF IsSelection
<1>5. Working \in Seq(TaskIds)
  BY <1>1, <1>2 DEF IsSelection
<1>6. i \notin ToSet(Working) /\ Approved(i)
  BY <1>5 DEF LeftOut, Contains, ToSet
<1>7. ~(Len(before) < WorkingLimit)
  <2>. SUFFICES ASSUME Len(before) < WorkingLimit  PROVE FALSE
    OBVIOUS
  <2>. HIDE DEF before, i
  <2>1. i \notin ToSet(before)
    BY <1>3, <1>6
  <2>2. ~Contains(before, i)
    BY <1>3, <2>1 DEF Contains, ToSet
  <2>3. w[k] = Append(before, i)
    BY <1>4, <1>6, <2>2 DEF Admit
  <2>4. i \in ToSet(Append(before, i))
    <3>1. Len(before) + 1 \in DOMAIN Append(before, i) /\ Append(before, i)[Len(before) + 1] = i
      BY <1>2, <1>3 DEF i
    <3>. QED  BY <3>1 DEF ToSet
  <2>. QED  BY <1>3, <1>6, <2>3, <2>4
<1>8. Len(before) = WorkingLimit
  <2>1. Len(before) \in Nat /\ WorkingLimit \in Nat
    BY <1>3, WorkingSetAssumption
  <2>. QED  BY <1>3, <1>7, <2>1
<1>. QED  BY <1>3, <1>8

\* Who is left out of a beginning of the queue gives way to that beginning.
LEMMA FoundEarly ==
    ASSUME NEW s, RowsIn(s), RowsIn(Queue), Begins(s, Queue), NEW i \in ToSet(s), LeftOut(i)
    PROVE  Len(Working) = WorkingLimit /\ ToSet(Working) \subseteq ToSet(s)
<1>1. Len(s) \in Nat /\ DOMAIN s = 1 .. Len(s) /\ Len(Queue) \in Nat
  BY DEF RowsIn
<1>2. PICK k \in 1 .. Len(s) : s[k] = i
  BY <1>1 DEF ToSet
<1>3. k \in 1 .. Len(Queue) /\ Queue[k] = i
  BY <1>1, <1>2 DEF Begins
<1>4. /\ Len(Working) = WorkingLimit
      /\ \A x \in ToSet(Working) : \E m \in 1 .. k - 1 : Queue[m] = x
  BY <1>3, LeftOutBehind
<1>5. \A m \in 1 .. k - 1 : Queue[m] \in ToSet(s)
  <2>. TAKE m \in 1 .. k - 1
  <2>1. m \in 1 .. Len(s) /\ Queue[m] = s[m]
    BY <1>1, <1>2 DEF Begins
  <2>. QED  BY <1>1, <2>1 DEF ToSet
<1>. QED  BY <1>4, <1>5

\* The parts of the queue are lists of rows with the status that they are for.
LEMMA PartsOfQueue ==
    ASSUME WorkingTypeOK
    PROVE  /\ RowsIn(Anchor) /\ RowsIn(Urgent) /\ RowsIn(Needed) /\ RowsIn(Ready)
           /\ \A s \in {"InProgress", "Review", "Blocked"} :
                 /\ RowsIn(WithStatus(s))
                 /\ ToSet(WithStatus(s)) = {i \in TaskIds : taskRows[i].status = s}
           /\ ToSet(Ready) = {i \in TaskIds : taskRows[i].status = "Ready"}
           /\ \A m, n \in DOMAIN Ready : m < n => MoreUrgent(Ready[m], Ready[n])
<1>1. \A s : /\ RowsIn(WithStatus(s))
             /\ ToSet(WithStatus(s)) = {i \in TaskIds : taskRows[i].status = s}
  BY QueueParts DEF WithStatus
<1>2. RowsIn(Anchor)
  <2>1. CASE WithStatus("InProgress") = <<>>
    BY <2>1 DEF Anchor, RowsIn
  <2>2. CASE WithStatus("InProgress") # <<>>
    <3>1. Head(WithStatus("InProgress")) \in TaskIds
      BY <1>1, <2>2 DEF RowsIn
    <3>. QED  BY <2>2, <3>1 DEF Anchor, RowsIn
  <2>. QED  BY <2>1, <2>2
<1>3. RowsIn(Urgent)
  BY QueueParts DEF Urgent
<1>4. RowsIn(Needed)
  <2>1. \A i \in ToSet(Anchor) : i \in TaskIds
    BY <1>2 DEF RowsIn, ToSet
  <2>2. \A i \in TaskIds : taskRows[i].needs \subseteq TaskIds
    BY DEF WorkingTypeOK, TaskRow
  <2>3. UNION {taskRows[i].needs : i \in ToSet(Anchor)} \in SUBSET TaskIds
    BY <2>1, <2>2
  <2>. QED  BY <2>3, QueueParts DEF Needed
<1>5. /\ RowsIn(Ready) /\ ToSet(Ready) = {i \in TaskIds : taskRows[i].status = "Ready"}
      /\ \A m, n \in DOMAIN Ready : m < n => MoreUrgent(Ready[m], Ready[n])
  <2>1. {i \in TaskIds : taskRows[i].status = "Ready"} \in SUBSET TaskIds
    OBVIOUS
  <2>. QED  BY <2>1, QueueParts DEF Ready
<1>. QED  BY <1>1, <1>2, <1>3, <1>4, <1>5

\* The queue before the ready rows.
Earlier == Anchor \o Urgent \o Needed \o WithStatus("InProgress")
             \o WithStatus("Review") \o WithStatus("Blocked")

\* The parts of the queue, and what they begin with.
LEMMA QueueOrder ==
    ASSUME WorkingTypeOK
    PROVE  /\ RowsIn(Queue) /\ RowsIn(Earlier) /\ Queue = Earlier \o Ready
           /\ Begins(Anchor, Queue)
           /\ RowsIn(Anchor \o Urgent) /\ Begins(Anchor \o Urgent, Queue)
           /\ ToSet(Anchor \o Urgent) = ToSet(Anchor) \cup ToSet(Urgent)
           /\ RowsIn(Anchor \o Urgent \o Needed) /\ Begins(Anchor \o Urgent \o Needed, Queue)
           /\ ToSet(Anchor \o Urgent \o Needed)
                 = ToSet(Anchor) \cup ToSet(Urgent) \cup ToSet(Needed)
           /\ ToSet(Earlier) =
                 ToSet(Anchor) \cup ToSet(Urgent) \cup ToSet(Needed)
                    \cup ToSet(WithStatus("InProgress")) \cup ToSet(WithStatus("Review"))
                    \cup ToSet(WithStatus("Blocked"))
           /\ ToSet(Queue) = ToSet(Earlier) \cup ToSet(Ready)
<1>. DEFINE P == WithStatus("InProgress")
            R == WithStatus("Review")
            B == WithStatus("Blocked")
            q2 == Anchor \o Urgent
            q3 == q2 \o Needed
            q4 == q3 \o P
            q5 == q4 \o R
<1>1. /\ RowsIn(Anchor) /\ RowsIn(Urgent) /\ RowsIn(Needed) /\ RowsIn(Ready)
      /\ RowsIn(P) /\ RowsIn(R) /\ RowsIn(B)
  BY PartsOfQueue
<1>2. Earlier = q5 \o B /\ Queue = Earlier \o Ready
  BY DEF Earlier, Queue
<1>3. RowsIn(q2) /\ ToSet(q2) = ToSet(Anchor) \cup ToSet(Urgent) /\ Begins(Anchor, q2)
  BY <1>1, ConcatRows
<1>. HIDE DEF P, R, B, q2
<1>4. RowsIn(q3) /\ ToSet(q3) = ToSet(q2) \cup ToSet(Needed) /\ Begins(q2, q3)
  BY <1>1, <1>3, ConcatRows
<1>. HIDE DEF q3
<1>5. RowsIn(q4) /\ ToSet(q4) = ToSet(q3) \cup ToSet(P) /\ Begins(q3, q4)
  BY <1>1, <1>4, ConcatRows
<1>. HIDE DEF q4
<1>6. RowsIn(q5) /\ ToSet(q5) = ToSet(q4) \cup ToSet(R) /\ Begins(q4, q5)
  BY <1>1, <1>5, ConcatRows
<1>. HIDE DEF q5
<1>7. RowsIn(Earlier) /\ ToSet(Earlier) = ToSet(q5) \cup ToSet(B) /\ Begins(q5, Earlier)
  BY <1>1, <1>2, <1>6, ConcatRows
<1>8. RowsIn(Queue) /\ ToSet(Queue) = ToSet(Earlier) \cup ToSet(Ready) /\ Begins(Earlier, Queue)
  BY <1>1, <1>2, <1>7, ConcatRows
<1>9. Begins(q5, Queue)
  BY <1>6, <1>7, <1>8, BeginsOn
<1>10. Begins(q4, Queue)
  BY <1>5, <1>6, <1>8, <1>9, BeginsOn
<1>11. Begins(q3, Queue)
  BY <1>4, <1>5, <1>8, <1>10, BeginsOn
<1>12. Begins(q2, Queue)
  BY <1>3, <1>4, <1>8, <1>11, BeginsOn
<1>13. Begins(Anchor, Queue)
  BY <1>1, <1>3, <1>8, <1>12, BeginsOn
<1>14. ToSet(Earlier) = ToSet(Anchor) \cup ToSet(Urgent) \cup ToSet(Needed)
                    \cup ToSet(P) \cup ToSet(R) \cup ToSet(B)
  BY <1>3, <1>4, <1>5, <1>6, <1>7
<1>15. ToSet(q3) = ToSet(Anchor) \cup ToSet(Urgent) \cup ToSet(Needed)
  BY <1>3, <1>4
<1>. QED
  BY <1>2, <1>3, <1>4, <1>7, <1>8, <1>11, <1>12, <1>13, <1>14, <1>15 DEF P, R, B, q2, q3

\* A ready row gives way to more urgent ones and to what comes before all of them.
LEMMA ReadyInOrder ==
    ASSUME WorkingTypeOK, NEW i \in ToSet(Ready), LeftOut(i)
    PROVE  \A j \in ToSet(Working) : j \in ToSet(Earlier) \/ MoreUrgent(j, i)
<1>1. /\ RowsIn(Earlier) /\ RowsIn(Ready) /\ RowsIn(Queue) /\ Queue = Earlier \o Ready
      /\ \A m, n \in DOMAIN Ready : m < n => MoreUrgent(Ready[m], Ready[n])
  BY QueueOrder, PartsOfQueue
<1>2. /\ Len(Earlier) \in Nat /\ Len(Ready) \in Nat /\ DOMAIN Ready = 1 .. Len(Ready)
      /\ DOMAIN Earlier = 1 .. Len(Earlier)
      /\ Len(Queue) = Len(Earlier) + Len(Ready)
      /\ \A k \in 1 .. Len(Earlier) + Len(Ready) :
            Queue[k] = IF k <= Len(Earlier) THEN Earlier[k] ELSE Ready[k - Len(Earlier)]
  <2>1. Earlier \in Seq(TaskIds) /\ Ready \in Seq(TaskIds)
    BY <1>1 DEF RowsIn
  <2>. QED  BY <1>1, <2>1, ConcatProperties
<1>3. PICK m \in 1 .. Len(Ready) : Ready[m] = i
  BY <1>2 DEF ToSet
<1>. DEFINE k == Len(Earlier) + m
<1>4. k \in 1 .. Len(Queue) /\ Queue[k] = i
  <2>1. k \in 1 .. Len(Earlier) + Len(Ready) /\ ~(k <= Len(Earlier)) /\ k - Len(Earlier) = m
    BY <1>2
  <2>. QED  BY <1>2, <1>3, <2>1
<1>5. \A x \in ToSet(Working) : \E l \in 1 .. k - 1 : Queue[l] = x
  <2>. HIDE DEF k
  <2>. QED  BY <1>1, <1>4, LeftOutBehind
<1>6. ASSUME NEW l \in 1 .. k - 1  PROVE Queue[l] \in ToSet(Earlier) \/ MoreUrgent(Queue[l], i)
  <2>1. CASE l <= Len(Earlier)
    <3>1. l \in DOMAIN Earlier /\ Queue[l] = Earlier[l]
      BY <1>2, <2>1
    <3>. QED  BY <3>1 DEF ToSet
  <2>2. CASE ~(l <= Len(Earlier))
    <3>1. l - Len(Earlier) \in DOMAIN Ready /\ l - Len(Earlier) < m /\ m \in DOMAIN Ready
          /\ Queue[l] = Ready[l - Len(Earlier)]
      BY <1>2, <2>2
    <3>. QED  BY <1>1, <1>3, <3>1
  <2>. QED  BY <2>1, <2>2
<1>. QED  BY <1>5, <1>6

\* What the invariant says of the working set.
LEMMA WorkingIsFair == WorkingTypeOK => WorkingSetFair
<1>. SUFFICES ASSUME WorkingTypeOK, NEW i \in TaskIds, LeftOut(i)
              PROVE  LET first == ToSet(Anchor) \cup ToSet(Urgent)
                     IN  /\ Len(Working) = WorkingLimit
                         /\ i \notin ToSet(Anchor)
                         /\ i \in ToSet(Urgent) => ToSet(Working) \subseteq first
                         /\ i \in ToSet(Needed) => ToSet(Working) \subseteq first \cup ToSet(Needed)
                         /\ taskRows[i].status = "Ready" =>
                               \A j \in ToSet(Working) \ (first \cup ToSet(Needed)) :
                                  taskRows[j].status = "Ready" => MoreUrgent(j, i)
  BY DEF WorkingSetFair
<1>1. taskRows[i].status \in {"Ready", "InProgress", "Review", "Blocked"}
  BY WorkingSetAssumption DEF LeftOut, Approved, WorkingTypeOK, TaskRow, TaskStatus
<1>2. i \in ToSet(Queue)
  BY <1>1, QueueOrder, PartsOfQueue
<1>3. Len(Working) = WorkingLimit /\ WorkingLimit \in Nat \ {0}
  <2>1. RowsIn(Queue) /\ Begins(Queue, Queue)
    BY QueueOrder DEF Begins, RowsIn
  <2>. QED  BY <1>2, <2>1, FoundEarly, WorkingSetAssumption
<1>4. i \notin ToSet(Anchor)
  <2>. SUFFICES ASSUME i \in ToSet(Anchor)  PROVE FALSE
    OBVIOUS
  <2>1. RowsIn(Anchor) /\ Len(Anchor) \in {0, 1}
    BY PartsOfQueue DEF Anchor
  <2>2. Len(Anchor) = 1 /\ Anchor[1] = i
    <3>1. PICK k \in DOMAIN Anchor : Anchor[k] = i
      BY DEF ToSet
    <3>2. DOMAIN Anchor = 1 .. Len(Anchor)
      BY <2>1 DEF RowsIn
    <3>. QED  BY <2>1, <3>1, <3>2
  <2>3. Queue[1] = i /\ 1 \in 1 .. Len(Queue) /\ RowsIn(Queue)
    <3>1. Begins(Anchor, Queue) /\ RowsIn(Queue)
      BY QueueOrder
    <3>2. Len(Queue) \in Nat
      BY <3>1 DEF RowsIn
    <3>. QED  BY <2>2, <3>1, <3>2 DEF Begins
  <2>4. \A x \in ToSet(Working) : \E m \in 1 .. 1 - 1 : Queue[m] = x
    BY <2>3, LeftOutBehind
  <2>5. ToSet(Working) = {}
    BY <2>4
  <2>6. 1 \in 1 .. Len(Working)
    BY <1>3
  <2>7. Working \in Seq(TaskIds)
    <3>1. PICK w : IsSelection(w)
      BY <2>3, SelectionExists
    <3>2. Len(Queue) \in 0 .. Len(Queue)
      <4>1. Len(Queue) \in Nat
        BY <2>3 DEF RowsIn
      <4>. QED  BY <4>1
    <3>. QED  BY <3>1, <3>2 DEF IsSelection
  <2>8. 1 \in DOMAIN Working
    BY <2>6, <2>7
  <2>. QED  BY <2>5, <2>8 DEF ToSet
<1>5. i \in ToSet(Urgent) => ToSet(Working) \subseteq ToSet(Anchor) \cup ToSet(Urgent)
  BY QueueOrder, FoundEarly
<1>6. i \in ToSet(Needed) =>
         ToSet(Working) \subseteq ToSet(Anchor) \cup ToSet(Urgent) \cup ToSet(Needed)
  BY QueueOrder, FoundEarly
<1>7. ASSUME taskRows[i].status = "Ready",
             NEW j \in ToSet(Working) \ (ToSet(Anchor) \cup ToSet(Urgent) \cup ToSet(Needed)),
             taskRows[j].status = "Ready"
      PROVE  MoreUrgent(j, i)
  <2>1. i \in ToSet(Ready)
    BY <1>7, PartsOfQueue
  <2>2. j \in ToSet(Earlier) \/ MoreUrgent(j, i)
    BY <2>1, ReadyInOrder
  <2>3. j \notin ToSet(Earlier)
    BY <1>7, QueueOrder, PartsOfQueue
  <2>. QED  BY <2>2, <2>3
<1>. QED  BY <1>3, <1>4, <1>5, <1>6, <1>7

-------------------------------------------------------------------------------
(* The components next to the others. *)

ReadersInv ==
    /\ part = "reducer" => ReducerInv /\ ReducerTypeOK
    /\ part = "servers" => ServersInv /\ holder \in Callers \cup {Nobody}
    /\ part = "view" => HudTasksTypeOK
    /\ part = "evidence" => EvidenceInv /\ EvidenceTypeOK
    /\ part = "reconcile" => ReconcilerInv
    /\ part = "resume" => ResumeInv
    /\ part = "experiment" => ExperimentInv
    /\ part = "route" => RouteTypeOK
    /\ part = "working" => WorkingTypeOK
    /\ ViewInv

\* The invariants of the nine components hold in the composition: each is
\* disturbed by the steps of its own component only.
LEMMA ReadersInvariant == Spec => []ReadersInv
<1>1. Init => ReadersInv
  <2>. SUFFICES ASSUME NEW p \in Parts, part = p, InitOf(p), Idle(p)  PROVE ReadersInv
    BY DEF Init
  <2>1. /\ p = "reducer" => ReducerInit
        /\ p = "servers" => HudServersInit
        /\ p = "view" => HudTasksInit
        /\ p = "evidence" => EvidenceInit
        /\ p = "reconcile" => ReconcilerInit
        /\ p = "resume" => ResumeInit
        /\ p = "experiment" => ExperimentInit
        /\ p = "route" => RouteInit
        /\ p = "working" => WorkingInit
    BY DEF InitOf
  <2>2. p # "view" => HudTasksInit
    BY DEF Idle, HudTasksEmpty, HudTasksInit
  <2>3. p = "servers" => holder = Nobody
    BY <2>1 DEF HudServersInit, HudServersEmpty
  <2>. QED
    BY <2>1, <2>2, <2>3, ReducerInitial, ReducerTypesInitial, ServersInitial, ViewInitial,
       ViewTypesInitial, EvidenceInitial, EvidenceTypesInitial, ReconcilerInitial,
       ResumeInitial, ExperimentInitial, RouteTypesInitial, WorkingTypesInitial
       DEF ReadersInv
<1>2. ReadersInv /\ [Next]_allVars => ReadersInv'
  <2>. SUFFICES ASSUME ReadersInv, [Next]_allVars  PROVE ReadersInv'
    OBVIOUS
  <2>1. part' = part
    BY DEF Next, OperationNext, ReaderNext, Runs, Frame, allVars
  <2>2. /\ part = "reducer" => [ReducerNext]_reducerVars
        /\ part = "servers" => [HudServersNext]_hudServerVars
        /\ part = "evidence" => [EvidenceNext]_evidenceVars
        /\ part = "reconcile" => [ReconcilerNext]_reconcilerVars
        /\ part = "resume" => [ResumeNext]_resumeVars
    BY DEF Next, OperationNext, ReaderNext, Runs, allVars, hudVars, cliVars
  <2>3. /\ part = "experiment" => [ExperimentNext]_experimentVars
        /\ part = "route" => [RouteNext]_profile
        /\ part = "working" => [WorkingNext]_workingVars
    BY DEF Next, OperationNext, ReaderNext, Runs, allVars, hudVars, cliVars
  <2>4. [HudTasksNext]_hudTaskVars
    BY DEF Next, OperationNext, ReaderNext, Runs, Frame, allVars, hudVars
  <2>5. part = "reducer" => (ReducerInv /\ ReducerTypeOK)'
    BY <2>2, ReducerKept, ReducerTypesKept DEF ReadersInv
  <2>6. part = "servers" => (ServersInv /\ holder \in Callers \cup {Nobody})'
    BY <2>2, ServersKept, HolderKnown DEF ReadersInv
  <2>7. ViewInv' /\ (part = "view" => HudTasksTypeOK')
    BY <2>4, ViewKept, ViewTypesKept DEF ReadersInv
  <2>8. part = "evidence" => (EvidenceInv /\ EvidenceTypeOK)'
    BY <2>2, EvidenceKept, EvidenceTypesKept DEF ReadersInv
  <2>9. /\ part = "reconcile" => ReconcilerInv'
        /\ part = "resume" => ResumeInv'
        /\ part = "experiment" => ExperimentInv'
        /\ part = "route" => RouteTypeOK'
        /\ part = "working" => WorkingTypeOK'
    BY <2>2, <2>3, ReconcilerKept, ResumeKept, ExperimentKept, RouteTypesKept,
       WorkingTypesKept DEF ReadersInv
  <2>. QED  BY <2>1, <2>5, <2>6, <2>7, <2>8, <2>9 DEF ReadersInv
<1>. QED  BY <1>1, <1>2, PTL DEF Spec

\* In the composition, too, runtime events are applied once, the newest is
\* shown, and the servers of the HUD are accounted for and their ports handed
\* over, with the exceptions above.
THEOREM HudIsTrue == Spec => []HudTrue
<1>1. ReadersInv => HudTrue
  BY ServersInvAccounts DEF ReadersInv, HudTrue, ReducerInv, AppliedOnce
<1>. QED  BY <1>1, ReadersInvariant, PTL

\* In the composition, too, the HUD shows the table that was read last.
THEOREM HudShowsLastRead == Spec => []ViewIsLastRead
<1>1. ReadersInv => ViewIsLastRead
  BY ViewInvShows DEF ReadersInv
<1>. QED  BY <1>1, ReadersInvariant, PTL

\* The verdicts of inspect-evidence, commitments and reconcile are true, for any
\* number of envelopes, requirements, tasks and edits.
THEOREM VerdictsAreTrue == Spec => []VerdictsTrue
<1>1. ReadersInv => VerdictsTrue
  BY EvidenceInvTrue, ReconcilerInvPasses DEF ReadersInv, VerdictsTrue
<1>. QED  BY <1>1, ReadersInvariant, PTL

\* What an agent goes on with hides nothing that comes first: the headline of the
\* HUD counts every row, the working set leaves out no row for one that comes
\* after it, and a packet that was told says what it left out; for any tables,
\* edits and sizes.
THEOREM OverviewsAreTrue == Spec => []OverviewsTrue
<1>1. ReadersInv => OverviewsTrue
  BY HeadlineOfAllRows, WorkingIsFair, ResumeInvHonest DEF ReadersInv, OverviewsTrue
<1>. QED  BY <1>1, ReadersInvariant, PTL

\* Experiments keep to their budget, no accepted row is lost without one on the
\* front that is no worse, and an experiment is advised only where it can be
\* measured; for any observations, limits and profiles.
THEOREM AdviceIsSound == Spec => []AdviceSound
<1>1. ReadersInv => AdviceSound
  BY ExperimentInvSound, AdviceJustified DEF ReadersInv, AdviceSound
<1>. QED  BY <1>1, ReadersInvariant, PTL

\* Whichever component runs, its state has the types that its module declares.
THEOREM TypesCorrect == Spec => []TypeOK
<1>1. OperationsInv /\ ReadersInv => TypeOK
  <2>. SUFFICES ASSUME OperationsInv, ReadersInv  PROVE TypeOK
    OBVIOUS
  <2>1. /\ part = "external" => ExternalTypeOK
        /\ part = "pulse" => PulseTypeOK
        /\ part = "gate" => SnapshotTypeOK
        /\ part = "sync" => SyncTypeOK
        /\ part = "closeout" => CloseoutTypeOK
        /\ part = "map" => MapTypeOK
        /\ part = "init" => ScaffoldTypeOK
        /\ part = "normalize" => NormalizeTypeOK
    BY DEF OperationsInv, ExternalInv, PulseInv, SnapshotInv, SyncInv, CloseoutInv, MapInv,
           ScaffoldInv
  <2>2. /\ part = "reducer" => ReducerTypeOK
        /\ part = "servers" => HudServersTypeOK
        /\ part = "view" => HudTasksTypeOK
        /\ part = "evidence" => EvidenceTypeOK
        /\ part = "reconcile" => ReconcilerTypeOK
        /\ part = "resume" => ResumeTypeOK
        /\ part = "experiment" => ExperimentTypeOK
        /\ part = "route" => RouteTypeOK
        /\ part = "working" => WorkingTypeOK
    BY ServersTyped DEF ReadersInv, ReconcilerInv, ResumeInv, ExperimentInv
  <2>3. part \in Parts
    BY DEF OperationsInv
  <2>. QED  BY <2>1, <2>2, <2>3 DEF TypeOK
<1>. QED  BY <1>1, OperationsInvariant, ReadersInvariant, PTL

===============================================================================
