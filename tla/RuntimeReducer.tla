---------------------------- MODULE RuntimeReducer ----------------------------
(***************************************************************************)
(* RuntimeReducer of mission-center-runtime: it folds the events of a      *)
(* provider, which may come late, twice or out of order, into one record   *)
(* per agent, and projects the records to the runtime state.  Event ids    *)
(* are remembered up to a bound, agents are admitted up to another, and    *)
(* age marks what has gone quiet or was cut off.                           *)
(*                                                                         *)
(* An event is what passes EventEnvelope::validate.  Its contents (state,  *)
(* activity, attention, tasks) are one value, and so is what runtime_state *)
(* projects of a record; events that name a task off the allowlist are     *)
(* refused untouched and left out.  The timestamp of an event is the event *)
(* itself.  The monotonic clock advances in steps of STALE_AFTER.          *)
(***************************************************************************)
EXTENDS Naturals, Sequences, SequencesExt, FiniteSets

CONSTANTS
    RuntimeAgents,  \* agent ids
    EventIds,       \* event ids
    Reports,        \* what an event says of its agent
    Gone,           \* the report that it is disconnected
    MaxSequence,    \* bound on sequence numbers
    MaxHeard,       \* bound on different events
    MaxAgents,      \* MAX_AGENTS
    MaxReplay,      \* MAX_REPLAY_EVENTS
    MaxRecentIds,   \* MAX_RECENT_EVENT_IDS
    MaxClock        \* bound on the clock

ASSUME ReducerLimits ==
    {MaxSequence, MaxHeard, MaxAgents, MaxReplay, MaxRecentIds, MaxClock} \subseteq Nat

VARIABLES
    agents,     \* RuntimeReducer.agents
    seen,       \* seen_order; seen is the set of its elements
    source,     \* source_status
    transport,  \* last_transport
    clock,      \* the monotonic clock
    heard,      \* history: the valid events that were delivered
    applied,    \* history: those that were applied
    repeated    \* history: those that were applied again

reducerVars == <<agents, seen, source, transport, clock, heard, applied, repeated>>

Event == [id : EventIds, agent : RuntimeAgents, sequence : 1 .. MaxSequence,
          report : Reports]

IdsUpTo(n) == UNION {[1 .. k -> EventIds] : k \in 0 .. n}

\* An aged record shows that instead of what its last event reported.
AgentSnapshot ==
    [event : Event, aged : {"fresh", "stale", "disconnected"}, started : Event,
     recent : IdsUpTo(MaxRecentIds), last : 0 .. MaxClock]

\* Agents are admitted and never dropped.
ReducerTypeOK ==
    /\ DOMAIN agents \subseteq RuntimeAgents
    /\ Cardinality(DOMAIN agents) <= MaxAgents
    /\ \A a \in DOMAIN agents : agents[a] \in AgentSnapshot
    /\ seen \in IdsUpTo(MaxReplay)
    /\ source \in {"connected", "replay", "stale", "disconnected"}
    /\ {transport, clock} \subseteq 0 .. MaxClock
    /\ repeated \subseteq applied /\ applied \subseteq heard /\ heard \subseteq Event

-------------------------------------------------------------------------------
Known(a) == a \in DOMAIN agents

\* Mutant of Remember: the bound is looked at before the new id is added.
RememberOneMore(ids, id, n) == Append(IF Len(ids) > n THEN Tail(ids) ELSE ids, id)

\* The last n ids, the new one included.
Remember(ids, id, n) == LET all == Append(ids, id)
                        IN  IF Len(all) > n THEN Tail(all) ELSE all

\* An event that is not newer than what its agent shows.
OutOfOrder(e) == Known(e.agent) /\ e.sequence <= agents[e.agent].event.sequence

AgentLimit(e) == ~Known(e.agent) /\ Cardinality(DOMAIN agents) >= MaxAgents

\* The record that replaces the one of e's agent; it keeps the start.
SnapshotOf(e) ==
    [event |-> e, aged |-> "fresh",
     started |-> IF Known(e.agent) THEN agents[e.agent].started ELSE e,
     recent |-> Remember(IF Known(e.agent) THEN agents[e.agent].recent ELSE <<>>,
                         e.id, MaxRecentIds),
     last |-> clock]

-------------------------------------------------------------------------------
ReducerEmpty == /\ agents = <<>>
                /\ seen = <<>>
                /\ source = "disconnected"
                /\ transport = 0
                /\ clock = 0
                /\ heard = {}
                /\ applied = {}
                /\ repeated = {}

ReducerInit == ReducerEmpty

(* apply_with_allowlist. *)

\* Whatever becomes of it, an accepted event shows that the transport lives.
Receive(e) == /\ Cardinality(heard \cup {e}) <= MaxHeard
              /\ transport' = clock
              /\ source' = "connected"
              /\ heard' = heard \cup {e}
              /\ UNCHANGED clock

\* A duplicate, an event out of order and one of an agent too many are left
\* out, and their ids are not remembered.
Leave(e) == /\ Receive(e)
            /\ Contains(seen, e.id) \/ OutOfOrder(e) \/ AgentLimit(e)
            /\ UNCHANGED <<agents, seen, applied, repeated>>

Apply(e) == /\ Receive(e)
            /\ ~Contains(seen, e.id)
            /\ ~OutOfOrder(e)
            /\ ~AgentLimit(e)
            /\ agents' = [a \in DOMAIN agents \cup {e.agent} |->
                             IF a = e.agent THEN SnapshotOf(e) ELSE agents[a]]
            /\ seen' = Remember(seen, e.id, MaxReplay)
            /\ repeated' = repeated \cup (applied \cap {e})
            /\ applied' = applied \cup {e}

(* age_at. *)

Quiet(since) == clock > since

\* The socket is closed: every agent is cut off and asks for attention.
AgeClosed ==
    /\ source' = "disconnected"
    /\ agents' = [a \in DOMAIN agents |->
                    [agents[a] EXCEPT !.aged = "disconnected"]]
    /\ UNCHANGED <<seen, transport, clock, heard, applied, repeated>>

Disconnected(a) == \/ agents[a].aged = "disconnected"
                   \/ agents[a].aged = "fresh" /\ agents[a].event.report = Gone

\* The agents that age marks as stale: quiet ones, except those that are cut off.
Silent == {a \in DOMAIN agents : Quiet(agents[a].last) /\ ~Disconnected(a)}

Age == /\ source' = IF Quiet(transport) \/ Silent # {} THEN "stale" ELSE source
       /\ agents' = [a \in DOMAIN agents |->
                       IF a \in Silent
                       THEN [agents[a] EXCEPT !.aged = "stale"]
                       ELSE agents[a]]
       /\ UNCHANGED <<seen, transport, clock, heard, applied, repeated>>

\* replay_jsonl_with_allowlist, at the end of a file without an error.
EndReplay == /\ source' = "replay"
             /\ UNCHANGED <<agents, seen, transport, clock, heard, applied, repeated>>

RuntimeTick == /\ clock < MaxClock
               /\ clock' = clock + 1
               /\ UNCHANGED <<agents, seen, source, transport, heard, applied, repeated>>

ReducerNext == \/ \E e \in Event : Leave(e) \/ Apply(e)
               \/ AgeClosed \/ Age \/ EndReplay \/ RuntimeTick

ReducerSpec == ReducerInit /\ [][ReducerNext]_reducerVars

-------------------------------------------------------------------------------
\* An event is applied once, however often it is delivered and even after its
\* id was forgotten: what ids no longer tell, sequence numbers do.
AppliedOnce == repeated = {}

\* The order and the repetition of deliveries do not matter: every agent shows
\* the newest of its events, or stands in for it as stale or cut off.  Only an
\* event whose id somebody used before is lost, or one of an agent too many.
NewestShown ==
    /\ \A a \in DOMAIN agents : agents[a].event \in applied
    /\ \A e \in heard :
          \/ Known(e.agent) /\ agents[e.agent].event.sequence >= e.sequence
          \/ ~Known(e.agent) /\ Cardinality(DOMAIN agents) = MaxAgents
          \/ \E f \in applied \ {e} : f.id = e.id
===============================================================================
