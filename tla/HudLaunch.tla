------------------------------- MODULE HudLaunch -------------------------------
(***************************************************************************)
(* hud_background_launch, spawn_hud_child and hud_serve_run of             *)
(* mission-center-cli: hooks start a companion process that serves the     *)
(* HUD, or find the one that runs, and companions stop by themselves.      *)
(*                                                                         *)
(* A companion is known by the nonce that its hook has made for it: the    *)
(* names of its control file and its ready file, and what its metadata     *)
(* and its health answer carry.  A control file that is gone tells it to   *)
(* stop.  Whether a companion that is alive is found healthy depends on    *)
(* its version and on timing; whichever the hook finds may happen here.    *)
(***************************************************************************)
EXTENDS Naturals

CONSTANTS
    Hooks,          \* processes that run hook hud, each time for a prompt
    Companions,     \* bound on the companions that are started
    MaxFaults,      \* bound on the crashes of hooks and their failing calls
    None,           \* no companion
    Unreadable,     \* a metadata record that cannot be parsed
    Free, Leaked    \* the lock: not there, or left by a hook that is gone

ASSUME FaultsAssumption == MaxFaults \in Nat

ASSUME NamesAssumption == None \notin Companions /\ Unreadable \notin Companions

ASSUME LockAssumption == Free \notin Hooks /\ Leaked \notin Hooks /\ Free # Leaked

VARIABLES
    meta,       \* hud-autolaunch.json
    panel,      \* hud-side-panel.json
    lock,       \* the hook that created hud-autolaunch.lock
    control,    \* companions whose control file exists
    ready,      \* companions whose ready file exists
    server,     \* what each companion does
    pc,         \* where each hook is
    mem,        \* the companion it works on
    faults,     \* crashes and failing calls so far
    stray       \* history: companions that a hook has lost sight of

files == <<meta, panel, control, ready>>
vars == <<meta, panel, lock, control, ready, server, pc, mem, faults, stray>>

Lives == {"unborn", "starting", "bound", "serving", "gone"}

Steps == {"idle", "check", "touch", "touchPanel", "stopOld", "forget", "clear",
          "create", "spawn", "wait", "abandon", "publish", "panel",
          "withdraw", "stopNew", "unlock"}

TypeOK == /\ meta \in Companions \cup {None, Unreadable}
          /\ panel \in Companions \cup {None}
          /\ lock \in Hooks \cup {Free, Leaked}
          /\ control \subseteq Companions
          /\ ready \subseteq Companions
          /\ server \in [Companions -> Lives]
          /\ pc \in [Hooks -> Steps]
          /\ mem \in [Hooks -> Companions \cup {None}]
          /\ faults \in 0 .. MaxFaults
          /\ stray \subseteq Companions

-------------------------------------------------------------------------------
Fault == faults < MaxFaults /\ faults' = faults + 1

Goto(h, from, to) == pc[h] = from /\ pc' = [pc EXCEPT ![h] = to]

Take(h, c) == mem' = [mem EXCEPT ![h] = c]

Alive(c) == server[c] \in {"starting", "bound", "serving"}

Turns(c, life) == server' = [server EXCEPT ![c] = life]

\* In these steps nothing on the disk says what the hook still has to undo.
Exposed(h) == pc[h] \in {"wait", "publish", "clear", "stopNew"}

-------------------------------------------------------------------------------
Init == /\ meta \in {None, Unreadable}
        /\ panel = None
        /\ lock = Free
        /\ control = {}
        /\ ready = {}
        /\ server = [c \in Companions |-> "unborn"]
        /\ pc = [h \in Hooks |-> "idle"]
        /\ mem = [h \in Hooks |-> None]
        /\ faults = 0
        /\ stray = {}

\* Mutant of Acquire: the lock file is opened, whoever created it.
AcquireShared(h) ==
    /\ Goto(h, "idle", "check")
    /\ lock' = h
    /\ UNCHANGED <<files, server, mem, faults, stray>>

\* create_new of the lock file; a hook that finds one has nothing to report.
Acquire(h) ==
    /\ Goto(h, "idle", "check")
    /\ lock = Free
    /\ lock' = h
    /\ UNCHANGED <<files, server, mem, faults, stray>>

\* The companion of the metadata is controlled and answers.
Reuse(h) ==
    /\ Goto(h, "check", "touch")
    /\ meta \in control
    /\ server[meta] \in {"bound", "serving"}
    /\ Take(h, meta)
    /\ UNCHANGED <<files, lock, server, faults, stray>>

\* Mutant of Discard: a record that cannot be parsed is believed.
DiscardAny(h) ==
    /\ Goto(h, "check", "stopOld")
    /\ meta # None
    /\ Take(h, meta)
    /\ UNCHANGED <<files, lock, server, faults, stray>>

\* It is not valid, not controlled, or does not answer.
Discard(h) ==
    /\ Goto(h, "check", "stopOld")
    /\ meta \in Companions
    /\ Take(h, meta)
    /\ UNCHANGED <<files, lock, server, faults, stray>>

\* There is no record, or one that cannot be parsed.
FindNone(h) ==
    /\ Goto(h, "check", "create")
    /\ meta \notin Companions
    /\ UNCHANGED <<files, lock, server, mem, faults, stray>>

-------------------------------------------------------------------------------
\* The record of a companion that is used again is written with its new times,
Touch(h) ==
    /\ Goto(h, "touch", "touchPanel")
    /\ meta' = mem[h]
    /\ UNCHANGED <<panel, control, ready, lock, server, mem, faults, stray>>

\* and so is the side panel.
TouchPanel(h) ==
    /\ Goto(h, "touchPanel", "unlock")
    /\ panel' = mem[h]
    /\ UNCHANGED <<meta, control, ready, lock, server, mem, faults, stray>>

\* Mutant of StopOld: the companion does not answer, so it needs no telling.
StopOldIfGone(h) ==
    /\ Goto(h, "stopOld", "forget")
    /\ control' = IF Alive(mem[h]) THEN control ELSE control \ {mem[h]}
    /\ UNCHANGED <<meta, panel, ready, lock, server, mem, faults, stray>>

\* What is discarded loses its control file, ...
StopOld(h) ==
    /\ Goto(h, "stopOld", "forget")
    /\ control' = control \ {mem[h]}
    /\ UNCHANGED <<meta, panel, ready, lock, server, mem, faults, stray>>

\* ... its record ...
Forget(h) ==
    /\ Goto(h, "forget", "clear")
    /\ meta' = None
    /\ UNCHANGED <<panel, control, ready, lock, server, mem, faults, stray>>

\* ... and the side panel that shows it.
ClearPanel(h) ==
    /\ Goto(h, "clear", "create")
    /\ panel' = None
    /\ Take(h, None)
    /\ UNCHANGED <<meta, control, ready, lock, server, faults, stray>>

\* The results of these removals are not looked at.
Overlook(h) ==
    /\ Fault
    /\ \/ Goto(h, "stopOld", "forget") /\ UNCHANGED mem
       \/ Goto(h, "forget", "clear") /\ UNCHANGED mem
       \/ Goto(h, "clear", "create") /\ Take(h, None)
    /\ stray' = IF pc[h] = "forget" THEN stray ELSE stray \cup {mem[h]}
    /\ UNCHANGED <<files, lock, server>>

-------------------------------------------------------------------------------
\* A control file for a new companion.
Create(h) ==
    /\ Goto(h, "create", "spawn")
    /\ \E c \in Companions \ control :
          /\ server[c] = "unborn"
          /\ control' = control \cup {c}
          /\ Take(h, c)
    /\ UNCHANGED <<meta, panel, ready, lock, server, faults, stray>>

\* It cannot be created, or not be written.
CreateFails(h) ==
    /\ Goto(h, "create", "unlock")
    /\ Fault
    /\ \/ UNCHANGED control
       \/ \E c \in Companions \ control :
             server[c] = "unborn" /\ control' = control \cup {c}
    /\ UNCHANGED <<meta, panel, ready, lock, server, mem, stray>>

Spawn(h) ==
    /\ Goto(h, "spawn", "wait")
    /\ Turns(mem[h], "starting")
    /\ UNCHANGED <<files, lock, mem, faults, stray>>

SpawnFails(h) ==
    /\ Goto(h, "spawn", "abandon")
    /\ Fault
    /\ UNCHANGED <<files, lock, server, mem, stray>>

\* The hook finds the ready file and removes it.
SeeReady(h) ==
    /\ Goto(h, "wait", "publish")
    /\ mem[h] \in ready
    /\ ready' = ready \ {mem[h]}
    /\ UNCHANGED <<meta, panel, control, lock, server, mem, faults, stray>>

\* After three seconds the hook kills the companion; a ready file may have come
\* meanwhile.
TimeOut(h) ==
    /\ Goto(h, "wait", "abandon")
    /\ Turns(mem[h], "gone")
    /\ UNCHANGED <<files, lock, mem, faults, stray>>

\* What was prepared for a companion that has not come up is removed.
Abandon(h) ==
    /\ Goto(h, "abandon", "unlock")
    /\ control' = control \ {mem[h]}
    /\ ready' = ready \ {mem[h]}
    /\ Take(h, None)
    /\ UNCHANGED <<meta, panel, lock, server, faults, stray>>

\* The record of the new companion is written, ...
Publish(h) ==
    /\ Goto(h, "publish", "panel")
    /\ meta' = mem[h]
    /\ UNCHANGED <<panel, control, ready, lock, server, mem, faults, stray>>

\* Mutant of PublishFails: the companion is not told.
PublishFailsQuietly(h) ==
    /\ Goto(h, "publish", "unlock")
    /\ Fault
    /\ Take(h, None)
    /\ UNCHANGED <<files, lock, server, stray>>

PublishFails(h) ==
    /\ Goto(h, "publish", "stopNew")
    /\ Fault
    /\ UNCHANGED <<files, lock, server, mem, stray>>

\* ... then the side panel.
ShowPanel(h) ==
    /\ Goto(h, "panel", "unlock")
    /\ panel' = mem[h]
    /\ UNCHANGED <<meta, control, ready, lock, server, mem, faults, stray>>

ShowPanelFails(h) ==
    /\ Goto(h, "panel", "withdraw")
    /\ Fault
    /\ UNCHANGED <<files, lock, server, mem, stray>>

\* The record is removed again, and the companion told to stop.
Withdraw(h) ==
    /\ Goto(h, "withdraw", "stopNew")
    /\ meta' = None
    /\ UNCHANGED <<panel, control, ready, lock, server, mem, faults, stray>>

StopNew(h) ==
    /\ Goto(h, "stopNew", "unlock")
    /\ control' = control \ {mem[h]}
    /\ Take(h, None)
    /\ UNCHANGED <<meta, panel, ready, lock, server, faults, stray>>

\* The results of these removals are not looked at either.
OverlookNew(h) ==
    /\ Fault
    /\ \/ Goto(h, "withdraw", "stopNew") /\ UNCHANGED mem
       \/ Goto(h, "abandon", "unlock") /\ Take(h, None)
       \/ Goto(h, "stopNew", "unlock") /\ Take(h, None)
    /\ stray' = IF pc[h] = "stopNew" THEN stray \cup {mem[h]} ELSE stray
    /\ UNCHANGED <<files, lock, server>>

\* The metadata cannot be read, or what is used again not be written.
GiveUp(h) ==
    /\ \/ Goto(h, "check", "unlock")
       \/ Goto(h, "touch", "unlock")
       \/ Goto(h, "touchPanel", "unlock")
    /\ Fault
    /\ Take(h, None)
    /\ UNCHANGED <<files, lock, server, stray>>

\* Drop of HudFileLock; then the hook reports the companion, if it has one.
Unlock(h) ==
    /\ Goto(h, "unlock", "idle")
    /\ lock' = Free
    /\ Take(h, None)
    /\ UNCHANGED <<files, server, faults, stray>>

\* The hook is gone, or could not remove its lock file at the end.
Crash(h) ==
    /\ pc[h] # "idle"
    /\ Fault
    /\ pc' = [pc EXCEPT ![h] = "idle"]
    /\ Take(h, None)
    /\ lock' = Leaked
    /\ stray' = IF Exposed(h) THEN stray \cup {mem[h]} ELSE stray
    /\ UNCHANGED <<files, server>>

\* Somebody removes the lock file of a hook that is gone.
ClearLock ==
    /\ lock = Leaked
    /\ lock' = Free
    /\ UNCHANGED <<files, server, pc, mem, faults, stray>>

-------------------------------------------------------------------------------
\* A companion begins if its control file is there.
Bind(c) ==
    /\ server[c] = "starting"
    /\ Turns(c, IF c \in control THEN "bound" ELSE "gone")
    /\ UNCHANGED <<files, lock, pc, mem, faults, stray>>

\* It serves, and writes its ready file.
Announce(c) ==
    /\ server[c] = "bound"
    /\ Turns(c, "serving")
    /\ ready' = ready \cup {c}
    /\ UNCHANGED <<meta, panel, control, lock, pc, mem, faults, stray>>

\* Mutant of Poll: a companion stops when it is replaced.
PollReplaced(c) ==
    /\ server[c] = "serving"
    /\ meta \notin {c, None}
    /\ Turns(c, "gone")
    /\ UNCHANGED <<files, lock, pc, mem, faults, stray>>

\* Twice a second it looks for its control file.
Poll(c) ==
    /\ server[c] = "serving"
    /\ c \notin control
    /\ Turns(c, "gone")
    /\ UNCHANGED <<files, lock, pc, mem, faults, stray>>

\* It has served for six hours, or has died.
Expire(c) ==
    /\ Alive(c)
    /\ Turns(c, "gone")
    /\ UNCHANGED <<files, lock, pc, mem, faults, stray>>

-------------------------------------------------------------------------------
Launch(h) == \/ Create(h) \/ Spawn(h) \/ SeeReady(h) \/ TimeOut(h) \/ Abandon(h)
             \/ Publish(h) \/ ShowPanel(h) \/ Withdraw(h) \/ StopNew(h)

LaunchFails(h) == \/ CreateFails(h) \/ SpawnFails(h) \/ PublishFails(h)
                  \/ ShowPanelFails(h) \/ OverlookNew(h)

Hook(h) == \/ Acquire(h) \/ Reuse(h) \/ Discard(h) \/ FindNone(h)
           \/ Touch(h) \/ TouchPanel(h)
           \/ StopOld(h) \/ Forget(h) \/ ClearPanel(h) \/ Overlook(h)
           \/ Launch(h) \/ LaunchFails(h)
           \/ GiveUp(h) \/ Unlock(h) \/ Crash(h)

Serve(c) == Bind(c) \/ Announce(c) \/ Poll(c)

Next == \/ \E h \in Hooks : Hook(h)
        \/ ClearLock
        \/ \E c \in Companions : Serve(c) \/ Expire(c)

Spec == Init /\ [][Next]_vars

\* A companion that runs goes on and polls.
FairSpec == Spec /\ \A c \in Companions : WF_vars(Serve(c))

-------------------------------------------------------------------------------
\* Hook h works on companion c, under the lock.
WorksOn(h, c) == lock = h /\ mem[h] = c

\* A companion that is alive and has not been told to stop.
Wanted(c) == Alive(c) /\ c \in control

\* There is one companion at most, not counting those that a hook has lost
\* sight of by a crash or a failed removal.
OneCompanion ==
    \A c, d \in Companions \ stray : Wanted(c) /\ Wanted(d) => c = d

\* That companion, and the one that the side panel shows, is in the metadata or
\* a hook is working on it.
Accounted ==
    \A c \in Companions \ stray :
        Wanted(c) \/ panel = c => meta = c \/ \E h \in Hooks : WorksOn(h, c)

\* What a hook reports is what metadata and side panel say, is controlled, and
\* was up.
ReportTrue ==
    \A h \in Hooks :
        (pc[h] = "unlock" /\ mem[h] # None) =>
            /\ meta = mem[h]
            /\ panel = mem[h]
            /\ mem[h] \in control
            /\ server[mem[h]] \in {"bound", "serving", "gone"}

\* A companion that has been told to stop stops, also when it is told before it
\* has begun.
ToldToStop ==
    \A c \in Companions : (Alive(c) /\ c \notin control) ~> ~Alive(c)
===============================================================================
