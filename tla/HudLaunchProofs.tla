---------------------------- MODULE HudLaunchProofs ----------------------------
(***************************************************************************)
(* Proofs about HudLaunch.tla for any hooks and companions and any number  *)
(* of crashes and failures.                                                *)
(*                                                                         *)
(* Hooks work one at a time (Locked).  WorkBy says what the hook at work   *)
(* has established when it comes to a step; from create on there is no     *)
(* companion but its own that is wanted (Alone).                           *)
(***************************************************************************)
EXTENDS HudLaunch, TLAPS

Locked == \A h \in Hooks : /\ lock = h <=> pc[h] # "idle"
                           /\ pc[h] = "idle" => mem[h] = None

\* A ready file is written by a companion that serves.
ReadyServed == \A c \in ready : server[c] \in {"serving", "gone"}

Up == {"bound", "serving", "gone"}

Launches == {"create", "spawn", "wait", "abandon", "publish", "panel",
             "withdraw", "stopNew"}

\* Nothing but what hook h launches is wanted, and nothing is shown.
Alone(h) == \A d \in Companions \ stray : /\ panel # d
                                          /\ Wanted(d) => d = mem[h]

WorkBy(h) ==
    LET c == mem[h] IN
    /\ pc[h] \in {"check", "create"} => c = None
    /\ pc[h] \notin {"idle", "check", "create", "unlock"} => c \in Companions
    /\ pc[h] \in {"touch", "touchPanel"} =>
           meta = c /\ c \in control /\ server[c] \in Up
    /\ pc[h] \in {"stopOld", "forget", "panel", "withdraw"} => meta = c
    /\ pc[h] \in {"forget", "clear"} => c \notin control \/ c \in stray
    /\ pc[h] = "clear" => meta \in {None, c}
    /\ pc[h] \in Launches => Alone(h)
    /\ pc[h] \in {"spawn", "wait", "publish", "panel"} => c \in control
    /\ pc[h] = "spawn" => server[c] = "unborn"
    /\ pc[h] = "abandon" => ~Alive(c)
    /\ pc[h] \in {"publish", "panel"} => server[c] \in {"serving", "gone"}

Working == \A h \in Hooks : WorkBy(h)

Inv == TypeOK /\ Locked /\ ReadyServed /\ Working /\ Accounted /\ ReportTrue

-------------------------------------------------------------------------------
\* At first nobody runs, and there are no files.
LEMMA InvInitial == Init => Inv
<1> SUFFICES ASSUME Init PROVE Inv
  OBVIOUS
<1>1. TypeOK
  BY FaultsAssumption DEF Init, TypeOK, Lives, Steps
<1>2. Locked /\ ReadyServed
  BY LockAssumption DEF Init, Locked, ReadyServed
<1>3. Working /\ ReportTrue
  BY DEF Init, Working, WorkBy, Launches, ReportTrue
<1>4. Accounted
  BY NamesAssumption DEF Init, Accounted, Wanted
<1>5. QED
  BY <1>1, <1>2, <1>3, <1>4 DEF Inv

\* Every step keeps the state well typed.
LEMMA TypePreserved == TypeOK /\ Locked /\ Working /\ [Next]_vars => TypeOK'
<1> SUFFICES ASSUME TypeOK, Locked, Working, [Next]_vars PROVE TypeOK'
  OBVIOUS
<1>0. Fault => faults' \in 0 .. MaxFaults
  BY FaultsAssumption DEF Fault, TypeOK
<1>1. ASSUME NEW h \in Hooks, Hook(h)
      PROVE  TypeOK'
  <2>1. WorkBy(h)
    BY DEF Working
  <2>2. CASE Acquire(h) \/ Reuse(h) \/ Discard(h) \/ FindNone(h)
    BY <2>2 DEF Acquire, Reuse, Discard, FindNone, Goto, Take, files, TypeOK, Steps
  <2>3. CASE Touch(h) \/ TouchPanel(h) \/ StopOld(h) \/ Forget(h) \/ ClearPanel(h)
    BY <2>1, <2>3 DEF Touch, TouchPanel, StopOld, Forget, ClearPanel, Goto, Take,
       TypeOK, Steps, WorkBy
  <2>4. CASE Overlook(h) \/ OverlookNew(h)
    <3>1. /\ pc' \in [Hooks -> Steps] /\ mem' \in [Hooks -> Companions \cup {None}]
          /\ pc[h] \notin {"idle", "check", "create", "unlock"}
      BY <2>4 DEF Overlook, OverlookNew, Goto, Take, TypeOK, Steps
    <3>2. mem[h] \in Companions
      BY <2>1, <3>1 DEF WorkBy
    <3>3. QED
      BY <1>0, <2>4, <3>1, <3>2 DEF Overlook, OverlookNew, files, TypeOK
  <2>5. CASE Create(h) \/ CreateFails(h)
    BY <1>0, <2>5 DEF Create, CreateFails, Goto, Take, TypeOK, Steps
  <2>6. CASE Spawn(h) \/ TimeOut(h) \/ SpawnFails(h)
    BY <1>0, <2>6 DEF Spawn, TimeOut, SpawnFails, Turns, Goto, files, TypeOK,
       Steps, Lives
  <2>7. CASE SeeReady(h) \/ Abandon(h) \/ StopNew(h) \/ Withdraw(h)
    BY <2>7 DEF SeeReady, Abandon, StopNew, Withdraw, Goto, Take, TypeOK, Steps
  <2>8. CASE Publish(h) \/ ShowPanel(h)
    BY <2>1, <2>8 DEF Publish, ShowPanel, Goto, TypeOK, Steps, WorkBy
  <2>9. CASE PublishFails(h) \/ ShowPanelFails(h) \/ GiveUp(h) \/ Unlock(h)
    BY <1>0, <2>9 DEF PublishFails, ShowPanelFails, GiveUp, Unlock, Goto, Take,
       files, TypeOK, Steps
  <2>10. CASE Crash(h)
    <3>1. stray' \subseteq Companions
      BY <2>1, <2>10 DEF Crash, Exposed, WorkBy, TypeOK
    <3>2. QED
      BY <1>0, <2>10, <3>1 DEF Crash, Take, files, TypeOK, Steps
  <2>11. QED
    BY <1>1, <2>2, <2>3, <2>4, <2>5, <2>6, <2>7, <2>8, <2>9, <2>10
       DEF Hook, Launch, LaunchFails
<1>2. ASSUME NEW c \in Companions, Serve(c) \/ Expire(c)
      PROVE  TypeOK'
  BY <1>2 DEF Serve, Bind, Announce, Poll, Expire, Turns, files, TypeOK, Lives
<1>3. CASE ClearLock \/ UNCHANGED vars
  BY <1>3 DEF ClearLock, vars, files, TypeOK
<1>4. QED
  BY <1>1, <1>2, <1>3 DEF Next

-------------------------------------------------------------------------------
\* A hook that is at work has the lock; the others are idle and stay so.
LEMMA HookAlone ==
    ASSUME TypeOK, Locked, NEW h \in Hooks, Hook(h)
    PROVE  /\ lock \in {h, Free} /\ lock' \in {h, Free, Leaked}
           /\ pc[h] # "idle" => lock = h
           /\ pc'[h] = "idle" <=> lock' # h
           /\ \A q \in Hooks \ {h} : /\ pc[q] = "idle" /\ pc'[q] = "idle"
                                     /\ mem[q] = None /\ mem'[q] = None
<1> USE LockAssumption
<1>1. pc[h] # "idle" => lock = h
  BY DEF Locked
<1>2. CASE Acquire(h)
  BY <1>2 DEF Acquire, Goto, TypeOK, Locked
<1>3. CASE Unlock(h) \/ Crash(h)
  BY <1>1, <1>3 DEF Unlock, Crash, Goto, Take, TypeOK, Locked
<1>4. CASE ~(Acquire(h) \/ Unlock(h) \/ Crash(h))
  <2>1. /\ pc[h] # "idle" /\ lock' = lock
        /\ pc' = [pc EXCEPT ![h] = pc'[h]] /\ pc'[h] # "idle"
    <3>1. CASE Launch(h)
      BY <3>1 DEF Launch, Create, Spawn, SeeReady, TimeOut, Abandon, Publish,
         ShowPanel, Withdraw, StopNew, Goto, TypeOK
    <3>2. CASE LaunchFails(h)
      BY <3>2 DEF LaunchFails, CreateFails, SpawnFails, PublishFails,
         ShowPanelFails, OverlookNew, Goto, TypeOK
    <3>3. CASE \/ Reuse(h) \/ Discard(h) \/ FindNone(h) \/ Touch(h)
               \/ TouchPanel(h) \/ StopOld(h) \/ Forget(h) \/ ClearPanel(h)
               \/ Overlook(h) \/ GiveUp(h)
      BY <3>3 DEF Reuse, Discard, FindNone, Touch, TouchPanel, StopOld, Forget,
         ClearPanel, Overlook, GiveUp, Goto, TypeOK
    <3>4. QED
      BY <1>4, <3>1, <3>2, <3>3 DEF Hook
  <2>2. mem' = [mem EXCEPT ![h] = mem'[h]]
    <3>1. CASE Launch(h)
      BY <3>1 DEF Launch, Create, Spawn, SeeReady, TimeOut, Abandon, Publish,
         ShowPanel, Withdraw, StopNew, Take, TypeOK
    <3>2. CASE LaunchFails(h)
      BY <3>2 DEF LaunchFails, CreateFails, SpawnFails, PublishFails,
         ShowPanelFails, OverlookNew, Take, TypeOK
    <3>3. CASE \/ Reuse(h) \/ Discard(h) \/ FindNone(h) \/ Touch(h)
               \/ TouchPanel(h) \/ StopOld(h) \/ Forget(h) \/ ClearPanel(h)
               \/ Overlook(h) \/ GiveUp(h)
      BY <3>3 DEF Reuse, Discard, FindNone, Touch, TouchPanel, StopOld, Forget,
         ClearPanel, Overlook, GiveUp, Take, TypeOK
    <3>4. QED
      BY <1>4, <3>1, <3>2, <3>3 DEF Hook
  <2>3. QED
    BY <1>1, <2>1, <2>2 DEF TypeOK, Locked
<1>5. QED
  BY <1>2, <1>3, <1>4

LEMMA LockedPreserved == TypeOK /\ Locked /\ [Next]_vars => Locked'
<1> SUFFICES ASSUME TypeOK, Locked, [Next]_vars PROVE Locked'
  OBVIOUS
<1>1. ASSUME NEW h \in Hooks, Hook(h)
      PROVE  Locked'
  <2>1. pc'[h] = "idle" => mem'[h] = None
    <3>1. CASE pc'[h] = "idle"
      <4>1. Unlock(h) \/ Crash(h)
        BY <1>1, <3>1 DEF Hook, Launch, LaunchFails, Acquire, Reuse, Discard,
           FindNone, Touch, TouchPanel, StopOld, Forget, ClearPanel, Overlook,
           Create, Spawn, SeeReady, TimeOut, Abandon, Publish, ShowPanel,
           Withdraw, StopNew, CreateFails, SpawnFails, PublishFails,
           ShowPanelFails, OverlookNew, GiveUp, Goto, TypeOK
      <4>2. QED
        BY <4>1 DEF Unlock, Crash, Take, TypeOK
    <3>2. QED
      BY <3>1
  <2>2. QED
    BY <1>1, <2>1, HookAlone, LockAssumption DEF Locked
<1>2. CASE ClearLock \/ UNCHANGED vars
  BY <1>2, LockAssumption DEF ClearLock, vars, files, Locked
<1>3. CASE \E c \in Companions : Serve(c) \/ Expire(c)
  BY <1>3 DEF Serve, Bind, Announce, Poll, Expire, files, Locked
<1>4. QED
  BY <1>1, <1>2, <1>3 DEF Next

-------------------------------------------------------------------------------
\* Accounted and ReportTrue for the hook at work.
Seen(h) == \A d \in Companions \ stray :
               Wanted(d) \/ panel = d => meta = d \/ mem[h] = d

ReportBy(h) == (pc[h] = "unlock" /\ mem[h] # None) =>
                   /\ meta = mem[h] /\ panel = mem[h]
                   /\ mem[h] \in control /\ server[mem[h]] \in Up

Ready(h) == TypeOK /\ ReadyServed /\ WorkBy(h) /\ Seen(h) /\ ReportBy(h)

\* A hook looks for a companion that it can use again.
LEMMA LookUp ==
    ASSUME NEW h \in Hooks, Ready(h), mem[h] = None \/ pc[h] # "idle",
           Acquire(h) \/ Reuse(h) \/ Discard(h) \/ FindNone(h)
    PROVE  WorkBy(h)' /\ Seen(h)' /\ ReportBy(h)'
<1> USE NamesAssumption DEF Ready
<1>1. /\ mem[h] = None
      /\ UNCHANGED <<meta, panel, control, server, stray>>
  BY DEF Acquire, Reuse, Discard, FindNone, Goto, files, WorkBy
<1>2. \A d \in Companions \ stray : Wanted(d) \/ panel = d => meta = d
  BY <1>1 DEF Seen
<1>3. Seen(h)'
  BY <1>1, <1>2 DEF Seen, Wanted, Alive
<1>4. CASE Acquire(h)
  BY <1>1, <1>3, <1>4 DEF Acquire, Goto, TypeOK, WorkBy, ReportBy, Launches
<1>5. CASE Reuse(h)
  BY <1>1, <1>3, <1>5
     DEF Reuse, Goto, Take, TypeOK, WorkBy, ReportBy, Launches, Up
<1>6. CASE Discard(h)
  BY <1>1, <1>3, <1>6 DEF Discard, Goto, Take, TypeOK, WorkBy, ReportBy, Launches
<1>7. CASE FindNone(h)
  <2>1. /\ meta \notin Companions /\ mem' = mem /\ pc'[h] = "create"
    BY <1>7 DEF FindNone, Goto, TypeOK
  <2>2. Alone(h)'
    BY <1>1, <1>2, <2>1 DEF Alone, Wanted, Alive
  <2>3. QED
    BY <1>1, <1>3, <2>1, <2>2 DEF WorkBy, ReportBy
<1>8. QED
  BY <1>4, <1>5, <1>6, <1>7

\* A hook uses a companion again.
LEMMA Renew ==
    ASSUME NEW h \in Hooks, Ready(h), Touch(h) \/ TouchPanel(h)
    PROVE  WorkBy(h)' /\ Seen(h)' /\ ReportBy(h)'
<1> USE DEF Ready
<1>1. /\ pc[h] \in {"touch", "touchPanel"} /\ meta' = meta
      /\ panel' \in {panel, mem[h]}
      /\ UNCHANGED <<control, server, stray, mem>>
      /\ mem[h] \in Companions
      /\ meta = mem[h] /\ mem[h] \in control /\ server[mem[h]] \in Up
  BY DEF Touch, TouchPanel, Goto, WorkBy
<1>2. Seen(h)'
  BY <1>1 DEF Seen, Wanted, Alive
<1>3. CASE Touch(h)
  BY <1>1, <1>2, <1>3 DEF Touch, Goto, TypeOK, WorkBy, ReportBy, Launches
<1>4. CASE TouchPanel(h)
  BY <1>1, <1>2, <1>4 DEF TouchPanel, Goto, TypeOK, WorkBy, ReportBy, Launches
<1>5. QED
  BY <1>3, <1>4

\* A hook does away with the companion of the metadata.
LEMMA DoAway ==
    ASSUME NEW h \in Hooks, Ready(h),
           StopOld(h) \/ Forget(h) \/ ClearPanel(h) \/ Overlook(h)
    PROVE  WorkBy(h)' /\ Seen(h)' /\ ReportBy(h)'
<1> DEFINE c == mem[h]
<1> USE NamesAssumption DEF Ready
<1>1. /\ pc[h] \in {"stopOld", "forget", "clear"} /\ c \in Companions
      /\ control' \subseteq control /\ stray \subseteq stray'
      /\ UNCHANGED server
      /\ meta \in {None, c} /\ meta' \in {meta, None}
      /\ panel' \in {panel, None}
  BY DEF StopOld, Forget, ClearPanel, Overlook, Goto, files, WorkBy
<1>2. \A d \in Companions \ stray' : Wanted(d)' \/ panel' = d => d = c
  BY <1>1 DEF Seen, Wanted, Alive
<1>3. CASE pc[h] = "clear"
  <2>1. /\ pc'[h] = "create" /\ mem'[h] = None
        /\ c \in stray' \/ (panel' = None /\ c \notin control')
    BY <1>1, <1>3 DEF StopOld, Forget, ClearPanel, Overlook, Goto, Take, TypeOK,
       WorkBy
  <2>2. \A d \in Companions \ stray' : ~Wanted(d)' /\ panel' # d
    BY <1>2, <2>1 DEF Wanted
  <2>3. Alone(h)' /\ Seen(h)'
    BY <2>2 DEF Alone, Seen
  <2>4. QED
    BY <2>1, <2>3 DEF WorkBy, ReportBy
<1>4. CASE pc[h] # "clear"
  <2>1. mem'[h] = c /\ mem' = mem
    BY <1>4 DEF StopOld, Forget, ClearPanel, Overlook, Goto
  <2>2. Seen(h)'
    BY <1>2, <2>1 DEF Seen
  <2>3. CASE pc[h] = "stopOld"
    BY <1>1, <2>1, <2>2, <2>3 DEF StopOld, Forget, ClearPanel, Overlook, Goto,
       files, TypeOK, WorkBy, ReportBy, Launches
  <2>4. CASE pc[h] = "forget"
    BY <1>1, <2>1, <2>2, <2>4 DEF StopOld, Forget, ClearPanel, Overlook, Goto,
       files, TypeOK, WorkBy, ReportBy, Launches
  <2>5. QED
    BY <1>1, <1>4, <2>3, <2>4
<1>5. QED
  BY <1>3, <1>4

\* A hook prepares a companion and waits for it.
LEMMA Prepare ==
    ASSUME NEW h \in Hooks, Ready(h),
           \/ Create(h) \/ CreateFails(h) \/ Spawn(h) \/ SpawnFails(h)
           \/ SeeReady(h) \/ TimeOut(h) \/ Abandon(h)
    PROVE  WorkBy(h)' /\ Seen(h)' /\ ReportBy(h)'
<1> DEFINE c == mem[h]
<1> USE NamesAssumption DEF Ready
<1>1. /\ pc[h] \in Launches /\ Alone(h)
      /\ UNCHANGED <<meta, panel, stray>>
  BY DEF Create, CreateFails, Spawn, SpawnFails, SeeReady, TimeOut, Abandon,
     Goto, files, WorkBy, Launches
<1>2. pc[h] # "create" => c \in Companions
  BY <1>1 DEF WorkBy, Launches
<1>3. CASE Create(h) \/ CreateFails(h)
  <2>1. pc[h] = "create" /\ mem[h] = None /\ UNCHANGED server
    BY <1>3 DEF Create, CreateFails, Goto, WorkBy
  <2>2. \A d \in Companions \ stray : ~Wanted(d) /\ panel # d
    BY <1>1, <2>1 DEF Alone
  <2>3. \A d \in control' \ control : server[d] = "unborn"
    BY <1>3 DEF Create, CreateFails
  <2>4. \A d \in Companions \ stray' : ~Wanted(d)' /\ panel' # d
    BY <1>1, <2>1, <2>2, <2>3 DEF Wanted, Alive
  <2>5. Alone(h)' /\ Seen(h)'
    BY <2>4 DEF Alone, Seen
  <2>6. QED
    BY <1>3, <2>1, <2>5 DEF Create, CreateFails, Goto, Take, TypeOK, WorkBy, ReportBy
<1>4. CASE Spawn(h)
  <2>1. /\ pc[h] = "spawn" /\ pc'[h] = "wait" /\ UNCHANGED <<control, mem>>
        /\ server' = [server EXCEPT ![c] = "starting"]
    BY <1>4 DEF Spawn, Goto, Turns, files, TypeOK
  <2>2. \A d \in Companions : d # c => server'[d] = server[d]
    BY <2>1 DEF TypeOK
  <2>3. Alone(h)' /\ Seen(h)'
    BY <1>1, <2>1, <2>2 DEF Alone, Seen, Wanted, Alive
  <2>4. c \in control
    BY <2>1 DEF WorkBy
  <2>5. QED
    BY <1>2, <2>1, <2>3, <2>4 DEF WorkBy, ReportBy
<1>5. CASE SpawnFails(h) \/ SeeReady(h)
  <2>1. /\ pc[h] \in {"spawn", "wait"} /\ UNCHANGED <<control, mem, server>>
        /\ pc'[h] = IF pc[h] = "spawn" THEN "abandon" ELSE "publish"
        /\ pc[h] = "wait" => c \in ready
    BY <1>5 DEF SpawnFails, SeeReady, Goto, files, TypeOK
  <2>2. Alone(h)' /\ Seen(h)'
    BY <1>1, <2>1 DEF Alone, Seen, Wanted, Alive
  <2>3. /\ c \in control
        /\ pc[h] = "spawn" => ~Alive(c)
        /\ pc[h] = "wait" => server[c] \in {"serving", "gone"}
    BY <2>1 DEF WorkBy, ReadyServed, Alive
  <2>4. QED
    BY <1>2, <2>1, <2>2, <2>3 DEF WorkBy, ReportBy, Alive
<1>6. CASE TimeOut(h)
  <2>1. /\ pc[h] = "wait" /\ pc'[h] = "abandon" /\ UNCHANGED <<control, mem>>
        /\ server' = [server EXCEPT ![c] = "gone"]
    BY <1>6 DEF TimeOut, Goto, Turns, files, TypeOK
  <2>2. \A d \in Companions : server'[d] = IF d = c THEN "gone" ELSE server[d]
    BY <2>1 DEF TypeOK
  <2>3. Alone(h)' /\ Seen(h)'
    BY <1>1, <2>1, <2>2 DEF Alone, Seen, Wanted, Alive
  <2>4. QED
    BY <1>2, <2>1, <2>2, <2>3 DEF WorkBy, ReportBy, Alive
<1>7. CASE Abandon(h)
  <2>1. /\ pc[h] = "abandon" /\ pc'[h] = "unlock" /\ mem'[h] = None
        /\ control' \subseteq control /\ UNCHANGED server
    BY <1>7 DEF Abandon, Goto, Take, TypeOK
  <2>2. \A d \in Companions \ stray : ~Wanted(d) /\ panel # d
    BY <1>1, <2>1 DEF Alone, WorkBy, Wanted
  <2>3. Seen(h)'
    BY <1>1, <2>1, <2>2 DEF Seen, Wanted, Alive
  <2>4. QED
    BY <2>1, <2>3 DEF WorkBy, ReportBy, Launches
<1>8. QED
  BY <1>3, <1>4, <1>5, <1>6, <1>7

\* A hook publishes its companion, or tells it to stop.
LEMMA PublishOrStop ==
    ASSUME NEW h \in Hooks, Ready(h),
           \/ Publish(h) \/ PublishFails(h) \/ ShowPanel(h) \/ ShowPanelFails(h)
           \/ Withdraw(h) \/ StopNew(h) \/ OverlookNew(h)
    PROVE  WorkBy(h)' /\ Seen(h)' /\ ReportBy(h)'
<1> DEFINE c == mem[h]
<1> USE NamesAssumption DEF Ready
<1>1. /\ pc[h] \in {"publish", "panel", "withdraw", "stopNew", "abandon"}
      /\ c \in Companions /\ Alone(h)
      /\ control' \subseteq control /\ stray \subseteq stray'
      /\ UNCHANGED server
  BY DEF Publish, PublishFails, ShowPanel, ShowPanelFails, Withdraw, StopNew,
     OverlookNew, Goto, files, WorkBy, Launches
<1>2. \A d \in Companions \ stray' : Wanted(d)' => d = c
  BY <1>1 DEF Alone, Wanted, Alive
<1>3. CASE Publish(h) \/ PublishFails(h) \/ ShowPanelFails(h) \/ Withdraw(h)
  <2>1. UNCHANGED <<panel, control, stray, mem>>
    BY <1>3 DEF Publish, PublishFails, ShowPanelFails, Withdraw, files
  <2>2. Alone(h)' /\ Seen(h)'
    BY <1>1, <1>2, <2>1 DEF Alone, Seen
  <2>3. QED
    BY <1>1, <1>3, <2>1, <2>2 DEF Publish, PublishFails, ShowPanelFails,
       Withdraw, Goto, files, TypeOK, WorkBy, ReportBy
<1>4. CASE ShowPanel(h)
  <2>1. /\ pc[h] = "panel" /\ pc'[h] = "unlock" /\ panel' = c
        /\ UNCHANGED <<meta, control, mem>>
    BY <1>4 DEF ShowPanel, Goto, TypeOK
  <2>2. meta = c /\ c \in control /\ server[c] \in Up
    BY <2>1 DEF WorkBy, Up
  <2>3. Seen(h)'
    BY <1>2, <2>1, <2>2 DEF Seen
  <2>4. QED
    BY <1>1, <2>1, <2>2, <2>3 DEF WorkBy, ReportBy, Launches
<1>5. CASE StopNew(h)
  <2>1. /\ pc'[h] = "unlock" /\ mem'[h] = None /\ c \notin control'
        /\ UNCHANGED <<panel, stray>>
    BY <1>5 DEF StopNew, Goto, Take, TypeOK
  <2>2. Seen(h)'
    BY <1>1, <1>2, <2>1 DEF Alone, Seen, Wanted
  <2>3. QED
    BY <2>1, <2>2 DEF WorkBy, ReportBy, Launches
<1>6. CASE OverlookNew(h)
  <2>1. UNCHANGED <<panel, control, meta>>
    BY <1>6 DEF OverlookNew, files
  <2>2. CASE pc[h] = "withdraw"
    <3>1. pc'[h] = "stopNew" /\ mem' = mem /\ stray' = stray
      BY <1>6, <2>2 DEF OverlookNew, Goto, TypeOK
    <3>2. Alone(h)' /\ Seen(h)'
      BY <1>1, <1>2, <2>1, <3>1 DEF Alone, Seen
    <3>3. QED
      BY <1>1, <3>1, <3>2 DEF WorkBy, ReportBy
  <2>3. CASE pc[h] \in {"abandon", "stopNew"}
    <3>1. /\ pc'[h] = "unlock" /\ mem'[h] = None
          /\ pc[h] = "abandon" => stray' = stray
          /\ pc[h] = "stopNew" => c \in stray'
      BY <1>6, <2>3 DEF OverlookNew, Goto, Take, TypeOK
    <3>2. pc[h] = "abandon" => ~Alive(c)
      BY DEF WorkBy
    <3>3. Seen(h)'
      BY <1>1, <1>2, <2>1, <2>3, <3>1, <3>2 DEF Alone, Seen, Wanted, Alive
    <3>4. QED
      BY <3>1, <3>3 DEF WorkBy, ReportBy, Launches
  <2>4. QED
    BY <1>6, <2>2, <2>3 DEF OverlookNew, Goto
<1>7. QED
  BY <1>3, <1>4, <1>5, <1>6

\* A hook ends; when it dies it may lose sight of its companion.
LEMMA Ending ==
    ASSUME NEW h \in Hooks, Ready(h), GiveUp(h) \/ Unlock(h) \/ Crash(h)
    PROVE  WorkBy(h)' /\ Seen(h)' /\ ReportBy(h)'
<1> DEFINE c == mem[h]
<1> USE NamesAssumption DEF Ready
<1>1. /\ pc[h] # "idle" /\ pc'[h] \in {"idle", "unlock"} /\ mem'[h] = None
      /\ UNCHANGED <<meta, panel, control, server>>
      /\ stray \subseteq stray'
      /\ Exposed(h) => Crash(h) /\ c \in stray'
  BY DEF GiveUp, Unlock, Crash, Exposed, Goto, Take, files, TypeOK
<1>2. ASSUME NEW d \in Companions \ stray', Wanted(d) \/ panel = d
      PROVE  meta = d
  <2>1. meta = d \/ c = d
    BY <1>1, <1>2 DEF Seen
  <2>2. CASE c = d /\ pc[h] = "unlock"
    BY <2>2 DEF ReportBy
  <2>3. CASE c = d /\ pc[h] # "unlock"
    <3>1. ~Exposed(h) /\ d \in Companions \ stray
      BY <1>1, <1>2, <2>3
    <3>2. pc[h] \notin {"check", "create"}
      BY <2>3, <3>1 DEF WorkBy
    <3>3. pc[h] \notin {"spawn", "abandon"}
      <4>1. ASSUME pc[h] \in {"spawn", "abandon"}
            PROVE  FALSE
        <5>1. Alone(h) /\ ~Alive(c)
          BY <4>1 DEF WorkBy, Launches, Alive
        <5>2. QED
          BY <1>2, <2>3, <3>1, <5>1 DEF Alone, Wanted
      <4>2. QED
        BY <4>1
    <3>4. pc[h] \in {"touch", "touchPanel", "stopOld", "forget", "panel", "withdraw"}
      BY <1>1, <2>3, <3>1, <3>2, <3>3 DEF Exposed, TypeOK, Steps
    <3>5. QED
      BY <2>3, <3>4 DEF WorkBy
  <2>4. QED
    BY <2>1, <2>2, <2>3
<1>3. Seen(h)'
  BY <1>1, <1>2 DEF Seen, Wanted, Alive
<1>4. QED
  BY <1>1, <1>3 DEF WorkBy, ReportBy, Launches

\* Every step of a hook, and what it has established afterwards.
LEMMA HookPreserves ==
    ASSUME Inv, NEW h \in Hooks, Hook(h)
    PROVE  Working' /\ Accounted' /\ ReportTrue'
<1> USE NamesAssumption, LockAssumption DEF Inv
<1>1. /\ lock \in {h, Free} /\ lock' \in {h, Free, Leaked}
      /\ pc'[h] = "idle" <=> lock' # h
      /\ \A q \in Hooks \ {h} : /\ pc[q] = "idle" /\ pc'[q] = "idle"
                                /\ mem[q] = None /\ mem'[q] = None
  BY HookAlone
<1>2. Seen(h)
  BY <1>1 DEF Accounted, WorksOn, Seen
<1>3. Ready(h)
  <2>1. WorkBy(h)
    BY DEF Working
  <2>2. ReportBy(h)
    BY DEF ReportTrue, ReportBy, Up
  <2>3. QED
    BY <1>2, <2>1, <2>2 DEF Ready
<1>4. mem[h] = None \/ pc[h] # "idle"
  BY DEF Locked
<1>5. WorkBy(h)' /\ Seen(h)' /\ ReportBy(h)'
  BY <1>3, <1>4, LookUp, Renew, DoAway, Prepare, PublishOrStop, Ending
     DEF Hook, Launch, LaunchFails
<1>6. Working'
  BY <1>1, <1>5 DEF Working, WorkBy, Launches
<1>7. Accounted'
  <2>1. lock' = h \/ mem'[h] = None
    <3>1. Locked'
      BY LockedPreserved DEF Next
    <3>2. QED
      BY <1>1, <3>1 DEF Locked
  <2>2. QED
    BY <1>5, <2>1 DEF Seen, Accounted, WorksOn
<1>8. ReportTrue'
  BY <1>1, <1>5 DEF ReportTrue, ReportBy, Up
<1>9. QED
  BY <1>6, <1>7, <1>8

\* A companion may start, go on and stop at any time.
LEMMA ServePreserves ==
    ASSUME Inv, NEW c \in Companions, Serve(c) \/ Expire(c)
    PROVE  Working' /\ Accounted' /\ ReportTrue'
<1> USE DEF Inv
<1>1. /\ UNCHANGED <<meta, panel, lock, control, pc, mem, stray>>
      /\ Alive(c) /\ server' = [server EXCEPT ![c] = server'[c]]
      /\ server[c] = "starting" => server'[c] \in {"bound", "gone"}
      /\ server[c] = "bound" => server'[c] \in {"serving", "gone"}
      /\ server[c] = "serving" => server'[c] = "gone"
  BY DEF Serve, Bind, Announce, Poll, Expire, Turns, Alive, files, TypeOK
<1>2. \A d \in Companions : /\ d # c => server'[d] = server[d]
                            /\ Alive(d)' => Alive(d)
                            /\ server[d] \in Up => server'[d] \in Up
                            /\ server[d] = "unborn" => server'[d] = "unborn"
                            /\ server[d] \in {"serving", "gone"} =>
                                   server'[d] \in {"serving", "gone"}
  BY <1>1 DEF Alive, Up, TypeOK
<1>3. \A d \in Companions : Wanted(d)' => Wanted(d)
  BY <1>1, <1>2 DEF Wanted
<1>4. Accounted'
  BY <1>1, <1>3 DEF Accounted, WorksOn
<1>5. Working'
  <2> SUFFICES ASSUME NEW h \in Hooks PROVE WorkBy(h)'
    BY DEF Working
  <2>1. WorkBy(h)
    BY DEF Working
  <2>2. Alone(h) => Alone(h)'
    BY <1>1, <1>3 DEF Alone
  <2>3. QED
    BY <1>1, <1>2, <2>1, <2>2 DEF WorkBy, Launches
<1>6. ReportTrue'
  <2> SUFFICES ASSUME NEW h \in Hooks, (pc[h] = "unlock" /\ mem[h] # None)'
               PROVE  /\ meta' = mem'[h] /\ panel' = mem'[h]
                      /\ mem'[h] \in control' /\ server'[mem'[h]] \in Up
    BY DEF ReportTrue, Up
  <2>1. /\ meta = mem[h] /\ panel = mem[h]
        /\ mem[h] \in control /\ server[mem[h]] \in Up
    BY <1>1 DEF ReportTrue, Up
  <2>2. QED
    BY <1>1, <1>2, <2>1 DEF TypeOK
<1>7. QED
  BY <1>4, <1>5, <1>6

LEMMA ReadyServedPreserved == Inv /\ [Next]_vars => ReadyServed'
<1> SUFFICES ASSUME Inv, [Next]_vars PROVE ReadyServed'
  OBVIOUS
<1> USE DEF Inv
<1>1. ASSUME NEW h \in Hooks, Hook(h)
      PROVE  ReadyServed'
  <2>1. ready' \subseteq ready
    <3>1. CASE Launch(h) \/ LaunchFails(h)
      BY <3>1 DEF Launch, Create, Spawn, SeeReady, TimeOut, Abandon, Publish,
         ShowPanel, Withdraw, StopNew, LaunchFails, CreateFails, SpawnFails,
         PublishFails, ShowPanelFails, OverlookNew, files
    <3>2. CASE ~(Launch(h) \/ LaunchFails(h))
      BY <1>1, <3>2 DEF Hook, Acquire, Reuse, Discard, FindNone, Touch,
         TouchPanel, StopOld, Forget, ClearPanel, Overlook, GiveUp, Unlock,
         Crash, files
    <3>3. QED
      BY <3>1, <3>2
  <2>2. CASE Spawn(h)
    <3>1. server[mem[h]] = "unborn"
      BY <2>2 DEF Spawn, Goto, Working, WorkBy
    <3>2. QED
      BY <2>1, <2>2, <3>1 DEF Spawn, Turns, ReadyServed, TypeOK
  <2>3. CASE TimeOut(h)
    BY <2>1, <2>3 DEF TimeOut, Turns, ReadyServed, TypeOK
  <2>4. CASE ~(Spawn(h) \/ TimeOut(h))
    <3>1. server' = server
      <4>1. CASE Launch(h) \/ LaunchFails(h)
        BY <2>4, <4>1 DEF Launch, Create, SeeReady, Abandon, Publish, ShowPanel,
           Withdraw, StopNew, LaunchFails, CreateFails, SpawnFails,
           PublishFails, ShowPanelFails, OverlookNew
      <4>2. CASE ~(Launch(h) \/ LaunchFails(h))
        BY <1>1, <4>2 DEF Hook, Acquire, Reuse, Discard, FindNone, Touch,
           TouchPanel, StopOld, Forget, ClearPanel, Overlook, GiveUp, Unlock,
           Crash
      <4>3. QED
        BY <4>1, <4>2
    <3>2. QED
      BY <2>1, <3>1 DEF ReadyServed
  <2>5. QED
    BY <2>2, <2>3, <2>4
<1>2. ASSUME NEW c \in Companions, Serve(c) \/ Expire(c)
      PROVE  ReadyServed'
  BY <1>2 DEF Serve, Bind, Announce, Poll, Expire, Turns, Alive, files, TypeOK,
     ReadyServed
<1>3. CASE ClearLock \/ UNCHANGED vars
  BY <1>3 DEF ClearLock, vars, files, ReadyServed
<1>4. QED
  BY <1>1, <1>2, <1>3 DEF Next

\* The inductive invariant: hooks work one at a time, and at each of its steps
\* a hook knows which companions are wanted.
THEOREM InvCorrect == Spec => []Inv
<1>1. Inv /\ [Next]_vars => Inv'
  <2> SUFFICES ASSUME Inv, [Next]_vars PROVE Inv'
    OBVIOUS
  <2>1. TypeOK' /\ Locked' /\ ReadyServed'
    BY TypePreserved, LockedPreserved, ReadyServedPreserved DEF Inv
  <2>2. Working' /\ Accounted' /\ ReportTrue'
    <3>1. CASE ClearLock \/ UNCHANGED vars
      <4>1. /\ UNCHANGED <<meta, panel, control, server, pc, mem, stray>>
            /\ \A h \in Hooks : lock' = h <=> lock = h
        BY <3>1, LockAssumption DEF ClearLock, vars, files
      <4>2. QED
        BY <4>1 DEF Inv, Working, WorkBy, Alone, Accounted, ReportTrue, Wanted,
           Alive, WorksOn
    <3>2. QED
      BY <3>1, HookPreserves, ServePreserves DEF Next
  <2>3. QED
    BY <2>1, <2>2 DEF Inv
<1>2. QED
  BY <1>1, InvInitial, PTL DEF Spec

\* Files, companions and hooks are always well typed; in particular a record
\* that cannot be parsed never names a companion.
THEOREM TypeCorrect == Spec => []TypeOK
BY InvCorrect, PTL DEF Inv

\* A companion that runs and has not been told to stop, and one that the side
\* panel shows, is in hud-autolaunch.json or in the hands of the hook that holds
\* the lock, unless a hook has died at a wrong moment or a removal has failed.
THEOREM AccountedCorrect == Spec => []Accounted
BY InvCorrect, PTL DEF Inv

\* What hook hud reports is what both files say, it is controlled, and has been
\* up since the hook looked for it or started it.
THEOREM ReportTrueCorrect == Spec => []ReportTrue
BY InvCorrect, PTL DEF Inv

\* hud_background_launch "starts or reuses one healthy loopback companion": there
\* are never two that are wanted, apart from the stray ones.
THEOREM OneCompanionCorrect == Spec => []OneCompanion
<1>1. Inv => OneCompanion
  <2> SUFFICES ASSUME Inv, NEW c \in Companions \ stray,
                      NEW d \in Companions \ stray,
                      Wanted(c), Wanted(d)
               PROVE  c = d
    BY DEF OneCompanion
  <2>1. CASE \A h \in Hooks : lock # h
    BY <2>1 DEF Inv, Accounted, WorksOn
  <2>2. ASSUME NEW h \in Hooks, lock = h, c # d
        PROVE  FALSE
    <3>1. \/ meta = c /\ mem[h] = d
          \/ meta = d /\ mem[h] = c
      BY <2>2 DEF Inv, Accounted, WorksOn
    <3>2. meta # mem[h] /\ mem[h] \in Companions \ stray /\ Wanted(mem[h])
      BY <2>2, <3>1
    <3>3. WorkBy(h) /\ pc[h] \in Steps
      BY DEF Inv, Working, TypeOK
    <3>4. pc[h] \notin Launches
      BY <2>2, <3>3 DEF WorkBy, Alone
    <3>5. pc[h] # "unlock"
      BY <3>2, NamesAssumption DEF Inv, ReportTrue
    <3>6. pc[h] \notin {"idle", "check"}
      BY <2>2, <3>2, <3>3, NamesAssumption DEF WorkBy, Inv, Locked
    <3>7. pc[h] \notin {"touch", "touchPanel", "stopOld", "forget"}
      BY <3>2, <3>3 DEF WorkBy
    <3>8. pc[h] # "clear"
      BY <3>2, <3>3 DEF WorkBy, Wanted
    <3>9. QED
      BY <3>3, <3>4, <3>5, <3>6, <3>7, <3>8 DEF Steps, Launches
  <2>3. QED
    BY <2>1, <2>2
<1>2. QED
  BY <1>1, InvCorrect, PTL
===============================================================================
