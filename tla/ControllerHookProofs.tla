----------------------- MODULE ControllerHookProofs -----------------------
(***************************************************************************)
(* HookInv is an invariant of ControllerHook for any clients and sessions, *)
(* and with it the safety properties NoGhostDevice, ReadyIsOwnAndOnce and  *)
(* OnlyOverlapUnregisters.                                                 *)
(***************************************************************************)
EXTENDS ControllerHook, TLAPS

\* The initial state: no session has sent anything.
LEMMA HookInvInit == Init => HookInv
<1> SUFFICES ASSUME Init PROVE HookInv
    OBVIOUS
<1> USE HookAssumption DEF Init
<1>1. TypeOK
    BY DEF TypeOK, States, Connecting, Locks
<1>2. OneConnectsAtATime /\ EntriesAreOwned
    BY DEF OneConnectsAtATime, EntriesAreOwned, Connecting
<1>3. CallbacksFollowConnect /\ MarkIsKept
    BY DEF CallbacksFollowConnect, MarkIsKept
<1>4. RegistrationIsKept /\ NoGhostDevice /\ ReadyIsOwnAndOnce
    BY DEF RegistrationIsKept, NoGhostDevice, ReadyIsOwnAndOnce
<1> QED
    BY <1>1, <1>2, <1>3, <1>4 DEF HookInv

\* Every variable keeps its type, whatever the step.
LEMMA TypeStep == TypeOK /\ [Next]_vars => TypeOK'
<1> SUFFICES ASSUME TypeOK, [Next]_vars PROVE TypeOK'
    OBVIOUS
<1> USE HookAssumption
<1> USE DEF Goto, hookVars, registryVars, failureVars, historyVars
<1>1. ASSUME NEW s \in Sessions, NEW lock \in Locks, NEW after \in {"live", "gone"},
             StateFailed(s, lock, after)
      PROVE  TypeOK'
    BY <1>1 DEF TypeOK, StateFailed, Report, States
<1>2. ASSUME NEW s \in Sessions, Hook(s) PROVE TypeOK'
  <2>1. SUFFICES ASSUME \A lock \in Locks, after \in {"live", "gone"} :
                              ~StateFailed(s, lock, after)
                 PROVE  TypeOK'
      BY <1>1
  <2>2. CASE Insert(s)
    <3>1. /\ Goto(s, "inserted")
          /\ connections' = [connections EXCEPT ![ClientOf[s]] = s]
          /\ ready' = [ready EXCEPT ![ClientOf[s]] = FALSE]
          /\ UNCHANGED <<registryVars, failureVars, historyVars>>
        BY <2>1, <2>2 DEF Insert, Locks
    <3> QED
        BY <3>1 DEF TypeOK, States, Connecting
  <2>3. CASE Register(s)
    <3>1. /\ Goto(s, "registered")
          /\ clients' = clients \cup {ClientOf[s]}
          /\ stats' = [stats EXCEPT ![ClientOf[s]] = NoSession]
          /\ currentApp' = [currentApp EXCEPT ![ClientOf[s]] = NoSession]
          /\ enrolled' = enrolled \cup {s}
          /\ overlapped' \in {overlapped, overlapped \cup {s}}
          /\ UNCHANGED <<hookVars, failureVars, announced, readied, reported>>
        BY <2>1, <2>3 DEF Register, Locks
    <3> QED
        BY <3>1 DEF TypeOK, States, Connecting
  <2>4. CASE OnConnected(s)
      BY <2>4 DEF OnConnected, TypeOK, States
  <2>5. ASSUME NEW parses \in BOOLEAN, UpdateStats(s, parses) PROVE TypeOK'
    <3>1. /\ Goto(s, "marking")
          /\ stats' \in {stats, [stats EXCEPT ![ClientOf[s]] = s]}
          /\ UNCHANGED <<hookVars, clients, currentApp, failureVars, historyVars>>
        BY <2>1, <2>5 DEF UpdateStats, Locks
    <3> QED
        BY <3>1 DEF TypeOK, States
  <2>6. CASE MarkReady(s)
    <3>1. /\ pc' \in {[pc EXCEPT ![s] = "ready"], [pc EXCEPT ![s] = "live"]}
          /\ ready' = [ready EXCEPT ![ClientOf[s]] = @ \/ MarksReady(s)]
          /\ UNCHANGED <<connections, registryVars, failureVars, historyVars>>
        BY <2>1, <2>6 DEF MarkReady, Locks
    <3>2. ready' \in [Clients -> BOOLEAN]
        BY <3>1 DEF TypeOK
    <3> QED
        BY <3>1, <3>2 DEF TypeOK, States
  <2>7. CASE OnDeviceReady(s)
      BY <2>7 DEF OnDeviceReady, TypeOK, States
  <2>8. CASE UpdateCurrentApp(s)
    <3>1. /\ Goto(s, "live")
          /\ currentApp' \in {currentApp, [currentApp EXCEPT ![ClientOf[s]] = s]}
          /\ UNCHANGED <<hookVars, clients, stats, failureVars, historyVars>>
        BY <2>1, <2>8 DEF UpdateCurrentApp, Locks
    <3> QED
        BY <3>1 DEF TypeOK, States
  <2>9. CASE RemoveIfCurrent(s)
    <3>1. /\ pc' \in {[pc EXCEPT ![s] = "removed"], [pc EXCEPT ![s] = "gone"]}
          /\ connections' \in {connections,
                                [connections EXCEPT ![ClientOf[s]] = NoSession]}
          /\ UNCHANGED <<ready, registryVars, failureVars, historyVars>>
        BY <2>1, <2>9 DEF RemoveIfCurrent, Locks
    <3> QED
        BY <3>1 DEF TypeOK, States
  <2>10. CASE Unregister(s)
    <3>1. /\ Goto(s, "gone")
          /\ clients' = clients \ {ClientOf[s]}
          /\ stats' = [stats EXCEPT ![ClientOf[s]] = NoSession]
          /\ currentApp' = [currentApp EXCEPT ![ClientOf[s]] = NoSession]
          /\ UNCHANGED <<hookVars, failureVars, historyVars>>
        BY <2>1, <2>10 DEF Unregister, Locks
    <3> QED
        BY <3>1 DEF TypeOK, States
  <2> QED
      BY <1>2, <2>2, <2>3, <2>4, <2>5, <2>6, <2>7, <2>8, <2>9, <2>10 DEF Hook
<1>3. ASSUME NEW s \in Sessions, Device(s) PROVE TypeOK'
    BY <1>3 DEF Device, Authenticate, Connected, Published, Disconnected, TypeOK,
                States, Connecting
<1>4. CASE StopAccepting
    BY <1>4 DEF StopAccepting, TypeOK
<1>5. ASSUME NEW lock \in Locks, Poison(lock) PROVE TypeOK'
    BY <1>5 DEF Poison, TypeOK
<1>6. CASE UNCHANGED vars
    BY <1>6 DEF vars, TypeOK
<1> QED
    BY <1>2, <1>3, <1>4, <1>5, <1>6 DEF Next

\* A handler that meets a poisoned lock returns and reports: the failure
\* excuses what is said of the registry, and the session only moves on.
LEMMA StateFailedKeepsInv ==
    ASSUME HookInv, NEW s \in Sessions, NEW lock \in Locks,
           NEW after \in {"live", "gone"},
           pc[s] \notin {"new", "allowed", "registered"},
           StateFailed(s, lock, after)
    PROVE  HookInv'
<1> USE HookAssumption DEF StateFailed, Goto, Report
<1> USE DEF HookInv
<1>1. TypeOK'
    BY DEF TypeOK, States, Locks
<1>2. failed' # NoError
    BY DEF Locks
<1>3. OneConnectsAtATime'
    BY DEF OneConnectsAtATime, Connecting, TypeOK
<1>4. EntriesAreOwned'
    BY DEF EntriesAreOwned, TypeOK
<1>5. CallbacksFollowConnect'
    BY DEF CallbacksFollowConnect, TypeOK
<1>6. MarkIsKept'
    BY DEF MarkIsKept, TypeOK
<1>7. RegistrationIsKept' /\ NoGhostDevice'
    BY <1>2 DEF RegistrationIsKept, NoGhostDevice
<1>8. ReadyIsOwnAndOnce'
    BY DEF ReadyIsOwnAndOnce
<1> QED
    BY <1>1, <1>3, <1>4, <1>5, <1>6, <1>7, <1>8

\* No step of a hook or of a device, no close and no poisoning breaks HookInv.
LEMMA HookInvStep == HookInv /\ [Next]_vars => HookInv'
<1> SUFFICES ASSUME HookInv, [Next]_vars PROVE HookInv'
    OBVIOUS
<1>t. TypeOK /\ TypeOK'
    BY TypeStep DEF HookInv
<1> USE HookAssumption
<1> USE DEF HookInv, Goto, hookVars, registryVars, failureVars, historyVars
\* A refused or an allowed attempt touches no map.
<1>1. ASSUME NEW s \in Sessions, NEW match \in BOOLEAN, Authenticate(s, match) PROVE HookInv'
  <2>1. OneConnectsAtATime' /\ EntriesAreOwned'
      BY <1>1, <1>t DEF Authenticate, OneConnectsAtATime, EntriesAreOwned, TypeOK, Connecting, Same
  <2>2. CallbacksFollowConnect'
      BY <1>1, <1>t DEF Authenticate, CallbacksFollowConnect, MarkIsKept, TypeOK
  <2>3. MarkIsKept'
      BY <1>1, <1>t DEF Authenticate, CallbacksFollowConnect, MarkIsKept, EntriesAreOwned, TypeOK
  <2>4. RegistrationIsKept'
      BY <1>1, <1>t DEF Authenticate, RegistrationIsKept, EntriesAreOwned, CallbacksFollowConnect,
             TypeOK, Same
  <2>5. NoGhostDevice'
      BY <1>1, <1>t DEF Authenticate, NoGhostDevice, EntriesAreOwned, TypeOK
  <2>6. ReadyIsOwnAndOnce'
      BY <1>1, <1>t DEF Authenticate, ReadyIsOwnAndOnce, MarkIsKept, EntriesAreOwned,
             CallbacksFollowConnect, TypeOK
  <2> QED
      BY <1>t, <2>1, <2>2, <2>3, <2>4, <2>5, <2>6
\* rmqtt lets one session of a client at a time into connected().
<1>2. ASSUME NEW s \in Sessions, Connected(s) PROVE HookInv'
  <2>1. OneConnectsAtATime' /\ EntriesAreOwned'
      BY <1>2, <1>t DEF Connected, MayConnect, OneConnectsAtATime, EntriesAreOwned, TypeOK, Connecting, Same
  <2>2. CallbacksFollowConnect'
      BY <1>2, <1>t DEF Connected, MayConnect, CallbacksFollowConnect, MarkIsKept, TypeOK
  <2>3. MarkIsKept'
      BY <1>2, <1>t DEF Connected, MayConnect, CallbacksFollowConnect, MarkIsKept, EntriesAreOwned, TypeOK
  <2>4. RegistrationIsKept'
      BY <1>2, <1>t DEF Connected, MayConnect, RegistrationIsKept, EntriesAreOwned, CallbacksFollowConnect,
             TypeOK, Same
  <2>5. NoGhostDevice'
      BY <1>2, <1>t DEF Connected, MayConnect, NoGhostDevice, EntriesAreOwned, TypeOK
  <2>6. ReadyIsOwnAndOnce'
      BY <1>2, <1>t DEF Connected, MayConnect, ReadyIsOwnAndOnce, MarkIsKept, EntriesAreOwned,
             CallbacksFollowConnect, TypeOK
  <2> QED
      BY <1>t, <2>1, <2>2, <2>3, <2>4, <2>5, <2>6
\* The new Connection starts unready and makes the previous one stale.
<1>3. ASSUME NEW s \in Sessions, Insert(s) PROVE HookInv'
  <2>0. SUFFICES ASSUME \A lock \in Locks : ~StateFailed(s, lock, "live")
                 PROVE  HookInv'
      BY <1>3, StateFailedKeepsInv DEF Insert
  <2>1. OneConnectsAtATime' /\ EntriesAreOwned'
      BY <1>3, <1>t, <2>0 DEF Insert, Locks, OneConnectsAtATime, EntriesAreOwned, TypeOK, Connecting, Same
  <2>2. CallbacksFollowConnect'
      BY <1>3, <1>t, <2>0 DEF Insert, Locks, CallbacksFollowConnect, MarkIsKept, TypeOK
  <2>3. MarkIsKept'
      BY <1>3, <1>t, <2>0 DEF Insert, Locks, CallbacksFollowConnect, MarkIsKept, EntriesAreOwned, TypeOK
  <2>4. RegistrationIsKept'
      BY <1>3, <1>t, <2>0 DEF Insert, Locks, RegistrationIsKept, EntriesAreOwned, CallbacksFollowConnect,
             TypeOK, Same
  <2>5. NoGhostDevice'
      BY <1>3, <1>t, <2>0 DEF Insert, Locks, NoGhostDevice, EntriesAreOwned, TypeOK
  <2>6. ReadyIsOwnAndOnce'
      BY <1>3, <1>t, <2>0 DEF Insert, Locks, ReadyIsOwnAndOnce, MarkIsKept, EntriesAreOwned,
             CallbacksFollowConnect, TypeOK
  <2> QED
      BY <1>t, <2>1, <2>2, <2>3, <2>4, <2>5, <2>6
\* The registering session is still current: no connect has overlapped its own.
<1>4. ASSUME NEW s \in Sessions, Register(s) PROVE HookInv'
  <2>0. SUFFICES ASSUME \A lock \in Locks : ~StateFailed(s, lock, "live")
                 PROVE  HookInv'
      BY <1>4, StateFailedKeepsInv DEF Register
  <2>1. OneConnectsAtATime' /\ EntriesAreOwned'
      BY <1>4, <1>t, <2>0 DEF Register, Locks, OneConnectsAtATime, EntriesAreOwned, TypeOK, Connecting, Same
  <2>2. CallbacksFollowConnect'
      BY <1>4, <1>t, <2>0 DEF Register, Locks, CallbacksFollowConnect, MarkIsKept, TypeOK
  <2>3. MarkIsKept'
      BY <1>4, <1>t, <2>0 DEF Register, Locks, CallbacksFollowConnect, MarkIsKept, EntriesAreOwned, TypeOK
  <2>4. RegistrationIsKept'
      BY <1>4, <1>t, <2>0 DEF Register, Locks, RegistrationIsKept, EntriesAreOwned, CallbacksFollowConnect,
             TypeOK, Same
  <2>5. NoGhostDevice'
      BY <1>4, <1>t, <2>0 DEF Register, Locks, NoGhostDevice, EntriesAreOwned, TypeOK
  <2>6. ReadyIsOwnAndOnce'
      BY <1>4, <1>t, <2>0 DEF Register, Locks, ReadyIsOwnAndOnce, MarkIsKept, EntriesAreOwned,
             CallbacksFollowConnect, TypeOK
  <2> QED
      BY <1>t, <2>1, <2>2, <2>3, <2>4, <2>5, <2>6
\* The callback is the first of its session.
<1>5. ASSUME NEW s \in Sessions, OnConnected(s) PROVE HookInv'
  <2>1. OneConnectsAtATime' /\ EntriesAreOwned'
      BY <1>5, <1>t DEF OnConnected, OneConnectsAtATime, EntriesAreOwned, TypeOK, Connecting, Same
  <2>2. CallbacksFollowConnect'
      BY <1>5, <1>t DEF OnConnected, CallbacksFollowConnect, MarkIsKept, TypeOK
  <2>3. MarkIsKept'
      BY <1>5, <1>t DEF OnConnected, CallbacksFollowConnect, MarkIsKept, EntriesAreOwned, TypeOK
  <2>4. RegistrationIsKept'
      BY <1>5, <1>t DEF OnConnected, RegistrationIsKept, EntriesAreOwned, CallbacksFollowConnect,
             TypeOK, Same
  <2>5. NoGhostDevice'
      BY <1>5, <1>t DEF OnConnected, NoGhostDevice, EntriesAreOwned, TypeOK
  <2>6. ReadyIsOwnAndOnce'
      BY <1>5, <1>t DEF OnConnected, ReadyIsOwnAndOnce, MarkIsKept, EntriesAreOwned,
             CallbacksFollowConnect, TypeOK
  <2> QED
      BY <1>t, <2>1, <2>2, <2>3, <2>4, <2>5, <2>6
<1>6. ASSUME NEW s \in Sessions, NEW topic \in {"stats", "app"}, Published(s, topic) PROVE HookInv'
  <2>1. OneConnectsAtATime' /\ EntriesAreOwned'
      BY <1>6, <1>t DEF Published, OneConnectsAtATime, EntriesAreOwned, TypeOK, Connecting, Same
  <2>2. CallbacksFollowConnect'
      BY <1>6, <1>t DEF Published, CallbacksFollowConnect, MarkIsKept, TypeOK
  <2>3. MarkIsKept'
      BY <1>6, <1>t DEF Published, CallbacksFollowConnect, MarkIsKept, EntriesAreOwned, TypeOK
  <2>4. RegistrationIsKept'
      BY <1>6, <1>t DEF Published, RegistrationIsKept, EntriesAreOwned, CallbacksFollowConnect,
             TypeOK, Same
  <2>5. NoGhostDevice'
      BY <1>6, <1>t DEF Published, NoGhostDevice, EntriesAreOwned, TypeOK
  <2>6. ReadyIsOwnAndOnce'
      BY <1>6, <1>t DEF Published, ReadyIsOwnAndOnce, MarkIsKept, EntriesAreOwned,
             CallbacksFollowConnect, TypeOK
  <2> QED
      BY <1>t, <2>1, <2>2, <2>3, <2>4, <2>5, <2>6
\* Storing stats neither adds nor removes a client.
<1>7. ASSUME NEW s \in Sessions, NEW parses \in BOOLEAN, UpdateStats(s, parses) PROVE HookInv'
  <2>0. SUFFICES ASSUME \A lock \in Locks : ~StateFailed(s, lock, "live")
                 PROVE  HookInv'
      BY <1>7, StateFailedKeepsInv DEF UpdateStats
  <2>1. OneConnectsAtATime' /\ EntriesAreOwned'
      BY <1>7, <1>t, <2>0 DEF UpdateStats, Locks, OneConnectsAtATime, EntriesAreOwned, TypeOK, Connecting, Same
  <2>2. CallbacksFollowConnect'
      BY <1>7, <1>t, <2>0 DEF UpdateStats, Locks, CallbacksFollowConnect, MarkIsKept, TypeOK
  <2>3. MarkIsKept'
      BY <1>7, <1>t, <2>0 DEF UpdateStats, Locks, CallbacksFollowConnect, MarkIsKept, EntriesAreOwned, TypeOK
  <2>4. RegistrationIsKept'
      BY <1>7, <1>t, <2>0 DEF UpdateStats, Locks, RegistrationIsKept, EntriesAreOwned, CallbacksFollowConnect,
             TypeOK, Same
  <2>5. NoGhostDevice'
      BY <1>7, <1>t, <2>0 DEF UpdateStats, Locks, NoGhostDevice, EntriesAreOwned, TypeOK
  <2>6. ReadyIsOwnAndOnce'
      BY <1>7, <1>t, <2>0 DEF UpdateStats, Locks, ReadyIsOwnAndOnce, MarkIsKept, EntriesAreOwned,
             CallbacksFollowConnect, TypeOK
  <2> QED
      BY <1>t, <2>1, <2>2, <2>3, <2>4, <2>5, <2>6
\* Marking: the session is current and was unmarked, so never reported before.
<1>8. ASSUME NEW s \in Sessions, MarkReady(s) PROVE HookInv'
  <2>0. SUFFICES ASSUME \A lock \in Locks : ~StateFailed(s, lock, "live")
                 PROVE  HookInv'
      BY <1>8, StateFailedKeepsInv DEF MarkReady
  <2>1. OneConnectsAtATime' /\ EntriesAreOwned'
      BY <1>8, <1>t, <2>0 DEF MarkReady, MarksReady, Locks, OneConnectsAtATime, EntriesAreOwned, TypeOK, Connecting, Same
  <2>2. CallbacksFollowConnect'
      BY <1>8, <1>t, <2>0 DEF MarkReady, MarksReady, Locks, CallbacksFollowConnect, MarkIsKept, TypeOK
  <2>3. MarkIsKept'
      BY <1>8, <1>t, <2>0 DEF MarkReady, MarksReady, Locks, CallbacksFollowConnect, MarkIsKept, EntriesAreOwned, TypeOK
  <2>4. RegistrationIsKept'
      BY <1>8, <1>t, <2>0 DEF MarkReady, MarksReady, Locks, RegistrationIsKept, EntriesAreOwned, CallbacksFollowConnect,
             TypeOK, Same
  <2>5. NoGhostDevice'
      BY <1>8, <1>t, <2>0 DEF MarkReady, MarksReady, Locks, NoGhostDevice, EntriesAreOwned, TypeOK
  <2>6. ReadyIsOwnAndOnce'
      BY <1>8, <1>t, <2>0 DEF MarkReady, MarksReady, Locks, ReadyIsOwnAndOnce, MarkIsKept, EntriesAreOwned,
             CallbacksFollowConnect, TypeOK
  <2> QED
      BY <1>t, <2>1, <2>2, <2>3, <2>4, <2>5, <2>6
<1>9. ASSUME NEW s \in Sessions, OnDeviceReady(s) PROVE HookInv'
  <2>1. OneConnectsAtATime' /\ EntriesAreOwned'
      BY <1>9, <1>t DEF OnDeviceReady, OneConnectsAtATime, EntriesAreOwned, TypeOK, Connecting, Same
  <2>2. CallbacksFollowConnect'
      BY <1>9, <1>t DEF OnDeviceReady, CallbacksFollowConnect, MarkIsKept, TypeOK
  <2>3. MarkIsKept'
      BY <1>9, <1>t DEF OnDeviceReady, CallbacksFollowConnect, MarkIsKept, EntriesAreOwned, TypeOK
  <2>4. RegistrationIsKept'
      BY <1>9, <1>t DEF OnDeviceReady, RegistrationIsKept, EntriesAreOwned, CallbacksFollowConnect,
             TypeOK, Same
  <2>5. NoGhostDevice'
      BY <1>9, <1>t DEF OnDeviceReady, NoGhostDevice, EntriesAreOwned, TypeOK
  <2>6. ReadyIsOwnAndOnce'
      BY <1>9, <1>t DEF OnDeviceReady, ReadyIsOwnAndOnce, MarkIsKept, EntriesAreOwned,
             CallbacksFollowConnect, TypeOK
  <2> QED
      BY <1>t, <2>1, <2>2, <2>3, <2>4, <2>5, <2>6
<1>10. ASSUME NEW s \in Sessions, UpdateCurrentApp(s) PROVE HookInv'
  <2>0. SUFFICES ASSUME \A lock \in Locks : ~StateFailed(s, lock, "live")
                 PROVE  HookInv'
      BY <1>10, StateFailedKeepsInv DEF UpdateCurrentApp
  <2>1. OneConnectsAtATime' /\ EntriesAreOwned'
      BY <1>10, <1>t, <2>0 DEF UpdateCurrentApp, Locks, OneConnectsAtATime, EntriesAreOwned, TypeOK, Connecting, Same
  <2>2. CallbacksFollowConnect'
      BY <1>10, <1>t, <2>0 DEF UpdateCurrentApp, Locks, CallbacksFollowConnect, MarkIsKept, TypeOK
  <2>3. MarkIsKept'
      BY <1>10, <1>t, <2>0 DEF UpdateCurrentApp, Locks, CallbacksFollowConnect, MarkIsKept, EntriesAreOwned, TypeOK
  <2>4. RegistrationIsKept'
      BY <1>10, <1>t, <2>0 DEF UpdateCurrentApp, Locks, RegistrationIsKept, EntriesAreOwned, CallbacksFollowConnect,
             TypeOK, Same
  <2>5. NoGhostDevice'
      BY <1>10, <1>t, <2>0 DEF UpdateCurrentApp, Locks, NoGhostDevice, EntriesAreOwned, TypeOK
  <2>6. ReadyIsOwnAndOnce'
      BY <1>10, <1>t, <2>0 DEF UpdateCurrentApp, Locks, ReadyIsOwnAndOnce, MarkIsKept, EntriesAreOwned,
             CallbacksFollowConnect, TypeOK
  <2> QED
      BY <1>t, <2>1, <2>2, <2>3, <2>4, <2>5, <2>6
<1>11. ASSUME NEW s \in Sessions, Disconnected(s) PROVE HookInv'
  <2>1. OneConnectsAtATime' /\ EntriesAreOwned'
      BY <1>11, <1>t DEF Disconnected, OneConnectsAtATime, EntriesAreOwned, TypeOK, Connecting, Same
  <2>2. CallbacksFollowConnect'
      BY <1>11, <1>t DEF Disconnected, CallbacksFollowConnect, MarkIsKept, TypeOK
  <2>3. MarkIsKept'
      BY <1>11, <1>t DEF Disconnected, CallbacksFollowConnect, MarkIsKept, EntriesAreOwned, TypeOK
  <2>4. RegistrationIsKept'
      BY <1>11, <1>t DEF Disconnected, RegistrationIsKept, EntriesAreOwned, CallbacksFollowConnect,
             TypeOK, Same
  <2>5. NoGhostDevice'
      BY <1>11, <1>t DEF Disconnected, NoGhostDevice, EntriesAreOwned, TypeOK
  <2>6. ReadyIsOwnAndOnce'
      BY <1>11, <1>t DEF Disconnected, ReadyIsOwnAndOnce, MarkIsKept, EntriesAreOwned,
             CallbacksFollowConnect, TypeOK
  <2> QED
      BY <1>t, <2>1, <2>2, <2>3, <2>4, <2>5, <2>6
\* A current session leaves its client to its own unregister(); a stale one touches nothing.
<1>12. ASSUME NEW s \in Sessions, RemoveIfCurrent(s) PROVE HookInv'
  <2>0. SUFFICES ASSUME \A lock \in Locks : ~StateFailed(s, lock, "gone")
                 PROVE  HookInv'
      BY <1>12, StateFailedKeepsInv DEF RemoveIfCurrent
  <2>1. OneConnectsAtATime' /\ EntriesAreOwned'
      BY <1>12, <1>t, <2>0 DEF RemoveIfCurrent, Locks, OneConnectsAtATime, EntriesAreOwned, TypeOK, Connecting, Same
  <2>2. CallbacksFollowConnect'
      BY <1>12, <1>t, <2>0 DEF RemoveIfCurrent, Locks, CallbacksFollowConnect, MarkIsKept, TypeOK
  <2>3. MarkIsKept'
      BY <1>12, <1>t, <2>0 DEF RemoveIfCurrent, Locks, CallbacksFollowConnect, MarkIsKept, EntriesAreOwned, TypeOK
  <2>4. RegistrationIsKept'
      BY <1>12, <1>t, <2>0 DEF RemoveIfCurrent, Locks, RegistrationIsKept, EntriesAreOwned, CallbacksFollowConnect,
             TypeOK, Same
  <2>5. NoGhostDevice'
      BY <1>12, <1>t, <2>0 DEF RemoveIfCurrent, Locks, NoGhostDevice, EntriesAreOwned, TypeOK
  <2>6. ReadyIsOwnAndOnce'
      BY <1>12, <1>t, <2>0 DEF RemoveIfCurrent, Locks, ReadyIsOwnAndOnce, MarkIsKept, EntriesAreOwned,
             CallbacksFollowConnect, TypeOK
  <2> QED
      BY <1>t, <2>1, <2>2, <2>3, <2>4, <2>5, <2>6
\* A session registered without overlap has no pending unregister() to fear.
<1>13. ASSUME NEW s \in Sessions, Unregister(s) PROVE HookInv'
  <2>0. SUFFICES ASSUME \A lock \in Locks : ~StateFailed(s, lock, "gone")
                 PROVE  HookInv'
      BY <1>13, StateFailedKeepsInv DEF Unregister
  <2>1. OneConnectsAtATime' /\ EntriesAreOwned'
      BY <1>13, <1>t, <2>0 DEF Unregister, Locks, OneConnectsAtATime, EntriesAreOwned, TypeOK, Connecting, Same
  <2>2. CallbacksFollowConnect'
      BY <1>13, <1>t, <2>0 DEF Unregister, Locks, CallbacksFollowConnect, MarkIsKept, TypeOK
  <2>3. MarkIsKept'
      BY <1>13, <1>t, <2>0 DEF Unregister, Locks, CallbacksFollowConnect, MarkIsKept, EntriesAreOwned, TypeOK
  <2>4. RegistrationIsKept'
      BY <1>13, <1>t, <2>0 DEF Unregister, Locks, RegistrationIsKept, EntriesAreOwned, CallbacksFollowConnect,
             TypeOK, Same
  <2>5. NoGhostDevice'
      BY <1>13, <1>t, <2>0 DEF Unregister, Locks, NoGhostDevice, EntriesAreOwned, TypeOK
  <2>6. ReadyIsOwnAndOnce'
      BY <1>13, <1>t, <2>0 DEF Unregister, Locks, ReadyIsOwnAndOnce, MarkIsKept, EntriesAreOwned,
             CallbacksFollowConnect, TypeOK
  <2> QED
      BY <1>t, <2>1, <2>2, <2>3, <2>4, <2>5, <2>6
<1>14. ASSUME UNCHANGED <<pc, hookVars, registryVars, historyVars, failed>>
       PROVE  HookInv'
    BY <1>t, <1>14 DEF OneConnectsAtATime, EntriesAreOwned, CallbacksFollowConnect,
       MarkIsKept, RegistrationIsKept, NoGhostDevice, ReadyIsOwnAndOnce
<1>15. CASE StopAccepting \/ (\E lock \in Locks : Poison(lock)) \/ UNCHANGED vars
    BY <1>14, <1>15 DEF StopAccepting, Poison, vars
<1> QED
    BY <1>1, <1>2, <1>3, <1>4, <1>5, <1>6, <1>7, <1>8, <1>9, <1>10, <1>11, <1>12,
       <1>13, <1>15 DEF Next, Hook, Device

\* The sessions, the two maps and the callbacks stay consistent for any number
\* of clients and sessions, however their hooks interleave with closing and
\* with poisoned locks.
THEOREM HookInvariant == Spec => []HookInv
<1>1. HookInv /\ [Next]_vars => HookInv'
    BY HookInvStep
<1> QED
    BY HookInvInit, <1>1, PTL DEF Spec

\* A registered device has a current session, or an unregister() on its way.
THEOREM NoGhost == Spec => []NoGhostDevice
<1>1. HookInv => NoGhostDevice
    BY DEF HookInv
<1> QED
    BY HookInvariant, <1>1, PTL

\* mark_ready reports each session at most once and never for another session.
THEOREM ReadyOnce == Spec => []ReadyIsOwnAndOnce
<1>1. HookInv => ReadyIsOwnAndOnce
    BY DEF HookInv
<1> QED
    BY HookInvariant, <1>1, PTL

\* The race between removal and unregister() is the only way to lose the
\* registration of a connected device.
THEOREM OnlyOverlap == Spec => []OnlyOverlapUnregisters
<1>1. HookInv => OnlyOverlapUnregisters
    BY DEF HookInv, RegistrationIsKept, OnlyOverlapUnregisters, Settled
<1> QED
    BY HookInvariant, <1>1, PTL

\* The sessions that owe a callback are those between registration and callback,
\* at most one of each client.
LEMMA OwedOnce ==
    ASSUME HookInv, NEW s \in Sessions, NEW o \in Sessions, Same(s, o), s # o,
           pc[s] \in Connecting
    PROVE  ~(o \in enrolled /\ announced[o] = 0)
BY DEF HookInv, OneConnectsAtATime, CallbacksFollowConnect, Connecting

\* Each step of a hook is a step of Presence, or invisible to it: register() and
\* the callback are the only ones that change who is owed a callback.
LEMMA HookStepIsPresenceStep ==
    HookInv /\ [Next]_vars => [P!Next]_(P!presenceVars)
<1> SUFFICES ASSUME HookInv, [Next]_vars PROVE [P!Next]_(P!presenceVars)
    OBVIOUS
<1>t. TypeOK /\ CallbacksFollowConnect
    BY DEF HookInv
<1> USE HookAssumption
<1> USE DEF P!presenceVars, Goto, hookVars, registryVars, failureVars, historyVars
<1>1. ASSUME UNCHANGED <<clients, enrolled, announced>>
      PROVE  UNCHANGED <<clients, Announcing>>
    BY <1>1 DEF Announcing
<1>2. ASSUME NEW s \in Sessions, Register(s) PROVE [P!Next]_(P!presenceVars)
  <2>1. CASE StateFailed(s, "registry", "live")
      BY <1>1, <2>1 DEF StateFailed
  <2>2. CASE ~StateFailed(s, "registry", "live")
    <3>1. /\ pc[s] = "inserted"
          /\ clients' = clients \cup {ClientOf[s]}
          /\ enrolled' = enrolled \cup {s}
          /\ announced' = announced
        BY <1>2, <2>2 DEF Register
    <3>2. announced[s] = 0
        BY <1>t, <3>1 DEF CallbacksFollowConnect
    <3>3. ClientOf[s] \notin Announcing
        BY <1>t, <3>1, OwedOnce DEF Announcing, Same, Connecting, TypeOK,
           CallbacksFollowConnect
    <3>4. Announcing' = Announcing \cup {ClientOf[s]}
        BY <3>1, <3>2 DEF Announcing
    <3>5. P!Register(ClientOf[s])
        BY <3>1, <3>3, <3>4 DEF P!Register
    <3> QED
        BY <3>5 DEF P!Next
  <2> QED
      BY <2>1, <2>2
<1>3. ASSUME NEW s \in Sessions, OnConnected(s) PROVE [P!Next]_(P!presenceVars)
  <2>1. /\ pc[s] = "registered"
        /\ announced' = [announced EXCEPT ![s] = @ + 1]
        /\ UNCHANGED <<clients, enrolled>>
      BY <1>3 DEF OnConnected
  <2>2. s \in enrolled /\ announced[s] = 0 /\ announced'[s] # 0
      BY <1>t, <2>1 DEF CallbacksFollowConnect, TypeOK
  <2>3. ASSUME NEW o \in enrolled, announced[o] = 0, Same(s, o) PROVE o = s
      BY <1>t, <2>1, <2>3, OwedOnce DEF Connecting, TypeOK
  <2>4. \A o \in enrolled : o # s => announced'[o] = announced[o]
      BY <1>t, <2>1 DEF TypeOK
  <2>5. Announcing' = Announcing \ {ClientOf[s]}
      BY <1>t, <2>1, <2>2, <2>3, <2>4 DEF Announcing, Same, TypeOK
  <2>6. P!Announce(ClientOf[s])
      BY <2>1, <2>2, <2>5 DEF P!Announce, Announcing
  <2> QED
      BY <2>6 DEF P!Next
<1>4. ASSUME NEW s \in Sessions, Unregister(s) PROVE [P!Next]_(P!presenceVars)
  <2>1. /\ UNCHANGED <<enrolled, announced>>
        /\ clients' \in {clients, clients \ {ClientOf[s]}}
      BY <1>4 DEF Unregister, StateFailed
  <2>2. UNCHANGED Announcing
      BY <2>1 DEF Announcing
  <2>3. CASE clients' = clients
      BY <2>2, <2>3
  <2>4. CASE clients' # clients
    <3>1. P!Unregister(ClientOf[s])
        BY <2>1, <2>2, <2>4 DEF P!Unregister
    <3> QED
        BY <3>1 DEF P!Next
  <2> QED
      BY <2>3, <2>4
<1>5. ASSUME NEW s \in Sessions,
             Device(s) \/ Insert(s) \/ MarkReady(s) \/ OnDeviceReady(s)
             \/ UpdateCurrentApp(s) \/ RemoveIfCurrent(s)
             \/ \E parses \in BOOLEAN : UpdateStats(s, parses)
      PROVE  [P!Next]_(P!presenceVars)
  <2>1. UNCHANGED <<clients, enrolled, announced>>
      BY <1>5 DEF Device, Authenticate, Connected, Published, Disconnected, Insert,
         MarkReady, OnDeviceReady, UpdateCurrentApp, RemoveIfCurrent, UpdateStats,
         StateFailed
  <2> QED
      BY <1>1, <2>1
<1>6. CASE StopAccepting \/ (\E lock \in Locks : Poison(lock)) \/ UNCHANGED vars
    BY <1>1, <1>6 DEF StopAccepting, Poison, vars
<1> QED
    BY <1>2, <1>3, <1>4, <1>5, <1>6 DEF Next, Hook

\* The hook implements the safety part of Presence, for any clients and
\* sessions: registrations, callbacks and removals happen one at a time and in
\* the order Presence allows.
THEOREM HookImplementsPresence == Spec => P!Spec
<1>1. Init => P!Init
    BY DEF Init, P!Init, Announcing
<1>2. HookInv /\ [Next]_vars => [P!Next]_(P!presenceVars)
    BY HookStepIsPresenceStep
<1> QED
    BY <1>1, <1>2, HookInvariant, PTL DEF Spec, P!Spec
===========================================================================
