-------------------------- MODULE ControllerHook --------------------------
(***************************************************************************)
(* The broker hook of src/src/broker/hook.rs with the device registry of   *)
(* src/src/clientstate/mod.rs.                                             *)
(*                                                                         *)
(* rmqtt (external) runs the hook on one task per network session: within  *)
(* a session the hooks run one after the other, the hooks of different     *)
(* sessions interleave at every lock acquisition.  Two locks are involved, *)
(* the hook's own `connections` map and the registry's `clients` map, and  *)
(* no handler holds both: what happens between the two is what this module *)
(* is about.                                                               *)
(*                                                                         *)
(* pc[s] says how far session s is:                                        *)
(*   "new"         no CONNECT yet                                          *)
(*   "allowed"     authenticated, ClientConnected not delivered yet        *)
(*   "connecting"  in connected(), past the check of `closing`             *)
(*   "inserted"    ... its Connection is in `connections`                  *)
(*   "registered"  ... and its client in the registry, callback to come    *)
(*   "live"        no hook of the session is running                       *)
(*   "stats"       in published() for a stats topic, past the check        *)
(*   "app"         in published() for a currentApp topic, past the check   *)
(*   "marking"     ... stats stored, mark_ready() to come                  *)
(*   "ready"       ... marked, the on_device_ready callback to come        *)
(*   "leaving"     in disconnected(), past the check                       *)
(*   "removed"     ... its Connection is removed, unregister() to come     *)
(*   "gone"        refused, or the session has ended                       *)
(***************************************************************************)
EXTENDS Naturals

CONSTANTS
    Clients,      \* the client IDs
    Sessions,     \* the network sessions that may ever exist (SessionKey values)
    ClientOf,     \* the client ID each session connects with
    NoSession,    \* "no entry in the map"
    NoError       \* "no failure reported"

ASSUME HookAssumption ==
    /\ ClientOf \in [Sessions -> Clients]
    /\ NoSession \notin Sessions
    /\ NoError \notin {"connections", "registry"}

VARIABLES
    pc,           \* the progress of each session
    connections,  \* ControllerHook.connections: the current session of a client
    ready,        \* Connection.ready of the current session of a client
    clients,      \* Registry.clients: the registered client IDs
    stats,        \* ClientState.stats, abstracted to the session it came from
    currentApp,   \* ClientState.current_app, likewise
    closing,      \* ControllerHook.closing
    poisoned,     \* the locks a panicking writer has poisoned
    failed,       \* Failures.first: the first StateError reported
    enrolled,     \* history: sessions that called Registry::register
    announced,    \* history: on_connected callbacks made for each session
    readied,      \* history: on_device_ready callbacks made for each session
    reported,     \* history: sessions that have published a stats message
    overlapped    \* history: sessions registered while an older session of the
                  \* client was between its removal and its unregister()

vars == <<pc, connections, ready, clients, stats, currentApp, closing,
          poisoned, failed, enrolled, announced, readied, reported, overlapped>>

Locks == {"connections", "registry"}

Connecting == {"connecting", "inserted", "registered"}

States == {"new", "allowed", "live", "stats", "app", "marking", "ready",
           "leaving", "removed", "gone"} \cup Connecting

TypeOK ==
    /\ pc \in [Sessions -> States]
    /\ connections \in [Clients -> Sessions \cup {NoSession}]
    /\ ready \in [Clients -> BOOLEAN]
    /\ clients \in SUBSET Clients
    /\ stats \in [Clients -> Sessions \cup {NoSession}]
    /\ currentApp \in [Clients -> Sessions \cup {NoSession}]
    /\ closing \in BOOLEAN
    /\ poisoned \in SUBSET Locks
    /\ failed \in Locks \cup {NoError}
    /\ enrolled \in SUBSET Sessions
    /\ announced \in [Sessions -> Nat]
    /\ readied \in [Sessions -> Nat]
    /\ reported \in SUBSET Sessions
    /\ overlapped \in SUBSET Sessions

Init ==
    /\ pc = [s \in Sessions |-> "new"]
    /\ connections = [c \in Clients |-> NoSession]
    /\ ready = [c \in Clients |-> FALSE]
    /\ clients = {}
    /\ stats = [c \in Clients |-> NoSession]
    /\ currentApp = [c \in Clients |-> NoSession]
    /\ closing = FALSE
    /\ poisoned = {}
    /\ failed = NoError
    /\ enrolled = {}
    /\ announced = [s \in Sessions |-> 0]
    /\ readied = [s \in Sessions |-> 0]
    /\ reported = {}
    /\ overlapped = {}

---------------------------------------------------------------------------
(* The helpers every handler uses. *)

Goto(s, state) == pc' = [pc EXCEPT ![s] = state]

\* A healthy lock is taken; state::checked turns a poisoned one into an error.
Locked(lock) == lock \notin poisoned

\* Failures::report keeps the first error.
Report(error) == failed' = IF failed = NoError THEN error ELSE failed

\* The handler of s met a poisoned lock: it returns early, state_failed()
\* closes the broker and reports, and the session goes on to `after`.
StateFailed(s, lock, after) ==
    /\ lock \in poisoned
    /\ closing' = TRUE
    /\ Report(lock)
    /\ Goto(s, after)
    /\ UNCHANGED <<connections, ready, clients, stats, currentApp, poisoned,
                   enrolled, announced, readied, reported, overlapped>>

hookVars == <<connections, ready>>
registryVars == <<clients, stats, currentApp>>
failureVars == <<closing, poisoned, failed>>
historyVars == <<enrolled, announced, readied, reported, overlapped>>

---------------------------------------------------------------------------
(* The hook. *)

\* ClientAuthenticate.  Every attempt is refused once the broker is closing,
\* and one with other credentials always.
Authenticate(s, credentialsMatch) ==
    /\ pc[s] = "new"
    /\ Goto(s, IF ~closing /\ credentialsMatch THEN "allowed" ELSE "gone")
    /\ UNCHANGED <<hookVars, registryVars, failureVars, historyVars>>

\* rmqtt serialises the connects of one client ID, but a takeover does not
\* wait for the disconnect hook of the session it replaces.
MayConnect(s) ==
    \A o \in Sessions \ {s} :
        ClientOf[o] = ClientOf[s] => pc[o] \notin Connecting

\* ClientConnected arrives; it is dropped while closing.
Connected(s) ==
    /\ pc[s] = "allowed"
    /\ MayConnect(s)
    /\ Goto(s, IF closing THEN "live" ELSE "connecting")
    /\ UNCHANGED <<hookVars, registryVars, failureVars, historyVars>>

\* connected(), first lock: the session replaces whatever was current.
Insert(s) ==
    /\ pc[s] = "connecting"
    /\ \/ /\ Locked("connections")
          /\ connections' = [connections EXCEPT ![ClientOf[s]] = s]
          /\ ready' = [ready EXCEPT ![ClientOf[s]] = FALSE]
          /\ Goto(s, "inserted")
          /\ UNCHANGED <<registryVars, failureVars, historyVars>>
       \/ StateFailed(s, "connections", "live")

\* Mutant of Register: a client that is registered already is not announced.
RegisterOnce(s) ==
    /\ pc[s] = "inserted"
    /\ \/ /\ Locked("registry")
          /\ clients' = clients \cup {ClientOf[s]}
          /\ stats' = [stats EXCEPT ![ClientOf[s]] = NoSession]
          /\ currentApp' = [currentApp EXCEPT ![ClientOf[s]] = NoSession]
          /\ Goto(s, IF ClientOf[s] \in clients THEN "live" ELSE "registered")
          /\ enrolled' = enrolled \cup {s}
          /\ UNCHANGED <<hookVars, failureVars, announced, readied, reported,
                         overlapped>>
       \/ StateFailed(s, "registry", "live")

\* connected(), second lock: Registry::register, with an empty state.
Register(s) ==
    /\ pc[s] = "inserted"
    /\ \/ /\ Locked("registry")
          /\ clients' = clients \cup {ClientOf[s]}
          /\ stats' = [stats EXCEPT ![ClientOf[s]] = NoSession]
          /\ currentApp' = [currentApp EXCEPT ![ClientOf[s]] = NoSession]
          /\ Goto(s, "registered")
          /\ enrolled' = enrolled \cup {s}
          /\ overlapped' = IF \E o \in Sessions : /\ ClientOf[o] = ClientOf[s]
                                                 /\ pc[o] = "removed"
                           THEN overlapped \cup {s}
                           ELSE overlapped
          /\ UNCHANGED <<hookVars, failureVars, announced, readied, reported>>
       \/ StateFailed(s, "registry", "live")

\* connected(), last: the on_connected callback.
OnConnected(s) ==
    /\ pc[s] = "registered"
    /\ announced' = [announced EXCEPT ![s] = @ + 1]
    /\ Goto(s, "live")
    /\ UNCHANGED <<hookVars, registryVars, failureVars, enrolled, readied, reported,
                   overlapped>>

\* MessagePublish arrives, for a stats or a currentApp topic; it is dropped
\* while closing.  A button or any other topic only logs.
Published(s, topic) ==
    /\ pc[s] = "live"
    /\ ~closing
    /\ Goto(s, topic)
    /\ reported' = IF topic = "stats" THEN reported \cup {s} ELSE reported
    /\ UNCHANGED <<hookVars, registryVars, failureVars, enrolled, announced,
                   readied, overlapped>>

\* Mutant of UpdateStats: an update creates the entry of an unknown client.
UpdateStatsInserts(s, parses) ==
    /\ pc[s] = "stats"
    /\ \/ /\ parses => Locked("registry")
          /\ stats' = IF parses THEN [stats EXCEPT ![ClientOf[s]] = s] ELSE stats
          /\ clients' = IF parses THEN clients \cup {ClientOf[s]} ELSE clients
          /\ Goto(s, "marking")
          /\ UNCHANGED <<hookVars, currentApp, failureVars, historyVars>>
       \/ parses /\ StateFailed(s, "registry", "live")

\* Mutant of UpdateStats: a payload that does not parse ends the handler.
UpdateStatsReturnsEarly(s, parses) ==
    /\ pc[s] = "stats"
    /\ \/ /\ parses => Locked("registry")
          /\ stats' = IF parses /\ ClientOf[s] \in clients
                      THEN [stats EXCEPT ![ClientOf[s]] = s]
                      ELSE stats
          /\ Goto(s, IF parses THEN "marking" ELSE "live")
          /\ UNCHANGED <<hookVars, clients, currentApp, failureVars, historyVars>>
       \/ parses /\ StateFailed(s, "registry", "live")

\* published(), stats: a payload that parses is stored if the client is
\* registered (Registry::update_stats); one that does not is only logged.
\* Either way mark_ready comes next.
UpdateStats(s, parses) ==
    /\ pc[s] = "stats"
    /\ \/ /\ parses => Locked("registry")
          /\ stats' = IF parses /\ ClientOf[s] \in clients
                      THEN [stats EXCEPT ![ClientOf[s]] = s]
                      ELSE stats
          /\ Goto(s, "marking")
          /\ UNCHANGED <<hookVars, clients, currentApp, failureVars, historyVars>>
       \/ parses /\ StateFailed(s, "registry", "live")

\* Mutant of MarksReady: any session of a connected client marks it ready.
MarksReadyForAnySession(s) ==
    /\ connections[ClientOf[s]] # NoSession
    /\ ~ready[ClientOf[s]]

\* mark_ready: true only the first time, and only for the current session.
MarksReady(s) ==
    /\ connections[ClientOf[s]] = s
    /\ ~ready[ClientOf[s]]

MarkReady(s) ==
    /\ pc[s] = "marking"
    /\ \/ /\ Locked("connections")
          /\ ready' = [ready EXCEPT ![ClientOf[s]] = @ \/ MarksReady(s)]
          /\ Goto(s, IF MarksReady(s) THEN "ready" ELSE "live")
          /\ UNCHANGED <<connections, registryVars, failureVars, historyVars>>
       \/ StateFailed(s, "connections", "live")

\* published(), stats, last: the on_device_ready callback.
OnDeviceReady(s) ==
    /\ pc[s] = "ready"
    /\ readied' = [readied EXCEPT ![s] = @ + 1]
    /\ Goto(s, "live")
    /\ UNCHANGED <<hookVars, registryVars, failureVars, enrolled, announced,
                   reported, overlapped>>

\* published(), currentApp: Registry::update_current_app.
UpdateCurrentApp(s) ==
    /\ pc[s] = "app"
    /\ \/ /\ Locked("registry")
          /\ currentApp' = IF ClientOf[s] \in clients
                           THEN [currentApp EXCEPT ![ClientOf[s]] = s]
                           ELSE currentApp
          /\ Goto(s, "live")
          /\ UNCHANGED <<hookVars, clients, stats, failureVars, historyVars>>
       \/ StateFailed(s, "registry", "live")

\* ClientDisconnected arrives, whatever ended the session (the device, the
\* network, or rmqtt kicking it for a takeover or a shutdown); it is dropped
\* while closing.
Disconnected(s) ==
    /\ pc[s] = "live"
    /\ Goto(s, IF closing THEN "gone" ELSE "leaving")
    /\ UNCHANGED <<hookVars, registryVars, failureVars, historyVars>>

\* Mutant of RemoveIfCurrent: the disconnect of a session that was taken over
\* goes on to unregister the client.
UnregisterAnySession(s) ==
    LET current == connections[ClientOf[s]] = s
    IN  /\ pc[s] = "leaving"
        /\ \/ /\ Locked("connections")
              /\ connections' = IF current
                                THEN [connections EXCEPT ![ClientOf[s]] = NoSession]
                                ELSE connections
              /\ Goto(s, "removed")
              /\ UNCHANGED <<ready, registryVars, failureVars, historyVars>>
           \/ StateFailed(s, "connections", "gone")

\* Mutant of RemoveIfCurrent: the connection stays, only the client goes.
RemoveKeepsConnection(s) ==
    /\ pc[s] = "leaving"
    /\ \/ /\ Locked("connections")
          /\ Goto(s, IF connections[ClientOf[s]] = s THEN "removed" ELSE "gone")
          /\ UNCHANGED <<hookVars, registryVars, failureVars, historyVars>>
       \/ StateFailed(s, "connections", "gone")

\* disconnected(), first lock: only the current session is removed; the
\* disconnect of a session that was taken over is stale and stops here.
RemoveIfCurrent(s) ==
    LET current == connections[ClientOf[s]] = s
    IN  /\ pc[s] = "leaving"
        /\ \/ /\ Locked("connections")
              /\ connections' = IF current
                                THEN [connections EXCEPT ![ClientOf[s]] = NoSession]
                                ELSE connections
              /\ Goto(s, IF current THEN "removed" ELSE "gone")
              /\ UNCHANGED <<ready, registryVars, failureVars, historyVars>>
           \/ StateFailed(s, "connections", "gone")

\* disconnected(), second lock: Registry::unregister, by client ID.
Unregister(s) ==
    /\ pc[s] = "removed"
    /\ \/ /\ Locked("registry")
          /\ clients' = clients \ {ClientOf[s]}
          /\ stats' = [stats EXCEPT ![ClientOf[s]] = NoSession]
          /\ currentApp' = [currentApp EXCEPT ![ClientOf[s]] = NoSession]
          /\ Goto(s, "gone")
          /\ UNCHANGED <<hookVars, failureVars, historyVars>>
       \/ StateFailed(s, "registry", "gone")

---------------------------------------------------------------------------
(* The rest of the process. *)

\* Broker::stop_accepting, and the first step of Broker::shutdown.
StopAccepting ==
    /\ ~closing
    /\ closing' = TRUE
    /\ UNCHANGED <<pc, hookVars, registryVars, poisoned, failed, historyVars>>

\* A thread panicked while it held a lock, which poisons it.
Poison(lock) ==
    /\ lock \notin poisoned
    /\ poisoned' = poisoned \cup {lock}
    /\ UNCHANGED <<pc, hookVars, registryVars, closing, failed, historyVars>>

Hook(s) ==
    \/ Insert(s)
    \/ Register(s)
    \/ OnConnected(s)
    \/ \E parses \in BOOLEAN : UpdateStats(s, parses)
    \/ MarkReady(s)
    \/ OnDeviceReady(s)
    \/ UpdateCurrentApp(s)
    \/ RemoveIfCurrent(s)
    \/ Unregister(s)

Device(s) ==
    \/ \E credentialsMatch \in BOOLEAN : Authenticate(s, credentialsMatch)
    \/ Connected(s)
    \/ \E topic \in {"stats", "app"} : Published(s, topic)
    \/ Disconnected(s)

Next ==
    \/ \E s \in Sessions : Hook(s) \/ Device(s)
    \/ StopAccepting
    \/ \E lock \in Locks : Poison(lock)

Spec == Init /\ [][Next]_vars

\* rmqtt awaits every hook it has called to the end; nothing obliges a device
\* to send anything or a lock to be poisoned.
FairSpec == Spec /\ \A s \in Sessions : WF_vars(Hook(s))

---------------------------------------------------------------------------
(* Properties. *)

\* A device that is registered is connected: however the hooks of its sessions
\* interleave, an entry of the registry whose client has no current session is
\* one that a disconnected() already under way is about to unregister (pushes
\* and notifications go to every registered device, so a ghost would stay a
\* target for ever).  Only a failed controller is excused: it is terminating.
NoGhostDevice ==
    failed = NoError =>
        \A c \in clients :
            \/ connections[c] # NoSession
            \/ \E s \in Sessions : ClientOf[s] = c /\ pc[s] = "removed"

\* A session is reported ready at most once, and the ready flag of a client is
\* the work of the session that is current: a stats message of the session it
\* replaced, still being handled, never makes mark_ready report the new one,
\* whose subscriptions may not exist yet.
ReadyIsOwnAndOnce ==
    \A s \in Sessions :
        /\ readied[s] <= 1
        /\ connections[ClientOf[s]] = s /\ ready[ClientOf[s]] => s \in reported

\* A current session whose connected() is complete.
Settled(s) == connections[ClientOf[s]] = s /\ announced[s] > 0

\* A connected device is registered: the old session's disconnect does not
\* unregister the new one (hook.rs, SessionKey; tests/broker.rs).  Violated.
RegisteredWhileCurrent ==
    failed = NoError =>
        \A s \in Sessions : Settled(s) => ClientOf[s] \in clients

\* What does hold: a connected device loses its registration only if it
\* registered between the removal of the previous Connection (under one lock)
\* and the unregister() that follows it (under the other).
OnlyOverlapUnregisters ==
    failed = NoError =>
        \A s \in Sessions :
            Settled(s) /\ s \notin overlapped => ClientOf[s] \in clients

\* A session that publishes a stats message, parseable or not, is eventually
\* reported ready, unless it is replaced or the controller fails first.
StatsLeadToReady ==
    \A s \in Sessions :
        pc[s] = "stats" ~>
            \/ readied[s] > 0
            \/ connections[ClientOf[s]] # s
            \/ failed # NoError

---------------------------------------------------------------------------
(* The promise to the rest of the process. *)

\* The clients with a session whose callback has not followed its registration.
Announcing == {ClientOf[s] : s \in {e \in enrolled : announced[e] = 0}}

P == INSTANCE Presence WITH registered <- clients, announcing <- Announcing

\* The hook implements Presence: whatever the sessions interleave, and whatever
\* lock is poisoned meanwhile, a client is registered (anew) and unregistered in
\* single steps, every registration is followed by exactly one on_connected
\* callback before the next registration of that client, and no callback comes
\* without one.  Dispatch assumes this of its devices.
ProvidesPresence == P!FairSpec

---------------------------------------------------------------------------
(* The inductive invariant behind the safety properties. *)

Same(s, o) == ClientOf[s] = ClientOf[o]

\* rmqtt's serialisation of connects, as the states show it.
OneConnectsAtATime ==
    \A s, o \in Sessions :
        s # o /\ Same(s, o) => ~(pc[s] \in Connecting /\ pc[o] \in Connecting)

\* A map entry belongs to its client, and to a session whose connected() has
\* inserted it; until connected() returns nobody takes it away.
EntriesAreOwned ==
    /\ \A c \in Clients :
          connections[c] # NoSession => ClientOf[connections[c]] = c
    /\ \A s \in Sessions :
          /\ pc[s] \in {"inserted", "registered"} => connections[ClientOf[s]] = s
          /\ pc[s] \in {"new", "allowed", "connecting"} =>
                connections[ClientOf[s]] # s

\* Before connected() has made its callback there is none of either kind, and
\* it is owed exactly between the registration and the callback.
CallbacksFollowConnect ==
    \A s \in Sessions :
        /\ pc[s] \in {"new", "allowed", "connecting", "inserted", "registered"} =>
              announced[s] = 0 /\ readied[s] = 0
        /\ pc[s] = "registered" <=> s \in enrolled /\ announced[s] = 0
        /\ pc[s] = "ready" => readied[s] = 0

\* A session that was marked ready is no longer current, or still marked; and
\* one being marked has published.
MarkIsKept ==
    \A s \in Sessions :
        /\ pc[s] = "ready" \/ readied[s] > 0 =>
              (connections[ClientOf[s]] = s => ready[ClientOf[s]])
        /\ pc[s] \in {"stats", "marking", "ready"} => s \in reported

\* A session registered without overlap keeps its registration, and no
\* unregister() of its client is pending while it is current.
RegistrationIsKept ==
    failed = NoError =>
        \A s \in Sessions :
            /\ connections[ClientOf[s]] = s
            /\ pc[s] = "registered" \/ announced[s] > 0
            /\ s \notin overlapped
            => /\ ClientOf[s] \in clients
               /\ \A o \in Sessions : Same(o, s) => pc[o] # "removed"

\* Whatever the hooks of the sessions interleave, the two maps and the
\* callbacks stay consistent with the progress of every session.
HookInv ==
    /\ TypeOK
    /\ OneConnectsAtATime
    /\ EntriesAreOwned
    /\ CallbacksFollowConnect
    /\ MarkIsKept
    /\ RegistrationIsKept
    /\ NoGhostDevice
    /\ ReadyIsOwnAndOnce
===========================================================================
