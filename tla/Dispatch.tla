----------------------------- MODULE Dispatch -----------------------------
(***************************************************************************)
(* How settings reach the devices: the event queue and the main loop of    *)
(* src/src/run/mod.rs, its Devices, and the Builder and push of            *)
(* src/src/settings/mod.rs.                                                *)
(*                                                                         *)
(* A mode or energy-saving change, and a device that connects, queue an    *)
(* event; the main loop spawns one task per event on a multi-threaded      *)
(* runtime, so the pushes of different events run concurrently.  A push    *)
(* reads the mode, the overlay and the saving flag one after the other and *)
(* publishes through the broker's runtime.  The weather poll changes the   *)
(* overlay and pushes from its own task.                                   *)
(*                                                                         *)
(* The phases of a task:                                                   *)
(*   "idle"      no task                                                   *)
(*   "snapshot"  push_settings_to_all, connected_ids() to come             *)
(*   "next"      push_settings for the clients in `left` to come           *)
(*   "overlay"   in Builder::build, the mode is read                       *)
(*   "saving"    ... and the overlay                                       *)
(*   "publish"   the payload is built, not yet retained by the broker      *)
(*   "replay"    a Ready event, weather.on_device_connected to come        *)
(*   "notify"    ... the test notification to come                         *)
(***************************************************************************)
EXTENDS Naturals, Sequences, Payload

CONSTANTS
    Clients,      \* the client IDs
    Handlers,     \* the tasks that may handle events at the same time (bound)
    Poll,         \* the task of the weather poll
    Overlays,     \* the overlays the weather may ask for, Unset (none) among them
    NoSettings,   \* "nothing retained"
    NoClient,     \* "no client in hand"
    NoError,      \* "no failure reported"
    MaxChanges,   \* bound: changes of mode, saving flag and overlay
    MaxConnects,  \* bound: connects of all devices
    MaxFaults,    \* bound: poisoned locks and publishes the broker refuses
    MaxTroubles   \* bound: connects and faults together

ASSUME DispatchAssumption ==
    /\ Poll \notin Handlers
    /\ Unset \in Overlays
    /\ Zero \notin Overlays
    /\ NoSettings \notin [mode : {"Day", "Night"}, overlay : Overlays, saving : BOOLEAN]
    /\ NoClient \notin Clients
    /\ NoError \notin {"overlay", "registry", "weather"}
    /\ MaxChanges \in Nat
    /\ MaxConnects \in Nat
    /\ MaxFaults \in Nat
    /\ MaxTroubles \in Nat

VARIABLES
    mode,         \* DayNight.mode
    saving,       \* EnergySaving.active
    overlay,      \* Builder.overlay
    signals,      \* the controllers that have changed but not yet queued PushAll
    registered,   \* Registry.clients
    announcing,   \* the clients whose on_connected callback is to come
    queue,        \* the unbounded channel of Events
    phase,        \* the phase of each task
    left,         \* the clients a task has still to push to
    client,       \* the client a task is pushing to
    got,          \* the settings a task has read so far
    retained,     \* the broker's retained {client}/settings message
    poisoned,     \* the locks a panicking writer has poisoned
    failed,       \* Failures.first
    exit,         \* how the main loop ended: "none", "success" or "component"
    changes,      \* counter for MaxChanges
    connects,     \* counter for MaxConnects
    faults,       \* counter for MaxFaults
    sent,         \* history: clients sent the current settings since the last change
                  \*   and since they connected
    lost,         \* history: clients such a publish to which the broker refused
    notified      \* history: clients sent the test notification

sourceVars == <<mode, saving, overlay, signals, changes>>
deviceVars == <<registered, announcing, connects>>
taskVars == <<phase, left, client, got>>
failureVars == <<poisoned, failed, exit, faults>>
outputVars == <<retained, sent, lost, notified>>
vars == <<sourceVars, deviceVars, queue, taskVars, failureVars, outputVars>>

Modes == {"Day", "Night"}
Settings == [mode : Modes, overlay : Overlays, saving : BOOLEAN]
Tasks == Handlers \cup {Poll}
Locks == {"overlay", "registry", "weather"}
Controllers == {"daynight", "energysaving"}
Phases == {"idle", "snapshot", "next", "overlay", "saving", "publish",
           "replay", "notify"}

\* The phases in which a task has a client in hand.
InHand == {"overlay", "saving", "publish", "replay", "notify"}

Connected(c) == [kind |-> "Connected", client |-> c]
Ready(c) == [kind |-> "Ready", client |-> c]
PushAll == [kind |-> "PushAll"]
Events == {PushAll} \cup {Connected(c) : c \in Clients} \cup {Ready(c) : c \in Clients}

TypeOK ==
    /\ mode \in Modes
    /\ saving \in BOOLEAN
    /\ overlay \in Overlays
    /\ signals \in SUBSET Controllers
    /\ registered \in SUBSET Clients
    /\ announcing \in SUBSET Clients
    /\ queue \in Seq(Events)
    /\ phase \in [Tasks -> Phases]
    /\ left \in [Tasks -> SUBSET Clients]
    /\ client \in [Tasks -> Clients \cup {NoClient}]
    /\ got \in [Tasks -> Settings]
    /\ retained \in [Clients -> Settings \cup {NoSettings}]
    /\ poisoned \in SUBSET Locks
    /\ failed \in Locks \cup {NoError}
    /\ exit \in {"none", "success", "component"}
    /\ changes \in 0..MaxChanges
    /\ connects \in 0..MaxConnects
    /\ faults \in 0..MaxFaults
    /\ sent \in SUBSET Clients
    /\ lost \in SUBSET Clients
    /\ notified \in SUBSET Clients
    /\ \A t \in Tasks : phase[t] \in InHand => client[t] # NoClient

\* The settings Builder::build would compose if it read everything at once.
Current == [mode |-> mode, overlay |-> overlay, saving |-> saving]

\* theme.day and theme.night: colours, never empty.
Accent == [Day |-> "day accent", Night |-> "night accent"]
Content == [Day |-> "day content", Night |-> "night content"]

ASSUME ThemeAssumption ==
    \A m \in Modes : Zero \notin {Accent[m], Content[m]}

\* The payload built from what a task has read.
Built(settings) ==
    Build(Accent[settings.mode], Content[settings.mode], settings.overlay,
          settings.saving)

\* The settings of a task that has read nothing.
Blank == [mode |-> "Day", overlay |-> Unset, saving |-> FALSE]

\* The controllers have set their first value before the loop starts.
Init ==
    /\ mode \in Modes
    /\ saving \in BOOLEAN
    /\ overlay = Unset
    /\ signals = {}
    /\ registered = {}
    /\ announcing = {}
    /\ queue = <<>>
    /\ phase = [t \in Tasks |-> "idle"]
    /\ left = [t \in Tasks |-> {}]
    /\ client = [t \in Tasks |-> NoClient]
    /\ got = [t \in Tasks |-> Blank]
    /\ retained = [c \in Clients |-> NoSettings]
    /\ poisoned = {}
    /\ failed = NoError
    /\ exit = "none"
    /\ changes = 0
    /\ connects = 0
    /\ faults = 0
    /\ sent = {}
    /\ lost = {}
    /\ notified = {}

---------------------------------------------------------------------------
(* The helpers. *)

Goto(t, p) == phase' = [phase EXCEPT ![t] = p]

\* Failures::report keeps the first error.
Report(error) == failed' = IF failed = NoError THEN error ELSE failed

\* The history of a change: nobody has the new settings yet.
Changed ==
    /\ changes < MaxChanges
    /\ changes' = changes + 1
    /\ sent' = {}
    /\ lost' = {}

MoreTrouble == connects + faults < MaxTroubles

\* The broker takes what is published to it, or a fault makes it refuse.
Accepts(accepted) ==
    /\ ~accepted => faults < MaxFaults /\ MoreTrouble
    /\ faults' = IF accepted THEN faults ELSE faults + 1

---------------------------------------------------------------------------
(* The controllers.  A failure or the end of the loop cancels their schedule,   *)
(* but an action that has started runs to completion, so no guard asks for it. *)

\* DayNight::transition: a swap that changes the mode calls on_mode_change.
SetMode(m) ==
    /\ "daynight" \notin signals
    /\ m # mode
    /\ mode' = m
    /\ signals' = signals \cup {"daynight"}
    /\ Changed
    /\ UNCHANGED <<saving, overlay, deviceVars, queue, taskVars, failureVars,
                   retained, notified>>

\* Mutant of SetSaving: the swap is not reported.
SetSavingQuietly(active) ==
    /\ "energysaving" \notin signals
    /\ active # saving
    /\ saving' = active
    /\ Changed
    /\ UNCHANGED <<mode, overlay, signals, deviceVars, queue, taskVars,
                   failureVars, retained, notified>>

\* EnergySaving::transition, likewise.
SetSaving(active) ==
    /\ "energysaving" \notin signals
    /\ active # saving
    /\ saving' = active
    /\ signals' = signals \cup {"energysaving"}
    /\ Changed
    /\ UNCHANGED <<mode, overlay, deviceVars, queue, taskVars, failureVars,
                   retained, notified>>

\* on_mode_change and on_active_change queue a push to every device.
Signal(controller) ==
    /\ controller \in signals
    /\ signals' = signals \ {controller}
    /\ queue' = Append(queue, PushAll)
    /\ UNCHANGED <<mode, saving, overlay, changes, deviceVars, taskVars,
                   failureVars, outputVars>>

\* Devices::set_overlay, called by the poll when the overlay differs from the
\* last one it applied: store it, then push to all from the poll's own task.
SetOverlay(o) ==
    /\ phase[Poll] = "idle"
    /\ o # overlay
    /\ \/ /\ "overlay" \notin poisoned
          /\ overlay' = o
          /\ Changed
          /\ Goto(Poll, "snapshot")
          /\ UNCHANGED failed
       \/ /\ "overlay" \in poisoned
          /\ Report("overlay")
          /\ UNCHANGED <<overlay, changes, sent, lost, phase>>
    /\ UNCHANGED <<mode, saving, signals, deviceVars, queue, left, client, got,
                   poisoned, exit, faults, retained, notified>>

---------------------------------------------------------------------------
(* The devices, as the hook reports them (Presence, which ControllerHook       *)
(* implements).  After the loop has ended the hook drops their events.         *)

P == INSTANCE Presence

\* A new session, perhaps a takeover: what an earlier one was sent does not
\* count for it.
Register(c) ==
    /\ exit = "none"
    /\ P!Register(c)
    /\ connects < MaxConnects /\ MoreTrouble
    /\ connects' = connects + 1
    /\ sent' = sent \ {c}
    /\ lost' = lost \ {c}
    /\ UNCHANGED <<sourceVars, queue, taskVars, failureVars, retained, notified>>

\* The on_connected callback of start_broker.
Announce(c) ==
    /\ P!Announce(c)
    /\ queue' = Append(queue, Connected(c))
    /\ UNCHANGED <<sourceVars, connects, taskVars, failureVars, outputVars>>

\* The on_device_ready callback, bounded to one queued event for a device that
\* has not had its test notification.
DeviceReady(c) ==
    /\ exit = "none"
    /\ c \in registered \ notified
    /\ \A i \in DOMAIN queue : queue[i] # Ready(c)
    /\ queue' = Append(queue, Ready(c))
    /\ UNCHANGED <<sourceVars, deviceVars, taskVars, failureVars, outputVars>>

Unregister(c) ==
    /\ exit = "none"
    /\ P!Unregister(c)
    /\ UNCHANGED <<sourceVars, connects, queue, taskVars, failureVars, outputVars>>

---------------------------------------------------------------------------
(* The main loop. *)

\* The task handle() starts for an event: its first phase, and its clients.
FirstPhase(e) == CASE e.kind = "PushAll"   -> "snapshot"
                   [] e.kind = "Connected" -> "next"
                   [] e.kind = "Ready"     -> "replay"

\* The select takes an event only if there is neither a failure nor a stop.
Handle(t) ==
    /\ exit = "none" /\ failed = NoError
    /\ t \in Handlers /\ phase[t] = "idle"
    /\ queue # <<>>
    /\ LET e == Head(queue)
       IN  /\ Goto(t, FirstPhase(e))
           /\ left' = [left EXCEPT ![t] = IF e.kind = "Connected"
                                          THEN {e.client} ELSE {}]
           /\ client' = [client EXCEPT ![t] = IF e.kind = "Ready"
                                              THEN e.client ELSE @]
    /\ queue' = Tail(queue)
    /\ UNCHANGED <<sourceVars, deviceVars, got, failureVars, outputVars>>

\* The biased select ends the loop for a failure first, else for a stop.
Stop(signalled) ==
    /\ exit = "none"
    /\ \/ failed # NoError /\ exit' = "component"
       \/ failed = NoError /\ signalled /\ exit' = "success"
    /\ UNCHANGED <<sourceVars, deviceVars, queue, taskVars, poisoned, failed,
                   faults, outputVars>>

---------------------------------------------------------------------------
(* The tasks. *)

\* push_settings_to_all: the clients registered at this moment.
Snapshot(t) ==
    /\ phase[t] = "snapshot"
    /\ \/ /\ "registry" \notin poisoned
          /\ left' = [left EXCEPT ![t] = registered]
          /\ UNCHANGED failed
       \/ /\ "registry" \in poisoned
          /\ Report("registry")
          /\ UNCHANGED left
    /\ Goto(t, "next")
    /\ UNCHANGED <<sourceVars, deviceVars, queue, client, got, poisoned, exit,
                   faults, outputVars>>

\* push_settings for the next client, in any order (the code sorts them): nothing if
\* a failure is reported, else build() reads the mode.  No clients left: the end.
NextClient(t) ==
    /\ phase[t] = "next"
    /\ \/ /\ left[t] = {}
          /\ Goto(t, "idle")
          /\ UNCHANGED <<left, client, got>>
       \/ \E c \in left[t] :
             /\ left' = [left EXCEPT ![t] = @ \ {c}]
             /\ IF failed # NoError
                THEN UNCHANGED <<phase, client, got>>
                ELSE /\ client' = [client EXCEPT ![t] = c]
                     /\ got' = [got EXCEPT ![t].mode = mode]
                     /\ Goto(t, "overlay")
    /\ UNCHANGED <<sourceVars, deviceVars, queue, failureVars, outputVars>>

\* Mutant of ReadOverlay: the overlay is the last one retained for the client.
ReadRetainedOverlay(t) ==
    /\ phase[t] = "overlay"
    /\ got' = [got EXCEPT ![t].overlay = IF retained[client[t]] = NoSettings
                                         THEN overlay
                                         ELSE retained[client[t]].overlay]
    /\ Goto(t, "saving")
    /\ UNCHANGED <<sourceVars, deviceVars, queue, left, client, failureVars,
                   outputVars>>

\* build() reads the overlay under its lock, or reports and returns.
ReadOverlay(t) ==
    /\ phase[t] = "overlay"
    /\ \/ /\ "overlay" \notin poisoned
          /\ got' = [got EXCEPT ![t].overlay = overlay]
          /\ Goto(t, "saving")
          /\ UNCHANGED <<client, failed>>
       \/ /\ "overlay" \in poisoned
          /\ Report("overlay")
          /\ Goto(t, "next")
          /\ client' = [client EXCEPT ![t] = NoClient]
          /\ got' = [got EXCEPT ![t] = Blank]
    /\ UNCHANGED <<sourceVars, deviceVars, queue, left, poisoned, exit,
                   faults, outputVars>>

\* build() reads the saving flag.
ReadSaving(t) ==
    /\ phase[t] = "saving"
    /\ got' = [got EXCEPT ![t].saving = saving]
    /\ Goto(t, "publish")
    /\ UNCHANGED <<sourceVars, deviceVars, queue, left, client, failureVars,
                   outputVars>>

\* settings::push: the broker retains the payload, or fails and it is lost
\* with a warning.
Publish(t, accepted) ==
    /\ phase[t] = "publish"
    /\ Accepts(accepted)
    /\ IF accepted
       THEN /\ retained' = [retained EXCEPT ![client[t]] = got[t]]
            /\ sent' = IF got[t] = Current THEN sent \cup {client[t]} ELSE sent
            /\ UNCHANGED lost
       ELSE /\ lost' = IF got[t] = Current THEN lost \cup {client[t]} ELSE lost
            /\ UNCHANGED <<retained, sent>>
    /\ Goto(t, "next")
    /\ client' = [client EXCEPT ![t] = NoClient]
    /\ got' = [got EXCEPT ![t] = Blank]
    /\ UNCHANGED <<sourceVars, deviceVars, queue, left, poisoned, failed, exit,
                   notified>>

\* Event::Ready, first part: the weather replays its warnings, or finds its
\* memory poisoned, which ends the task.
Replay(t) ==
    /\ phase[t] = "replay"
    /\ \/ /\ "weather" \notin poisoned
          /\ Goto(t, "notify")
          /\ UNCHANGED <<client, failed>>
       \/ /\ "weather" \in poisoned
          /\ Report("weather")
          /\ Goto(t, "idle")
          /\ client' = [client EXCEPT ![t] = NoClient]
    /\ UNCHANGED <<sourceVars, deviceVars, queue, left, got, poisoned, exit,
                   faults, outputVars>>

\* Event::Ready, second part: the test notification, unless a failure is
\* reported or the broker does not take it.
Notify(t, accepted) ==
    /\ phase[t] = "notify"
    /\ Accepts(accepted)
    /\ notified' = IF failed = NoError /\ accepted
                   THEN notified \cup {client[t]} ELSE notified
    /\ Goto(t, "idle")
    /\ client' = [client EXCEPT ![t] = NoClient]
    /\ UNCHANGED <<sourceVars, deviceVars, queue, left, got, poisoned, failed,
                   exit, retained, sent, lost>>

\* A thread panicked while it held a lock for writing.
Poison(lock) ==
    /\ lock \notin poisoned
    /\ faults < MaxFaults /\ MoreTrouble
    /\ faults' = faults + 1
    /\ poisoned' = poisoned \cup {lock}
    /\ UNCHANGED <<sourceVars, deviceVars, queue, taskVars, failed, exit,
                   outputVars>>

Run(t) ==
    \/ Snapshot(t)
    \/ NextClient(t)
    \/ ReadOverlay(t)
    \/ ReadSaving(t)
    \/ \E accepted \in BOOLEAN : Publish(t, accepted)
    \/ Replay(t)
    \/ \E accepted \in BOOLEAN : Notify(t, accepted)

Loop == (\E t \in Handlers : Handle(t)) \/ (\E signalled \in BOOLEAN : Stop(signalled))

Source ==
    \/ \E m \in Modes : SetMode(m)
    \/ \E active \in BOOLEAN : SetSaving(active)
    \/ \E o \in Overlays : SetOverlay(o)

Device(c) == Register(c) \/ DeviceReady(c) \/ Unregister(c)

Next ==
    \/ Source
    \/ \E controller \in Controllers : Signal(controller)
    \/ \E c \in Clients : Device(c) \/ Announce(c)
    \/ Loop
    \/ \E t \in Tasks : Run(t)
    \/ \E lock \in Locks : Poison(lock)

Spec == Init /\ [][Next]_vars

\* The runtime runs every task it has spawned, the callbacks return, and the
\* main loop polls its select; nothing obliges a device, the weather, the sun
\* or the operator to do anything.
FairSpec ==
    /\ Spec
    /\ \A controller \in Controllers : WF_vars(Signal(controller))
    /\ \A c \in Clients : WF_vars(Announce(c))
    /\ WF_vars(\E t \in Handlers : Handle(t))
    /\ WF_vars(Stop(FALSE))
    /\ \A t \in Tasks : WF_vars(Run(t))

---------------------------------------------------------------------------
(* Properties. *)

\* The run owes the devices nothing once it has failed or ended.
Running == failed = NoError /\ exit = "none"

\* Nothing is on its way to a device.
Quiescent ==
    /\ signals = {}
    /\ announcing = {}
    /\ queue = <<>>
    /\ \A t \in Tasks : phase[t] = "idle"

\* Once everything queued is handled, every registered device has been sent
\* the settings of the current mode, energy-saving state and overlay since it
\* connected and since the last of them changed, whatever connected, left or
\* changed meanwhile; only a publish the broker refused is excused (it is
\* logged and not retried).
SentWhenQuiescent ==
    Running /\ Quiescent => registered \subseteq sent \cup lost

\* Task t will push the current settings to c, or has yet to read those it
\* will push.
WillSend(t, c) ==
    \/ phase[t] = "snapshot"
    \/ phase[t] \in {"next", "overlay", "saving", "publish"} /\ c \in left[t]
    \/ /\ client[t] = c
       /\ \/ phase[t] = "overlay" /\ got[t].mode = mode
          \/ /\ phase[t] = "saving"
             /\ got[t].mode = mode
             /\ got[t].overlay = overlay
          \/ phase[t] = "publish" /\ got[t] = Current

\* A registered device that has not been sent the current settings has a push
\* of them ahead: a callback, a queued event or a task that will read them.
PendingOrSent ==
    Running =>
        \A c \in registered :
            \/ c \in sent \cup lost
            \/ signals # {}
            \/ c \in announcing
            \/ \E i \in DOMAIN queue : queue[i] \in {PushAll, Connected(c)}
            \/ \E t \in Tasks : WillSend(t, c)

\* The inductive invariant: types, and no device forgotten.
DispatchInv == TypeOK /\ PendingOrSent

\* What a device that subscribes now is given, the retained settings, are the
\* correct ones for the current mode once everything is handled.  Violated:
\* two pushes may build in one order and publish in the other.
RetainedWhenQuiescent ==
    Running /\ Quiescent =>
        \A c \in registered \ lost : retained[c] = Current

\* The pushes catch up: when the modes and the devices stop changing, every
\* registered device has been sent the current settings, for good.
PushesCatchUp ==
    <>[](Running => registered \subseteq sent \cup lost)

---------------------------------------------------------------------------
(* The device at the other end (external). *)

\* What a device shows of its settings: BRI counts without ABRI only.
Shown(device) ==
    [accent |-> <<device.CHCOL, device.WDCA>>,
     content |-> <<device.CBCOL, device.WDCI, device.TIME_COL, device.DATE_COL>>,
     brightness |-> IF device.ABRI = "true" THEN "automatic" ELSE device.BRI,
     overlay |-> device.OVERLAY]

Wanted(settings) ==
    [accent |-> <<Accent[settings.mode], Accent[settings.mode]>>,
     content |-> [i \in 1..4 |-> Content[settings.mode]],
     brightness |-> IF settings.saving THEN "1" ELSE "automatic",
     overlay |-> settings.overlay]

\* A device as its owner or earlier payloads may have left it.
DeviceStates ==
    {[f \in DOMAIN SettingsRules |->
        CASE f = "ABRI" -> auto [] f = "OVERLAY" -> shown [] OTHER -> "own"] :
            auto \in {"true", Zero}, shown \in {"own", Unset}}

\* The retained settings are partial, and a device that missed a push or got two
\* out of order gets only the last of them: whatever it has, it then shows the
\* wanted colours, brightness and overlay, and keeps the settings the controller
\* does not manage.
RetainedIsSelfContained ==
    \A c \in Clients : retained[c] # NoSettings =>
        LET payload == Serialized(SettingsRules, Built(retained[c]))
        IN  \A device \in DeviceStates :
                LET after == Merged(device, payload)
                IN  /\ Shown(after) = Wanted(retained[c])
                    /\ \A f \in Unmanaged : after[f] = device[f]
===========================================================================
