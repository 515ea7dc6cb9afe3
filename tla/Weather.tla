------------------------------ MODULE Weather ------------------------------
(***************************************************************************)
(* The weather controller of src/src/weather/controller/mod.rs and the     *)
(* state manager of src/src/weather/state/mod.rs, with the devices that    *)
(* come and go while a poll runs (src/src/run/mod.rs).                     *)
(*                                                                         *)
(* A poll is a scheduled job: it fetches, applies the overlay, decides     *)
(* which events to notify, remembers them for the devices that connect     *)
(* later, and publishes them.  Each device that becomes ready is sent what *)
(* is remembered, by a task of its own that runs beside the poll.          *)
(*                                                                         *)
(* The phases of the poll:                                                 *)
(*   "idle"     until `due`                                                *)
(*   "fetch"    waiting for the forecast                                   *)
(*   "overlay"  Publisher::set_overlay to come, then "process"             *)
(*   "clear"    ... to clear it after a failed fetch, then "idle"          *)
(*   "process"  StateManager::process to come                              *)
(*   "store"    last_notified to be replaced                               *)
(*   "next"     the next candidate to come                                 *)
(*   "publish"  the current candidate to be published to `targets`         *)
(***************************************************************************)
EXTENDS WeatherEvents

CONSTANTS
    Clients,        \* the client IDs
    Forecasts,      \* the forecasts the service may answer with
    PollInterval,   \* poll_interval_minutes, in steps
    RepeatInterval, \* notification_repeat_minutes
    StaleTtl,       \* data_stale_ttl_minutes
    InactiveAfter,  \* inactive_after_missing_polls
    NoBatch,        \* Option::None
    MaxTime,        \* bound: the instants
    MaxLate,        \* bound: how long a poll may take or be delayed
    MaxConnects,    \* bound: connects of all devices
    MaxFaults       \* bound: failed fetches and publishes, poisoned locks

ASSUME WeatherAssumption ==
    /\ {PollInterval, RepeatInterval, StaleTtl, InactiveAfter} \subseteq Nat \ {0}
    /\ {MaxTime, MaxLate, MaxConnects, MaxFaults} \subseteq Nat

\* The instants, the events that a forecast may hold, and Memory.last_notified
\* (LastNotified).
Times == 0..MaxTime
Candidates == UNION {DetectEvents(points, t) : points \in Forecasts, t \in Times}
Batches == [candidates : SUBSET Candidates, notifiedAt : Times, fetchedAt : Times]

ASSUME NoBatchAssumption == NoBatch \notin Batches

VARIABLES
    now,         \* the wall clock
    due,         \* the due instant of the poll
    poll,        \* where the poll is, and its local variables
    states,      \* Controller.states
    overlay,     \* Memory.overlay
    batch,       \* Memory.last_notified
    shown,       \* Builder.overlay
    registered,  \* Registry.clients
    replay,      \* the replay of each device: "none", "queued", "sending", "done"
    pending,     \* on_device_connected: the warnings still to publish
    cancelled,   \* Controller.cancel
    poisoned,    \* the locks a panicking holder has poisoned
    failed,      \* whether a StateError was reported
    connects,    \* counter for MaxConnects
    faults,      \* counter for MaxFaults
    connectedAt, \* history: when each device last connected
    heard,       \* history: the warnings sent to each device since it connected
    excused      \* history: those refused, or expired when it became ready

pollVars == <<due, poll>>
memoryVars == <<states, overlay, batch, shown>>
deviceVars == <<registered, replay, pending, connects>>
worldVars == <<now, cancelled, poisoned>>
errorVars == <<failed, faults>>
historyVars == <<connectedAt, heard, excused>>
vars == <<pollVars, memoryVars, deviceVars, worldVars, errorVars, historyVars>>

Locks == {"states", "memory", "registry", "overlay"}

Idle == [phase |-> "idle", fetchStart |-> 0, at |-> 0, candidates |-> {},
         toNotify |-> {}, targets |-> {}]

\* EventState::default
Unseen == [active |-> FALSE, fingerprint |-> NoValue, severity |-> None,
           lastSent |-> NoValue, lastSeen |-> NoValue, missing |-> 0]

\* A warning: the type of event, and the poll that notified it.
Said(candidate, at) == [type |-> candidate.type, at |-> at]

\* The candidates of a poll, one of each type at most, are kept in the order of
\* EventType::ALL: a set, and its first element in that order.
Rank(type) == CHOOSE i \in DOMAIN EventTypes : EventTypes[i] = type
First(set) == CHOOSE x \in set : \A y \in set : Rank(x.type) <= Rank(y.type)

Init ==
    /\ now = 0
    /\ due = 0
    /\ poll = Idle
    /\ states = [e \in Types |-> Unseen]
    /\ overlay = NoValue
    /\ batch = NoBatch
    /\ shown = NoValue
    /\ registered = {}
    /\ replay = [c \in Clients |-> "none"]
    /\ pending = [c \in Clients |-> {}]
    /\ cancelled = FALSE
    /\ poisoned = {}
    /\ failed = FALSE
    /\ connects = 0
    /\ faults = 0
    /\ connectedAt = [c \in Clients |-> 0]
    /\ heard = [c \in Clients |-> {}]
    /\ excused = [c \in Clients |-> {}]

Fault(happens) ==
    /\ happens => faults < MaxFaults
    /\ faults' = IF happens THEN faults + 1 ELSE faults

---------------------------------------------------------------------------
(* StateManager::process, for the candidates of the poll. *)

\* Mutant of ShouldNotify: an event that does not change is notified once.
ShouldNotifyOnce(s, c) ==
    \/ ~s.active
    \/ c.severity > s.severity
    \/ Fingerprint(c) # s.fingerprint
    \/ s.lastSent = NoValue

ShouldNotify(s, c) ==
    \/ ~s.active
    \/ c.severity > s.severity
    \/ Fingerprint(c) # s.fingerprint
    \/ s.lastSent = NoValue
    \/ poll.at - s.lastSent >= RepeatInterval

\* Mutant of Seen: only a new event restarts the repeat interval.
SeenRestartsOnce(s, c) ==
    [active |-> TRUE,
     fingerprint |-> Fingerprint(c),
     severity |-> c.severity,
     lastSent |-> IF s.active THEN s.lastSent ELSE poll.at,
     lastSeen |-> poll.at,
     missing |-> 0]

\* A type that has a candidate.
Seen(s, c) ==
    [active |-> TRUE,
     fingerprint |-> Fingerprint(c),
     severity |-> c.severity,
     lastSent |-> IF ShouldNotify(s, c) THEN poll.at ELSE s.lastSent,
     lastSeen |-> poll.at,
     missing |-> 0]

\* A type that has none.
Missed(s) ==
    IF ~s.active THEN s
    ELSE IF s.missing + 1 >= InactiveAfter
         THEN [s EXCEPT !.active = FALSE, !.missing = 0]
         ELSE [s EXCEPT !.missing = @ + 1]

Processed ==
    [e \in Types |->
        IF \E c \in poll.candidates : c.type = e
        THEN Seen(states[e], CHOOSE c \in poll.candidates : c.type = e)
        ELSE Missed(states[e])]

\* The candidates to notify.
ToNotify == {c \in poll.candidates : ShouldNotify(states[c.type], c)}

---------------------------------------------------------------------------
(* The poll. *)

Goto(phase) == poll' = [poll EXCEPT !.phase = phase] /\ UNCHANGED due

\* The end of the job's action: the next poll is due an interval after this one
\* was.
EndPoll == poll' = Idle /\ due' = due + PollInterval

\* A poisoned lock ends the poll; the error is reported.
FailPoll == EndPoll /\ failed' = TRUE /\ UNCHANGED memoryVars

StartPoll ==
    /\ poll.phase = "idle" /\ ~cancelled /\ ~failed
    /\ due <= now
    /\ poll' = [poll EXCEPT !.phase = "fetch", !.fetchStart = now]
    /\ UNCHANGED <<due, memoryVars, deviceVars, worldVars, errorVars, historyVars>>

\* Mutant of FetchDone: an overlay that goes away is not a change.
FetchDoneKeeps(points) ==
    /\ poll.phase = "fetch" /\ ~cancelled
    /\ IF "memory" \in poisoned THEN FailPoll
       ELSE /\ overlay' = SelectOverlay(points, now)
            /\ poll' = [poll EXCEPT
                  !.phase = IF overlay' \notin {overlay, NoValue} THEN "overlay" ELSE "process",
                  !.at = now,
                  !.candidates = DetectEvents(points, now)]
            /\ UNCHANGED <<due, states, batch, shown, failed>>
    /\ UNCHANGED <<deviceVars, worldVars, faults, historyVars>>

\* The forecast is there.  apply_overlay remembers the overlay, and whether it
\* differs from the last; the events are those of the same instant.
FetchDone(points) ==
    /\ poll.phase = "fetch" /\ ~cancelled
    /\ IF "memory" \in poisoned THEN FailPoll
       ELSE /\ overlay' = SelectOverlay(points, now)
            /\ poll' = [poll EXCEPT
                  !.phase = IF overlay' # overlay THEN "overlay" ELSE "process",
                  !.at = now,
                  !.candidates = DetectEvents(points, now)]
            /\ UNCHANGED <<due, states, batch, shown, failed>>
    /\ UNCHANGED <<deviceVars, worldVars, faults, historyVars>>

\* The fetch failed or took longer than POLL_TIMEOUT: the overlay is cleared
\* and the events keep their states.
FetchFailed ==
    /\ poll.phase = "fetch" /\ ~cancelled
    /\ Fault(TRUE)
    /\ IF poisoned \cap {"states", "memory"} # {} THEN FailPoll
       ELSE /\ overlay' = NoValue
            /\ IF overlay # NoValue THEN Goto("clear") ELSE EndPoll
            /\ UNCHANGED <<states, batch, shown, failed>>
    /\ UNCHANGED <<deviceVars, worldVars, historyVars>>

\* A cancelled fetch changes nothing.
FetchCancelled ==
    /\ poll.phase = "fetch" /\ cancelled
    /\ EndPoll
    /\ UNCHANGED <<memoryVars, deviceVars, worldVars, errorVars, historyVars>>

\* Devices::set_overlay: the Builder's overlay, and a push to every device
\* (Dispatch!SetOverlay); a poisoned Builder is reported and the poll goes on.
SetOverlay ==
    /\ poll.phase \in {"overlay", "clear"}
    /\ shown' = IF "overlay" \in poisoned THEN shown ELSE overlay
    /\ failed' = (failed \/ "overlay" \in poisoned)
    /\ IF poll.phase = "overlay" THEN Goto("process") ELSE EndPoll
    /\ UNCHANGED <<states, overlay, batch, deviceVars, worldVars, faults, historyVars>>

Process ==
    /\ poll.phase = "process"
    /\ IF "states" \in poisoned THEN FailPoll
       ELSE /\ states' = Processed
            /\ IF ToNotify = {}
               THEN EndPoll
               ELSE /\ poll' = [poll EXCEPT !.phase = "store", !.toNotify = ToNotify]
                    /\ UNCHANGED due
            /\ UNCHANGED <<overlay, batch, shown, failed>>
    /\ UNCHANGED <<deviceVars, worldVars, faults, historyVars>>

\* Mutant of Store: the batch keeps the age of the one before.
StoreKeepsAge ==
    /\ poll.phase = "store"
    /\ IF "memory" \in poisoned THEN FailPoll
       ELSE /\ batch' = IF batch = NoBatch
                        THEN [candidates |-> poll.toNotify, notifiedAt |-> poll.at,
                              fetchedAt |-> poll.fetchStart]
                        ELSE [batch EXCEPT !.candidates = poll.toNotify]
            /\ Goto("next")
            /\ UNCHANGED <<states, overlay, shown, failed>>
    /\ UNCHANGED <<deviceVars, worldVars, faults, historyVars>>

\* The batch is remembered before any of it is published.
Store ==
    /\ poll.phase = "store"
    /\ IF "memory" \in poisoned THEN FailPoll
       ELSE /\ batch' = [candidates |-> poll.toNotify, notifiedAt |-> poll.at,
                         fetchedAt |-> poll.fetchStart]
            /\ Goto("next")
            /\ UNCHANGED <<states, overlay, shown, failed>>
    /\ UNCHANGED <<deviceVars, worldVars, faults, historyVars>>

\* Mutant of NextCandidate: the devices that are ready, not those connected.
NextCandidateReady ==
    /\ poll.phase = "next"
    /\ IF poll.toNotify = {}
       THEN EndPoll /\ UNCHANGED failed
       ELSE LET targets == {c \in registered : replay[c] = "done"}
            IN  /\ poll' = [poll EXCEPT !.phase = "publish", !.targets = targets]
                /\ UNCHANGED <<due, failed>>
    /\ UNCHANGED <<memoryVars, deviceVars, worldVars, faults, historyVars>>

\* publish_candidate, as far as its snapshot of connected_ids (none, and a
\* report, when the registry is poisoned).  No candidate left: the end.
NextCandidate ==
    /\ poll.phase = "next"
    /\ IF poll.toNotify = {}
       THEN EndPoll /\ UNCHANGED failed
       ELSE LET targets == IF "registry" \in poisoned THEN {} ELSE registered
            IN  /\ poll' = [poll EXCEPT !.phase = "publish", !.targets = targets]
                /\ failed' = (failed \/ "registry" \in poisoned)
                /\ UNCHANGED due
    /\ UNCHANGED <<memoryVars, deviceVars, worldVars, faults, historyVars>>

\* publish_to: nothing is published after a failure, and the broker may refuse.
PublishTo(c, said, accepted) ==
    /\ Fault(~accepted)
    /\ UNCHANGED connectedAt
    /\ IF accepted /\ ~failed
       THEN heard' = [heard EXCEPT ![c] = @ \cup {said}] /\ UNCHANGED excused
       ELSE excused' = [excused EXCEPT ![c] = @ \cup {said}] /\ UNCHANGED heard

\* The loop of publish_candidate over its snapshot, in any order (the code
\* sorts it).
PublishNext(c, accepted) ==
    /\ poll.phase = "publish"
    /\ c \in poll.targets
    /\ poll' = [poll EXCEPT !.targets = @ \ {c}]
    /\ PublishTo(c, Said(First(poll.toNotify), poll.at), accepted)
    /\ UNCHANGED <<due, memoryVars, deviceVars, worldVars, failed>>

PublishedAll ==
    /\ poll.phase = "publish" /\ poll.targets = {}
    /\ poll' = [poll EXCEPT !.phase = "next", !.toNotify = @ \ {First(@)}]
    /\ UNCHANGED <<due, memoryVars, deviceVars, worldVars, errorVars, historyVars>>

---------------------------------------------------------------------------
(* The devices. *)

\* A device connects, perhaps taking over its own session, and remembers
\* nothing.  Bound: not while the replay of its last connection still runs.
Register(c) ==
    /\ replay[c] \notin {"queued", "sending"}
    /\ connects < MaxConnects
    /\ connects' = connects + 1
    /\ registered' = registered \cup {c}
    /\ replay' = [replay EXCEPT ![c] = "none"]
    /\ connectedAt' = [connectedAt EXCEPT ![c] = now]
    /\ heard' = [heard EXCEPT ![c] = {}]
    /\ excused' = [excused EXCEPT ![c] = {}]
    /\ UNCHANGED <<pollVars, memoryVars, pending, worldVars, errorVars>>

Unregister(c) ==
    /\ c \in registered
    /\ registered' = registered \ {c}
    /\ UNCHANGED <<pollVars, memoryVars, replay, pending, connects, worldVars,
                   errorVars, historyVars>>

\* Its first stats queue Event::Ready.
DeviceReady(c) ==
    /\ c \in registered
    /\ replay[c] = "none"
    /\ replay' = [replay EXCEPT ![c] = "queued"]
    /\ UNCHANGED <<pollVars, memoryVars, registered, pending, connects, worldVars,
                   errorVars, historyVars>>

\* The warnings of the batch.
Remembered ==
    IF batch = NoBatch THEN {}
    ELSE {Said(c, batch.notifiedAt) : c \in batch.candidates}

\* The batch may still be replayed.
Fresh ==
    /\ batch # NoBatch
    /\ now - batch.notifiedAt < RepeatInterval
    /\ now - batch.fetchedAt < StaleTtl

\* on_device_connected: a copy of the batch if it is fresh.
Replay(c) ==
    /\ replay[c] = "queued"
    /\ failed' = (failed \/ "memory" \in poisoned)
    /\ IF "memory" \notin poisoned /\ Fresh
       THEN /\ replay' = [replay EXCEPT ![c] = "sending"]
            /\ pending' = [pending EXCEPT ![c] = Remembered]
            /\ UNCHANGED excused
       ELSE /\ replay' = [replay EXCEPT ![c] = "done"]
            /\ excused' = [excused EXCEPT ![c] = @ \cup Remembered]
            /\ UNCHANGED pending
    /\ UNCHANGED <<pollVars, memoryVars, registered, connects, worldVars, faults,
                   connectedAt, heard>>

\* ... published one by one; a refusal is logged and the rest goes on.
ReplayNext(c, accepted) ==
    /\ replay[c] = "sending"
    /\ pending[c] # {}
    /\ PublishTo(c, First(pending[c]), accepted)
    /\ pending' = [pending EXCEPT ![c] = @ \ {First(@)}]
    /\ UNCHANGED <<pollVars, memoryVars, registered, replay, connects, worldVars,
                   failed>>

ReplayedAll(c) ==
    /\ replay[c] = "sending"
    /\ pending[c] = {}
    /\ replay' = [replay EXCEPT ![c] = "done"]
    /\ UNCHANGED <<pollVars, memoryVars, registered, pending, connects, worldVars,
                   errorVars, historyVars>>

---------------------------------------------------------------------------
(* The rest of the world. *)

Tick ==
    /\ now < MaxTime
    /\ now < due + MaxLate
    /\ now' = now + 1
    /\ UNCHANGED <<pollVars, memoryVars, deviceVars, cancelled, poisoned,
                   errorVars, historyVars>>

\* The run ends: the scheduler and an in-flight fetch are cancelled.
Cancel ==
    /\ ~cancelled
    /\ cancelled' = TRUE
    /\ UNCHANGED <<pollVars, memoryVars, deviceVars, now, poisoned, errorVars,
                   historyVars>>

\* A thread panicked while it held a lock.
Poison(lock) ==
    /\ lock \notin poisoned
    /\ Fault(TRUE)
    /\ poisoned' = poisoned \cup {lock}
    /\ UNCHANGED <<pollVars, memoryVars, deviceVars, now, cancelled, failed,
                   historyVars>>

Poll ==
    \/ StartPoll
    \/ \E points \in Forecasts : FetchDone(points)
    \/ FetchFailed
    \/ FetchCancelled
    \/ SetOverlay
    \/ Process
    \/ Store
    \/ NextCandidate
    \/ \E c \in Clients, accepted \in BOOLEAN : PublishNext(c, accepted)
    \/ PublishedAll

Device(c) ==
    \/ Register(c)
    \/ Unregister(c)
    \/ DeviceReady(c)
    \/ Replay(c)
    \/ \E accepted \in BOOLEAN : ReplayNext(c, accepted)
    \/ ReplayedAll(c)

Next ==
    \/ Poll
    \/ \E c \in Clients : Device(c)
    \/ Tick
    \/ Cancel
    \/ \E lock \in Locks : Poison(lock)

Spec == Init /\ [][Next]_vars

---------------------------------------------------------------------------
(* Properties. *)

\* No warning is lost between the poll and the devices that connect while it
\* runs: once a device's replay is over and no poll is running, it has been
\* sent every warning remembered, by the poll or by the replay; only what the
\* broker refused, or what had expired when the device became ready, is excused.
WarningsReachEveryDevice ==
    poll.phase = "idle" /\ ~failed =>
        \A c \in registered : replay[c] = "done" =>
            Remembered \subseteq heard[c] \cup excused[c]

\* The batch is that of the last poll that notified, with its age: no event was
\* notified after it, each of its own was notified with it, and its forecast is
\* not younger than it.  A poll that notifies nothing leaves it alone.
BatchIsTheLatest ==
    poll.phase = "idle" /\ ~failed =>
        /\ \A e \in Types : states[e].lastSent # NoValue =>
              batch # NoBatch /\ states[e].lastSent <= batch.notifiedAt
        /\ batch # NoBatch =>
              /\ batch.fetchedAt <= batch.notifiedAt
              /\ \A c \in batch.candidates :
                    states[c.type].lastSent = batch.notifiedAt

\* An event the last successful poll saw is never overdue: it was notified less
\* than a repeat interval before that poll.
NeverOverdue ==
    \A e \in Types : states[e].lastSeen # NoValue =>
        /\ states[e].lastSent # NoValue
        /\ states[e].lastSeen - states[e].lastSent < RepeatInterval

\* No device stays ignorant of an event that lasts: once it has been connected
\* for a repeat interval, it has been sent a warning of every active event
\* within the repeat interval before the last poll that saw it, though the
\* batch with the first warning was replaced before the device was ready.
WarningsAreRetold ==
    poll.phase = "idle" /\ ~failed =>
        \A c \in registered, e \in Types :
            states[e].active /\ states[e].lastSeen - connectedAt[c] >= RepeatInterval =>
                \E at \in (states[e].lastSeen - RepeatInterval + 1)..states[e].lastSeen :
                    [type |-> e, at |-> at] \in heard[c] \cup excused[c]

\* The settings that are built for the devices carry the overlay the last poll
\* decided on, after a failed fetch none, whenever no change is on its way.
OverlayIsShown ==
    ~failed => shown = overlay \/ poll.phase \in {"overlay", "clear"}

\* "re-notify no more often than this" (deployments/config.sample.yaml:134), of
\* an event that stays in the forecast and does not become more severe.
\* Violated: once it has begun, its first step still to come moves on with the
\* clock, and every half hour it has another fingerprint.
NotNotifiedMoreOften ==
    [][\A e \in Types :
          /\ states[e].active /\ states'[e].active
          /\ states'[e].severity <= states[e].severity
          /\ states'[e].lastSent # states[e].lastSent
          => states'[e].lastSent - states[e].lastSent >= RepeatInterval]_vars
=============================================================================
