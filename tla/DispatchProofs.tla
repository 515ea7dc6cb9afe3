-------------------------- MODULE DispatchProofs --------------------------
(***************************************************************************)
(* DispatchInv is an invariant of Dispatch, for any devices, handler tasks *)
(* and bounds, and with it SentWhenQuiescent.  The argument: a change, a   *)
(* connect and a change of the overlay each leave something that will read *)
(* the current settings for every device concerned (a callback, then an    *)
(* event, then a task), and what has read them is only made obsolete by a  *)
(* later change, which leaves something of its own.                        *)
(***************************************************************************)
EXTENDS Dispatch, SequenceTheorems, TLAPS

\* The initial state: nobody is registered.
LEMMA DispatchInvInit == Init => DispatchInv
<1> SUFFICES ASSUME Init PROVE DispatchInv
    OBVIOUS
<1> USE DispatchAssumption DEF Init
<1>1. Blank \in Settings
    BY DEF Blank, Settings, Modes
<1>2. queue \in Seq(Events)
    OBVIOUS
<1>3. TypeOK
    BY <1>1, <1>2 DEF TypeOK, Phases, InHand
<1>4. PendingOrSent
    BY DEF PendingOrSent
<1> QED
    BY <1>3, <1>4 DEF DispatchInv

\* What the main loop finds in an event, and the phase its task starts in.
LEMMA EventKinds ==
    ASSUME NEW e \in Events
    PROVE  /\ FirstPhase(e) \in Phases
           /\ e.kind # "PushAll" => e.client \in Clients
           /\ e.kind \in {"PushAll", "Connected", "Ready"}
<1>1. CASE e = PushAll
    BY <1>1 DEF PushAll, FirstPhase, Phases
<1>2. ASSUME NEW c \in Clients, e = Connected(c) PROVE
             /\ FirstPhase(e) \in Phases
             /\ e.client \in Clients
             /\ e.kind = "Connected"
    BY <1>2 DEF Connected, FirstPhase, Phases
<1>3. ASSUME NEW c \in Clients, e = Ready(c) PROVE
             /\ FirstPhase(e) \in Phases
             /\ e.client \in Clients
             /\ e.kind = "Ready"
    BY <1>3 DEF Ready, FirstPhase, Phases
<1> QED
    BY <1>1, <1>2, <1>3 DEF Events

\* Whatever is queued is an event.
LEMMA EventFacts ==
    /\ PushAll \in Events
    /\ \A c \in Clients : Connected(c) \in Events /\ Ready(c) \in Events
BY DEF Events

\* Every variable keeps its type, whatever the step.
LEMMA TypeStep == TypeOK /\ [Next]_vars => TypeOK'
<1> SUFFICES ASSUME TypeOK, [Next]_vars PROVE TypeOK'
    OBVIOUS
<1> USE DispatchAssumption
<1> USE DEF Goto, Report, Changed, Accepts, sourceVars, deviceVars, taskVars,
            failureVars, outputVars
<1>1. ASSUME NEW m \in Modes, SetMode(m) PROVE TypeOK'
    BY <1>1 DEF SetMode, TypeOK, Controllers
<1>2. ASSUME NEW active \in BOOLEAN, SetSaving(active) PROVE TypeOK'
    BY <1>2 DEF SetSaving, TypeOK, Controllers
<1>3. ASSUME NEW o \in Overlays, SetOverlay(o) PROVE TypeOK'
    BY <1>3 DEF SetOverlay, TypeOK, Locks, Phases, Tasks, InHand
<1>4. ASSUME NEW controller \in Controllers, Signal(controller) PROVE TypeOK'
    BY <1>4, EventFacts, AppendProperties DEF Signal, TypeOK
<1>5. ASSUME NEW c \in Clients, Device(c) \/ Announce(c) PROVE TypeOK'
  <2>1. CASE Register(c)
      BY <2>1 DEF Register, P!Register, TypeOK
  <2>2. CASE Announce(c)
    <3>1. queue' \in Seq(Events)
        BY <2>2, EventFacts, AppendProperties DEF Announce, P!Announce, TypeOK
    <3> QED
        BY <2>2, <3>1 DEF Announce, P!Announce, TypeOK
  <2>3. CASE DeviceReady(c)
    <3>1. queue' \in Seq(Events)
        BY <2>3, EventFacts, AppendProperties DEF DeviceReady, TypeOK
    <3> QED
        BY <2>3, <3>1 DEF DeviceReady, TypeOK
  <2>4. CASE Unregister(c)
      BY <2>4 DEF Unregister, P!Unregister, TypeOK
  <2> QED
      BY <1>5, <2>1, <2>2, <2>3, <2>4 DEF Device
<1>6. ASSUME NEW t \in Handlers, Handle(t) PROVE TypeOK'
  <2>1. Head(queue) \in Events /\ Tail(queue) \in Seq(Events) /\ t \in Tasks
      BY <1>6 DEF Handle, TypeOK, Tasks
  <2>e. PICK e \in Events : e = Head(queue)
      BY <2>1
  <2>k. /\ e.kind # "PushAll" => e.client \in Clients
        /\ e.kind \in {"PushAll", "Connected", "Ready"}
      BY EventKinds
  <2>2. PICK p \in Phases, l \in SUBSET Clients, k \in Clients \cup {NoClient} :
            /\ phase' = [phase EXCEPT ![t] = p]
            /\ left' = [left EXCEPT ![t] = l]
            /\ client' = [client EXCEPT ![t] = k]
            /\ p \in InHand => k # NoClient
    <3>1. CASE e.kind = "PushAll"
        BY <1>6, <2>1, <2>e, <3>1 DEF Handle, FirstPhase, Phases, InHand, TypeOK
    <3>2. CASE e.kind = "Connected"
      <4>1. e.client \in Clients
          BY <2>k, <3>2
      <4>2. /\ phase' = [phase EXCEPT ![t] = "next"]
            /\ left' = [left EXCEPT ![t] = {e.client}]
            /\ client' = [client EXCEPT ![t] = client[t]]
          BY <1>6, <2>e, <3>2 DEF Handle, FirstPhase
      <4>3. client[t] \in Clients \cup {NoClient}
          BY <2>1 DEF TypeOK
      <4> QED
          BY <4>1, <4>2, <4>3 DEF Phases, InHand
    <3>3. CASE e.kind = "Ready"
      <4>1. /\ e.client \in Clients
            /\ e.client \in Clients \cup {NoClient}
            /\ e.client # NoClient
          BY <2>k, <3>3
      <4>3. "replay" \in Phases /\ {} \in SUBSET Clients
          BY DEF Phases
      <4>2. /\ phase' = [phase EXCEPT ![t] = "replay"]
            /\ left' = [left EXCEPT ![t] = {}]
            /\ client' = [client EXCEPT ![t] = e.client]
          BY <1>6, <2>e, <3>3 DEF Handle, FirstPhase
      <4> QED
          BY <4>1, <4>2, <4>3, Zenon
    <3> QED
        BY <2>k, <3>1, <3>2, <3>3
  <2>3. UNCHANGED <<sourceVars, deviceVars, got, failureVars, outputVars>>
        /\ queue' = Tail(queue)
      BY <1>6 DEF Handle
  <2> QED
      BY <2>1, <2>2, <2>3 DEF TypeOK
<1>7. ASSUME NEW signalled \in BOOLEAN, Stop(signalled) PROVE TypeOK'
    BY <1>7 DEF Stop, TypeOK
<1>8. ASSUME NEW t \in Tasks, Run(t) PROVE TypeOK'
  <2> USE DEF InHand
  <2>0. Blank \in Settings
      BY DEF Blank, Settings, Modes
  <2>1. CASE Snapshot(t)
    <3>1. left' \in [Tasks -> SUBSET Clients]
        BY <2>1 DEF Snapshot, TypeOK
    <3>2. failed' \in Locks \cup {NoError}
        BY <2>1 DEF Snapshot, TypeOK, Locks
    <3>3. phase' \in [Tasks -> Phases]
        BY <2>1 DEF Snapshot, TypeOK, Phases
    <3> QED
        BY <2>1, <3>1, <3>2, <3>3 DEF Snapshot, TypeOK
  <2>2. CASE NextClient(t)
    <3>1. left' \in [Tasks -> SUBSET Clients]
        BY <2>2 DEF NextClient, TypeOK
    <3>2. client' \in [Tasks -> Clients \cup {NoClient}]
        BY <2>2 DEF NextClient, TypeOK
    <3>3. got' \in [Tasks -> Settings]
      <4>1. got \in [Tasks -> Settings] /\ mode \in Modes
          BY DEF TypeOK
      <4>2. [got EXCEPT ![t].mode = mode] \in [Tasks -> Settings]
          BY <4>1 DEF Settings
      <4>3. got' \in {got, [got EXCEPT ![t].mode = mode]}
          BY <2>2 DEF NextClient
      <4> QED
          BY <4>1, <4>2, <4>3
    <3>4. phase' \in [Tasks -> Phases]
        BY <2>2 DEF NextClient, TypeOK, Phases
    <3>5. \A u \in Tasks : phase'[u] \in InHand => client'[u] # NoClient
        BY <2>2 DEF NextClient, TypeOK
    <3> QED
        BY <2>2, <3>1, <3>2, <3>3, <3>4, <3>5 DEF NextClient, TypeOK
  <2>3. CASE ReadOverlay(t)
    <3>1. got' \in [Tasks -> Settings]
      <4>1. CASE got' = [got EXCEPT ![t] = Blank]
          BY <2>0, <4>1 DEF TypeOK
      <4>2. CASE got' = [got EXCEPT ![t].overlay = overlay]
          BY <4>2 DEF TypeOK, Settings
      <4> QED
          BY <2>3, <4>1, <4>2 DEF ReadOverlay
    <3>2. client' \in [Tasks -> Clients \cup {NoClient}] /\ phase' \in [Tasks -> Phases]
        BY <2>3 DEF ReadOverlay, TypeOK, Phases
    <3>3. \A u \in Tasks : phase'[u] \in InHand => client'[u] # NoClient
        BY <2>3 DEF ReadOverlay, TypeOK
    <3> QED
        BY <2>3, <3>1, <3>2, <3>3 DEF ReadOverlay, TypeOK, Locks
  <2>4. CASE ReadSaving(t)
    <3>1. got' \in [Tasks -> Settings]
        BY <2>4 DEF ReadSaving, TypeOK, Settings
    <3> QED
        BY <2>4, <3>1 DEF ReadSaving, TypeOK, Phases
  <2>5. ASSUME NEW accepted \in BOOLEAN, Publish(t, accepted) PROVE TypeOK'
    <3>1. got' \in [Tasks -> Settings]
        BY <2>0, <2>5 DEF Publish, TypeOK
    <3>2. client' \in [Tasks -> Clients \cup {NoClient}] /\ phase' \in [Tasks -> Phases]
        BY <2>5 DEF Publish, TypeOK, Phases
    <3>3. client[t] \in Clients /\ got[t] \in Settings
        BY <2>5 DEF Publish, TypeOK
    <3>4. retained' \in [Clients -> Settings \cup {NoSettings}]
        BY <2>5, <3>3 DEF Publish, TypeOK
    <3>5. sent' \in SUBSET Clients /\ lost' \in SUBSET Clients /\ faults' \in 0..MaxFaults
        BY <2>5, <3>3 DEF Publish, TypeOK
    <3>6. \A u \in Tasks : phase'[u] \in InHand => client'[u] # NoClient
        BY <2>5 DEF Publish, TypeOK
    <3> QED
        BY <2>5, <3>1, <3>2, <3>4, <3>5, <3>6 DEF Publish, TypeOK
  <2>6. CASE Replay(t)
      BY <2>6 DEF Replay, TypeOK, Phases, Locks
  <2>7. ASSUME NEW accepted \in BOOLEAN, Notify(t, accepted) PROVE TypeOK'
    <3>1. client[t] \in Clients
        BY <2>7 DEF Notify, TypeOK
    <3>2. faults' \in 0..MaxFaults /\ notified' \in SUBSET Clients
        BY <2>7, <3>1 DEF Notify, TypeOK
    <3> QED
        BY <2>7, <3>2 DEF Notify, TypeOK, Phases
  <2> QED
      BY <1>8, <2>1, <2>2, <2>3, <2>4, <2>5, <2>6, <2>7 DEF Run
<1>9. ASSUME NEW lock \in Locks, Poison(lock) PROVE TypeOK'
    BY <1>9 DEF Poison, TypeOK
<1>10. CASE UNCHANGED vars
    BY <1>10 DEF vars, TypeOK
<1> QED
    BY <1>1, <1>2, <1>3, <1>4, <1>5, <1>6, <1>7, <1>8, <1>9, <1>10
    DEF Next, Source, Loop

\* What PendingOrSent says of one device.
Covered(c) ==
    \/ c \in sent \cup lost
    \/ signals # {}
    \/ c \in announcing
    \/ \E i \in DOMAIN queue : queue[i] \in {PushAll, Connected(c)}
    \/ \E t \in Tasks : WillSend(t, c)

\* A queued event stays queued when another is appended.
LEMMA AppendKeeps ==
    ASSUME queue \in Seq(Events), NEW e \in Events, queue' = Append(queue, e)
    PROVE  /\ \A i \in DOMAIN queue : i \in DOMAIN queue' /\ queue'[i] = queue[i]
           /\ \E i \in DOMAIN queue' : queue'[i] = e
<1>1. queue' \in Seq(Events) /\ Len(queue') = Len(queue) + 1
    BY AppendProperties
<1>2. Len(queue) + 1 \in DOMAIN queue' /\ queue'[Len(queue) + 1] = e
    BY <1>1, AppendProperties
<1> QED
    BY <1>1, <1>2, AppendProperties

\* Taking the first event leaves the others queued, one place earlier.
LEMMA TailKeeps ==
    ASSUME queue \in Seq(Events), queue # <<>>, queue' = Tail(queue)
    PROVE  \A i \in DOMAIN queue :
               \/ i = 1 /\ queue[i] = Head(queue)
               \/ i - 1 \in DOMAIN queue' /\ queue'[i - 1] = queue[i]
BY HeadTailProperties

\* No step leaves a registered device uncovered.
LEMMA PendingStep == DispatchInv /\ [Next]_vars => PendingOrSent'
<1> SUFFICES ASSUME TypeOK, PendingOrSent, [Next]_vars, Running', NEW c \in registered'
             PROVE  Covered(c)'
    BY DEF DispatchInv, PendingOrSent, Covered
<1> USE DispatchAssumption
<1> USE DEF Goto, Changed, sourceVars, deviceVars, taskVars, failureVars, outputVars
<1>0. ASSUME Running, c \in registered PROVE Covered(c)
    BY <1>0 DEF PendingOrSent, Covered
\* The controllers' changes leave a callback to come.
<1>1. ASSUME NEW m \in Modes, SetMode(m) PROVE Covered(c)'
    BY <1>1 DEF SetMode, Covered
<1>2. ASSUME NEW active \in BOOLEAN, SetSaving(active) PROVE Covered(c)'
    BY <1>2 DEF SetSaving, Covered
\* A new overlay leaves the poll's own task about to push to all; a poisoned
\* lock ends the run.
<1>3. ASSUME NEW o \in Overlays, SetOverlay(o) PROVE Covered(c)'
  <2>1. "overlay" \notin poisoned
      BY <1>3 DEF SetOverlay, Report, Running, TypeOK
  <2>2. phase'[Poll] = "snapshot" /\ Poll \in Tasks
      BY <1>3, <2>1 DEF SetOverlay, TypeOK, Tasks
  <2> QED
      BY <2>2 DEF Covered, WillSend
\* The callback becomes a queued event.
<1>4. ASSUME NEW controller \in Controllers, Signal(controller) PROVE Covered(c)'
    BY <1>4, AppendKeeps, EventFacts DEF Signal, Covered, TypeOK
<1>5. ASSUME NEW d \in Clients, Device(d) \/ Announce(d) PROVE Covered(c)'
  <2>1. CASE Register(d)
    <3>1. CASE c = d
        BY <2>1, <3>1 DEF Register, P!Register, Covered
    <3>2. CASE c # d
      <4>1. Covered(c)
          BY <1>0, <2>1, <3>2 DEF Register, P!Register, Running
      <4> QED
          BY <2>1, <4>1 DEF Register, P!Register, Covered, WillSend, Current
    <3> QED
        BY <3>1, <3>2
  <2>2. CASE Announce(d)
    <3>1. Covered(c)
        BY <1>0, <2>2 DEF Announce, P!Announce, Running
    <3>2. /\ \A i \in DOMAIN queue : i \in DOMAIN queue' /\ queue'[i] = queue[i]
          /\ \E i \in DOMAIN queue' : queue'[i] = Connected(d)
        BY <2>2, AppendKeeps, EventFacts DEF Announce, P!Announce, TypeOK
    <3> QED
        BY <2>2, <3>1, <3>2 DEF Announce, P!Announce, Covered, WillSend, Current
  <2>3. CASE DeviceReady(d)
    <3>1. Covered(c)
        BY <1>0, <2>3 DEF DeviceReady, Running
    <3>2. \A i \in DOMAIN queue : i \in DOMAIN queue' /\ queue'[i] = queue[i]
        BY <2>3, AppendKeeps, EventFacts DEF DeviceReady, TypeOK
    <3> QED
        BY <2>3, <3>1, <3>2 DEF DeviceReady, Covered, WillSend, Current
  <2>4. CASE Unregister(d)
    <3>1. Covered(c)
        BY <1>0, <2>4 DEF Unregister, P!Unregister, Running
    <3> QED
        BY <2>4, <3>1 DEF Unregister, P!Unregister, Covered, WillSend, Current
  <2> QED
      BY <1>5, <2>1, <2>2, <2>3, <2>4 DEF Device
\* A queued event becomes a task that covers the same devices.
<1>6. ASSUME NEW t \in Handlers, Handle(t) PROVE Covered(c)'
  <2>1. Covered(c) /\ t \in Tasks
      BY <1>0, <1>6 DEF Handle, Running, Tasks
  <2>2. CASE \E i \in DOMAIN queue : queue[i] \in {PushAll, Connected(c)}
    <3>1. PICK i \in DOMAIN queue : queue[i] \in {PushAll, Connected(c)}
        BY <2>2
    <3>2. CASE i - 1 \in DOMAIN queue' /\ queue'[i - 1] = queue[i]
        BY <3>1, <3>2 DEF Covered
    <3>3. CASE Head(queue) = PushAll
      <4>1. phase'[t] = "snapshot"
          BY <1>6, <2>1, <3>3 DEF Handle, FirstPhase, PushAll, TypeOK
      <4> QED
          BY <2>1, <4>1 DEF Covered, WillSend
    <3>4. CASE Head(queue) = Connected(c)
      <4>1. phase'[t] = "next" /\ left'[t] = {c}
          BY <1>6, <2>1, <3>4 DEF Handle, FirstPhase, Connected, TypeOK
      <4> QED
          BY <2>1, <4>1 DEF Covered, WillSend
    <3> QED
        BY <1>6, <3>1, <3>2, <3>3, <3>4, TailKeeps DEF Handle, TypeOK
  <2>3. CASE \E u \in Tasks : WillSend(u, c)
    <3>1. PICK u \in Tasks : WillSend(u, c)
        BY <2>3
    <3>2. u # t
        BY <1>6, <3>1 DEF Handle, WillSend
    <3>3. WillSend(u, c)'
        BY <1>6, <2>1, <3>1, <3>2 DEF Handle, WillSend, Current, TypeOK
    <3> QED
        BY <3>3 DEF Covered
  <2> QED
      BY <1>6, <2>1, <2>2, <2>3 DEF Handle, Covered
<1>7. ASSUME NEW signalled \in BOOLEAN, Stop(signalled) PROVE Covered(c)'
    BY <1>7 DEF Stop, Running
\* A task that has read the current settings sends them; the others go on.
<1>8. ASSUME NEW t \in Tasks, Run(t) PROVE Covered(c)'
  <2>1. failed = NoError /\ failed' = NoError /\ Covered(c)
      BY <1>0, <1>8 DEF Run, Snapshot, NextClient, ReadOverlay, ReadSaving, Publish,
                        Replay, Notify, Report, Running
  <2>2. ASSUME NEW u \in Tasks, u # t, WillSend(u, c) PROVE WillSend(u, c)'
      BY <1>8, <2>2 DEF Run, Snapshot, NextClient, ReadOverlay, ReadSaving, Publish,
                        Replay, Notify, WillSend, Current, TypeOK
  <2>3. ASSUME WillSend(t, c) PROVE WillSend(t, c)' \/ c \in sent' \cup lost'
    <3>1. CASE Snapshot(t)
        BY <2>1, <3>1 DEF Snapshot, Report, WillSend, TypeOK, Locks
    <3>2. CASE NextClient(t)
        BY <2>1, <2>3, <3>2 DEF NextClient, WillSend, TypeOK, Settings
    <3>3. CASE ReadOverlay(t)
        BY <2>1, <2>3, <3>3 DEF ReadOverlay, Report, WillSend, TypeOK, Locks, Settings
    <3>4. CASE ReadSaving(t)
        BY <2>1, <2>3, <3>4 DEF ReadSaving, WillSend, TypeOK, Settings, Current
    <3>5. ASSUME NEW accepted \in BOOLEAN, Publish(t, accepted)
          PROVE  WillSend(t, c)' \/ c \in sent' \cup lost'
        BY <2>1, <2>3, <3>5 DEF Publish, WillSend, TypeOK
    <3> QED
        BY <1>8, <2>3, <3>1, <3>2, <3>3, <3>4, <3>5
        DEF Run, Replay, Notify, WillSend
  <2>4. /\ sent \subseteq sent' /\ lost \subseteq lost'
        /\ UNCHANGED <<signals, announcing, queue>>
      BY <1>8 DEF Run, Snapshot, NextClient, ReadOverlay, ReadSaving, Publish,
                  Replay, Notify
  <2> QED
      BY <2>1, <2>2, <2>3, <2>4 DEF Covered
<1>9. CASE (\E lock \in Locks : Poison(lock)) \/ UNCHANGED vars
  <2>1. Covered(c)
      BY <1>0, <1>9 DEF Poison, vars, Running
  <2> QED
      BY <1>9, <2>1 DEF Poison, vars, Covered, WillSend, Current
<1> QED
    BY <1>1, <1>2, <1>3, <1>4, <1>5, <1>6, <1>7, <1>8, <1>9 DEF Next, Source, Loop, TypeOK

\* No registered device is ever forgotten: one that has not been sent the
\* current settings since they changed has a push of them ahead, for any number
\* of devices, tasks and changes.
THEOREM DispatchInvariant == Spec => []DispatchInv
<1>1. DispatchInv /\ [Next]_vars => DispatchInv'
    BY TypeStep, PendingStep DEF DispatchInv
<1> QED
    BY DispatchInvInit, <1>1, PTL DEF Spec

\* When nothing is queued or running, every registered device has been sent
\* the current settings since the last change.
THEOREM SettingsSent == Spec => []SentWhenQuiescent
<1>1. DispatchInv => SentWhenQuiescent
    BY DEF DispatchInv, TypeOK, PendingOrSent, SentWhenQuiescent, Quiescent, WillSend
<1> QED
    BY DispatchInvariant, <1>1, PTL

---------------------------------------------------------------------------
(* The payload and the device. *)

\* A field of a payload that a device has read, by the skip rule of the field.
LEMMA MergedField ==
    ASSUME NEW rules, NEW value, NEW device, NEW f \in DOMAIN rules,
           DOMAIN device = DOMAIN rules
    PROVE  Merged(device, Serialized(rules, value))[f] =
              IF Omits(rules[f], value[f]) THEN device[f] ELSE value[f]
<1> DEFINE payload == Serialized(rules, value)
<1>1. DOMAIN payload = {g \in DOMAIN rules : ~Omits(rules[g], value[g])}
    BY DEF Serialized
<1>2. \A g \in DOMAIN payload : payload[g] = value[g]
    BY DEF Serialized
<1>3. Merged(device, payload)[f] = IF f \in DOMAIN payload THEN payload[f] ELSE device[f]
    BY DEF Merged
<1> QED BY <1>1, <1>2, <1>3

\* Builder::build sets the fields that the controller manages, and no other.
LEMMA BuiltFields ==
    ASSUME NEW s \in Settings
    PROVE  LET b == Built(s)
           IN  /\ b.CHCOL = Accent[s.mode] /\ b.WDCA = Accent[s.mode]
               /\ b.CBCOL = Content[s.mode] /\ b.WDCI = Content[s.mode]
               /\ b.TIME_COL = Content[s.mode] /\ b.DATE_COL = Content[s.mode]
               /\ b.OVERLAY = s.overlay
               /\ b.BRI = IF s.saving THEN SavingBrightness ELSE Unset
               /\ b.ABRI = IF s.saving THEN Zero ELSE "true"
               /\ b.ATIME = Zero /\ b.TEFF = Unset /\ b.TFORMAT = Unset
BY DEF Built, Build, SettingsDefault, SettingsRules, DefaultOf

\* After reading the payload of any settings, a device shows them, whatever it
\* had in each field, and keeps what the controller does not manage.
LEMMA PayloadSuffices ==
    ASSUME NEW s \in Settings, NEW device, DOMAIN device = DOMAIN SettingsRules
    PROVE  LET after == Merged(device, Serialized(SettingsRules, Built(s)))
           IN  /\ Shown(after) = Wanted(s)
               /\ \A f \in Unmanaged : after[f] = device[f]
<1> DEFINE after == Merged(device, Serialized(SettingsRules, Built(s)))
           b == Built(s)
<1>1. \A f \in DOMAIN SettingsRules :
        after[f] = IF Omits(SettingsRules[f], b[f]) THEN device[f] ELSE b[f]
    BY MergedField
<1> HIDE DEF after
<1>2. /\ s.mode \in Modes /\ s.overlay \in Overlays /\ s.saving \in BOOLEAN
      /\ Accent[s.mode] # Zero /\ Content[s.mode] # Zero
    BY ThemeAssumption DEF Settings
<1>3. /\ after.CHCOL = Accent[s.mode] /\ after.WDCA = Accent[s.mode]
      /\ after.CBCOL = Content[s.mode] /\ after.WDCI = Content[s.mode]
      /\ after.TIME_COL = Content[s.mode] /\ after.DATE_COL = Content[s.mode]
    <2>1. /\ \A f \in {"CHCOL", "WDCA"} : b[f] = Accent[s.mode]
          /\ \A f \in {"CBCOL", "WDCI", "TIME_COL", "DATE_COL"} : b[f] = Content[s.mode]
        BY BuiltFields
    <2>2. \A f \in {"CHCOL", "WDCA", "CBCOL", "WDCI", "TIME_COL", "DATE_COL"} :
            f \in DOMAIN SettingsRules /\ SettingsRules[f] = "is_zero"
        BY DEF SettingsRules
    <2>3. \A value : Omits("is_zero", value) <=> value = Zero
        BY DEF Omits
    <2> HIDE DEF b
    <2> QED BY <1>1, <1>2, <2>1, <2>2, <2>3
<1>4. after.OVERLAY = s.overlay
    BY <1>1, BuiltFields DEF SettingsRules, Omits
<1>5. /\ after.ABRI = IF s.saving THEN Zero ELSE "true"
      /\ s.saving => after.BRI = SavingBrightness
    <2>1. /\ b.ABRI = IF s.saving THEN Zero ELSE "true"
          /\ s.saving => b.BRI = SavingBrightness
        BY BuiltFields
    <2>2. \A f \in {"ABRI", "BRI"} : f \in DOMAIN SettingsRules /\ SettingsRules[f] = "is_none"
        BY DEF SettingsRules
    <2>3. \A value : Omits("is_none", value) <=> value = Unset
        BY DEF Omits
    <2>4. Unset \notin {Zero, "true", SavingBrightness}
        BY PayloadAssumption, BuildAssumption
    <2> HIDE DEF b
    <2> QED BY <1>1, <2>1, <2>2, <2>3, <2>4
<1>6. \A f \in Unmanaged : after[f] = device[f]
    BY <1>1, BuiltFields DEF SettingsRules, Omits, Unmanaged
<1>7. Shown(after) = Wanted(s)
    <2>1. (IF after.ABRI = "true" THEN "automatic" ELSE after.BRI) =
            (IF s.saving THEN "1" ELSE "automatic")
        BY <1>2, <1>5, BuildAssumption DEF SavingBrightness
    <2>2. <<after.CBCOL, after.WDCI, after.TIME_COL, after.DATE_COL>> =
            [i \in 1..4 |-> Content[s.mode]]
        BY <1>3
    <2> QED BY <1>3, <1>4, <2>1, <2>2 DEF Shown, Wanted
<1> QED BY <1>6, <1>7 DEF after

\* What the broker retains is enough: whatever a device has of its own or of
\* earlier payloads, the last settings leave it as Builder::build wants it,
\* though Settings leaves fields out.
THEOREM RetainedSuffices == Spec => []RetainedIsSelfContained
<1>1. DispatchInv => RetainedIsSelfContained
    <2> SUFFICES ASSUME DispatchInv, NEW c \in Clients, retained[c] # NoSettings
                 PROVE  LET payload == Serialized(SettingsRules, Built(retained[c]))
                        IN  \A device \in DeviceStates :
                                LET after == Merged(device, payload)
                                IN  /\ Shown(after) = Wanted(retained[c])
                                    /\ \A f \in Unmanaged : after[f] = device[f]
        BY DEF RetainedIsSelfContained
    <2>1. retained[c] \in Settings
        BY DEF DispatchInv, TypeOK
    <2>2. \A device \in DeviceStates : DOMAIN device = DOMAIN SettingsRules
        BY DEF DeviceStates
    <2> QED BY <2>1, <2>2, PayloadSuffices
<1> QED BY <1>1, DispatchInvariant, PTL
=============================================================================
