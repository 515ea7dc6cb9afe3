--------------------------- MODULE WeatherProofs ---------------------------
(***************************************************************************)
(* The warnings, for any number of devices, any forecasts and intervals,   *)
(* however many devices come and go and whatever is refused; and what a    *)
(* forecast means, for any answer of any length.                           *)
(***************************************************************************)
EXTENDS Weather, Forecasts, TLAPS, WellFoundedInduction

Phases == {"idle", "fetch", "overlay", "clear", "process", "store", "next", "publish"}

\* The phases in which poll.at is the instant of the poll.
Decided == {"overlay", "process", "store", "next", "publish"}

Warnings == [type : Types, at : Times]

EventStates ==
    [active : BOOLEAN,
     fingerprint : {Fingerprint(c) : c \in Candidates} \cup {NoValue},
     severity : {c.severity : c \in Candidates} \cup {None},
     lastSent : Times \cup {NoValue},
     lastSeen : Times \cup {NoValue},
     missing : Nat]

PollStates ==
    [phase : Phases, fetchStart : Times, at : Times,
     candidates : SUBSET Candidates, toNotify : SUBSET Candidates,
     targets : SUBSET Clients]

TypeOK ==
    /\ now \in Times
    /\ poll \in PollStates
    /\ states \in [Types -> EventStates]
    /\ batch \in Batches \cup {NoBatch}
    /\ registered \subseteq Clients
    /\ replay \in [Clients -> {"none", "queued", "sending", "done"}]
    /\ pending \in [Clients -> SUBSET Warnings]
    /\ failed \in BOOLEAN
    /\ connectedAt \in [Clients -> Times]
    /\ heard \in [Clients -> SUBSET Warnings]
    /\ excused \in [Clients -> SUBSET Warnings]

\* The order of the instants: a poll's fetch starts before its decision, and no
\* event was notified after the poll that is being decided.
InOrder ==
    /\ poll.phase = "fetch" => poll.fetchStart <= now
    /\ poll.phase \in Decided => poll.fetchStart <= poll.at /\ poll.at <= now
    /\ \A e \in Types : states[e].lastSent # NoValue =>
          /\ states[e].lastSent <= now
          /\ poll.phase \in Decided => states[e].lastSent <= poll.at

\* An active event was seen, and not before it was last notified.
SeenSince ==
    \A e \in Types :
        /\ states[e].active => states[e].lastSeen # NoValue
        /\ states[e].lastSent # NoValue =>
              states[e].lastSeen # NoValue /\ states[e].lastSent <= states[e].lastSeen

\* A poll has at most one candidate of each type.
OnePerType ==
    \A c, d \in poll.candidates : c.type = d.type => c = d

\* Between Process and Store the candidates to notify are already marked as
\* notified; the batch follows.
Marked ==
    poll.phase = "store" =>
        \A c \in poll.toNotify : states[c.type].lastSent = poll.at

LatestBatch ==
    ~failed /\ poll.phase # "store" =>
        /\ \A e \in Types : states[e].lastSent # NoValue =>
              batch # NoBatch /\ states[e].lastSent <= batch.notifiedAt
        /\ batch # NoBatch =>
              /\ batch.fetchedAt <= batch.notifiedAt
              /\ \A c \in batch.candidates :
                    states[c.type].lastSent = batch.notifiedAt

\* The warnings of the running poll that it will still publish to a device.
OnTheWay(c) ==
    {Said(x, poll.at) : x \in
        IF poll.phase = "publish" /\ c \notin poll.targets
        THEN poll.toNotify \ {First(poll.toNotify)}
        ELSE poll.toNotify}

\* The poll has something to publish only once it has decided.
ToPublish ==
    /\ poll.phase \notin {"store", "next", "publish"} => poll.toNotify = {}
    /\ poll.phase = "publish" => poll.toNotify # {}

Told(c) == heard[c] \cup excused[c] \cup OnTheWay(c)

\* The batch reaches each device that is ready: it was told, or the poll or its
\* replay is about to tell it.
BatchReaches ==
    ~failed => \A c \in registered :
        /\ replay[c] = "sending" => Remembered \subseteq Told(c) \cup pending[c]
        /\ replay[c] = "done" => Remembered \subseteq Told(c)

\* The last warning of an event reaches each device that was connected before
\* the poll that sent it.
LastWarningReaches ==
    ~failed => \A c \in registered, e \in Types :
        states[e].lastSent # NoValue /\ connectedAt[c] < states[e].lastSent =>
            [type |-> e, at |-> states[e].lastSent] \in Told(c)

WeatherInv ==
    /\ TypeOK
    /\ InOrder
    /\ OnePerType
    /\ ToPublish
    /\ Marked
    /\ NeverOverdue
    /\ SeenSince
    /\ OverlayIsShown
    /\ LatestBatch
    /\ BatchReaches
    /\ LastWarningReaches

---------------------------------------------------------------------------
(* The operators. *)

LEMMA RankFacts ==
    ASSUME NEW type \in Types
    PROVE  Rank(type) \in 1..7
BY DEF Types, Rank, EventTypes

\* The first of a nonempty set of candidates, or warnings, is one of them.
LEMMA FirstIsIn ==
    ASSUME NEW set, set # {}, \A x \in set : x.type \in Types
    PROVE  First(set) \in set
<1> DEFINE Rest(n) == \A x \in set : Rank(x.type) > n
<1>1. \A x \in set : Rank(x.type) \in 1..7
    BY RankFacts
<1>2. SUFFICES \E x \in set : \A y \in set : Rank(x.type) <= Rank(y.type)
    BY DEF First
<1>3. SUFFICES ASSUME \A x \in set : \E y \in set : ~ (Rank(x.type) <= Rank(y.type))
               PROVE  FALSE
    OBVIOUS
<1>4. \A n \in 0..6 : Rest(n) => Rest(n + 1)
    <2> SUFFICES ASSUME NEW n \in 0..6, Rest(n), NEW x \in set
                 PROVE  Rank(x.type) > n + 1
        OBVIOUS
    <2>1. PICK y \in set : ~ (Rank(x.type) <= Rank(y.type))
        BY <1>3
    <2> QED BY <1>1, <2>1
<1>5. Rest(0)
    BY <1>1
<1>6. Rest(1)
    BY <1>4, <1>5
<1>7. Rest(2)
    BY <1>4, <1>6
<1>8. Rest(3)
    BY <1>4, <1>7
<1>9. Rest(4)
    BY <1>4, <1>8
<1>10. Rest(5)
    BY <1>4, <1>9
<1>11. Rest(6)
    BY <1>4, <1>10
<1>12. Rest(7)
    BY <1>4, <1>11
<1> QED BY <1>1, <1>12

\* detect_events finds at most one candidate of each type.
LEMMA DetectedFacts ==
    ASSUME NEW points \in Forecasts, NEW t \in Times
    PROVE  /\ DetectEvents(points, t) \subseteq Candidates
           /\ \A c \in DetectEvents(points, t) : c.type \in Types
           /\ \A c, d \in DetectEvents(points, t) : c.type = d.type => c = d
<1>1. DetectEvents(points, t) \subseteq Candidates
    BY DEF Candidates
<1>2. \A c \in DetectEvents(points, t) : \E type \in Config.enabled :
        c = RecordEvent(type, points, DetectedAt(type, points, t))
    BY DEF DetectEvents
<1>3. \A type, steps : RecordEvent(type, points, steps).type = type
    BY DEF RecordEvent
<1> QED BY <1>1, <1>2, <1>3, WeatherEventsAssumption

LEMMA CandidateTypes ==
    ASSUME NEW c \in Candidates
    PROVE  c.type \in Types
BY DetectedFacts DEF Candidates

LEMMA SaidIsWarning ==
    ASSUME NEW c \in Candidates, NEW at \in Times
    PROVE  Said(c, at) \in Warnings
BY CandidateTypes DEF Said, Warnings

---------------------------------------------------------------------------
(* The type of each state. *)

LEMMA InitType ==
    Init => TypeOK
<1> SUFFICES ASSUME Init
             PROVE  TypeOK
    OBVIOUS
<1>1. 0 \in Times
    BY WeatherAssumption DEF Times
<1>2. Idle \in PollStates
    BY <1>1 DEF Idle, PollStates, Phases
<1>3. Unseen \in EventStates
    BY DEF Unseen, EventStates
<1> QED BY <1>1, <1>2, <1>3 DEF Init, TypeOK

\* An event's state stays one.
LEMMA ProcessedType ==
    ASSUME TypeOK
    PROVE  Processed \in [Types -> EventStates]
<1> SUFFICES ASSUME NEW e \in Types
             PROVE  Processed[e] \in EventStates
    BY DEF Processed
<1>1. states[e] \in EventStates /\ poll.at \in Times /\ poll.candidates \subseteq Candidates
    BY DEF TypeOK, PollStates
<1>2. ASSUME NEW c \in Candidates
      PROVE  Seen(states[e], c) \in EventStates
    BY <1>1 DEF Seen, EventStates
<1>3. Missed(states[e]) \in EventStates
    <2>1. states[e].missing + 1 \in Nat
        BY <1>1 DEF EventStates
    <2> QED BY <1>1, <2>1 DEF Missed, EventStates
<1>4. CASE \E c \in poll.candidates : c.type = e
    <2>1. (CHOOSE c \in poll.candidates : c.type = e) \in Candidates
        BY <1>1, <1>4
    <2> QED BY <1>2, <1>4, <2>1 DEF Processed
<1> QED BY <1>3, <1>4 DEF Processed

LEMMA EndPollType ==
    ASSUME TypeOK, EndPoll
    PROVE  poll' \in PollStates
BY WeatherAssumption DEF EndPoll, Idle, PollStates, Phases, Times

LEMMA PublishToType ==
    ASSUME TypeOK, NEW c \in Clients, NEW said \in Warnings, NEW accepted \in BOOLEAN,
           PublishTo(c, said, accepted)
    PROVE  /\ heard' \in [Clients -> SUBSET Warnings]
           /\ excused' \in [Clients -> SUBSET Warnings]
           /\ connectedAt' = connectedAt
BY DEF TypeOK, PublishTo

\* A step of the poll keeps the types.
LEMMA PollType ==
    ASSUME TypeOK, ToPublish, Poll
    PROVE  TypeOK'
<1> USE DEF memoryVars, deviceVars, worldVars, errorVars, historyVars
<1>1. CASE StartPoll
    BY <1>1 DEF StartPoll, TypeOK, PollStates, Phases
<1>2. CASE \E points \in Forecasts : FetchDone(points)
    <2> PICK points \in Forecasts : FetchDone(points)
        BY <1>2
    <2>1. CASE "memory" \in poisoned
        BY <2>1, EndPollType DEF FetchDone, FailPoll, TypeOK
    <2>2. CASE "memory" \notin poisoned
        <3>1. PICK p \in {"overlay", "process"} :
                poll' = [poll EXCEPT !.phase = p, !.at = now,
                                     !.candidates = DetectEvents(points, now)]
            BY <2>2 DEF FetchDone
        <3>2. DetectEvents(points, now) \subseteq Candidates
            BY DetectedFacts DEF TypeOK
        <3>3. poll' \in PollStates
            BY <3>1, <3>2 DEF TypeOK, PollStates, Phases
        <3> QED BY <2>2, <3>3 DEF FetchDone, TypeOK
    <2> QED BY <2>1, <2>2
<1>3. CASE FetchFailed
    <2>1. CASE EndPoll
        BY <1>3, <2>1, EndPollType DEF FetchFailed, FailPoll, TypeOK
    <2>2. CASE Goto("clear")
        BY <1>3, <2>2, EndPollType DEF FetchFailed, FailPoll, Goto, TypeOK, PollStates, Phases
    <2> QED BY <1>3, <2>1, <2>2 DEF FetchFailed, FailPoll
<1>4. CASE FetchCancelled
    BY <1>4, EndPollType DEF FetchCancelled, TypeOK
<1>5. CASE SetOverlay
    BY <1>5, EndPollType DEF SetOverlay, Goto, TypeOK, PollStates, Phases
<1>6. CASE Process
    <2>1. CASE "states" \in poisoned
        BY <1>6, <2>1, EndPollType DEF Process, FailPoll, TypeOK
    <2>2. CASE "states" \notin poisoned /\ ToNotify = {}
        BY <1>6, <2>2, EndPollType, ProcessedType DEF Process, TypeOK
    <2>3. CASE "states" \notin poisoned /\ ToNotify # {}
        <3>1. ToNotify \in SUBSET Candidates
            BY DEF ToNotify, TypeOK, PollStates
        <3>2. poll' \in PollStates
            <4>1. poll' = [poll EXCEPT !.phase = "store", !.toNotify = ToNotify]
                BY <1>6, <2>3 DEF Process
            <4> QED BY <3>1, <4>1 DEF TypeOK, PollStates, Phases
        <3> QED BY <1>6, <2>3, <3>2, ProcessedType DEF Process, TypeOK
    <2> QED BY <2>1, <2>2, <2>3
<1>7. CASE Store
    <2>1. CASE "memory" \in poisoned
        BY <1>7, <2>1, EndPollType DEF Store, FailPoll, TypeOK
    <2>2. CASE "memory" \notin poisoned
        BY <1>7, <2>2 DEF Store, Goto, TypeOK, PollStates, Phases, Batches
    <2> QED BY <2>1, <2>2
<1>8. CASE NextCandidate
    <2>1. CASE poll.toNotify = {}
        BY <1>8, <2>1, EndPollType DEF NextCandidate, TypeOK
    <2>2. CASE poll.toNotify # {}
        <3>1. poll' \in PollStates
            <4>1. PICK targets \in SUBSET Clients :
                    poll' = [poll EXCEPT !.phase = "publish", !.targets = targets]
                BY <1>8, <2>2 DEF NextCandidate, TypeOK
            <4> QED BY <4>1 DEF TypeOK, PollStates, Phases
        <3>2. failed' \in BOOLEAN
            BY <1>8, <2>2 DEF NextCandidate, TypeOK
        <3> QED BY <1>8, <2>2, <3>1, <3>2 DEF NextCandidate, TypeOK
    <2> QED BY <2>1, <2>2
<1>9. CASE \E c \in Clients, accepted \in BOOLEAN : PublishNext(c, accepted)
    <2> PICK c \in Clients, accepted \in BOOLEAN : PublishNext(c, accepted)
        BY <1>9
    <2>1. First(poll.toNotify) \in Candidates
        BY FirstIsIn, CandidateTypes DEF PublishNext, ToPublish, TypeOK, PollStates
    <2>2. Said(First(poll.toNotify), poll.at) \in Warnings
        BY <2>1, SaidIsWarning DEF TypeOK, PollStates
    <2>3. poll' \in PollStates
        BY DEF PublishNext, TypeOK, PollStates
    <2> QED BY <2>2, <2>3, PublishToType DEF PublishNext, TypeOK
<1>10. CASE PublishedAll
    BY <1>10 DEF PublishedAll, TypeOK, PollStates, Phases
<1> QED BY <1>1, <1>2, <1>3, <1>4, <1>5, <1>6, <1>7, <1>8, <1>9, <1>10 DEF Poll

LEMMA RememberedType ==
    ASSUME TypeOK
    PROVE  Remembered \subseteq Warnings
<1>1. CASE batch = NoBatch
    BY <1>1 DEF Remembered
<1>2. CASE batch # NoBatch
    <2>1. batch.candidates \subseteq Candidates /\ batch.notifiedAt \in Times
        BY <1>2 DEF TypeOK, Batches
    <2> QED BY <1>2, <2>1, SaidIsWarning DEF Remembered
<1> QED BY <1>1, <1>2

\* A step of a device keeps the types.
LEMMA DeviceType ==
    ASSUME TypeOK, NEW c \in Clients, Device(c)
    PROVE  TypeOK'
<1> USE DEF pollVars, memoryVars, worldVars, errorVars, historyVars
<1>1. CASE Register(c)
    BY <1>1 DEF Register, TypeOK
<1>2. CASE Unregister(c)
    BY <1>2 DEF Unregister, TypeOK
<1>3. CASE DeviceReady(c)
    BY <1>3 DEF DeviceReady, TypeOK
<1>4. CASE Replay(c)
    BY <1>4, RememberedType DEF Replay, TypeOK
<1>5. CASE \E accepted \in BOOLEAN : ReplayNext(c, accepted)
    <2> PICK accepted \in BOOLEAN : ReplayNext(c, accepted)
        BY <1>5
    <2>1. First(pending[c]) \in Warnings
        BY FirstIsIn DEF ReplayNext, TypeOK, Warnings
    <2> QED BY <2>1, PublishToType DEF ReplayNext, TypeOK
<1>6. CASE ReplayedAll(c)
    BY <1>6 DEF ReplayedAll, TypeOK
<1> QED BY <1>1, <1>2, <1>3, <1>4, <1>5, <1>6 DEF Device

LEMMA TypeStep ==
    ASSUME TypeOK, ToPublish, [Next]_vars
    PROVE  TypeOK'
<1> USE DEF pollVars, memoryVars, deviceVars, worldVars, errorVars, historyVars
<1>1. CASE Poll
    BY <1>1, PollType
<1>2. CASE \E c \in Clients : Device(c)
    BY <1>2, DeviceType
<1>3. CASE Tick
    <2>1. now' \in Times
        BY <1>3, WeatherAssumption DEF Tick, TypeOK, Times
    <2> QED BY <1>3, <2>1 DEF Tick, TypeOK
<1>4. CASE Cancel
    BY <1>4 DEF Cancel, TypeOK
<1>5. CASE \E lock \in Locks : Poison(lock)
    BY <1>5 DEF Poison, TypeOK
<1>6. CASE UNCHANGED vars
    BY <1>6 DEF vars, TypeOK
<1> QED BY <1>1, <1>2, <1>3, <1>4, <1>5, <1>6 DEF Next

---------------------------------------------------------------------------
(* What StateManager::process does to an event, and what the steps outside *)
(* the poll leave alone.                                                   *)

\* Exactly the events to notify are marked with the instant of the poll.
LEMMA ProcessMarks ==
    ASSUME TypeOK, OnePerType, NEW e \in Types
    PROVE  /\ (\E c \in ToNotify : c.type = e) => Processed[e].lastSent = poll.at
           /\ ~ (\E c \in ToNotify : c.type = e) =>
                 Processed[e].lastSent = states[e].lastSent
<1>1. states[e] \in EventStates
    BY DEF TypeOK
<1>2. CASE \E c \in poll.candidates : c.type = e
    <2> DEFINE c == CHOOSE x \in poll.candidates : x.type = e
    <2>1. c \in poll.candidates /\ c.type = e
        BY <1>2
    <2>2. Processed[e] = Seen(states[e], c)
        BY <1>2 DEF Processed
    <2>3. (\E x \in ToNotify : x.type = e) <=> ShouldNotify(states[e], c)
        BY <2>1 DEF ToNotify, OnePerType
    <2> QED BY <2>2, <2>3 DEF Seen
<1>3. CASE ~ \E c \in poll.candidates : c.type = e
    <2>1. Processed[e] = Missed(states[e])
        BY <1>3 DEF Processed
    <2>2. Missed(states[e]).lastSent = states[e].lastSent
        BY <1>1 DEF Missed, EventStates
    <2> QED BY <1>3, <2>1, <2>2 DEF ToNotify
<1> QED BY <1>2, <1>3

\* An event that is not notified again was notified within the interval.
LEMMA ProcessInTime ==
    ASSUME TypeOK, NEW e \in Types,
           states[e].lastSeen # NoValue =>
              /\ states[e].lastSent # NoValue
              /\ states[e].lastSeen - states[e].lastSent < RepeatInterval
    PROVE  Processed[e].lastSeen # NoValue =>
              /\ Processed[e].lastSent # NoValue
              /\ Processed[e].lastSeen - Processed[e].lastSent < RepeatInterval
<1>1. states[e] \in EventStates /\ poll.at \in Times
    BY DEF TypeOK, PollStates
<1>2. /\ RepeatInterval \in Nat /\ RepeatInterval > 0
      /\ \A t \in Times : t \in Int /\ t # NoValue
    BY WeatherEventsAssumption, WeatherAssumption DEF Times
<1>3. CASE \E c \in poll.candidates : c.type = e
    <2> DEFINE c == CHOOSE x \in poll.candidates : x.type = e
    <2>1. Processed[e] = Seen(states[e], c)
        BY <1>3 DEF Processed
    <2>2. CASE ShouldNotify(states[e], c)
        <3>1. Processed[e].lastSent = poll.at /\ Processed[e].lastSeen = poll.at
            BY <2>1, <2>2 DEF Seen
        <3> QED BY <1>1, <1>2, <3>1
    <2>3. CASE ~ ShouldNotify(states[e], c)
        <3>1. Processed[e].lastSent = states[e].lastSent /\ Processed[e].lastSeen = poll.at
            BY <2>1, <2>3 DEF Seen
        <3>2. /\ states[e].lastSent # NoValue
              /\ ~ (poll.at - states[e].lastSent >= RepeatInterval)
            BY <2>3 DEF ShouldNotify
        <3>3. states[e].lastSent \in Times
            BY <1>1, <3>2 DEF EventStates
        <3> QED BY <1>1, <1>2, <3>1, <3>2, <3>3
    <2> QED BY <2>2, <2>3
<1>4. CASE ~ \E c \in poll.candidates : c.type = e
    <2>1. Processed[e] = Missed(states[e])
        BY <1>4 DEF Processed
    <2>2. /\ Missed(states[e]).lastSent = states[e].lastSent
          /\ Missed(states[e]).lastSeen = states[e].lastSeen
        BY <1>1 DEF Missed, EventStates
    <2> QED BY <2>1, <2>2
<1> QED BY <1>3, <1>4

\* The steps of the devices and of the world leave the poll and its memory
\* alone; a failure stays.
LEMMA OutsideSteps ==
    ASSUME TypeOK, [Next]_vars, ~Poll
    PROVE  /\ poll' = poll
           /\ UNCHANGED memoryVars
           /\ now' \in {now, now + 1}
           /\ failed => failed'
<1> USE DEF pollVars, memoryVars, deviceVars, worldVars, errorVars, historyVars
<1>1. CASE \E c \in Clients : Device(c)
    <2> PICK c \in Clients : Device(c)
        BY <1>1
    <2>1. CASE Register(c) \/ Unregister(c) \/ DeviceReady(c) \/ ReplayedAll(c)
        BY <2>1 DEF Register, Unregister, DeviceReady, ReplayedAll
    <2>2. CASE Replay(c)
        BY <2>2 DEF Replay, TypeOK
    <2>3. CASE \E accepted \in BOOLEAN : ReplayNext(c, accepted)
        BY <2>3 DEF ReplayNext
    <2> QED BY <2>1, <2>2, <2>3 DEF Device
<1>2. CASE Tick \/ Cancel
    BY <1>2 DEF Tick, Cancel
<1>3. CASE \E lock \in Locks : Poison(lock)
    BY <1>3 DEF Poison
<1>4. CASE UNCHANGED vars
    BY <1>4 DEF vars
<1> QED BY <1>1, <1>2, <1>3, <1>4 DEF Next

\* Of the poll's steps only Process changes the events, and only Store the
\* batch, none the clock; a failure stays.
LEMMA PollSteps ==
    ASSUME TypeOK, Poll
    PROVE  /\ now' = now
           /\ failed => failed'
           /\ states' # states => Process
           /\ batch' # batch => Store
           /\ UNCHANGED <<registered, replay, pending, connectedAt>>
<1> USE DEF memoryVars, deviceVars, worldVars, errorVars, historyVars, FailPoll
<1>1. CASE StartPoll \/ (\E points \in Forecasts : FetchDone(points)) \/ FetchFailed
    BY <1>1 DEF StartPoll, FetchDone, FetchFailed
<1>2. CASE FetchCancelled \/ PublishedAll
    BY <1>2 DEF FetchCancelled, PublishedAll
<1>3. CASE Process \/ Store
    BY <1>3 DEF Process, Store
<1>4. CASE \E c \in Clients, accepted \in BOOLEAN : PublishNext(c, accepted)
    BY <1>4 DEF PublishNext, PublishTo
<1>5. CASE SetOverlay
    BY <1>5 DEF SetOverlay, TypeOK
<1>6. CASE NextCandidate
    BY <1>6 DEF NextCandidate, TypeOK
<1> QED BY <1>1, <1>2, <1>3, <1>4, <1>5, <1>6 DEF Poll

---------------------------------------------------------------------------
(* The parts of the invariant, step by step. *)

LEMMA ControlStep ==
    ASSUME TypeOK, ToPublish, OnePerType, [Next]_vars
    PROVE  ToPublish' /\ OnePerType'
<1> USE DEF EndPoll, FailPoll, Goto
<1>1. CASE ~Poll
    BY <1>1, OutsideSteps DEF ToPublish, OnePerType
<1>2. CASE EndPoll
    BY <1>2 DEF Idle, ToPublish, OnePerType
<1>3. CASE StartPoll
    BY <1>3 DEF StartPoll, TypeOK, PollStates, ToPublish, OnePerType
<1>4. CASE ~EndPoll /\ \E points \in Forecasts : FetchDone(points)
    <2> PICK points \in Forecasts : FetchDone(points)
        BY <1>4
    <2>1. /\ poll'.phase \in {"overlay", "process"}
          /\ poll'.toNotify = poll.toNotify
          /\ poll'.candidates = DetectEvents(points, now)
        BY <1>4 DEF FetchDone, TypeOK, PollStates
    <2> QED BY <2>1, DetectedFacts DEF FetchDone, TypeOK, ToPublish, OnePerType
<1>5. CASE ~EndPoll /\ (FetchFailed \/ SetOverlay)
    BY <1>5 DEF FetchFailed, SetOverlay, TypeOK, PollStates, ToPublish, OnePerType
<1>6. CASE ~EndPoll /\ (Process \/ Store)
    <2>1. poll'.phase \in {"store", "next"} /\ poll'.candidates = poll.candidates
        BY <1>6 DEF Process, Store, TypeOK, PollStates
    <2> QED BY <2>1 DEF ToPublish, OnePerType
<1>7. CASE ~EndPoll /\ NextCandidate
    <2>1. /\ poll.toNotify # {}
          /\ poll'.phase = "publish"
          /\ poll'.toNotify = poll.toNotify
          /\ poll'.candidates = poll.candidates
        BY <1>7 DEF NextCandidate, TypeOK, PollStates
    <2> QED BY <2>1 DEF ToPublish, OnePerType
<1>8. CASE PublishedAll \/ \E c \in Clients, accepted \in BOOLEAN : PublishNext(c, accepted)
    BY <1>8 DEF PublishNext, PublishedAll, TypeOK, PollStates, ToPublish, OnePerType
<1>9. FetchCancelled => EndPoll
    BY DEF FetchCancelled
<1> QED BY <1>1, <1>2, <1>3, <1>4, <1>5, <1>6, <1>7, <1>8, <1>9 DEF Poll

LEMMA OrderStep ==
    ASSUME TypeOK, TypeOK', OnePerType, InOrder, [Next]_vars
    PROVE  InOrder'
<1> USE DEF EndPoll, FailPoll, Goto
<1>1. \A t \in Times : t \in Int
    BY WeatherAssumption DEF Times
<1>2. now \in Int /\ now' \in Int /\ now <= now'
    <2>1. now \in Int /\ now' \in {now, now + 1}
        BY <1>1, OutsideSteps, PollSteps DEF TypeOK
    <2> QED BY <2>1
<1>3. ASSUME NEW e \in Types
      PROVE  /\ states[e].lastSent # NoValue => states[e].lastSent \in Int
             /\ states'[e].lastSent # NoValue => states'[e].lastSent \in Int
    BY <1>1 DEF TypeOK, EventStates
<1>4. poll.at \in Int /\ poll.fetchStart \in Int
    BY <1>1 DEF TypeOK, PollStates
<1>5. CASE ~Poll
    <2>1. poll' = poll /\ states' = states
        BY <1>5, OutsideSteps DEF memoryVars
    <2> QED BY <1>2, <1>3, <1>4, <2>1 DEF InOrder, Decided
<1>6. CASE Process
    <2>1. CASE "states" \in poisoned
        BY <1>6, <2>1, <1>2 DEF Process, memoryVars, worldVars, Idle, InOrder, Decided
    <2>2. CASE "states" \notin poisoned
        <3>1. states' = Processed /\ now' = now
            BY <1>6, <2>2 DEF Process, worldVars
        <3>2. \A e \in Types : Processed[e].lastSent \in {poll.at, states[e].lastSent}
            BY ProcessMarks
        <3>3. poll.phase = "process"
            BY <1>6 DEF Process
        <3>4. \A e \in Types : states'[e].lastSent # NoValue =>
                states'[e].lastSent <= poll.at /\ states'[e].lastSent <= now
            BY <1>3, <1>4, <1>2, <3>1, <3>2, <3>3 DEF InOrder, Decided
        <3>5. CASE poll' = Idle
            BY <3>1, <3>4, <3>5 DEF Idle, InOrder, Decided
        <3>6. CASE poll' # Idle
            <4>1. poll'.phase = "store" /\ poll'.at = poll.at /\ poll'.fetchStart = poll.fetchStart
                BY <1>6, <2>2, <3>6 DEF Process, TypeOK, PollStates
            <4> QED BY <3>1, <3>3, <3>4, <4>1 DEF InOrder, Decided
        <3> QED BY <3>5, <3>6
    <2> QED BY <2>1, <2>2
<1>7. CASE Poll /\ ~Process
    <2>1. states' = states /\ now' = now
        BY <1>7, PollSteps
    <2>2. CASE EndPoll
        BY <2>1, <2>2 DEF Idle, InOrder, Decided
    <2>3. CASE StartPoll
        BY <1>2, <2>1, <2>3 DEF StartPoll, TypeOK, PollStates, InOrder, Decided
    <2>4. CASE ~EndPoll /\ \E points \in Forecasts : FetchDone(points)
        <3>1. /\ poll.phase = "fetch"
              /\ poll'.fetchStart = poll.fetchStart /\ poll'.at = now
              /\ poll'.phase \in {"overlay", "process"}
            BY <2>4 DEF FetchDone, TypeOK, PollStates
        <3> QED BY <1>2, <2>1, <3>1 DEF InOrder, Decided
    <2>5. CASE ~EndPoll /\ FetchFailed
        BY <2>1, <2>5 DEF FetchFailed, TypeOK, PollStates, InOrder, Decided
    <2>6. CASE ~EndPoll /\ SetOverlay
        BY <2>1, <2>6 DEF SetOverlay, TypeOK, PollStates, InOrder, Decided
    <2>7. CASE ~EndPoll /\ Store
        BY <2>1, <2>7 DEF Store, TypeOK, PollStates, InOrder, Decided
    <2>8. CASE ~EndPoll /\ NextCandidate
        <3>1. /\ poll.phase = "next" /\ poll'.phase = "publish"
              /\ poll'.fetchStart = poll.fetchStart /\ poll'.at = poll.at
            <4>1. PICK targets : poll' = [poll EXCEPT !.phase = "publish", !.targets = targets]
                BY <2>8 DEF NextCandidate
            <4>2. poll \in PollStates
                BY DEF TypeOK
            <4>3. poll.phase = "next"
                BY <2>8 DEF NextCandidate
            <4> QED BY <4>1, <4>2, <4>3 DEF PollStates
        <3> QED BY <2>1, <3>1 DEF InOrder, Decided
    <2>9. CASE PublishedAll \/ \E c \in Clients, accepted \in BOOLEAN : PublishNext(c, accepted)
        BY <2>1, <2>9 DEF PublishNext, PublishedAll, TypeOK, PollStates, InOrder, Decided
    <2>10. FetchCancelled => EndPoll
        BY DEF FetchCancelled
    <2> QED BY <1>7, <2>2, <2>3, <2>4, <2>5, <2>6, <2>7, <2>8, <2>9, <2>10 DEF Poll
<1> QED BY <1>5, <1>6, <1>7

\* The poll is between the events and the batch only from Process to Store.
LEMMA StorePhase ==
    ASSUME TypeOK, Poll
    PROVE  /\ poll'.phase = "store" => Process
           /\ poll.phase = "store" => Store
<1> USE DEF EndPoll, FailPoll, Goto, Idle
<1>1. CASE StartPoll \/ FetchCancelled
    <2>1. StartPoll => poll.phase = "idle" /\ poll'.phase = "fetch"
        BY DEF StartPoll, TypeOK, PollStates
    <2>2. FetchCancelled => poll.phase = "fetch" /\ poll'.phase = "idle"
        BY DEF FetchCancelled
    <2> QED BY <1>1, <2>1, <2>2
<1>2. CASE \E points \in Forecasts : FetchDone(points)
    <2>1. poll.phase = "fetch" /\ (poll' = Idle \/ poll'.phase \in {"overlay", "process"})
        BY <1>2 DEF FetchDone, TypeOK, PollStates
    <2> QED BY <2>1
<1>3. CASE FetchFailed
    <2>1. poll.phase = "fetch" /\ (poll' = Idle \/ poll'.phase = "clear")
        BY <1>3 DEF FetchFailed, TypeOK, PollStates
    <2> QED BY <2>1
<1>4. CASE SetOverlay
    BY <1>4 DEF SetOverlay, TypeOK, PollStates
<1>5. CASE Process
    BY <1>5 DEF Process
<1>6. CASE Store
    BY <1>6 DEF Store, TypeOK, PollStates
<1>7. CASE NextCandidate
    <2>1. poll.phase = "next" /\ (poll' = Idle \/ poll'.phase = "publish")
        BY <1>7 DEF NextCandidate, TypeOK, PollStates
    <2> QED BY <2>1
<1>8. CASE \E c \in Clients, accepted \in BOOLEAN : PublishNext(c, accepted)
    BY <1>8 DEF PublishNext, TypeOK, PollStates
<1>9. CASE PublishedAll
    BY <1>9 DEF PublishedAll, TypeOK, PollStates
<1> QED BY <1>1, <1>2, <1>3, <1>4, <1>5, <1>6, <1>7, <1>8, <1>9 DEF Poll

LEMMA MarkedStep ==
    ASSUME TypeOK, OnePerType, Marked, [Next]_vars
    PROVE  Marked'
<1>1. CASE ~Poll
    BY <1>1, OutsideSteps DEF Marked, memoryVars
<1>2. CASE Poll /\ ~Process
    BY <1>2, StorePhase DEF Marked
<1>3. CASE Process
    <2> SUFFICES ASSUME poll'.phase = "store", NEW c \in poll'.toNotify
                 PROVE  states'[c.type].lastSent = poll'.at
        BY DEF Marked
    <2>1. states' = Processed /\ poll'.toNotify = ToNotify /\ poll'.at = poll.at
        <3>1. poll' # Idle
            BY DEF Idle
        <3>2. states' = Processed /\ poll' = [poll EXCEPT !.phase = "store", !.toNotify = ToNotify]
            BY <1>3, <3>1 DEF Process, FailPoll, EndPoll
        <3> QED BY <3>2 DEF TypeOK, PollStates
    <2>2. c \in ToNotify /\ c.type \in Types
        BY <2>1, CandidateTypes DEF ToNotify, TypeOK, PollStates
    <2> QED BY <2>1, <2>2, ProcessMarks
<1> QED BY <1>1, <1>2, <1>3

LEMMA OverdueStep ==
    ASSUME TypeOK, NeverOverdue, [Next]_vars
    PROVE  NeverOverdue'
<1>1. CASE states' = states
    BY <1>1 DEF NeverOverdue
<1>2. CASE states' = Processed
    BY <1>2, ProcessInTime DEF NeverOverdue
<1>3. Process => states' = states \/ states' = Processed
    BY DEF Process, FailPoll, memoryVars
<1> QED BY <1>1, <1>2, <1>3, OutsideSteps, PollSteps DEF memoryVars

LEMMA SeenStep ==
    ASSUME TypeOK, InOrder, SeenSince, [Next]_vars
    PROVE  SeenSince'
<1>1. CASE states' = states
    BY <1>1 DEF SeenSince
<1>2. CASE Process /\ states' = Processed
    <2> SUFFICES ASSUME NEW e \in Types
                 PROVE  /\ Processed[e].active => Processed[e].lastSeen # NoValue
                        /\ Processed[e].lastSent # NoValue =>
                              /\ Processed[e].lastSeen # NoValue
                              /\ Processed[e].lastSent <= Processed[e].lastSeen
        BY <1>2 DEF SeenSince
    <2>1. states[e] \in EventStates /\ poll.at \in Times /\ poll.phase \in Decided
        BY <1>2 DEF TypeOK, PollStates, Process, Decided
    <2>2. \A t \in Times : t \in Int /\ t # NoValue
        BY WeatherEventsAssumption, WeatherAssumption DEF Times
    <2>3. CASE \E c \in poll.candidates : c.type = e
        <3>1. /\ Processed[e].lastSeen = poll.at
              /\ Processed[e].lastSent \in {poll.at, states[e].lastSent}
            BY <2>3 DEF Processed, Seen
        <3>2. states[e].lastSent # NoValue => states[e].lastSent <= poll.at
            BY <2>1 DEF InOrder
        <3> QED BY <2>1, <2>2, <3>1, <3>2
    <2>4. CASE ~ \E c \in poll.candidates : c.type = e
        <3>1. Processed[e] = Missed(states[e])
            BY <2>4 DEF Processed
        <3>2. /\ Missed(states[e]).lastSent = states[e].lastSent
              /\ Missed(states[e]).lastSeen = states[e].lastSeen
              /\ Missed(states[e]).active => states[e].active
            BY <2>1 DEF Missed, EventStates
        <3> QED BY <3>1, <3>2 DEF SeenSince
    <2> QED BY <2>3, <2>4
<1>3. Process => states' = states \/ states' = Processed
    BY DEF Process, FailPoll, memoryVars
<1> QED BY <1>1, <1>2, <1>3, OutsideSteps, PollSteps DEF memoryVars

LEMMA ShownStep ==
    ASSUME TypeOK, OverlayIsShown, [Next]_vars
    PROVE  OverlayIsShown'
<1> USE DEF EndPoll, FailPoll, Goto, Idle, memoryVars
<1>1. CASE ~Poll
    BY <1>1, OutsideSteps DEF OverlayIsShown
<1>2. CASE StartPoll \/ FetchCancelled \/ PublishedAll
    BY <1>2 DEF StartPoll, FetchCancelled, PublishedAll, OverlayIsShown, TypeOK, PollStates,
        errorVars
<1>3. CASE \E points \in Forecasts : FetchDone(points)
    BY <1>3 DEF FetchDone, OverlayIsShown, TypeOK, PollStates
<1>4. CASE FetchFailed
    BY <1>4 DEF FetchFailed, OverlayIsShown, TypeOK, PollStates
<1>5. CASE SetOverlay
    BY <1>5 DEF SetOverlay, OverlayIsShown, TypeOK, PollStates
<1>6. CASE Process
    BY <1>6 DEF Process, OverlayIsShown, TypeOK, PollStates
<1>7. CASE Store
    BY <1>7 DEF Store, OverlayIsShown, TypeOK, PollStates
<1>8. CASE NextCandidate
    BY <1>8 DEF NextCandidate, OverlayIsShown, TypeOK, PollStates
<1>9. CASE \E c \in Clients, accepted \in BOOLEAN : PublishNext(c, accepted)
    BY <1>9 DEF PublishNext, OverlayIsShown, TypeOK, PollStates
<1> QED BY <1>1, <1>2, <1>3, <1>4, <1>5, <1>6, <1>7, <1>8, <1>9 DEF Poll

LEMMA LatestStep ==
    ASSUME TypeOK, OnePerType, InOrder, Marked, LatestBatch, [Next]_vars
    PROVE  LatestBatch'
<1>1. CASE ~Poll
    BY <1>1, OutsideSteps DEF LatestBatch, memoryVars
<1>2. CASE Poll /\ ~Process /\ ~Store
    <2>1. states' = states /\ batch' = batch /\ poll.phase # "store" /\ (failed => failed')
        BY <1>2, PollSteps, StorePhase
    <2> QED BY <2>1 DEF LatestBatch
<1>3. CASE Process
    <2>1. CASE failed' \/ poll'.phase = "store"
        BY <2>1 DEF LatestBatch
    <2>2. CASE ~failed' /\ poll'.phase # "store"
        <3>1. states' = Processed /\ batch' = batch /\ ToNotify = {}
            BY <1>3, <2>2 DEF Process, FailPoll, TypeOK, PollStates
        <3>2. \A e \in Types : states'[e].lastSent = states[e].lastSent
            BY <3>1, ProcessMarks
        <3>3. ~failed /\ poll.phase # "store"
            BY <1>3, <2>2, PollSteps DEF Process, Poll
        <3>4. batch # NoBatch => \A c \in batch.candidates : c.type \in Types
            BY CandidateTypes DEF TypeOK, Batches
        <3> QED BY <3>1, <3>2, <3>3, <3>4 DEF LatestBatch
    <2> QED BY <2>1, <2>2
<1>4. CASE Store
    <2>1. CASE "memory" \in poisoned
        BY <1>4, <2>1 DEF Store, FailPoll, LatestBatch
    <2>2. CASE "memory" \notin poisoned
        <3>1. /\ poll.phase = "store"
              /\ states' = states
              /\ batch' = [candidates |-> poll.toNotify, notifiedAt |-> poll.at,
                           fetchedAt |-> poll.fetchStart]
            BY <1>4, <2>2 DEF Store
        <3>2. batch' \in Batches /\ batch' # NoBatch
            BY <3>1, NoBatchAssumption DEF TypeOK, PollStates, Batches
        <3> QED BY <3>1, <3>2 DEF LatestBatch, InOrder, Marked, Decided
    <2> QED BY <2>1, <2>2
<1> QED BY <1>1, <1>2, <1>3, <1>4

---------------------------------------------------------------------------
(* What each device is told. *)

\* A step that changes neither the poll's list nor what a device heard leaves
\* what it is told.
LEMMA ToldSame ==
    ASSUME NEW c, poll' = poll, heard'[c] = heard[c], excused'[c] = excused[c]
    PROVE  Told(c)' = Told(c)
BY DEF Told, OnTheWay

\* Publishing tells the device: nothing that it is told is lost on the way.
LEMMA PublishToTells ==
    ASSUME TypeOK, NEW c \in Clients, NEW said, NEW accepted \in BOOLEAN,
           PublishTo(c, said, accepted)
    PROVE  /\ heard'[c] \cup excused'[c] = heard[c] \cup excused[c] \cup {said}
           /\ \A d \in Clients \ {c} : heard'[d] = heard[d] /\ excused'[d] = excused[d]
BY DEF TypeOK, PublishTo

\* No step of the poll but Store takes back what a device is told,
\* unless the run has failed.
LEMMA PollTells ==
    ASSUME TypeOK, ToPublish, Poll, ~Store, ~failed', NEW c \in registered
    PROVE  Told(c) \subseteq Told(c)'
<1> USE DEF EndPoll, FailPoll, Goto, Idle
<1>1. c \in Clients
    BY DEF TypeOK
<1>2. CASE heard' = heard /\ excused' = excused /\ poll.toNotify = {}
    BY <1>2 DEF Told, OnTheWay
<1>3. CASE NextCandidate
    <2>1. /\ heard' = heard /\ excused' = excused
          /\ "registry" \notin poisoned \/ poll.toNotify = {}
        BY <1>3 DEF NextCandidate, historyVars, TypeOK
    <2>2. CASE poll.toNotify = {}
        BY <1>2, <1>3, <2>2 DEF NextCandidate, historyVars
    <2>3. CASE poll.toNotify # {}
        <3>1. poll' = [poll EXCEPT !.phase = "publish", !.targets = registered]
            BY <1>3, <2>1, <2>3 DEF NextCandidate
        <3>2. /\ poll.phase = "next"
              /\ poll'.phase = "publish" /\ poll'.targets = registered
              /\ poll'.toNotify = poll.toNotify /\ poll'.at = poll.at
            BY <1>3, <3>1 DEF NextCandidate, TypeOK, PollStates
        <3> QED BY <1>3, <2>1, <2>3, <3>2 DEF Told, OnTheWay, NextCandidate, historyVars
    <2> QED BY <2>2, <2>3
<1>4. CASE \E d \in Clients, accepted \in BOOLEAN : PublishNext(d, accepted)
    <2> PICK d \in Clients, accepted \in BOOLEAN : PublishNext(d, accepted)
        BY <1>4
    <2> DEFINE first == First(poll.toNotify)
    <2>1. /\ poll.phase = "publish" /\ poll'.phase = "publish"
          /\ poll'.targets = poll.targets \ {d}
          /\ poll'.toNotify = poll.toNotify /\ poll'.at = poll.at
        BY DEF PublishNext, TypeOK, PollStates
    <2>2. CASE c = d
        <3>1. Said(first, poll.at) \in heard'[c] \cup excused'[c]
            BY <2>2, PublishToTells DEF PublishNext
        <3>2. heard[c] \cup excused[c] \subseteq heard'[c] \cup excused'[c]
            BY <2>2, PublishToTells DEF PublishNext
        <3> QED BY <2>1, <3>1, <3>2 DEF Told, OnTheWay
    <2>3. CASE c # d
        <3>1. heard'[c] = heard[c] /\ excused'[c] = excused[c]
            BY <1>1, <2>3, PublishToTells DEF PublishNext
        <3> QED BY <2>1, <2>3, <3>1 DEF Told, OnTheWay
    <2> QED BY <2>2, <2>3
<1>5. CASE PublishedAll
    <2>1. /\ heard' = heard /\ excused' = excused
          /\ poll.phase = "publish" /\ poll.targets = {} /\ poll'.phase = "next"
          /\ poll'.toNotify = poll.toNotify \ {First(poll.toNotify)} /\ poll'.at = poll.at
        BY <1>5 DEF PublishedAll, historyVars, TypeOK, PollStates
    <2> QED BY <2>1 DEF Told, OnTheWay
<1>6. CASE StartPoll \/ FetchCancelled \/ FetchFailed \/ \E points \in Forecasts : FetchDone(points)
    BY <1>2, <1>6 DEF StartPoll, FetchCancelled, FetchFailed, FetchDone, historyVars, ToPublish
<1>7. CASE SetOverlay \/ Process
    BY <1>2, <1>7 DEF SetOverlay, Process, historyVars, ToPublish
<1> QED BY <1>3, <1>4, <1>5, <1>6, <1>7 DEF Poll

LEMMA BatchReachesStep ==
    ASSUME TypeOK, ToPublish, BatchReaches, [Next]_vars
    PROVE  BatchReaches'
<1> USE DEF pollVars, memoryVars, deviceVars, worldVars, errorVars, historyVars
<1> SUFFICES ASSUME ~failed', NEW c \in registered'
             PROVE  /\ replay'[c] = "sending" => Remembered' \subseteq Told(c)' \cup pending'[c]
                    /\ replay'[c] = "done" => Remembered' \subseteq Told(c)'
    BY DEF BatchReaches
<1>1. ~failed
    BY OutsideSteps, PollSteps
<1>2. CASE Poll /\ ~Store
    <2>1. Remembered' = Remembered /\ UNCHANGED <<registered, replay, pending>>
        BY <1>2, PollSteps DEF Remembered
    <2>2. Told(c) \subseteq Told(c)'
        BY <1>2, <2>1, PollTells
    <2> QED BY <1>1, <2>1, <2>2 DEF BatchReaches
<1>3. CASE Store
    <2>1. /\ batch' = [candidates |-> poll.toNotify, notifiedAt |-> poll.at,
                       fetchedAt |-> poll.fetchStart]
          /\ poll' = [poll EXCEPT !.phase = "next"]
        BY <1>3 DEF Store, FailPoll, Goto
    <2>2. poll'.phase = "next" /\ poll'.toNotify = poll.toNotify /\ poll'.at = poll.at
        BY <2>1 DEF TypeOK, PollStates
    <2>3. Remembered' \subseteq OnTheWay(c)'
        BY <2>1, <2>2 DEF Remembered, OnTheWay
    <2> QED BY <2>3 DEF Told
<1>4. CASE \E d \in Clients : Device(d)
    <2> PICK d \in Clients : Device(d)
        BY <1>4
    <2>1. Remembered' = Remembered /\ OnTheWay(c)' = OnTheWay(c)
        BY DEF Device, Register, Unregister, DeviceReady, Replay, ReplayNext, ReplayedAll,
            Remembered, OnTheWay
    <2>2. CASE Register(d)
        BY <1>1, <2>1, <2>2, ToldSame DEF Register, BatchReaches, TypeOK
    <2>3. CASE Unregister(d) \/ DeviceReady(d) \/ ReplayedAll(d)
        BY <1>1, <2>1, <2>3, ToldSame DEF Unregister, DeviceReady, ReplayedAll, BatchReaches, TypeOK
    <2>4. CASE Replay(d) /\ c # d
        BY <1>1, <2>1, <2>4, ToldSame DEF Replay, BatchReaches, TypeOK
    <2>5. CASE Replay(d) /\ c = d
        <3>1. /\ replay'[c] = "sending" => pending'[c] = Remembered
              /\ replay'[c] = "done" => Remembered \subseteq excused'[c]
            BY <2>5 DEF Replay, TypeOK
        <3> QED BY <2>1, <3>1 DEF Told
    <2>6. CASE \E accepted \in BOOLEAN : ReplayNext(d, accepted)
        <3> PICK accepted \in BOOLEAN : ReplayNext(d, accepted)
            BY <2>6
        <3>1. replay' = replay /\ registered' = registered /\ replay[d] = "sending"
            BY DEF ReplayNext
        <3>2. CASE c = d
            <4>1. /\ pending'[c] = pending[c] \ {First(pending[c])}
                  /\ heard'[c] \cup excused'[c] = heard[c] \cup excused[c] \cup {First(pending[c])}
                BY <3>2, PublishToTells DEF ReplayNext, TypeOK
            <4> QED BY <1>1, <2>1, <3>1, <3>2, <4>1 DEF BatchReaches, Told
        <3>3. CASE c # d
            <4>1. pending'[c] = pending[c] /\ heard'[c] = heard[c] /\ excused'[c] = excused[c]
                BY <3>1, <3>3, PublishToTells DEF ReplayNext, TypeOK
            <4> QED BY <1>1, <2>1, <3>1, <4>1 DEF BatchReaches, Told
        <3> QED BY <3>2, <3>3
    <2> QED BY <2>2, <2>3, <2>4, <2>5, <2>6 DEF Device
<1>5. CASE Tick \/ Cancel \/ (\E lock \in Locks : Poison(lock)) \/ UNCHANGED vars
    <2>1. UNCHANGED <<registered, replay, pending, poll, batch, heard, excused>>
        BY <1>5 DEF Tick, Cancel, Poison, vars
    <2>2. Remembered' = Remembered /\ Told(c)' = Told(c)
        BY <2>1 DEF Remembered, Told, OnTheWay
    <2> QED BY <1>1, <2>1, <2>2 DEF BatchReaches
<1> QED BY <1>2, <1>3, <1>4, <1>5 DEF Next

LEMMA LastWarningStep ==
    ASSUME TypeOK, TypeOK', ToPublish, OnePerType, InOrder, LastWarningReaches, [Next]_vars
    PROVE  LastWarningReaches'
<1> USE DEF pollVars, memoryVars, deviceVars, worldVars, errorVars, historyVars
<1> SUFFICES ASSUME ~failed', NEW c \in registered', NEW e \in Types,
                    states'[e].lastSent # NoValue, connectedAt'[c] < states'[e].lastSent
             PROVE  [type |-> e, at |-> states'[e].lastSent] \in Told(c)'
    BY DEF LastWarningReaches
<1>1. ~failed
    BY OutsideSteps, PollSteps
<1>2. CASE Poll /\ ~Process /\ ~Store
    BY <1>1, <1>2, PollSteps, PollTells DEF LastWarningReaches
<1>3. CASE Store
    <2>1. /\ states' = states /\ connectedAt' = connectedAt /\ registered' = registered
          /\ heard' = heard /\ excused' = excused
          /\ poll.phase = "store" /\ poll' = [poll EXCEPT !.phase = "next"]
        BY <1>3 DEF Store, FailPoll, Goto
    <2>2. poll'.phase = "next" /\ poll'.toNotify = poll.toNotify /\ poll'.at = poll.at
        BY <2>1 DEF TypeOK, PollStates
    <2>3. Told(c)' = Told(c)
        BY <2>1, <2>2 DEF Told, OnTheWay
    <2> QED BY <1>1, <2>1, <2>3 DEF LastWarningReaches
<1>4. CASE Process
    <2>1. connectedAt' = connectedAt /\ registered' = registered /\ states' = Processed
        BY <1>4 DEF Process, FailPoll
    <2>2. CASE \E x \in ToNotify : x.type = e
        <3>1. PICK x \in ToNotify : x.type = e
            BY <2>2
        <3>2. poll' = [poll EXCEPT !.phase = "store", !.toNotify = ToNotify]
            BY <1>4, <2>2 DEF Process, FailPoll
        <3>3. poll'.phase = "store" /\ poll'.toNotify = ToNotify /\ poll'.at = poll.at
            BY <3>2 DEF TypeOK, PollStates
        <3>4. Said(x, poll.at) \in OnTheWay(c)'
            BY <3>1, <3>3 DEF OnTheWay
        <3>5. states'[e].lastSent = poll.at
            BY <2>1, <2>2, ProcessMarks
        <3> QED BY <3>1, <3>4, <3>5 DEF Told, Said
    <2>3. CASE ~ \E x \in ToNotify : x.type = e
        <3>1. states'[e].lastSent = states[e].lastSent
            BY <2>1, <2>3, ProcessMarks
        <3>2. Told(c) \subseteq Told(c)'
            BY <1>4, <2>1, PollTells DEF Process, Store, Poll
        <3> QED BY <1>1, <2>1, <3>1, <3>2 DEF LastWarningReaches
    <2> QED BY <2>2, <2>3
<1>5. CASE \E d \in Clients : Device(d)
    <2> PICK d \in Clients : Device(d)
        BY <1>5
    <2>1. OnTheWay(c)' = OnTheWay(c) /\ states' = states
        BY DEF Device, Register, Unregister, DeviceReady, Replay, ReplayNext, ReplayedAll, OnTheWay
    <2>2. CASE Register(d) /\ c = d
        <3>1. connectedAt'[c] = now
            BY <2>2 DEF Register, TypeOK
        <3>2. states[e].lastSent \in Int /\ now \in Int
            BY <2>1, WeatherAssumption DEF TypeOK, EventStates, Times
        <3> QED BY <2>1, <3>1, <3>2 DEF InOrder
    <2>3. CASE Register(d) /\ c # d
        BY <1>1, <2>1, <2>3, ToldSame DEF Register, LastWarningReaches, TypeOK
    <2>4. CASE Unregister(d) \/ DeviceReady(d) \/ ReplayedAll(d)
        BY <1>1, <2>1, <2>4, ToldSame DEF Unregister, DeviceReady, ReplayedAll, LastWarningReaches,
            TypeOK
    <2>5. CASE Replay(d) \/ \E accepted \in BOOLEAN : ReplayNext(d, accepted)
        <3>1. registered' = registered /\ connectedAt' = connectedAt
            BY <2>5 DEF Replay, ReplayNext, PublishTo
        <3>2. heard[c] \cup excused[c] \subseteq heard'[c] \cup excused'[c]
            BY <2>5, <3>1 DEF Replay, ReplayNext, PublishTo, TypeOK
        <3> QED BY <1>1, <2>1, <3>1, <3>2 DEF LastWarningReaches, Told
    <2> QED BY <2>2, <2>3, <2>4, <2>5 DEF Device
<1>6. CASE Tick \/ Cancel \/ (\E lock \in Locks : Poison(lock)) \/ UNCHANGED vars
    <2>1. UNCHANGED <<registered, poll, states, connectedAt, heard, excused>>
        BY <1>6 DEF Tick, Cancel, Poison, vars
    <2>2. Told(c)' = Told(c)
        BY <2>1 DEF Told, OnTheWay
    <2> QED BY <1>1, <2>1, <2>2 DEF LastWarningReaches
<1> QED BY <1>2, <1>3, <1>4, <1>5, <1>6 DEF Next

---------------------------------------------------------------------------
(* The theorems. *)

\* The invariant of the weather controller: the types, the order of the
\* instants, and what each device is told.
THEOREM WeatherInvariant == Spec => []WeatherInv
<1>1. Init => WeatherInv
    <2> SUFFICES ASSUME Init
                 PROVE  WeatherInv
        OBVIOUS
    <2>1. TypeOK
        BY InitType
    <2>2. InOrder /\ OnePerType /\ ToPublish /\ Marked /\ NeverOverdue /\ SeenSince
        BY DEF Init, Idle, Unseen, InOrder, Decided, OnePerType, ToPublish, Marked, NeverOverdue,
            SeenSince
    <2>3. OverlayIsShown /\ LatestBatch /\ BatchReaches /\ LastWarningReaches
        BY DEF Init, Idle, Unseen, OverlayIsShown, LatestBatch, BatchReaches, LastWarningReaches
    <2> QED BY <2>1, <2>2, <2>3 DEF WeatherInv
<1>2. WeatherInv /\ [Next]_vars => WeatherInv'
    <2> SUFFICES ASSUME WeatherInv, [Next]_vars
                 PROVE  WeatherInv'
        OBVIOUS
    <2>1. TypeOK'
        BY TypeStep DEF WeatherInv
    <2>2. ToPublish' /\ OnePerType'
        BY ControlStep DEF WeatherInv
    <2>3. InOrder'
        BY <2>1, OrderStep DEF WeatherInv
    <2>4. Marked' /\ LatestBatch'
        BY MarkedStep, LatestStep DEF WeatherInv
    <2>5. NeverOverdue' /\ SeenSince' /\ OverlayIsShown'
        BY OverdueStep, SeenStep, ShownStep DEF WeatherInv
    <2>6. BatchReaches'
        BY BatchReachesStep DEF WeatherInv
    <2>7. LastWarningReaches'
        BY <2>1, LastWarningStep DEF WeatherInv
    <2> QED BY <2>1, <2>2, <2>3, <2>4, <2>5, <2>6, <2>7 DEF WeatherInv
<1> QED BY <1>1, <1>2, PTL DEF Spec

\* No warning of the batch is lost between the poll and the devices that become
\* ready while it runs, whatever the number of devices: on_device_connected and
\* publish_candidate leave no gap.
THEOREM WarningsReach == Spec => []WarningsReachEveryDevice
<1>1. WeatherInv => WarningsReachEveryDevice
    BY DEF WeatherInv, BatchReaches, ToPublish, Told, OnTheWay, WarningsReachEveryDevice
<1> QED BY <1>1, WeatherInvariant, PTL

\* A device that has been connected for a repeat interval knows every event that
\* lasts, though the batch with its first warning was replaced.
THEOREM WarningsRetold == Spec => []WarningsAreRetold
<1>1. WeatherInv => WarningsAreRetold
    <2> SUFFICES ASSUME WeatherInv, poll.phase = "idle", ~failed,
                        NEW c \in registered, NEW e \in Types, states[e].active,
                        states[e].lastSeen - connectedAt[c] >= RepeatInterval
                 PROVE  \E at \in (states[e].lastSeen - RepeatInterval + 1)..states[e].lastSeen :
                            [type |-> e, at |-> at] \in heard[c] \cup excused[c]
        BY DEF WarningsAreRetold
    <2> DEFINE sent == states[e].lastSent
               seen == states[e].lastSeen
    <2>1. /\ seen # NoValue /\ sent # NoValue
          /\ sent <= seen /\ seen - sent < RepeatInterval
        BY DEF WeatherInv, SeenSince, NeverOverdue
    <2>2. /\ sent \in Times /\ seen \in Times /\ connectedAt[c] \in Times
        BY <2>1 DEF WeatherInv, TypeOK, EventStates
    <2>3. /\ sent \in Int /\ seen \in Int /\ connectedAt[c] \in Int /\ RepeatInterval \in Int
        BY <2>2, WeatherAssumption DEF Times
    <2>4. sent \in (seen - RepeatInterval + 1)..seen /\ connectedAt[c] < sent
        BY <2>1, <2>3
    <2>5. [type |-> e, at |-> sent] \in Told(c)
        BY <2>1, <2>4 DEF WeatherInv, LastWarningReaches
    <2>6. OnTheWay(c) = {}
        BY DEF WeatherInv, ToPublish, OnTheWay
    <2> QED BY <2>4, <2>5, <2>6 DEF Told
<1> QED BY <1>1, WeatherInvariant, PTL

\* last_notified holds what was notified last, with the age of its forecast.
THEOREM LatestKept == Spec => []BatchIsTheLatest
<1>1. WeatherInv => BatchIsTheLatest
    BY DEF WeatherInv, LatestBatch, BatchIsTheLatest
<1> QED BY <1>1, WeatherInvariant, PTL

\* process notifies an event that stays in the forecast in every interval.
THEOREM RepeatsInTime == Spec => []NeverOverdue
<1>1. WeatherInv => NeverOverdue
    BY DEF WeatherInv
<1> QED BY <1>1, WeatherInvariant, PTL

\* The overlay that the poll decided on is the one that the settings carry.
THEOREM OverlayShown == Spec => []OverlayIsShown
<1>1. WeatherInv => OverlayIsShown
    BY DEF WeatherInv
<1> QED BY <1>1, WeatherInvariant, PTL

---------------------------------------------------------------------------
(* Numbers and the fold, for the forecasts.                                *)

\* The provers have no induction, but a least counterexample will do.
LEMMA LeastNat ==
    ASSUME NEW T, T \subseteq Nat, T # {}
    PROVE  \E x \in T : \A y \in T : x <= y
<1> DEFINE R == OpToRel(<, Nat)
<1>1. PICK x \in T : \A y \in T : <<y, x>> \notin R
    BY WFMin, NatLessThanWellFounded, Zenon
<1>2. \A y \in T : y < x => <<y, x>> \in R
    BY DEF OpToRel
<1>3. \A y \in T : ~(y < x)
    BY <1>1, <1>2, Zenon
<1> QED BY <1>3

\* A set of numbers that has a lower bound has a minimum, and Min is it.
LEMMA MinFacts ==
    ASSUME NEW S, S \subseteq Int, S # {}, NEW least \in Int, \A x \in S : least <= x
    PROVE  Min(S) \in S /\ \A x \in S : Min(S) <= x
<1> DEFINE T == {x - least : x \in S}
<1>1. T \subseteq Nat /\ T # {}
    <2>1. \A x \in S : x - least \in Nat
        OBVIOUS
    <2> QED BY <2>1
<1>2. PICK d \in T : \A y \in T : d <= y
    BY <1>1, LeastNat, Zenon
<1>3. PICK x \in S : d = x - least
    OBVIOUS
<1>4. \A y \in S : x <= y
    <2> TAKE y \in S
    <2>1. d <= y - least
        BY <1>2
    <2> QED BY <2>1, <1>3
<1> QED BY <1>4 DEF Min

\* A set of naturals that has an upper bound has a maximum, and Max is it.
LEMMA MaxFacts ==
    ASSUME NEW n \in Nat, NEW S, S \subseteq 0..n, S # {}
    PROVE  Max(S) \in S /\ \A x \in S : x <= Max(S)
<1> DEFINE T == {n - x : x \in S}
<1>1. T \subseteq Nat /\ T # {}
    <2>1. \A x \in S : n - x \in Nat
        OBVIOUS
    <2> QED BY <2>1
<1>2. PICK d \in T : \A y \in T : d <= y
    BY <1>1, LeastNat, Zenon
<1>3. PICK x \in S : d = n - x
    OBVIOUS
<1>4. \A y \in S : y <= x
    <2> TAKE y \in S
    <2>1. d <= n - y
        BY <1>2
    <2> QED BY <2>1, <1>3
<1> QED BY <1>4 DEF Max

---------------------------------------------------------------------------
(* The overlay. *)

LEMMA OverlayOfCode ==
    ASSUME NEW code
    PROVE  WmoToOverlay(code) \in Overlays \cup {NoValue}
BY DEF WmoToOverlay, Overlays

LEMMA NoOverlay == NoValue \notin Overlays /\ NoValue \notin Int
BY WeatherEventsAssumption

\* No two overlays have the same priority, and each has one above none.
LEMMA PriorityFacts ==
    ASSUME NEW o \in Overlays \cup {NoValue}
    PROVE  /\ Priority(o) \in 0..6
           /\ Priority(o) = 0 <=> o = NoValue
           /\ \A p \in Overlays \cup {NoValue} : Priority(p) = Priority(o) => p = o
BY NoOverlay DEF Priority, Overlays

\* A step that counts for the overlay.
Ahead(point, t) == t <= point.time /\ point.time < t + Config.overlayHorizon

\* An overlay of one of some steps, or none, that no step of them exceeds.
IsStrongest(o, points, s, t) ==
    /\ o = NoValue \/ \E i \in s : Ahead(points[i], t) /\ o = WmoToOverlay(points[i].code)
    /\ \A i \in s : Ahead(points[i], t) => Priority(WmoToOverlay(points[i].code)) <= Priority(o)

LEMMA StrongestIsOverlay ==
    ASSUME NEW o, NEW points, NEW s, NEW t, IsStrongest(o, points, s, t)
    PROVE  o \in Overlays \cup {NoValue}
BY OverlayOfCode DEF IsStrongest

\* There is only one.
LEMMA StrongestUnique ==
    ASSUME NEW points, NEW s, NEW t, NEW o, NEW p,
           IsStrongest(o, points, s, t), IsStrongest(p, points, s, t)
    PROVE  o = p
<1>1. o \in Overlays \cup {NoValue} /\ p \in Overlays \cup {NoValue}
    BY StrongestIsOverlay
<1>2. Priority(o) \in 0..6 /\ Priority(p) \in 0..6 /\ Priority(NoValue) = 0
    BY <1>1, PriorityFacts
<1>3. Priority(o) <= Priority(p)
    BY <1>2 DEF IsStrongest
<1>4. Priority(p) <= Priority(o)
    BY <1>2 DEF IsStrongest
<1> QED BY <1>1, <1>2, <1>3, <1>4, PriorityFacts

\* A step more replaces the strongest overlay only with a stronger one.
Stronger(best, point, t) ==
    IF /\ t <= point.time /\ point.time < t + Config.overlayHorizon
       /\ Priority(WmoToOverlay(point.code)) > Priority(best)
    THEN WmoToOverlay(point.code) ELSE best

LEMMA StrongestOfMore ==
    ASSUME NEW points, NEW s, NEW t, NEW x \in s, NEW o,
           IsStrongest(o, points, s \ {x}, t)
    PROVE  IsStrongest(Stronger(o, points[x], t), points, s, t)
<1> DEFINE w == WmoToOverlay(points[x].code)
<1> DEFINE pw == Priority(w)
           po == Priority(o)
           P(i) == Priority(WmoToOverlay(points[i].code))
<1>1. o \in Overlays \cup {NoValue} /\ w \in Overlays \cup {NoValue}
    BY StrongestIsOverlay, OverlayOfCode, Zenon
<1>2. pw \in 0..6 /\ po \in 0..6
    BY <1>1, PriorityFacts, Zenon
<1>3. \A i : P(i) \in 0..6
    BY OverlayOfCode, PriorityFacts, Zenon
<1>4. \A i \in s \ {x} : Ahead(points[i], t) => P(i) <= po
    BY DEF IsStrongest
<1>5. CASE Ahead(points[x], t) /\ pw > po
    <2>1. Stronger(o, points[x], t) = w
        BY <1>5 DEF Stronger, Ahead
    <2> HIDE DEF pw, po, P
    <2>2. \A i \in s : Ahead(points[i], t) => P(i) <= pw
        <3> SUFFICES ASSUME NEW i \in s, Ahead(points[i], t)
                     PROVE  P(i) <= pw
            OBVIOUS
        <3>1. CASE i = x
            BY <3>1, <1>2 DEF P, pw
        <3>2. CASE i # x
            <4>1. P(i) <= po
                BY <3>2, <1>4
            <4> QED BY <4>1, <1>2, <1>3, <1>5
        <3> QED BY <3>1, <3>2
    <2> QED BY <1>5, <2>1, <2>2 DEF IsStrongest, P, pw
<1>6. CASE ~(Ahead(points[x], t) /\ pw > po)
    <2>1. Stronger(o, points[x], t) = o
        BY <1>6 DEF Stronger, Ahead
    <2>2. o = NoValue \/ \E i \in s : Ahead(points[i], t) /\ o = WmoToOverlay(points[i].code)
        BY DEF IsStrongest
    <2> HIDE DEF pw, po, P
    <2>3. \A i \in s : Ahead(points[i], t) => P(i) <= po
        <3> SUFFICES ASSUME NEW i \in s, Ahead(points[i], t)
                     PROVE  P(i) <= po
            OBVIOUS
        <3>1. CASE i = x
            <4>1. P(i) = pw
                BY <3>1, Zenon DEF P, pw
            <4>2. ~(pw > po)
                BY <1>6, <3>1, Zenon
            <4> QED BY <4>1, <4>2, <1>2
        <3>2. CASE i # x
            BY <3>2, <1>4
        <3> QED BY <3>1, <3>2
    <2> QED BY <2>1, <2>2, <2>3 DEF IsStrongest, P, po
<1> QED BY <1>5, <1>6

LEMMA StrongestOfNone ==
    ASSUME NEW points, NEW t
    PROVE  IsStrongest(NoValue, points, {}, t)
BY DEF IsStrongest

LEMMA StrongestExists ==
    ASSUME NEW points, NEW s, NEW t
    PROVE  \E o : IsStrongest(o, points, s, t)
<1> DEFINE W == {NoValue} \cup {WmoToOverlay(points[i].code) : i \in {j \in s : Ahead(points[j], t)}}
           T == {6 - Priority(o) : o \in W}
<1>1. W \subseteq Overlays \cup {NoValue}
    BY OverlayOfCode
<1>2. \A o \in W : Priority(o) \in 0..6
    BY <1>1, PriorityFacts
<1>3. T \subseteq Nat /\ T # {}
    BY <1>2
<1>4. PICK d \in T : \A y \in T : d <= y
    BY <1>3, LeastNat, Zenon
<1>5. PICK o \in W : d = 6 - Priority(o)
    OBVIOUS
<1>6. \A p \in W : Priority(p) <= Priority(o)
    <2> TAKE p \in W
    <2>1. d <= 6 - Priority(p)
        BY <1>4
    <2> QED BY <2>1, <1>5, <1>2
<1>7. \A i \in s : Ahead(points[i], t) => WmoToOverlay(points[i].code) \in W
    OBVIOUS
<1>8. o = NoValue \/ \E i \in s : Ahead(points[i], t) /\ o = WmoToOverlay(points[i].code)
    OBVIOUS
<1> QED BY <1>6, <1>7, <1>8 DEF IsStrongest

\* Whatever the fold has seen, it holds the strongest overlay of that.
LEMMA FoldStrongest ==
    ASSUME NEW n \in Nat, NEW points, NEW t, NEW iter,
           iter = [s \in SUBSET (1..n) |->
                     IF s = {} THEN NoValue
                     ELSE Stronger(iter[s \ {Max(s)}], points[Max(s)], t)]
    PROVE  \A s \in SUBSET (1..n) : IsStrongest(iter[s], points, s, t)
<1> DEFINE Good(s) == IsStrongest(iter[s], points, s, t)
           G == {k \in 0..n : \E s \in SUBSET (1..k) : ~Good(s)}
<1>1. \A s \in SUBSET (1..n) : s # {} =>
          Max(s) \in s /\ \A x \in s : x <= Max(s)
    <2> TAKE s \in SUBSET (1..n)
    <2>1. s \subseteq 0..n
        OBVIOUS
    <2> QED BY <2>1, MaxFacts
<1>2. \A s \in SUBSET (1..n) :
          s # {} => iter[s] = Stronger(iter[s \ {Max(s)}], points[Max(s)], t)
    OBVIOUS
<1>3. Good({})
    <2>1. iter[{}] = NoValue
        OBVIOUS
    <2> QED BY <2>1, StrongestOfNone
<1>4. \A s \in SUBSET (1..n) : s # {} /\ Good(s \ {Max(s)}) => Good(s)
    <2> SUFFICES ASSUME NEW s \in SUBSET (1..n), s # {}, Good(s \ {Max(s)})
                 PROVE  Good(s)
        OBVIOUS
    <2>1. Max(s) \in s
        BY <1>1
    <2>2. IsStrongest(iter[s \ {Max(s)}], points, s \ {Max(s)}, t)
        OBVIOUS
    <2>3. IsStrongest(Stronger(iter[s \ {Max(s)}], points[Max(s)], t), points, s, t)
        BY <2>1, <2>2, StrongestOfMore, Zenon
    <2> QED BY <2>3, <1>2
<1> HIDE DEF Good
<1>5. G = {}
    <2> SUFFICES ASSUME G # {}
                 PROVE  FALSE
        OBVIOUS
    <2>1. G \subseteq Nat
        OBVIOUS
    <2>2. PICK k \in G : \A l \in G : k <= l
        BY <2>1, LeastNat, Zenon
    <2>3. PICK s \in SUBSET (1..k) : ~Good(s)
        OBVIOUS
    <2> HIDE DEF G
    <2>9. k \in Nat /\ k <= n
        BY DEF G
    <2>4. s \in SUBSET (1..n) /\ s # {}
        <3>1. \A x \in s : x \in 1..k
            OBVIOUS
        <3>2. \A x \in s : x \in 1..n
            BY <3>1, <2>9
        <3>3. s # {}
            BY <2>3, <1>3
        <3> QED BY <3>2, <3>3
    <2>5. PICK m \in 1..k : m = Max(s) /\ \A x \in s : x <= m
        BY <2>4, <1>1
    <2>6. s \ {m} \in SUBSET (1..(k - 1))
        <3>1. \A x \in s : x \in 1..k /\ x <= m
            BY <2>5
        <3>2. \A x \in s \ {m} : x \in 1..(k - 1)
            BY <3>1, <2>9
        <3> QED BY <3>2
    <2>7. ~Good(s \ {m})
        BY <2>3, <2>4, <2>5, <1>4
    <2>8. k - 1 \in G
        BY <2>9, <2>5, <2>6, <2>7 DEF G
    <2> QED BY <2>9, <2>2, <2>8
<1>6. n \in 0..n
    OBVIOUS
<1> QED BY <1>5, <1>6 DEF Good

\* Every step counts, in whatever order.
LEMMA SelectStrongest ==
    ASSUME NEW n \in Nat, NEW points, DOMAIN points = 1..n, NEW t
    PROVE  IsStrongest(SelectOverlay(points, t), points, DOMAIN points, t)
<1> DEFINE F(s) == CHOOSE o : IsStrongest(o, points, s, t)
           Eq(iter) == iter = [s \in SUBSET (1..n) |->
                                 IF s = {} THEN NoValue
                                 ELSE Stronger(iter[s \ {Max(s)}], points[Max(s)], t)]
           fold == [s \in SUBSET (1..n) |-> F(s)]
<1>1. \A s : IsStrongest(F(s), points, s, t)
    BY StrongestExists, Zenon
<1>2. F({}) = NoValue
    BY <1>1, StrongestOfNone, StrongestUnique, Zenon
<1>3. \A s \in SUBSET (1..n) : s # {} => F(s) = Stronger(F(s \ {Max(s)}), points[Max(s)], t)
    <2> SUFFICES ASSUME NEW s \in SUBSET (1..n), s # {}
                 PROVE  F(s) = Stronger(F(s \ {Max(s)}), points[Max(s)], t)
        OBVIOUS
    <2>1. s \subseteq 0..n
        OBVIOUS
    <2>2. Max(s) \in s
        BY <2>1, MaxFacts
    <2>3. IsStrongest(F(s \ {Max(s)}), points, s \ {Max(s)}, t)
        BY <1>1
    <2> HIDE DEF F
    <2>4. IsStrongest(Stronger(F(s \ {Max(s)}), points[Max(s)], t), points, s, t)
        BY <2>2, <2>3, StrongestOfMore, Zenon
    <2>5. IsStrongest(F(s), points, s, t)
        BY <1>1
    <2> QED BY <2>4, <2>5, StrongestUnique, Zenon
<1>4. Eq(fold)
    <2> HIDE DEF F
    <2>1. \A s \in SUBSET (1..n) : fold[s \ {Max(s)}] = F(s \ {Max(s)})
        OBVIOUS
    <2> QED BY <2>1, <1>2, <1>3
<1> DEFINE iter == CHOOSE i : Eq(i)
<1>5. Eq(iter)
    <2> HIDE DEF fold, Eq
    <2> QED BY <1>4, Zenon
<1>6. IsStrongest(iter[1..n], points, 1..n, t)
    <2>1. \A s \in SUBSET (1..n) : IsStrongest(iter[s], points, s, t)
        <3> HIDE DEF iter
        <3> QED BY <1>5, FoldStrongest, Zenon
    <2> HIDE DEF iter
    <2> QED BY <2>1
<1>7. SelectOverlay(points, t) = iter[1..n]
    BY DEF SelectOverlay, FoldLeft, MapThenFoldSet, Stronger
<1> QED BY <1>6, <1>7

---------------------------------------------------------------------------
(* The forecasts. *)

Answers == [Measurements \cup {"time"} -> Seq(Int \cup {NoValue})]

Points == [Measurements \cup {"time"} -> Int \cup {NoValue}]

IsForecast(points) ==
    points \in Seq(Points) /\ \A i \in DOMAIN points : points[i].time \in Int

\* The forecast is what was parsed, unless it was simulated and nothing fetched.
ForecastsInv ==
    /\ answer \in Answers
    /\ \/ forecast = ParseRaw(answer)
       \/ /\ answer.time = <<>>
          /\ \E code \in Codes, at \in Instants : forecast = SyntheticForecast(code, at)

\* An answer that is accepted: its times are there, its arrays equally long.
Valid(raw) ==
    /\ NoValue \notin {raw.time[i] : i \in 1..Len(raw.time)}
    /\ \A m \in Measurements \ {"visibility"} : Len(raw[m]) = Len(raw.time)

VisibilityOf(raw, i) ==
    IF Len(raw.visibility) = Len(raw.time) /\ raw.visibility[i] # VisibilityAbsent
    THEN raw.visibility[i] ELSE NoValue

LEMMA ParseFacts ==
    ASSUME NEW raw
    PROVE  /\ Valid(raw) =>
                ParseRaw(raw) = [i \in 1..Len(raw.time) |->
                    [a \in DOMAIN raw |->
                        IF a = "visibility" THEN VisibilityOf(raw, i) ELSE raw[a][i]]]
           /\ ~Valid(raw) => ParseRaw(raw) = <<>>
BY DEF ParseRaw, Valid, VisibilityOf

LEMMA ParseType ==
    ASSUME NEW raw \in Answers
    PROVE  IsForecast(ParseRaw(raw))
<1>1. CASE Valid(raw)
    <2> DEFINE n == Len(raw.time)
               at(i) == [a \in DOMAIN raw |->
                            IF a = "visibility" THEN VisibilityOf(raw, i) ELSE raw[a][i]]
    <2>1. n \in Nat /\ DOMAIN raw = Measurements \cup {"time"}
        BY DEF Answers
    <2>2. \A a \in DOMAIN raw \ {"visibility"} : Len(raw[a]) = n
        BY <1>1, <2>1 DEF Valid
    <2>3. \A i \in 1..n : VisibilityOf(raw, i) \in Int \cup {NoValue}
        BY DEF VisibilityOf, Answers, Measurements
    <2>4. \A i \in 1..n : \A a \in DOMAIN raw \ {"visibility"} : raw[a][i] \in Int \cup {NoValue}
        BY <2>1, <2>2 DEF Answers
    <2>5. \A i \in 1..n : at(i) \in Points
        BY <2>1, <2>3, <2>4 DEF Points
    <2>6. \A i \in 1..n : raw.time[i] \in Int
        BY <1>1 DEF Valid, Answers
    <2>7. \A i \in 1..n : at(i).time = raw.time[i]
        BY <2>1
    <2>8. ParseRaw(raw) = [i \in 1..n |-> at(i)]
        BY <1>1, ParseFacts
    <2> HIDE DEF at, n
    <2>9. [i \in 1..n |-> at(i)] \in Seq(Points)
        BY <2>1, <2>5
    <2> QED BY <2>1, <2>6, <2>7, <2>8, <2>9 DEF IsForecast
<1>2. CASE ~Valid(raw)
    <2>1. ParseRaw(raw) = <<>>
        BY <1>2, ParseFacts
    <2>2. <<>> \in Seq(Points) /\ DOMAIN <<>> = {}
        OBVIOUS
    <2> QED BY <2>1, <2>2 DEF IsForecast
<1> QED BY <1>1, <1>2

LEMMA ForecastType ==
    ASSUME ForecastsInv
    PROVE  IsForecast(forecast)
<1>1. CASE forecast = ParseRaw(answer)
    BY <1>1, ParseType DEF ForecastsInv
<1>2. ASSUME NEW code \in Codes, NEW at \in Instants, forecast = SyntheticForecast(code, at)
      PROVE  IsForecast(forecast)
    <2>1. code \in Int /\ at \in Int
        BY ForecastsAssumption
    <2> DEFINE step(i) ==
            [time |-> at + i - 1, code |-> code, precipitation |-> 60, snowfall |-> 2,
             temperature |-> 3, dewPoint |-> 0, gusts |-> 50, visibility |-> 150]
    <2>2. \A i \in 1..48 : step(i) \in Points /\ step(i).time \in Int
        BY <2>1 DEF Points, Measurements
    <2>3. forecast = [i \in 1..48 |-> step(i)]
        BY <1>2 DEF SyntheticForecast
    <2> HIDE DEF step
    <2>4. forecast \in Seq(Points)
        BY <2>2, <2>3
    <2> QED BY <2>2, <2>3, <2>4 DEF IsForecast
<1> QED BY <1>1, <1>2 DEF ForecastsInv

THEOREM ForecastsInvariant == ForecastsSpec => []ForecastsInv
<1>1. ForecastsInit => ForecastsInv
    BY DEF ForecastsInit, ForecastsInv, Answers
<1>2. ForecastsInv /\ [ForecastsNext]_forecastsVars => ForecastsInv'
    <2> SUFFICES ASSUME ForecastsInv, [ForecastsNext]_forecastsVars
                 PROVE  ForecastsInv'
        OBVIOUS
    <2>1. DOMAIN answer = Measurements \cup {"time"} /\ answer \in Answers
        BY DEF ForecastsInv, Answers
    <2>2. ASSUME NEW step \in Steps, NEW time \in Instants \cup {NoValue}, AddStep(step, time)
          PROVE  ForecastsInv'
        <3> DEFINE new(a) == IF a = "time" THEN time ELSE step[a]
        <3>1. \A a \in DOMAIN answer : new(a) \in Int \cup {NoValue}
            BY <2>1, ForecastsAssumption
        <3>2. answer' = [a \in DOMAIN answer |-> Append(answer[a], new(a))]
              /\ forecast' = ParseRaw(answer')
            BY <2>2 DEF AddStep
        <3> HIDE DEF new
        <3>3. answer' \in Answers
            BY <2>1, <3>1, <3>2 DEF Answers
        <3> QED BY <3>2, <3>3 DEF ForecastsInv
    <2>3. ASSUME NEW a \in DOMAIN answer, CutShort(a)
          PROVE  ForecastsInv'
        <3>1. answer[a] \in Seq(Int \cup {NoValue}) /\ answer[a] # <<>>
            BY <2>1, <2>3 DEF Answers, CutShort
        <3>2. Front(answer[a]) \in Seq(Int \cup {NoValue})
            BY <3>1 DEF Front
        <3>3. answer' = [answer EXCEPT ![a] = Front(answer[a])] /\ forecast' = ParseRaw(answer')
            BY <2>3 DEF CutShort
        <3>4. answer' \in Answers
            BY <2>1, <3>2, <3>3 DEF Answers
        <3> QED BY <3>3, <3>4 DEF ForecastsInv
    <2>4. ASSUME NEW code \in Codes, NEW at \in Instants, Simulate(code, at)
          PROVE  ForecastsInv'
        BY <2>1, <2>4 DEF Simulate, ForecastsInv
    <2>5. CASE UNCHANGED forecastsVars
        BY <2>5 DEF forecastsVars, ForecastsInv
    <2> QED BY <2>2, <2>3, <2>4, <2>5 DEF ForecastsNext
<1> QED BY <1>1, <1>2, PTL DEF ForecastsSpec

\* The overlay is the strongest of the steps ahead, whatever their order.
THEOREM OverlayOrder == ForecastsSpec => []OverlayIgnoresOrder
<1>1. ForecastsInv => OverlayIgnoresOrder
    <2> SUFFICES ASSUME ForecastsInv, NEW t \in Instants
                 PROVE  SelectOverlay(forecast, t) = SelectOverlay(Reverse(forecast), t)
        BY DEF OverlayIgnoresOrder
    <2> DEFINE n == Len(forecast)
               back == Reverse(forecast)
               o == SelectOverlay(forecast, t)
               p == SelectOverlay(back, t)
    <2>1. n \in Nat /\ DOMAIN forecast = 1..n
        BY ForecastType DEF IsForecast
    <2>2. back = [i \in 1..n |-> forecast[(n - i) + 1]]
        BY DEF Reverse
    <2>3. IsStrongest(o, forecast, 1..n, t)
        BY <2>1, SelectStrongest
    <2>4. IsStrongest(p, back, 1..n, t)
        <3>1. DOMAIN back = 1..n
            BY <2>2
        <3> HIDE DEF n, back
        <3> QED BY <3>1, <2>1, SelectStrongest
    <2> HIDE DEF n, back, o, p
    <2>5. \A i \in 1..n : \E j \in 1..n : back[j] = forecast[i]
        <3> TAKE i \in 1..n
        <3>1. PICK j \in 1..n : j = (n - i) + 1
            BY <2>1
        <3>2. (n - j) + 1 = i
            BY <2>1, <3>1
        <3> QED BY <2>2, <3>2
    <2>6. \A j \in 1..n : \E i \in 1..n : back[j] = forecast[i]
        <3> TAKE j \in 1..n
        <3>1. (n - j) + 1 \in 1..n
            BY <2>1
        <3> QED BY <2>2, <3>1
    <2>7. IsStrongest(p, forecast, 1..n, t)
        BY <2>4, <2>5, <2>6, Zenon DEF IsStrongest
    <2>8. o = p
        BY <2>3, <2>7, StrongestUnique, Zenon
    <2> QED BY <2>8 DEF o, p, back
<1> QED BY <1>1, ForecastsInvariant, PTL

---------------------------------------------------------------------------
(* The events. *)

Severities == 0..2

LEMMA SeverityValues ==
    ASSUME NEW type \in Types, NEW i, NEW points
    PROVE  SeverityAt(type, i, points) \in Severities
BY DEF Types, EventTypes, SeverityAt, Thunderstorm, FreezingPrecip, FrostRisk, HeavyRain,
       StrongGusts, Snow, Fog, None, Warning, Severe, Severities

LEMMA HorizonFacts ==
    /\ Config.notificationHorizon \in Nat
    /\ Config.overlayHorizon \in Nat
    /\ Config.enabled \subseteq Types
BY WeatherEventsAssumption

\* The event of some steps: the earliest start and the highest severity.
LEMMA EventFacts ==
    ASSUME NEW points, IsForecast(points), NEW t \in Int, NEW type \in Types,
           NEW D, D = DetectedAt(type, points, t), D # {},
           NEW c, c = RecordEvent(type, points, D)
    PROVE  /\ c.type = type
           /\ c.start \in Int /\ t <= c.start /\ c.start <= t + Config.notificationHorizon
           /\ c.severity \in Severities
           /\ \E i \in D : c.start = points[i].time
           /\ \A i \in D : c.start <= points[i].time
           /\ \E i \in D : c.severity = SeverityAt(type, i, points)
           /\ \A i \in D : SeverityAt(type, i, points) <= c.severity
<1> DEFINE A == {points[i].time : i \in D}
           B == {SeverityAt(type, i, points) : i \in D}
<1>1. \A i \in D : /\ points[i].time \in Int
                   /\ t <= points[i].time
                   /\ points[i].time <= t + Config.notificationHorizon
    BY DEF DetectedAt, IsForecast
<1>2. Min(A) \in A /\ \A x \in A : Min(A) <= x
    <2>1. A \subseteq Int /\ A # {} /\ \A x \in A : t <= x
        BY <1>1
    <2> HIDE DEF A
    <2> QED BY <2>1, MinFacts
<1>3. Max(B) \in B /\ \A x \in B : x <= Max(B)
    <2>1. B \subseteq 0..2 /\ B # {}
        BY SeverityValues DEF Severities
    <2> HIDE DEF B
    <2> QED BY <2>1, MaxFacts
<1>4. c.type = type /\ c.start = Min(A) /\ c.severity = Max(B)
    BY DEF RecordEvent
<1>5. PICK i \in D : c.start = points[i].time
    BY <1>2, <1>4
<1>6. \A j \in D : c.start <= points[j].time
    BY <1>2, <1>4
<1>7. PICK k \in D : c.severity = SeverityAt(type, k, points)
    BY <1>3, <1>4
<1>8. \A j \in D : SeverityAt(type, j, points) <= c.severity
    BY <1>3, <1>4
<1>9. c.severity \in Severities
    BY <1>7, SeverityValues
<1> HIDE DEF A, B
<1> QED BY <1>1, <1>4, <1>5, <1>6, <1>7, <1>8, <1>9

LEMMA CandidateFacts ==
    ASSUME NEW points, NEW t, NEW c \in DetectEvents(points, t)
    PROVE  /\ c.type \in Config.enabled /\ c.type \in Types
           /\ DetectedAt(c.type, points, t) # {}
           /\ c = RecordEvent(c.type, points, DetectedAt(c.type, points, t))
<1>1. PICK type \in Config.enabled :
          DetectedAt(type, points, t) # {}
          /\ c = RecordEvent(type, points, DetectedAt(type, points, t))
    BY DEF DetectEvents
<1>2. c.type = type
    BY <1>1 DEF RecordEvent
<1> QED BY <1>1, <1>2, HorizonFacts

\* A step that is detected makes a candidate of its type, no later than the step
\* and no less severe.
LEMMA StepMakesCandidate ==
    ASSUME NEW points, IsForecast(points), NEW t \in Int, NEW type \in Config.enabled,
           NEW i \in DetectedAt(type, points, t)
    PROVE  \E c \in DetectEvents(points, t) :
               /\ c.type = type
               /\ c.severity >= SeverityAt(type, i, points)
               /\ c.start <= points[i].time
<1> DEFINE D == DetectedAt(type, points, t)
           c == RecordEvent(type, points, D)
<1>1. type \in Types /\ D # {}
    BY HorizonFacts
<1>2. c \in DetectEvents(points, t)
    BY <1>1 DEF DetectEvents
<1>3. /\ c.type = type
      /\ c.severity \in Severities
      /\ \A j \in D : c.start <= points[j].time
      /\ \A j \in D : SeverityAt(type, j, points) <= c.severity
    <2> HIDE DEF D, c
    <2> QED BY <1>1, EventFacts DEF D, c
<1>4. SeverityAt(type, i, points) \in Severities
    BY <1>1, SeverityValues
<1> HIDE DEF D, c
<1>5. c.severity >= SeverityAt(type, i, points)
    BY <1>3, <1>4 DEF Severities, D
<1> QED BY <1>2, <1>3, <1>5 DEF D

\* A warning keeps its start until then, and its severity never falls.
THEOREM StartIsStable == ForecastsSpec => []StableUntilStart
<1>1. ForecastsInv => StableUntilStart
    <2> SUFFICES ASSUME ForecastsInv, NEW t \in Instants, NEW u \in Instants,
                        NEW c \in DetectEvents(forecast, t), t <= u, u <= c.start
                 PROVE  \E d \in CandidateOf(c.type, u) :
                            d.start = c.start /\ d.severity >= c.severity
        BY DEF StableUntilStart
    <2> DEFINE type == c.type
               time(i) == forecast[i].time
               sev(i) == SeverityAt(type, i, forecast)
               D == DetectedAt(type, forecast, t)
               E == DetectedAt(type, forecast, u)
               d == RecordEvent(type, forecast, E)
               H == Config.notificationHorizon
    <2>1. IsForecast(forecast)
        BY ForecastType
    <2>2. t \in Int /\ u \in Int /\ H \in Nat
        BY ForecastsAssumption, HorizonFacts
    <2>3. type \in Config.enabled /\ type \in Types /\ D # {} /\ c = RecordEvent(type, forecast, D)
        BY CandidateFacts
    <2>4. /\ c.start \in Int /\ c.start <= t + H
          /\ c.severity \in Severities
          /\ \E i \in D : c.start = time(i)
          /\ \A i \in D : c.start <= time(i)
          /\ \E i \in D : c.severity = sev(i)
        <3> HIDE DEF D, type
        <3> QED BY <2>1, <2>2, <2>3, EventFacts DEF D
    <2>5. \A i \in DOMAIN forecast : time(i) \in Int
        BY <2>1 DEF IsForecast
    <2>6. D \subseteq E
        <3> SUFFICES ASSUME NEW i \in D
                     PROVE  i \in E
            OBVIOUS
        <3>1. i \in DOMAIN forecast /\ t <= time(i) /\ time(i) <= t + H /\ sev(i) # None
            BY DEF DetectedAt
        <3>2. c.start <= time(i)
            BY <2>4
        <3> HIDE DEF time, sev, H
        <3>3. u <= time(i) /\ time(i) <= u + H
            BY <2>2, <2>4, <2>5, <3>1, <3>2
        <3> QED BY <3>1, <3>3 DEF DetectedAt, time, sev, H
    <2>7. \A i \in E : c.start <= time(i)
        <3> SUFFICES ASSUME NEW i \in E
                     PROVE  c.start <= time(i)
            OBVIOUS
        <3>1. i \in DOMAIN forecast /\ u <= time(i) /\ sev(i) # None
            BY DEF DetectedAt
        <3>2. i \in D => c.start <= time(i)
            BY <2>4
        <3>3. i \notin D => ~(t <= time(i) /\ time(i) <= t + H)
            BY <3>1 DEF DetectedAt
        <3> HIDE DEF D, time, H
        <3> QED BY <2>2, <2>4, <2>5, <3>1, <3>2, <3>3
    <2>8. /\ d.type = type
          /\ d.start \in Int
          /\ d.severity \in Severities
          /\ \E i \in E : d.start = time(i)
          /\ \A i \in E : d.start <= time(i)
          /\ \A i \in E : sev(i) <= d.severity
        <3>1. E # {}
            BY <2>3, <2>6
        <3> HIDE DEF D, E, d, type
        <3> QED BY <2>1, <2>2, <2>3, <3>1, EventFacts DEF E, d
    <2>9. d \in CandidateOf(type, u)
        BY <2>3, <2>6, <2>8 DEF CandidateOf, DetectEvents
    <2> HIDE DEF D, E, d, type, time, sev
    <2>10. d.start = c.start
        <3>1. c.start <= d.start
            BY <2>7, <2>8
        <3>2. d.start <= c.start
            BY <2>4, <2>6, <2>8
        <3> QED BY <2>4, <2>8, <3>1, <3>2
    <2>11. d.severity >= c.severity
        <3>1. c.severity <= d.severity
            BY <2>4, <2>6, <2>8
        <3> QED BY <2>4, <2>8, <3>1 DEF Severities
    <2> QED BY <2>9, <2>10, <2>11 DEF type
<1> QED BY <1>1, ForecastsInvariant, PTL

\* The overlay that is shown is of a step within its horizon.
LEMMA ShownStepExists ==
    ASSUME NEW points, IsForecast(points), NEW t,
           NEW o, o = SelectOverlay(points, t), o # NoValue
    PROVE  \E i \in DOMAIN points :
               Ahead(points[i], t) /\ o = WmoToOverlay(points[i].code)
<1>1. Len(points) \in Nat /\ DOMAIN points = 1..Len(points)
    BY DEF IsForecast
<1>2. IsStrongest(o, points, DOMAIN points, t)
    BY <1>1, SelectStrongest
<1> QED BY <1>2 DEF IsStrongest

LEMMA CodesOfOverlays ==
    ASSUME NEW code
    PROVE  /\ WmoToOverlay(code) = "Thunder" => code \in ThunderCodes
           /\ WmoToOverlay(code) = "Frost" => code \in FreezingCodes
           /\ WmoToOverlay(code) = "Storm" => code = StormCode
           /\ WmoToOverlay(code) = "Snow" => code \in SnowCodes
BY NoOverlay DEF WmoToOverlay, Overlays

\* Each of these codes is an event by itself, whatever was measured.
LEMMA SeverityOfCodes ==
    ASSUME NEW points, NEW i
    PROVE  /\ points[i].code \in ThunderCodes =>
                 SeverityAt("Thunderstorm", i, points) \in {Warning, Severe}
           /\ points[i].code \in FreezingCodes =>
                 /\ SeverityAt("FreezingPrecip", i, points) = Severe
                 /\ SeverityAt("FrostRisk", i, points) = Severe
           /\ points[i].code = StormCode => SeverityAt("HeavyRain", i, points) = Severe
           /\ points[i].code \in SnowCodes => SeverityAt("Snow", i, points) \in {Warning, Severe}
<1>1. points[i].code \in ThunderCodes => SeverityAt("Thunderstorm", i, points) \in {Warning, Severe}
    BY DEF SeverityAt, Thunderstorm, ThunderCodes
<1>2. points[i].code \in FreezingCodes => SeverityAt("FreezingPrecip", i, points) = Severe
    BY DEF SeverityAt, FreezingPrecip
<1>3. points[i].code \in FreezingCodes => SeverityAt("FrostRisk", i, points) = Severe
    BY DEF SeverityAt, FrostRisk
<1>4. points[i].code = StormCode => SeverityAt("HeavyRain", i, points) = Severe
    BY DEF SeverityAt, HeavyRain
<1>5. points[i].code \in SnowCodes => SeverityAt("Snow", i, points) \in {Warning, Severe}
    BY DEF SeverityAt, Snow
<1> QED BY <1>1, <1>2, <1>3, <1>4, <1>5

\* What the display shows is warned about.
THEOREM OverlaysWarned == ForecastsSpec => []OverlaysAreWarned
<1>1. ForecastsInv => OverlaysAreWarned
    <2> SUFFICES ASSUME ForecastsInv,
                        Config.overlayHorizon <= Config.notificationHorizon,
                        NEW t \in Instants, NEW o, o = SelectOverlay(forecast, t)
                 PROVE  LET warned(type, least) ==
                                type \in Config.enabled =>
                                \E c \in CandidateOf(type, t) :
                                    c.severity >= least /\ c.start < t + Config.overlayHorizon
                        IN  /\ o = "Thunder" => warned("Thunderstorm", Warning)
                            /\ o = "Frost"   => /\ warned("FreezingPrecip", Severe)
                                                /\ warned("FrostRisk", Severe)
                            /\ o = "Storm"   => warned("HeavyRain", Severe)
                            /\ o = "Snow"    => warned("Snow", Warning)
        BY DEF OverlaysAreWarned
    <2> DEFINE warned(type, least) ==
            type \in Config.enabled =>
            \E c \in CandidateOf(type, t) :
                c.severity >= least /\ c.start < t + Config.overlayHorizon
    <2>1. IsForecast(forecast)
        BY ForecastType
    <2>2. ASSUME NEW type \in Types, NEW least \in {Warning, Severe},
                 NEW i \in DOMAIN forecast, Ahead(forecast[i], t),
                 SeverityAt(type, i, forecast) \in {Warning, Severe},
                 SeverityAt(type, i, forecast) >= least
          PROVE  warned(type, least)
        <3> SUFFICES ASSUME type \in Config.enabled
                     PROVE  \E c \in CandidateOf(type, t) :
                                c.severity >= least /\ c.start < t + Config.overlayHorizon
            OBVIOUS
        <3> DEFINE time == forecast[i].time
                   sev == SeverityAt(type, i, forecast)
        <3>1. t \in Int /\ time \in Int
              /\ Config.overlayHorizon \in Nat /\ Config.notificationHorizon \in Nat
            BY <2>1, ForecastsAssumption, HorizonFacts DEF IsForecast
        <3>2. t <= time /\ time < t + Config.overlayHorizon
            BY <2>2 DEF Ahead
        <3>3. sev \in {1, 2} /\ least \in {1, 2} /\ sev >= least /\ sev # None
            BY <2>2 DEF Warning, Severe, None
        <3>4. time <= t + Config.notificationHorizon
            <4> HIDE DEF time
            <4> QED BY <3>1, <3>2
        <3>5. i \in DetectedAt(type, forecast, t)
            BY <3>2, <3>3, <3>4 DEF DetectedAt
        <3>6. PICK c \in DetectEvents(forecast, t) :
                  c.type = type /\ c.severity >= sev /\ c.start <= time
            <4> HIDE DEF time, sev
            <4> QED BY <2>1, <3>1, <3>5, StepMakesCandidate DEF time, sev
        <3>7. c.severity \in Severities /\ c.start \in Int
            <4>1. c.type \in Types /\ DetectedAt(c.type, forecast, t) # {}
                  /\ c = RecordEvent(c.type, forecast, DetectedAt(c.type, forecast, t))
                BY CandidateFacts
            <4> QED BY <4>1, <2>1, <3>1, EventFacts
        <3> HIDE DEF time, sev
        <3>8. c.severity >= least /\ c.start < t + Config.overlayHorizon
            <4>1. c.severity >= least
                BY <3>3, <3>6, <3>7 DEF Severities
            <4>2. c.start < t + Config.overlayHorizon
                BY <3>1, <3>2, <3>6, <3>7
            <4> QED BY <4>1, <4>2
        <3> QED BY <3>6, <3>8 DEF CandidateOf
    <2>3. {"Thunderstorm", "FreezingPrecip", "FrostRisk", "HeavyRain", "Snow"} \subseteq Types
        BY DEF Types, EventTypes
    <2>4. Severe >= Severe /\ Severe >= Warning /\ Warning >= Warning
          /\ \A s \in {Warning, Severe} : s >= Warning
        BY DEF Severe, Warning
    <2> HIDE DEF warned
    <2>5. ASSUME o \in {"Thunder", "Frost", "Storm", "Snow"}
          PROVE  \E i \in DOMAIN forecast : Ahead(forecast[i], t) /\ o = WmoToOverlay(forecast[i].code)
        <3>1. o # NoValue
            BY <2>5, NoOverlay DEF Overlays
        <3> QED BY <2>1, <3>1, ShownStepExists
    <2>6. o = "Thunder" => warned("Thunderstorm", Warning)
        BY <2>2, <2>3, <2>4, <2>5, CodesOfOverlays, SeverityOfCodes
    <2>7. o = "Frost" => warned("FreezingPrecip", Severe) /\ warned("FrostRisk", Severe)
        BY <2>2, <2>3, <2>4, <2>5, CodesOfOverlays, SeverityOfCodes
    <2>8. o = "Storm" => warned("HeavyRain", Severe)
        BY <2>2, <2>3, <2>4, <2>5, CodesOfOverlays, SeverityOfCodes
    <2>9. o = "Snow" => warned("Snow", Warning)
        BY <2>2, <2>3, <2>4, <2>5, CodesOfOverlays, SeverityOfCodes
    <2> QED BY <2>6, <2>7, <2>8, <2>9 DEF warned
<1> QED BY <1>1, ForecastsInvariant, PTL

\* A step with a measurement that is missing, and otherwise the same.
Lacks(less, point) ==
    /\ less.time = point.time /\ less.visibility = point.visibility
    /\ \A m \in Measurements : less[m] = point[m] \/ less[m] = NoValue

\* A missing measurement raises no severity: no rule reads it as a number.
LEMMA MissingLowers ==
    ASSUME NEW less, NEW points, DOMAIN less = DOMAIN points,
           \A i \in DOMAIN points : Lacks(less[i], points[i]),
           NEW i \in DOMAIN points, NEW type \in Types
    PROVE  SeverityAt(type, i, less) <= SeverityAt(type, i, points)
<1> DEFINE l == less[i]
           p == points[i]
<1>1. /\ l.code = p.code \/ l.code = NoValue
      /\ l.precipitation = p.precipitation \/ l.precipitation = NoValue
      /\ l.snowfall = p.snowfall \/ l.snowfall = NoValue
      /\ l.temperature = p.temperature \/ l.temperature = NoValue
      /\ l.dewPoint = p.dewPoint \/ l.dewPoint = NoValue
      /\ l.gusts = p.gusts \/ l.gusts = NoValue
      /\ l.visibility = p.visibility
    BY DEF Lacks, Measurements
<1>2. NoValue \notin Int
    BY NoOverlay
<1>3. Thunderstorm(l) <= Thunderstorm(p)
    <2> HIDE DEF l, p
    <2> QED BY <1>1, <1>2 DEF Thunderstorm, None, Warning, Severe
<1>4. FreezingPrecip(l) <= FreezingPrecip(p)
    <2> HIDE DEF l, p
    <2> QED BY <1>1, <1>2 DEF FreezingPrecip, FreezingCodes, None, Severe
<1>5. HeavyRain(l) <= HeavyRain(p)
    <2> HIDE DEF l, p
    <2> QED BY <1>1, <1>2 DEF HeavyRain, StormCode, None, Warning, Severe
<1>6. StrongGusts(l) <= StrongGusts(p)
    <2> HIDE DEF l, p
    <2> QED BY <1>1, <1>2 DEF StrongGusts, None, Warning, Severe
<1>7. Snow(l) <= Snow(p)
    <2> HIDE DEF l, p
    <2> QED BY <1>1, <1>2 DEF Snow, SnowCodes, None, Warning, Severe
<1>8. Fog(l) <= Fog(p)
    <2> HIDE DEF l, p
    <2> QED BY <1>1, <1>2 DEF Fog, FogCodes, None, Warning, Severe
<1>9. FrostRisk(i, less) <= FrostRisk(i, points)
    <2>1. HasPrecipitation(i, less) => HasPrecipitation(i, points)
        <3> SUFFICES ASSUME NEW j \in DOMAIN points,
                            less[i].time <= less[j].time,
                            less[j].time <= less[i].time + Config.frostWindow,
                            less[j].precipitation # NoValue,
                            less[j].precipitation >= Config.frostPrecip
                     PROVE  HasPrecipitation(i, points)
            BY DEF HasPrecipitation
        <3>1. less[i].time = points[i].time /\ less[j].time = points[j].time
            BY DEF Lacks
        <3>2. less[j].precipitation = points[j].precipitation
            BY DEF Lacks, Measurements
        <3> QED BY <3>1, <3>2 DEF HasPrecipitation
    <2> HIDE DEF l, p
    <2> DEFINE frozen(q) == q.code \in FreezingCodes
               freezing(q) == /\ NoValue \notin {q.temperature, q.precipitation}
                              /\ q.temperature <= FreezingPrecipTemp
                              /\ q.precipitation >= FrostSeverePrecip
               possible(q) == /\ NoValue \notin {q.temperature, q.dewPoint}
                              /\ q.temperature <= Config.frostTemp
                              /\ q.temperature - q.dewPoint <= Config.frostDelta
    <2>2. frozen(l) => frozen(p)
        BY <1>1, <1>2 DEF FreezingCodes
    <2>3. freezing(l) => freezing(p)
        BY <1>1
    <2>4. possible(l) => possible(p)
        BY <1>1
    <2>5. /\ frozen(l) \/ freezing(l) => FrostRisk(i, less) = Severe
          /\ ~(frozen(l) \/ freezing(l)) /\ possible(l) /\ HasPrecipitation(i, less) =>
                FrostRisk(i, less) = Warning
          /\ ~(frozen(l) \/ freezing(l)) /\ ~(possible(l) /\ HasPrecipitation(i, less)) =>
                FrostRisk(i, less) = None
        BY DEF FrostRisk, l
    <2>6. /\ frozen(p) \/ freezing(p) => FrostRisk(i, points) = Severe
          /\ ~(frozen(p) \/ freezing(p)) /\ possible(p) /\ HasPrecipitation(i, points) =>
                FrostRisk(i, points) = Warning
          /\ ~(frozen(p) \/ freezing(p)) /\ ~(possible(p) /\ HasPrecipitation(i, points)) =>
                FrostRisk(i, points) = None
        BY DEF FrostRisk, p
    <2> HIDE DEF frozen, freezing, possible
    <2> QED BY <2>1, <2>2, <2>3, <2>4, <2>5, <2>6 DEF None, Warning, Severe
<1> QED BY <1>3, <1>4, <1>5, <1>6, <1>7, <1>8, <1>9 DEF Types, EventTypes, SeverityAt

\* The measurements of a step that was parsed.
LEMMA ParsedStep ==
    ASSUME NEW raw, Valid(raw)
    PROVE  /\ DOMAIN ParseRaw(raw) = 1..Len(raw.time)
           /\ \A j \in 1..Len(raw.time), a \in DOMAIN raw :
                 ParseRaw(raw)[j][a] =
                     IF a = "visibility" THEN VisibilityOf(raw, j) ELSE raw[a][j]
BY ParseFacts

\* Null in an array leaves the answer acceptable.
LEMMA NullFacts ==
    ASSUME NEW raw \in Answers, NEW m \in Measurements \ {"visibility"},
           NEW i \in DOMAIN raw.time, Valid(raw),
           NEW null, null = [raw EXCEPT ![m][i] = NoValue]
    PROVE  /\ null \in Answers /\ Valid(null)
           /\ null.time = raw.time /\ null.visibility = raw.visibility
           /\ \A a \in Measurements, j \in DOMAIN raw.time :
                 null[a][j] = raw[a][j] \/ null[a][j] = NoValue
<1> DEFINE n == Len(raw.time)
           A == DOMAIN raw
<1>1. n \in Nat /\ A = Measurements \cup {"time"} /\ m \in A /\ m # "time"
      /\ raw.time \in Seq(Int \cup {NoValue}) /\ DOMAIN raw.time = 1..n
    BY DEF Answers, Measurements
<1>2. raw[m] \in Seq(Int \cup {NoValue}) /\ Len(raw[m]) = n /\ i \in 1..n
    BY <1>1 DEF Valid, Answers
<1>3. DOMAIN null = A /\ null[m] = [raw[m] EXCEPT ![i] = NoValue]
      /\ \A a \in A \ {m} : null[a] = raw[a]
    BY <1>1
<1>4. null[m] \in Seq(Int \cup {NoValue}) /\ Len(null[m]) = n
    BY <1>2, <1>3
<1>5. null.time = raw.time /\ null.visibility = raw.visibility
    BY <1>1, <1>3 DEF Measurements
<1>6. null \in Answers
    <2>1. \A a \in A : null[a] \in Seq(Int \cup {NoValue})
        BY <1>3, <1>4 DEF Answers
    <2>2. null = [a \in A |-> null[a]]
        BY <1>3
    <2> QED BY <1>1, <2>1, <2>2 DEF Answers
<1>7. Valid(null)
    BY <1>1, <1>3, <1>4, <1>5 DEF Valid
<1>8. \A j \in 1..n : null[m][j] = raw[m][j] \/ null[m][j] = NoValue
    BY <1>2, <1>3
<1>9. \A a \in Measurements, j \in 1..n : null[a][j] = raw[a][j] \/ null[a][j] = NoValue
    BY <1>1, <1>3, <1>8
<1> QED BY <1>1, <1>5, <1>6, <1>7, <1>9

\* Each step of it lacks at most that.
LEMMA NullLacks ==
    ASSUME NEW raw \in Answers, NEW null \in Answers, Valid(raw), Valid(null),
           null.time = raw.time, null.visibility = raw.visibility,
           \A a \in Measurements, j \in DOMAIN raw.time :
               null[a][j] = raw[a][j] \/ null[a][j] = NoValue
    PROVE  /\ DOMAIN ParseRaw(null) = DOMAIN ParseRaw(raw)
           /\ \A j \in DOMAIN ParseRaw(raw) : Lacks(ParseRaw(null)[j], ParseRaw(raw)[j])
<1> DEFINE n == Len(raw.time)
           l(j) == ParseRaw(null)[j]
           p(j) == ParseRaw(raw)[j]
<1>1. DOMAIN raw.time = 1..n /\ DOMAIN null = DOMAIN raw
      /\ "time" \in DOMAIN raw /\ "visibility" \in DOMAIN raw /\ Measurements \subseteq DOMAIN raw
    BY DEF Answers, Measurements
<1>2. DOMAIN ParseRaw(raw) = 1..n
      /\ \A j \in 1..n, a \in DOMAIN raw :
            p(j)[a] = IF a = "visibility" THEN VisibilityOf(raw, j) ELSE raw[a][j]
    BY ParsedStep
<1>3. DOMAIN ParseRaw(null) = 1..n
      /\ \A j \in 1..n, a \in DOMAIN raw :
            l(j)[a] = IF a = "visibility" THEN VisibilityOf(null, j) ELSE null[a][j]
    BY <1>1, ParsedStep
<1>4. \A j \in 1..n : VisibilityOf(null, j) = VisibilityOf(raw, j)
    BY DEF VisibilityOf
<1> HIDE DEF l, p
<1>5. ASSUME NEW j \in 1..n
      PROVE  Lacks(l(j), p(j))
    <2>1. l(j)["time"] = p(j)["time"]
        BY <1>1, <1>2, <1>3
    <2>2. l(j)["visibility"] = p(j)["visibility"]
        BY <1>1, <1>2, <1>3, <1>4
    <2>3. \A a \in Measurements : l(j)[a] = p(j)[a] \/ l(j)[a] = NoValue
        BY <1>1, <1>2, <1>3, <2>2
    <2> QED BY <2>1, <2>2, <2>3 DEF Lacks
<1> QED BY <1>2, <1>3, <1>5 DEF l, p

\* Of visibility, null, -999 and a short array are the same.
LEMMA NoVisibility ==
    ASSUME NEW raw \in Answers,
           NEW values, NEW n, n = Len(raw.time),
           \/ values = [i \in 1..n |-> VisibilityAbsent]
           \/ values = [i \in 1..n |-> NoValue]
           \/ values = <<>>
    PROVE  ParseRaw([raw EXCEPT !.visibility = values])
           = IF Valid(raw)
             THEN [i \in 1..n |->
                     [a \in DOMAIN raw |-> IF a = "visibility" THEN NoValue ELSE raw[a][i]]]
             ELSE <<>>
<1> DEFINE seen == [raw EXCEPT !.visibility = values]
           A == DOMAIN raw
<1>1. n \in Nat /\ A = Measurements \cup {"time"} /\ "visibility" \in A
    BY DEF Answers, Measurements
<1>2. DOMAIN seen = A /\ seen.visibility = values
      /\ \A a \in A \ {"visibility"} : seen[a] = raw[a]
    BY <1>1
<1>3. seen.time = raw.time
    BY <1>1, <1>2
<1> HIDE DEF seen
<1>4. Valid(seen) <=> Valid(raw)
    BY <1>1, <1>2, <1>3 DEF Valid
<1>5. \A i \in 1..n : VisibilityOf(seen, i) = NoValue
    <2> SUFFICES ASSUME NEW i \in 1..n
                 PROVE  VisibilityOf(seen, i) = NoValue
        OBVIOUS
    <2>1. CASE values = [j \in 1..n |-> VisibilityAbsent]
        BY <1>2, <2>1 DEF VisibilityOf
    <2>2. CASE values = [j \in 1..n |-> NoValue]
        BY <1>2, <2>2 DEF VisibilityOf
    <2>3. CASE values = <<>>
        <3>1. Len(seen.visibility) # Len(seen.time)
            BY <1>1, <1>2, <1>3, <2>3
        <3> QED BY <3>1 DEF VisibilityOf
    <2> QED BY <2>1, <2>2, <2>3
<1>6. CASE Valid(raw)
    <2>1. ParseRaw(seen) = [i \in 1..n |->
              [a \in A |-> IF a = "visibility" THEN VisibilityOf(seen, i) ELSE seen[a][i]]]
        BY <1>2, <1>3, <1>4, <1>6, ParseFacts
    <2> HIDE DEF A
    <2>2. \A i \in 1..n :
              [a \in A |-> IF a = "visibility" THEN VisibilityOf(seen, i) ELSE seen[a][i]]
              = [a \in A |-> IF a = "visibility" THEN NoValue ELSE raw[a][i]]
        BY <1>2, <1>5
    <2>3. ParseRaw(seen) = [i \in 1..n |->
              [a \in A |-> IF a = "visibility" THEN NoValue ELSE raw[a][i]]]
        BY <2>1, <2>2
    <2> QED BY <2>3, <1>6 DEF A, seen
<1>7. CASE ~Valid(raw)
    BY <1>4, <1>7, ParseFacts DEF seen
<1> QED BY <1>6, <1>7

\* Missing measurements only ever take events away.
THEOREM MissingNotZero == ForecastsSpec => []MissingIsNotZero
<1>1. ForecastsInv => MissingIsNotZero
    <2> SUFFICES ASSUME ForecastsInv
                 PROVE  MissingIsNotZero
        OBVIOUS
    <2>1. answer \in Answers
        BY DEF ForecastsInv
    <2>2. ASSUME NEW i \in DOMAIN forecast \cap DOMAIN answer.time,
                 NEW m \in Measurements \ {"visibility"},
                 NEW without, without = ParseRaw([answer EXCEPT ![m][i] = NoValue]),
                 NEW t \in Instants, NEW c \in DetectEvents(without, t)
          PROVE  \E d \in CandidateOf(c.type, t) : d.severity >= c.severity /\ d.start <= c.start
        <3> DEFINE null == [answer EXCEPT ![m][i] = NoValue]
        <3>1. Valid(answer) /\ forecast = ParseRaw(answer)
            <4>1. answer.time # <<>>
                OBVIOUS
            <4>2. forecast = ParseRaw(answer)
                BY <4>1 DEF ForecastsInv
            <4>3. forecast # <<>>
                OBVIOUS
            <4> QED BY <4>2, <4>3, ParseFacts
        <3>2. /\ DOMAIN without = DOMAIN forecast
              /\ \A j \in DOMAIN forecast : Lacks(without[j], forecast[j])
              /\ null \in Answers
            <4>1. i \in DOMAIN answer.time
                OBVIOUS
            <4>2. /\ null \in Answers /\ Valid(null)
                  /\ null.time = answer.time /\ null.visibility = answer.visibility
                  /\ \A a \in Measurements, j \in DOMAIN answer.time :
                        null[a][j] = answer[a][j] \/ null[a][j] = NoValue
                BY <4>1, <2>1, <3>1, NullFacts
            <4> HIDE DEF null
            <4> QED BY <4>2, <2>1, <2>2, <3>1, NullLacks DEF null
        <3>3. IsForecast(forecast) /\ IsForecast(without)
            BY <2>2, <3>2, ForecastType, ParseType
        <3> DEFINE type == c.type
                   D == DetectedAt(type, without, t)
                   E == DetectedAt(type, forecast, t)
                   e == RecordEvent(type, forecast, E)
        <3>4. type \in Config.enabled /\ type \in Types /\ D # {} /\ c = RecordEvent(type, without, D)
            BY CandidateFacts
        <3>5. t \in Int
            BY ForecastsAssumption
        <3> HIDE DEF type
        <3>6. \A j \in DOMAIN forecast :
                  /\ SeverityAt(type, j, without) <= SeverityAt(type, j, forecast)
                  /\ SeverityAt(type, j, without) \in Severities
                  /\ SeverityAt(type, j, forecast) \in Severities
                  /\ without[j].time = forecast[j].time
            <4> TAKE j \in DOMAIN forecast
            <4>1. SeverityAt(type, j, without) <= SeverityAt(type, j, forecast)
                BY <3>2, <3>4, MissingLowers
            <4> QED BY <4>1, <3>2, <3>4, SeverityValues DEF Lacks
        <3>7. D \subseteq E
            <4> SUFFICES ASSUME NEW j \in D
                         PROVE  j \in E
                OBVIOUS
            <4>1. /\ j \in DOMAIN forecast /\ t <= without[j].time
                  /\ without[j].time <= t + Config.notificationHorizon
                  /\ SeverityAt(type, j, without) # None
                BY <3>2 DEF DetectedAt
            <4>2. SeverityAt(type, j, forecast) # None
                BY <4>1, <3>6 DEF Severities, None
            <4> QED BY <4>1, <4>2, <3>6 DEF DetectedAt
        <3>8. /\ c.start \in Int /\ c.severity \in Severities
              /\ \E j \in D : c.start = without[j].time
              /\ \E j \in D : c.severity = SeverityAt(type, j, without)
            <4> HIDE DEF D
            <4> QED BY <3>3, <3>4, <3>5, EventFacts DEF D
        <3>9. /\ e.type = type /\ e.start \in Int /\ e.severity \in Severities
              /\ \A j \in E : e.start <= forecast[j].time
              /\ \A j \in E : SeverityAt(type, j, forecast) <= e.severity
            <4>1. E # {}
                BY <3>4, <3>7
            <4> HIDE DEF D, E, e
            <4> QED BY <4>1, <3>3, <3>4, <3>5, EventFacts DEF E, e
        <3>10. e \in CandidateOf(type, t)
            BY <3>4, <3>7, <3>9 DEF CandidateOf, DetectEvents
        <3>11. D \subseteq DOMAIN forecast
            BY <3>2 DEF DetectedAt
        <3> HIDE DEF D, E, e
        <3>12. e.start <= c.start
            BY <3>6, <3>7, <3>8, <3>9, <3>11
        <3>13. e.severity >= c.severity
            <4>1. PICK j \in D : c.severity = SeverityAt(type, j, without)
                BY <3>8
            <4>2. SeverityAt(type, j, forecast) <= e.severity
                BY <3>7, <3>9
            <4>3. /\ SeverityAt(type, j, without) <= SeverityAt(type, j, forecast)
                  /\ SeverityAt(type, j, forecast) \in Int
                BY <3>6, <3>11 DEF Severities
            <4>4. c.severity \in Int /\ e.severity \in Int
                BY <3>8, <3>9 DEF Severities
            <4> QED BY <4>1, <4>2, <4>3, <4>4
        <3> QED BY <3>10, <3>12, <3>13 DEF type
    <2>3. LET seen(values) == ParseRaw([answer EXCEPT !.visibility = values])
              all(value) == [i \in DOMAIN answer.time |-> value]
          IN  seen(all(VisibilityAbsent)) = seen(all(NoValue)) /\ seen(<<>>) = seen(all(NoValue))
        <3> DEFINE n == Len(answer.time)
                   all(value) == [i \in 1..n |-> value]
                   seen(values) == ParseRaw([answer EXCEPT !.visibility = values])
                   none == IF Valid(answer)
                           THEN [i \in 1..n |->
                                   [a \in DOMAIN answer |->
                                       IF a = "visibility" THEN NoValue ELSE answer[a][i]]]
                           ELSE <<>>
        <3>1. DOMAIN answer.time = 1..n
            BY <2>1 DEF Answers
        <3>2. seen(all(VisibilityAbsent)) = none
            BY <2>1, NoVisibility
        <3>3. seen(all(NoValue)) = none
            BY <2>1, NoVisibility
        <3>4. seen(<<>>) = none
            BY <2>1, NoVisibility
        <3> HIDE DEF none
        <3> QED BY <3>1, <3>2, <3>3, <3>4
    <2> QED BY <2>2, <2>3 DEF MissingIsNotZero
<1> QED BY <1>1, ForecastsInvariant, PTL
=============================================================================
