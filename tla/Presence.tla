------------------------------ MODULE Presence ------------------------------
(***************************************************************************)
(* What the broker promises the rest of the process about the devices: the *)
(* registry of src/src/clientstate/mod.rs and the on_connected callback of *)
(* src/src/broker/mod.rs, without sessions, locks or hooks.                *)
(*                                                                         *)
(* ControllerHook is shown to implement this specification; Dispatch uses  *)
(* its actions for the devices it pushes to.                               *)
(***************************************************************************)
CONSTANTS
    Clients       \* the client IDs

VARIABLES
    registered,   \* Registry.clients
    announcing    \* the clients whose on_connected callback is to come

presenceVars == <<registered, announcing>>

Init == registered = {} /\ announcing = {}

\* A session of c is registered, a takeover included: c may be registered
\* already.  One session of a client connects at a time.
Register(c) ==
    /\ c \notin announcing
    /\ registered' = registered \cup {c}
    /\ announcing' = announcing \cup {c}

\* The on_connected callback of that session.
Announce(c) ==
    /\ c \in announcing
    /\ announcing' = announcing \ {c}
    /\ UNCHANGED registered

\* The session that is removed may be the one before the current one, whose
\* callback may still be due.
Unregister(c) ==
    /\ c \in registered
    /\ registered' = registered \ {c}
    /\ UNCHANGED announcing

Next == \E c \in Clients : Register(c) \/ Announce(c) \/ Unregister(c)

Spec == Init /\ [][Next]_presenceVars

\* A registration is always followed by its callback: nothing but the callback
\* ends it, not even a lock that is poisoned or a broker that is closing.
FairSpec == Spec /\ \A c \in Clients : WF_presenceVars(Announce(c))
=============================================================================
