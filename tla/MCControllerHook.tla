------------------------- MODULE MCControllerHook -------------------------
(***************************************************************************)
(* Small instances of ControllerHook: one device whose second session may  *)
(* overlap the first at every step of either.  Every property is about the *)
(* sessions of one client ID, and the sessions of different clients share  *)
(* only the two locks, the failure and the closing flag, so one client is  *)
(* enough; the proofs cover any number of clients and sessions.            *)
(***************************************************************************)
EXTENDS ControllerHook, TLC

CONSTANTS device

OneDevice == [s \in Sessions |-> device]

\* The sessions are interchangeable: all of them belong to the one device.
SessionSymmetry == Permutations(Sessions)
===========================================================================
