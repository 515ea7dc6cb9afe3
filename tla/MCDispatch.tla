---------------------------- MODULE MCDispatch ----------------------------
(***************************************************************************)
(* Small instances of Dispatch: two handler tasks and the poll's are enough *)
(* for two pushes of one device to overlap, two changes for each to be     *)
(* stale in another part.                                                  *)
(***************************************************************************)
EXTENDS Dispatch, TLC

\* The handler tasks are interchangeable, and so are the devices (used where
\* only invariants are checked).
Symmetry == Permutations(Handlers) \cup Permutations(Clients)
===========================================================================
