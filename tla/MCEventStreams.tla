--------------------------- MODULE MCEventStreams ---------------------------
(***************************************************************************)
(* Instances of EventStreams for TLC.                                      *)
(***************************************************************************)
EXTENDS EventStreams, TLC

Symmetry ==
  Permutations(Account) \cup Permutations(Name) \cup Permutations(Session)
    \cup Permutations(Conn) \cup Permutations(Ticket)
=============================================================================
