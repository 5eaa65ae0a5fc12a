--------------------------- MODULE MCDaemonService ---------------------------
(* DaemonService with the symmetries TLC may use when it checks safety. *)
EXTENDS DaemonService, TLC

Symmetry == Permutations(Projects) \cup Permutations(Daemons)
            \cup Permutations(Clients) \cup Permutations(Ports)
=============================================================================
