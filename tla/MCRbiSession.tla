---------------------------- MODULE MCRbiSession ----------------------------
(* Small instances of RbiSession for TLC. *)
EXTENDS RbiSession, TLC

\* Requests, hosts and ports are interchangeable; used with the safety
\* properties only.
Symmetry == Permutations(Reqs) \cup Permutations(Hosts) \cup Permutations(Ports)
=============================================================================
