----------------------------- MODULE MCSslBump -----------------------------
(* Small instances of SslBump for TLC. *)
EXTENDS SslBump

CONSTANTS n1, n2, a1, a2

\* One address serves both names, the other only the first.
SharedAddress == {<<n1, a1>>, <<n2, a1>>, <<n1, a2>>}
=============================================================================
