--------------------------- MODULE MCDataDirectory ---------------------------
(* A data directory with two clients' writes and one or two addresses. *)
EXTENDS DataDirectory

CONSTANTS w1, w2, HostA, HostB

OneWrite  == {w1}
TwoWrites == {w1, w2}
OneHost   == {HostA}
TwoHosts  == {HostA, HostB}
=============================================================================
