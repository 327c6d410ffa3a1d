--------------------------- MODULE MCClusterStream ---------------------------
(* Instances of ClusterStream for TLC. *)
EXTENDS ClusterStream

CONSTANTS err, none

MCKey == {1, 2}
MCPath == {err}

===============================================================================
