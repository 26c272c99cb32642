-------------------------- MODULE MCClusterLifecycle --------------------------
(* Small instances of ClusterLifecycle for TLC. *)
EXTENDS ClusterRefinement

=============================================================================
