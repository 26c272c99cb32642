------------------------ MODULE MCEnvironmentLifecycle ------------------------
(* Model-checking instances of EnvironmentLifecycle.                        *)
EXTENDS EnvironmentLifecycle, TLC

Symmetry == Permutations(Proc) \cup Permutations(Release)

\* The result of the last command is output only: no guard reads it, and the
\* properties read it only in the step that sets it.
View == <<lock, kube, proj, disk, pc, call, at, faults, touched>>

=============================================================================
