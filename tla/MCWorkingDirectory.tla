------------------------- MODULE MCWorkingDirectory -------------------------
(* Small instances of WorkingDirectory for TLC. *)
EXTENDS WorkingDirectory, TLC

Variable(n) == [name |-> n, wellFormed |-> TRUE, oneLine |-> TRUE]

Lab1 == [schema |-> 1, lab |-> 1, components |-> <<"postgres">>, env |-> {Variable("MINE")}]

\* Two that are valid, in any order of components, and one of each mistake.
SomeDocuments ==
  { Lab1,
    [Lab1 EXCEPT !.lab = 2, !.components = <<"observability", "postgres">>],
    [Lab1 EXCEPT !.env = {Variable("HTTP_ADDR")}],
    [Lab1 EXCEPT !.env = {Variable("GRPC_ADDR")}],
    [Lab1 EXCEPT !.components = <<"postgres", "postgres">>] }

Symmetry == Permutations(Proc)

=============================================================================
