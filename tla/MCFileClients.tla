--------------------------- MODULE MCFileClients ---------------------------
(***************************************************************************)
(* FileClients for TLC: the clients, and the files, are interchangeable, and   *)
(* what is checked are invariants that tell none of them from the others.      *)
(***************************************************************************)
EXTENDS FileClients, TLC

Symmetry == Permutations(Threads) \union Permutations(Files)

=============================================================================
