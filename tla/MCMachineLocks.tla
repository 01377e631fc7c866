--------------------------- MODULE MCMachineLocks ---------------------------
(* The machine locks with three processes, two machines and two lock ids. *)
EXTENDS MachineLocks, TLC

Symmetry == Permutations(Client) \cup Permutations(Machine) \cup Permutations(Inode)

=============================================================================
