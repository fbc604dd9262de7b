------------------------------- MODULE MCSqlTx -------------------------------
(* Instances of SqlTx for TLC; the threads of the user are interchangeable. *)
EXTENDS SqlTx, TLC

Symmetry == Permutations(Users)
=============================================================================
