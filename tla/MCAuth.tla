-------------------------------- MODULE MCAuth --------------------------------
(* AuthSystem for TLC.                                                     *)
EXTENDS AuthInvariant, TLC

Symmetry == Permutations(Requests) \cup Permutations(Workers)
            \cup Permutations(Ids) \cup Permutations(Users)
=============================================================================
