--------------------------------- MODULE MCAccess ---------------------------------
(***************************************************************************)
(* Symmetry for the runs of Access.tla.                                    *)
(***************************************************************************)
EXTENDS Access, TLC

Symmetry == Permutations(Threads)
=================================================================================
