--------------------------------- MODULE MCIngest ---------------------------------
(***************************************************************************)
(* For the runs of Ingest.tla.                                             *)
(***************************************************************************)
EXTENDS Ingest

=================================================================================
