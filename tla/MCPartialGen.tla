---------------------------- MODULE MCPartialGen ----------------------------
(* Every tree of the given size.                                           *)
EXTENDS PartialGen
=============================================================================
