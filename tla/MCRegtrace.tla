------------------------------ MODULE MCRegtrace ------------------------------
(* Instances of Regtrace: the bounds are numbers in the .cfg files.        *)
EXTENDS Regtrace
==============================================================================
