------------------------------ MODULE MCSystem ------------------------------
(* Instances of SystemLayer2 for TLC; the cfg files give the constants.    *)
EXTENDS SystemLayer2
=============================================================================
