--------------------------- MODULE MCKeyRotation ---------------------------
(* Values for model checking KeyRotation: a pool of two keys.              *)
EXTENDS KeyRotation

TwoKeys == <<"k1", "k2">>
=============================================================================
