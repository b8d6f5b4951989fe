-------------------------------- MODULE MCCodec --------------------------------
(* Codec for TLC: which letters make up a text is immaterial.               *)
EXTENDS Codec, TLC

Symmetry == Permutations(Letters)
================================================================================
