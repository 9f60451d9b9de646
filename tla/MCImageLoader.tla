----------------------------- MODULE MCImageLoader -----------------------------
(* Small instances of ImageLoader for TLC: two keys of a file each, or of one *)
(* file.                                                                    *)
EXTENDS ImageLoader, TLC

CONSTANTS k1, u1, u2

OwnUrls == [k \in Keys |-> IF k = k1 THEN u1 ELSE u2]
OneUrl  == [k \in Keys |-> u1]

ViewSymmetry == Permutations(Views)
===============================================================================
