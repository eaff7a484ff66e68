---------------------------- MODULE MCMediaStore ----------------------------
(* MediaStore for TLC: an image, one that is a byte too large with what is *)
(* left of it at the cap, and something that is no image.                  *)
EXTENDS MediaStore, TLC

MCContents == {"image", "large", "large cut", "text"}
MCImages   == MCContents \ {"text"}
MCSize     == [c \in MCContents |-> IF c = "large" THEN 3 ELSE 2]
MCPrefix   == [c \in MCContents |-> IF c = "large" THEN "large cut" ELSE c]

Alike == Permutations(Uploads)

=============================================================================
