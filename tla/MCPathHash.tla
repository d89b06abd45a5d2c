----------------------------- MODULE MCPathHash -----------------------------
(* Instance of PathHash for TLC: a background byte with one other byte at   *)
(* every place, in data of every length up to three rounds of the loop.  A  *)
(* round is affine in every byte, so that these inputs determine it.        *)
EXTENDS PathHash

MCInputs ==
  {[i \in 1 .. length |-> IF i = place THEN byte ELSE background] :
     length \in 0 .. 26, place \in 1 .. 26, byte \in {1, 255},
     background \in {0, 254}}
=============================================================================
