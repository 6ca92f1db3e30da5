--------------------------- MODULE MCModeration ---------------------------
(* The map's author, who signs in while the model runs, and another user:  *)
(* either may act and be a super-mod; only the other is banned and seated. *)
EXTENDS Moderation, TLC
CONSTANTS author, other
MCUsers == {author, other}
RequestSymmetry == Permutations(Requests)
=============================================================================
