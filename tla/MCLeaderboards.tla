-------------------------- MODULE MCLeaderboards --------------------------
(* Two players, one of them on both boards, and heights of 1 and 2; a      *)
(* default threshold of two, and a spec that asks for none, clamped to one. *)
EXTENDS Leaderboards, TLC
TaskSymmetry == Permutations(Tasks)
=============================================================================
