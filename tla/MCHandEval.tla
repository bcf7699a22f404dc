----------------------------- MODULE MCHandEval -----------------------------
(***************************************************************************)
(* A deck of six ranks, the fewest that have two straights and the one     *)
(* below the lowest card; and two boards for Omaha hands: a straight with  *)
(* three cards of a suit, and a pair with four.                            *)
(***************************************************************************)
EXTENDS HandEval

\* Card r of suit s is 4 * r + s.
MCBoards == {{0, 4, 8, 13, 18}, {0, 1, 9, 13, 17}}
=============================================================================
