---------------------------- MODULE MCClubMoney ----------------------------
(* One member at two tables of a club, which are alike. *)
EXTENDS ClubMoney, TLC

TableSymmetry == Permutations(Tables)

\* Bound: what follows a third kind of slip is not looked at, nor, once he has
\* bought in as often as he may, what follows a second.
FewSlips == Cardinality(slips) <= IF count.buyins < MaxBuyIns THEN 2 ELSE 1
=============================================================================
