---------------------------- MODULE MCTableSeats ----------------------------
EXTENDS TableSeats, TLC

Symmetry == Permutations(Users)
=============================================================================
