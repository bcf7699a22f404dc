---------------------------- MODULE MCTournament ----------------------------
EXTENDS Tournament, TLC
=============================================================================
