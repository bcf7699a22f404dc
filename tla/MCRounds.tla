------------------------------ MODULE MCRounds ------------------------------
EXTENDS Rounds
=============================================================================
