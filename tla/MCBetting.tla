----------------------------- MODULE MCBetting -----------------------------
EXTENDS Betting
=============================================================================
