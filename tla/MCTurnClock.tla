---------------------------- MODULE MCTurnClock ----------------------------
EXTENDS TurnClock
=============================================================================
