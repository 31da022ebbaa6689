---------------------------- MODULE MCTurnGuards ----------------------------
EXTENDS TurnGuards
=============================================================================
