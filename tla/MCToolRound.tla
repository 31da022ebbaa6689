---------------------------- MODULE MCToolRound ----------------------------
EXTENDS ToolRound
=============================================================================
