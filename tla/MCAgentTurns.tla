---------------------------- MODULE MCAgentTurns ----------------------------
EXTENDS AgentTurns
=============================================================================
