----------------------------- MODULE MCChatTurn -----------------------------
\* Three tools, two steps of the chain, two scout rounds and calls.
EXTENDS ChatTurn
=============================================================================
