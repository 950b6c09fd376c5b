------------------------- MODULE MCChatContinuation ------------------------
EXTENDS ChatContinuation, TLC
CONSTANTS c1, c2, b1, b2
MCEventType == {"run.completed", "run.failed", "run.progress", "summary.completed",
                "repair.started", "repair.completed", "repair.failed", "chain.failed"}
=============================================================================
