--------------------------- MODULE MCLiveWorkflow ---------------------------
\* Two models, one behind the proxy, and short lists of routes.
EXTENDS LiveWorkflow

CONSTANTS gw, direct

MCStages == {"research", "reasoning", "coding", "pine", "review", "repair", "compact", "single"}
MCRoutes ==
    [s \in MCStages |->
        CASE s \in {"review", "compact"} -> <<gw, direct>>
          [] s \in {"repair", "single"} -> <<direct>>
          [] OTHER -> <<gw>>]
MCMaxRetries == [s \in MCStages |-> IF s = "review" THEN 1 ELSE 0]
MCMaxConsecutive == [s \in MCStages |-> IF s = "compact" THEN 1 ELSE 2]
MCPersisted == {<<"review", gw>>}
=============================================================================
