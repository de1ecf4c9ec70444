\* Two items of two characters: calls follow texts and calls, deltas are lost first and
\* last, the counters pass their cap.
CONSTANTS
    Routes = {"anthropic-chat", "responses-chat", "json-chat", "fireworks", "openrouter", "messages",
              "responses", "responses-messages", "json-messages", "json-native"}
    MaxItems = 2
    MaxPieces = 2
    Usages <- MCUsages
    Measured = 20
    CountedChars = 3
SPECIFICATION Spec
INVARIANT CompleteMeansWhole
INVARIANT EndIsTold
INVARIANT MeteredAsDelivered
INVARIANT BilledAsReported
CHECK_DEADLOCK FALSE
