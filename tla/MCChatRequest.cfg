\* Two listed candidates and the OpenRouter terminal: a fallback, a skip and a
\* repeated provider all happen; both cuts are explored.
CONSTANTS
    MaxList = 2
    Cuts = {"authorize", "unwired"}
SPECIFICATION FairSpec
INVARIANT GrantedSaysFinalWord
INVARIANT NoSubstitution
INVARIANT CleanIsClean
PROPERTY FinalWordUnlessCut
PROPERTY NoSpendForNobody
PROPERTY ImplementsHold
CHECK_DEADLOCK FALSE
