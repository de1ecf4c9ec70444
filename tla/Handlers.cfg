\* Two speech chunks: one can fail, or lose its client, after another was heard.
\* Two direct candidates: one can fail or be skipped before another is tried.
CONSTANTS
    MaxChunks = 2
    MaxDirect = 2
SPECIFICATION FairSpec
INVARIANT NoSubstitution
INVARIANT SpeechBillsWhatWasHeard
PROPERTY ImplementsHold
PROPERTY CleanIsClean
PROPERTY NoSpendForNobody
PROPERTY FinalWordUnlessCut
CHECK_DEADLOCK FALSE
