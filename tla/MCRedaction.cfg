\* Two spans, so that they overlap, nest, touch and cross the join; four units over both
\* fields and six in the arguments, where an escaped placeholder takes six.
CONSTANTS
    Inputs <- MCInputs
    Labels = {"private_person", "secret", "private_date", "unknown"}
    MaxSpans = 2
    Probe <- MCProbe
    Alphabet <- MCAlphabet
    MaxTogether = 4
    MaxAlone = 6
SPECIFICATION Spec
INVARIANT NothingDetectedIsSent
INVARIANT CutsDoNotShow
INVARIANT EchoIsOriginal
CHECK_DEADLOCK FALSE
