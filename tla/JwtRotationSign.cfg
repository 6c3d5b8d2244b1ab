SPECIFICATION Spec
CONSTANTS
    Keys = {kA, kB}
    NoKey = NoKey
    Never = Never
    TokenTTL = 3
    OverlapTTL = 3
    MaxTokens = 2
INVARIANT FreshAccepted
