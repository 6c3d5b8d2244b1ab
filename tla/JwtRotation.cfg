SPECIFICATION Spec
CONSTANTS
    Keys = {kA, kB, kC}
    NoKey = NoKey
    Never = Never
    TokenTTL = 3
    OverlapTTL = 3
    MaxTokens = 2
INVARIANTS TypeOK SurvivesRotation
