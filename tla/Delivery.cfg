SPECIFICATION Spec
SYMMETRY Symmetry
VIEW WithoutAnswer
CONSTANTS
    a = a
    b = b
    Slash <- MCSlash
    MetaName <- MCMetaName
    Agents <- MCAgents
    Bare = {}
    Operator = Operator
    Sids = {s1}
    Manifests <- MCManifests
    Configs <- MCConfigs
    NoCap = NoCap
    DefaultFileMax = 2
    UploadTTL = 2
    MaxTargets = 2
INVARIANTS TypeOK WithinCaps RevokedStops 
PROPERTIES BroadcastTruthful
