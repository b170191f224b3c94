SPECIFICATION Spec
CONSTANTS
    Versions = {v1, v2}
    Clients = {c1, c2}
    Reviewers = {r1}
    Keys = {k1}
    NoKey = NoKey
    NoVersion = NoVersion
    Channel = "prod"
    Lookahead = 1
    MaxMoves = 2
SYMMETRY Symmetry
INVARIANT TypeOK
INVARIANT PointerMatchesHistory
INVARIANT HistoryChains
INVARIANT OneMovePerKey
PROPERTY RevokedNeverServed
