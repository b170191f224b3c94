SPECIFICATION Spec
CONSTANTS
    Versions = {v1}
    Clients = {c1}
    Reviewers = {r1, r2}
    Keys = {k1}
    NoKey = NoKey
    NoVersion = NoVersion
    Channel = "prod"
    Lookahead = 1
    MaxMoves = 1
PROPERTY RevokedNeverServed
