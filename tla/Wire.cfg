\* Both servers, each with every kind of client; pieces moved in any portions.
SPECIFICATION FairSpec
CONSTANTS
    Server = {"secure", "insecure"}
    Program = {"rider", "plain", "join", "update"}
    MaxBody = 4
CHECK_DEADLOCK FALSE
INVARIANTS TypeOK ActsOnWhole Aligned ToldWhole CutKeyIdle
PROPERTY ExchangeEnds
