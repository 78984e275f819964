SPECIFICATION Spec
CONSTANTS
    Cap = 16
    MaxCommands = 2
    MaxCuts = 2
    Replies <- MCReplies
INVARIANTS
    TypeOK
    ReplyAsSent
PROPERTY
    ReadReturns
