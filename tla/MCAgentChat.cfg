\* Up to three messages, with one tool call each, one connection broken and one
\* token expired.
SPECIFICATION AgentSpec
CONSTANTS
    create = create
    change = change
    look = look
    Actions = {create, change}
    Creates = {create}
    Lookups = {look}
    MaxMessages = 4
    MaxToolCalls = 1
    MaxSends = 3
    MaxInFlight = 1
    MaxBroken = 1
    MaxTokens = 2
    MaxExpired = 1
CHECK_DEADLOCK FALSE
INVARIANTS
    AgentTypeOK
    BlockedWhileAnswering
    HeadingTellsTruth
    PendingIsLatestProposal
    OversizedHistorySticks
PROPERTIES
    CompletedChangesAreNoticed
    KeepsPromise
    ComposerReopens
