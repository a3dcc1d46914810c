SPECIFICATION WsFairSpec
CONSTANTS
    Handlers = {h1, h2, h3, h4}
    None = None
    MaxClients = 2
    GivesUnheld = TRUE
INVARIANTS
    ArrayGuarded
    StaleOnlyIfSkipped
    OpenClientRegistered
    SentToExplained
    WsCanStep
PROPERTIES
    OpenClientKept
    ServerReturns
    SenderReturns
