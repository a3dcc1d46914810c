SPECIFICATION WsSpec
CONSTANTS
    Handlers = {h1, h2, h3}
    None = None
    MaxClients = 2
    GivesUnheld = FALSE
INVARIANT OnlyActiveClients
