SPECIFICATION Spec
CONSTANTS
    Recs = {"r1"}
    Profiles <- MCProfiles
    Ttl = 0
    MaxTime = 1
    DefaultSymbols = {"INFY"}
    ConfigBroker = "PAPER"
    PageOps <- MCPageOps
    BotOps <- MCBotOps
    Slots = {1, 2}
    MaxEvents = 2
    Logins = {"login"}
    EnvToken = "env"
INVARIANTS
    TypeOK
    DecisionsStand
    OneLiveOrder
    DisconnectHolds
PROPERTIES
    ViewCatchesUp
