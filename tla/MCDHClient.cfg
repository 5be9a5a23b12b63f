CONSTANTS
    App = App
    Connector = Connector
    Worker = Worker
    Nobody = Nobody
    h1 = h1
    Handles = {h1}
    MaxSockets = 2
    MaxSends = 1
SPECIFICATION FairSpec
INVARIANTS OneReceive NoSocketLeak
PROPERTY EndReturns
