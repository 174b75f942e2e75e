SPECIFICATION FairSpec
CONSTANTS
    Event <- ThreeEvents
    Dispatcher = {d1, d2}
    BatchSize = 2
    MaxTries = 3
    MaxFaults = 4
INVARIANTS TypeOK PublishedWasSent DuplicatesNeedFaults
PROPERTIES PublishedIsFinal EventuallyPublished ImplementsChannel
