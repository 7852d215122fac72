CONSTANTS
    Hosts = {h1, h2}
    Tasks = {t1}
    NoHost = NoHost
    MaxAttempts = 2
    MaxDisruptions = 1
SPECIFICATION FairSpec
PROPERTIES
    EveryOccurrenceSettles
CHECK_DEADLOCK FALSE
