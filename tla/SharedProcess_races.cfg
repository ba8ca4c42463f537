SPECIFICATION FairSpec
CONSTANTS
    Engines = {e1, e2}
    Threads = {t1}
    Tasks = {w1}
    host = host
    null = null
    Loggers = {null}
    Factories = {host}
    EnabledBy <- MCEnabledBy
    NoLogger = NoLogger
    Overlapped = Overlapped
    Stderr = Stderr
    Nobody = Nobody
    NoEngine = NoEngine
INVARIANTS
    ShutdownFreesLog
    EventReachesLastConfigured
PROPERTIES
    NobodyWaitsForever
