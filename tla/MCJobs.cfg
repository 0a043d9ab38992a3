SPECIFICATION MCSpec
CONSTANTS
    Topic = {"jobs", "preview"}
    MaxJobs = 2
    CheckWorkers = {"c1", "c2"}
    AIWorkers = {"ai"}
    Submitted = {"ingest", "ingest_and_run", "ai_overview"}
    ZOMBIE_THRESHOLD = 1
    MaxTime = 2
    File = {f}
    Page = {p, q}
    preview_cache_max = 1
    MaxVersion = 2
    MaxRestart = 1
    MaxOpen = 2
INVARIANTS
    TypeOK
    PreviewTypeOK
    OneOwner
    HeldJobIsRunning
    NoOldZombie
    
PROPERTIES
    LifecycleSpec
    QueuedIsPickedUp
    PageIsAnswered
CHECK_DEADLOCK FALSE
