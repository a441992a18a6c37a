SPECIFICATION ArenaSpec
CONSTANTS
    Events = {1, 2}
    MaxAttempts = 1
    BatchLimit = 1
    Threshold = 1
    Processes = {"warden", "wire_scheduler", "genesis", "heartbeat"}
    Mortal = {"genesis", "heartbeat", "wire_scheduler"}
    ShutdownOrder <- MCShutdownOrder
    MaxFailures = 1
    MaxUpsets = 1
INVARIANTS
    BootIsVerified
PROPERTIES
    SilenceIsAnnounced
    ReviewsSettle
CHECK_DEADLOCK FALSE
