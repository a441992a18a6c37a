SPECIFICATION ReviewSpec
CONSTANTS
    Events = {1, 2, 3}
    MaxAttempts = 3
    BatchLimit = 2
    Threshold = 3
PROPERTIES
    ReviewedWasAssessed
