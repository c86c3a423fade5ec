CONSTANTS
    Payloads <- OnePayload
    Mode = "live"
    MaxPages = 2
    MaxCommands = 1
    MaxTime = 1
    Lag = 0
    Sealing = FALSE
    MaxRestarts = 0
SPECIFICATION Spec
INVARIANTS
    AcknowledgedIsRecorded
