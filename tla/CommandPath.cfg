CONSTANTS
    Payloads <- MCPayloads
    Mode = "live"
    MaxPages = 2
    MaxCommands = 2
    MaxTime = 1
    Lag = 1
    Sealing = TRUE
    MaxRestarts = 1
SPECIFICATION Spec
INVARIANTS
    AcknowledgedWhileInStep
    RecordedOnce
    RetryKeepsPosition
