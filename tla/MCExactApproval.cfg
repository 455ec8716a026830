SPECIFICATION Spec
CONSTANTS
    Tasks = {t1, t2}
    Runs = {r1}
    ConfIds = {c1, c2}
    write = write
    read = read
    garbled = garbled
    ghost = ghost
    Calls <- MCCalls
    Gated <- MCGated
    RetrySafe <- MCRetrySafe
    Unknown <- MCUnknown
    Malformed <- MCMalformed
    Batches <- MCBatches
    Steps <- MCSteps
    Plans <- MCPlans
    MaxSteps = 2
    MaxToolCalls = 3
    MaxRetries = 1
    Ttl = 1
    MaxTime = 2
    None = None
SYMMETRY Symmetry
INVARIANT ExactApproval
