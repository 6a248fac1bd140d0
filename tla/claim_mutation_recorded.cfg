\* A client that disconnects while the upstream executes its write.
SPECIFICATION Spec
CONSTANTS
    None = None
    r1 = r1
    r2 = r2
    r3 = r3
    Requests = {r1}
    Inputs <- WriteInputs
    Configs <- AdminConfigs
    Names <- MCNames
    FineScopes <- MCFineScopes
    Fields <- MCFields
    OperationNames <- MCOperationNames
    Jwt <- MCJwt
    Leeway = 0
    Pem <- MCPem
    DefaultWritePerMinute = 30
    DefaultReadPerMinute = 600
    Minute = 2
    Statuses = {"200"}
    SinkFaults = FALSE
    MaxTime = 1
INVARIANT
    EveryMutationRecorded
