\* Two concurrent requests, one input for each way through the pipeline, a sink that may fail, handlers polled fairly.
SPECIFICATION FairSpec
CONSTANTS
    None = None
    r1 = r1
    r2 = r2
    r3 = r3
    Requests = {r1, r2}
    Inputs <- PipelineInputs
    Configs <- PipelineConfigs
    Names <- MCNames
    FineScopes <- MCFineScopes
    Fields <- MCFields
    OperationNames <- MCOperationNames
    Jwt <- MCJwt
    Leeway = 0
    Pem <- MCPem
    DefaultWritePerMinute = 30
    DefaultReadPerMinute = 600
    Minute = 2
    Statuses = {"200", "500"}
    SinkFaults = TRUE
    MaxTime = 1
INVARIANTS
    RefusalContained
    WriteRecorded
    MetricsAccount
PROPERTY
    HandlerProgress
