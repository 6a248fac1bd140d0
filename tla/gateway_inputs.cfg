\* One request, every input, every kind of configuration.
SPECIFICATION Spec
CONSTANTS
    None = None
    r1 = r1
    r2 = r2
    r3 = r3
    Requests = {r1}
    Inputs <- AllInputs
    Configs <- InputsConfigs
    Names <- MCNames
    FineScopes <- MCFineScopes
    Fields <- MCFields
    OperationNames <- MCOperationNames
    Jwt <- MCJwt
    Leeway = 0
    Pem <- MCPem
    DefaultWritePerMinute = 30
    DefaultReadPerMinute = 600
    Minute = 4
    Statuses = {"200"}
    SinkFaults = FALSE
    MaxTime = 1
INVARIANTS
    TypeOK
    MutationNeedsWrite
    OverridesEnforced
PROPERTIES
    CredentialHonoured
    ImplementsAccessGate
