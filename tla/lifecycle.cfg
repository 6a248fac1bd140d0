\* Two processes one after the other, two connections, every auth mode over the listeners it goes with.
SPECIFICATION FairSpec
CONSTANTS
    None = None
    Names <- MCNames
    FineScopes = {}
    Jwt <- MCJwt
    Leeway = 0
    Pem <- MCPem
    DefaultWritePerMinute = 1
    DefaultReadPerMinute = 1
    Minute = 1
    Files <- MCFiles
    Envs <- MCEnvs
    Documents <- MCDocuments
    Connections = {"c1", "c2"}
    Certificates <- MCCertificates
    Requests <- MCRequests
    MaxStarts = 2
    MaxTime = 1
INVARIANTS
    TypeOK
    SecretsCurrent
    KeyPublished
    IdentityVerified
    BudgetPerProcess
    PlainShutdownDrains
PROPERTIES
    AcceptsPromptly
    ShutdownCompletes
