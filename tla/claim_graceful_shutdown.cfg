\* A TLS gateway that is shut down with a request in flight.
SPECIFICATION Spec
CONSTANTS
    None = None
    Names <- MCNames
    FineScopes = {}
    Jwt <- MCJwt
    Leeway = 0
    Pem <- MCPem
    DefaultWritePerMinute = 1
    DefaultReadPerMinute = 1
    Minute = 1
    Files <- TlsFiles
    Envs <- OneEnv
    Documents <- MCDocuments
    Connections = {"c1"}
    Certificates <- MCCertificates
    Requests <- MCRequests
    MaxStarts = 1
    MaxTime = 1
INVARIANT
    GracefulShutdown
