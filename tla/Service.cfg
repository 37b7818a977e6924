\* Calls: two connections, every request, one restart, targets that never answer.
\* Socket: three brokers that a supervisor starts and stops one at a time.
CONSTANTS
    http = http
    ssh = ssh
    status = status
    restart = restart
    inside = inside
    outside = outside
    Conns = {t1, t2}
    HttpCaps = {http}
    SshCaps = {ssh}
    Unknown = Unknown
    Nil = Nil
    Limit <- MCLimit
    Methods <- MCMethods
    ReadMethods <- MCReadMethods
    Paths <- MCPaths
    AllowMethods <- MCAllowMethods
    AllowPaths <- MCAllowPaths
    Operations <- MCOperations
    ReadOnly <- MCReadOnly
    MaxCalls = 2
    MaxCrashes = 1
    Brokers = {b1, b2, b3}
    Clients = {k1, k2}
    NoSocket = NoSocket
    Settled = TRUE
    MaxStarts = 4
    MaxKills = 2
    MaxLinks = 3
SPECIFICATION ServiceSpec
INVARIANTS
    TypeOK OnlyAuthorized EveryActionAdmitted EveryActionAccounted AuditNeverLies
    SocketTypeOK ServingIsReachable OneBroker
PROPERTIES Answered Recovers
CHECK_DEADLOCK FALSE
