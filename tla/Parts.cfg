\* Limiter: one minute is two ticks; the clock starts past the first window, as an
\* Instant that may precede the origin (or an uptime above a minute) behaves.
\* Audit: two tasks of one process and one of another, four records of two writes.
\* Paths: every path of up to six characters.  Text: every body of up to six.
\* Load: configurations that miss each rule by one, replaced at any time.
CONSTANTS
    Tasks = {t1, t2}
    c1 = c1
    c2 = c2
    Caps = {c1, c2}
    Limit <- MCLimit
    Window = 2
    Boot = 2
    Lag = 1
    Horizon = 5
    MaxRestarts = 1
    a1 = a1
    a2 = a2
    b1 = b1
    a = a
    b = b
    AuditTasks = {a1, a2, b1}
    ProcessOf <- MCProcessOf
    LineSize = 2
    MaxRecords = 4
    MaxShort = 2
    PathChars <- MCPathChars
    MaxPathLength = 6
    PathRuleSet <- MCRules
    BaseHost <- MCHost
    BodyChars = {"s", "t", "u"}
    MaxBodyLength = 6
    Secrets <- MCSecrets
    Marker <- MCMarker
    Contents <- MCContents
    Edits <- MCEdits
    Absent = Absent
    Bad = Bad
SPECIFICATION PartsSpec
SYMMETRY TaskSymmetry
INVARIANTS
    TypeOK NoOverrun
    AuditTypeOK AckedIsWritten OwnLinesApart DamageBounded
    RequestsConfined PlainRequestsDecided
    NoSecretShown ShownIsRedacted
    PinHolds StdioWithoutVault ServedIsUsable
PROPERTIES ImplementsQuota DenialJustified
CHECK_DEADLOCK FALSE
