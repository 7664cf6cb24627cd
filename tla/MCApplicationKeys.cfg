SPECIFICATION Spec
CONSTANTS
    Undefined = Undefined
    Wrong = Wrong
    True = True
    False = False
    Right = Right
    Callback = Callback
    Refused = Refused
    ann = ann
    bob = bob
    eve = eve
    gateway = gateway
    ops = ops
    stranger = stranger
    Patterns <- MCPatterns
    Stateful = {"/o/g"}
    Paths <- MCPaths
    Found <- MCFound
    COMMON_AUTH_PATHS <- MCAuthPaths
    PresetName <- MCPresetName
    NOSQL_DANGEROUS_OPERATORS = {"$where"}
    NOSQL_SUSPICIOUS_OPERATORS = {"$ne"}
    NoSQLDepth = 1
    LongText = 6
    ScannedHeader = "user-agent"
    Spelled <- MCSpelled
    Sanitized <- MCSanitized
    Lower <- MCLower
    CaseBlind = {"body.email", "body.username"}
    Forbidden = {"body.password"}
    Deployments <- MCPresetDeployments
    Requests <- MCRequests
    AdminRequests = {}
    MaxUses = 5
INVARIANT NobodyElsesCounter
CHECK_DEADLOCK FALSE
