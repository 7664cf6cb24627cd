SPECIFICATION Spec
CONSTANTS
    client = client
    other = other
    edge = edge
    inner = inner
    mapped = mapped
    junk = junk
    cidr = cidr
    typo = typo
    Malformed = Malformed
    Nodes <- MCNodes
    Rules <- MCRules
    Covers <- MCCovers
    TrustHeaders = TRUE
    Texts <- MCTexts
    Parse <- MCParse
    MaxProxyHops = 3
    MaxPath = 4
    MaxForged = 2
INVARIANT ChargedToResponsible
CHECK_DEADLOCK FALSE
