CONSTANTS
    Unset = Unset
    alice = alice
    bob = bob
    MinTtl = 1
    MaxTtl = 2
    MaxLifetime = 1
    Skew = 0
    Principals <- SmallPrincipals
    Messages <- SmallMessages
    Purposes <- SmallPurposes
    Audiences <- SmallAudiences
    Methodologies <- SmallMethodologies
    Agents <- SmallAgents
    Deployments <- SmallDeployments
    TTLs = {2, 3}
    ResultTtl = 1
    MetadataTtl = 1
    KeyEnd = 2
    MaxTime = 2
SYMMETRY Symmetry
SPECIFICATION Spec
INVARIANTS AgentAuthentic Granted ResultOfThisCeremony IssuedSuffices 
CHECK_DEADLOCK FALSE
