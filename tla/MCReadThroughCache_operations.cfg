\* Every operation, under fairness, on a service that is not cached (TTL 0) and a configuration.
CONSTANTS
    s1 = s1
    c1 = c1
    undefined = undefined
    ServiceId = {s1}
    ConfigurationId = {c1}
    serviceToRCConfigurationMap <- Unmapped
    Reader = {r1, r2}
    ServiceTtl = 0
    ConfigurationTtl = 2
    MaxFill = 2
    MaxVersion = 2
SPECIFICATION FairSpec
INVARIANTS
    TypeOK
    BoundedStaleness
    NoFalseAbsence
PROPERTIES
    Converges
    LookupsEnd
    ImplementsCachedLookups
