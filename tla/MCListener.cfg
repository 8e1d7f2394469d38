SPECIFICATION FairSpec
CONSTANTS
    Clients <- FourClients
    MaxFds = 4
    FirstBackoff = 1
    MaxBackoff = 3
    MappedPrefix <- MCMappedPrefix
    DefaultTrusted <- MCDefaultTrusted
    Environments <- MCEnvironments
INVARIANT TypeOK
INVARIANT ServesAsParsed
INVARIANT TlsUnlessBroken
PROPERTY Served
