SPECIFICATION FairSpec
CONSTANTS
    Menu <- SafetyMenu
    MaxUnits = 4
INVARIANT TypeOK
INVARIANT UntrustedPeerIgnored
INVARIANT BackendNeedsVerdict
INVARIANT OnePacketPerBackendConnection
INVARIANT RefusedStartupDiagnosed
INVARIANT NoPlaintextAfterTls
INVARIANT PoliteLosesNothing
PROPERTY HandshakeEnds
