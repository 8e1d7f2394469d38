SPECIFICATION Spec
CONSTANTS
    Shapes <- AllShapes
    InspectLimit = 2
    TransferBuf = 3
    MaxMsgs = 2
    MaxSrv = 2
    Cuts = {TRUE}
    ClientCap = 2
    PgCap = 1
    ClientTls = TRUE
INVARIANT TypeOK
INVARIANT PgStreamFaithful
INVARIANT FinAfterData
INVARIANT ServerStreamInOrder
INVARIANT EofAfterResults
INVARIANT RefusalWhole
PROPERTY ImplementsSession
