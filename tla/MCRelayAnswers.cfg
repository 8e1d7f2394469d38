SPECIFICATION Spec
CONSTANTS
    Shapes <- FewShapes
    InspectLimit = 2
    TransferBuf = 3
    MaxMsgs = 2
    MaxSrv = 1
    Cuts = {TRUE}
    ClientCap = 2
    PgCap = 1
    ClientTls = FALSE
INVARIANT OnlySmallStatementsAnswered
