SPECIFICATION FairSpec
CONSTANTS
    Shapes <- FewShapes
    InspectLimit = 2
    TransferBuf = 3
    MaxMsgs = 2
    MaxSrv = 1
    Cuts = {TRUE}
    ClientCap = 1
    PgCap = 1
    ClientTls = TRUE
PROPERTY ClientEndReachesPg
PROPERTY ClientEndClosesSession
PROPERTY PgEndClosesSession
PROPERTY RefusalAnswered
