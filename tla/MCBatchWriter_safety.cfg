\* An ingester, an API caller and a ticker over an initial bucket and one created on
\* demand; one more point than BatchBounded allows in a batch.
CONSTANTS
    Ingesters = {onMessage}
    ApiCallers = {api}
    Tickers = {ticker}
    Points = {p1, p2, p3, p4}
    Buckets = {gen_year}
    InitialBuckets = {}
    BatchMaxSize = 2
    MaxAttempts = 2
    StorageType = "influxdb"
    None = None
SPECIFICATION Spec
SYMMETRY Symmetry
INVARIANTS
    TypeOK
    IndInv
    BatchBounded
    PendingInOneBatch
    RetriesBounded
    AckedIsStored
PROPERTIES
    StateFollowsStorage
    DropIsJustified
