\* Fair goroutines and a ticker over two buckets: the refinement of PointDelivery.
CONSTANTS
    Ingesters = {onMessage}
    ApiCallers = {api}
    Tickers = {ticker}
    Points = {p1, p2}
    Buckets = {gen_raw, gen_year}
    InitialBuckets = {gen_raw}
    BatchMaxSize = 2
    MaxAttempts = 2
    StorageType = "influxdb"
    None = None
SPECIFICATION FairSpec
PROPERTY ImplementsDelivery
