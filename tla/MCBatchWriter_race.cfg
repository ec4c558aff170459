\* One writer and the ticker are enough for the unlocked size test to race.
CONSTANTS
    Ingesters = {onMessage}
    ApiCallers = {}
    Tickers = {ticker}
    Points = {p1, p2}
    Buckets = {gen_raw}
    InitialBuckets = {gen_raw}
    BatchMaxSize = 2
    MaxAttempts = 2
    StorageType = "influxdb"
    None = None
SPECIFICATION Spec
INVARIANT NoMapRace
