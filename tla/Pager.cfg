SPECIFICATION Spec
CONSTANTS
    w = w
    r = r
    Writer = {w}
    Reader = {r}
    Serving = {{w}, {w, r}}
    Cap = 2
    MaxHold = 2
    MaxHoldBeside = 1
    MaxPage = 3
    MaxUpdates = 2
    MaxUpdatesBeside = 1
    MaxCrashes = 1
    Loaded = {}
INVARIANTS TypeOK CacheBounded NoLostUpdate HeldIsCached FlushedIsDurable
