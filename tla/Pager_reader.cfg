SPECIFICATION Spec
CONSTANTS
    w = w
    r = r
    Writer = {w}
    Reader = {r}
    Serving = {{w, r}}
    Cap = 3
    MaxHold = 2
    MaxHoldBeside = 2
    MaxPage = 3
    MaxUpdates = 2
    MaxUpdatesBeside = 2
    MaxCrashes = 0
    Loaded = {}

PROPERTY ReadersKeepContent
