SPECIFICATION FairSpec
CONSTANTS
    d1 = d1
    d2 = d2
    d3 = d3
    w1 = w1
    w2 = w2
    web = web
    Deliveries = {d1}
    Endpoints = {web}
    EndpointOf <- MCEndpointOf
    Workers = {w1, w2}
    BatchSize = 2
    MaxAttempts = 2
    MaxCrashes = 2
    MaxReplays = 1
    Operations = {"slow", "toggle", "replay", "replay all"}
PROPERTIES
    NothingIsDropped
CHECK_DEADLOCK FALSE
