SPECIFICATION Spec
CONSTANTS
    d1 = d1
    d2 = d2
    d3 = d3
    w1 = w1
    w2 = w2
    web = web
    Deliveries = {d1, d2, d3}
    Endpoints = {web}
    EndpointOf <- MCEndpointOf
    Workers = {w1, w2}
    BatchSize = 2
    MaxAttempts = 3
    MaxCrashes = 1
    MaxReplays = 1
    Operations = {"toggle", "replay all"}
INVARIANTS
    OneSender
    LadderIsHonest
PROPERTIES
    ImplementsDelivery
SYMMETRY Symmetry
CHECK_DEADLOCK FALSE
