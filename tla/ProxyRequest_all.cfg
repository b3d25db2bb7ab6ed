SPECIFICATION Spec
CONSTANTS
    q1 = q1
    q2 = q2
    r1 = r1
    r2 = r2
    None = None
    Requests <- Two
    Responses <- Both
    Length <- Lengths
    ETags <- Tags
    LastModified <- Dates
    Expiring = {r2}
    Kinds <- AllKinds
    Strict = TRUE
    Present = {0, 1}
    MaxLen <- Limits
    Promotes <- PromoteAll
    Capacity = 1
    Rivals = {r1}
    Failing = {3}
    Faulty = TRUE
SYMMETRY Alike
CHECK_DEADLOCK FALSE
INVARIANTS TypeOK OriginGetsUntouchedResponse BodyBelongsToHeaders ServedIsWhole
PROPERTIES ExchangeSpec
