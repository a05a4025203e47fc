SPECIFICATION Spec
CONSTANTS
    Requests = {r1, r2}
    NoReq = NoReq
    Torn = Torn
    MaxPlans = 2
    MaxAsks = 2
INVARIANT CancelIsHonoured
