SPECIFICATION Spec
CONSTANTS
    Requests = {r1, r2}
    p1 = p1
    p2 = p2
    m1 = m1
    m2 = m2
    Providers = {p1, p2}
    Models = {m1, m2}
    Plans <- MCPlans
    Free <- MCFree
    Trip = 1
INVARIANT SingleProbe
