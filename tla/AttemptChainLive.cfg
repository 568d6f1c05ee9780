SPECIFICATION FairSpec
CONSTANTS
    Requests = {r1, r2}
    p1 = p1
    p2 = p2
    m1 = m1
    m2 = m2
    Providers = {p1, p2}
    Models = {m1, m2}
    Plans <- MCTwoProviders
    Free = {}
    Trip = 2
PROPERTIES
    RequestsFinish
