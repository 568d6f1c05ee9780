SPECIFICATION Spec
CONSTANTS
  ann = ann
  bob = bob
  host = host
  c1 = c1
  c2 = c2
  Users <- MCUsers
  Addrs <- MCAddrs
  Conns <- MCConns
  FirstUser = ann
  MaxFailed = 2
  Window = 1
  Lockout = 1
  Lifetime = 1
  MaxRequests = 4
SYMMETRY MCSymmetry
INVARIANTS GuessesBounded NeverAllDisabled SessionsEndWithAccount
