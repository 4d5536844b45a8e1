SPECIFICATION Spec
CONSTANTS
  None = None
  alice = alice
  bob = bob
  a1 = a1
  b1 = b1
  Clients = {alice}
  Calls = {a1}
  Owner <- MCOwner
  Skew = 1
  Lifetimes <- MCLifetimes
  MaxTime = 3
  MaxIssued = 3
INVARIANT CacheFresh
PROPERTIES DiscardsOnlySpent CallsReturn
