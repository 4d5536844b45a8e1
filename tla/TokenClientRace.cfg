SPECIFICATION Spec
CONSTANTS
  None = None
  alice = alice
  bob = bob
  a1 = a1
  b1 = b1
  Clients = {alice, bob}
  Calls = {a1, b1}
  Owner <- MCOwner
  Skew = 1
  Lifetimes <- MCRaceLifetimes
  MaxTime = 0
  MaxIssued = 3
PROPERTY DiscardsOnlySpent
