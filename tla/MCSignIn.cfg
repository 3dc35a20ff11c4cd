\* Two browsers, either of which may send the form or follow the link of the other.
SPECIFICATION MCSpec
CONSTANTS
  Browser = {b1, b2}
  App = {a1, a2}
  Person = {p1}
  ConsentId = {i1, i2}
  SignInId = {j1, j2}
  Code = {c1}
  Request = {r1, r2}
  None = None
  Lag = 1
  SessionLife = 1
  MaxApproved = 2
  MaxTime = 2
CHECK_DEADLOCK FALSE
INVARIANTS SignInInv OneUsePerSignIn RemembersApprovals ServedAsSignedIn
PROPERTIES SpentStaysSpent ImplementsPromise
SYMMETRY Symmetry
