SPECIFICATION Spec
CONSTANTS
  c1 = c1
  c2 = c2
  p1 = p1
  p2 = p2
  ann = ann
  bob = bob
  moscow = moscow
  Client <- Clients
  Login <- Logins
  Password <- Passwords
  Text <- Texts
  Blank = Blank
  NoPassword = NoPassword
  NumFields = 2
  Threads = 2
  MaxRestarts = 0
SYMMETRY Symmetry
INVARIANTS
  AcceptedCanLogIn

CHECK_DEADLOCK FALSE
