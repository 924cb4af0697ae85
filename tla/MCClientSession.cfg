SPECIFICATION Spec
CONSTANTS
  RestoreCall = restoring
  SignInCall = signing
  SignOutCall = leavingCall
  Calls = {restoring, signing, leavingCall, c1, c2}
  Health = health
  Me = me
  Bootstrap = bootstrap
  Login = login
  Logout = logout
  Reads = {health, me, file1, file2, job}
  Immutable = {file1, file2}
  Polled = {job}
  Changes = {bootstrap, login, logout}
  Tokens = {t1, t2}
  None = None
  MaxConcurrent = 1
  MaxCache = 1
  MaxEpoch = 4
SYMMETRY Symmetry
INVARIANTS
  SlotsCounted
  SessionIsolation
  JoinersAreServed
  SessionAgrees
  ShownIsAsked
CHECK_DEADLOCK FALSE
