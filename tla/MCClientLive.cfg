SPECIFICATION TabSpec
CONSTANTS
  RestoreCall = restoring
  SignInCall = signing
  SignOutCall = leavingCall
  Calls = {restoring, signing, leavingCall, c1}
  Health = health
  Me = me
  Bootstrap = bootstrap
  Login = login
  Logout = logout
  Reads = {health, me, file, versions, job}
  Immutable = {file}
  Polled = {job}
  Changes = {bootstrap, login, logout}
  Tokens = {t1}
  None = None
  MaxConcurrent = 1
  MaxCache = 1
  MaxEpoch = 3
  MaxTasks = 2
  MaxWizards = 1
  MaxJobs = 2
PROPERTIES
  RequestsSettle
  LoadingEnds
  FormsComeBack
  HandlersEnd
CHECK_DEADLOCK FALSE
