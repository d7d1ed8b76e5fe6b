SPECIFICATION ClientSpec
CONSTANTS
  User = {ann, ben}
  ann = ann
  ben = ben
  Nobody = Nobody
  Screen <- Pages
  Sidebar <- Nav
  Links <- DeepLinks
  Owed <- OwedChanges
  Persisted <- PersistedRoots
  Retries = 1
  Start <- Starts
SYMMETRY Symmetry
INVARIANTS
  
  NotBehind
  NobodyElsesPages
CHECK_DEADLOCK FALSE
