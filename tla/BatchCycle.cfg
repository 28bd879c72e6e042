\* Violated: three items that wait for each other, and one that does not.
CONSTANTS
  Part = {"batch"}
  c1 = c1
  c2 = c2
  c3 = c3
  NOBODY = NOBODY
  NOKEY = NOKEY
  NOFILE = NOFILE
  NONE = NONE
  Caller = {c1, c2}
  MaxEdits = 2
  MaxGeneration = 1
  Follower = {c1, c2, c3}
  Revision = {"r1", "r2"}
  Interactive = {"i1", "i2", "i3"}
  Background = {"b1"}
  Threads = 2
  Burst = 2
  Debt = 1
  IdleBurst = 1
  MaxCost = 2
  Call = {"read", "test", "check", "build", "update", "run", "other"}
  Slots = 3
  LocalChildren = 1
  HostChildren = 1
  Batches <- Fours
  Plan = {"p", "q"}
  MaxSnapshots = 2
  MaxClock = 1
  MaxStamp = 2
  MaxStarts = 2
  Client = {"k", "l"}
  Session = {"s", "t"}
  MaxClients = 1
  MaxTokens = 1
  AccessTtl = 1
  RefreshTtl = 2
  MaxTime = 3
  MaxPairs = 2
  Provider = {"t"}
  Url = {"u"}
  Stable = {"t"}
  HERE = "local"
  MaxRetained = 1
  MaxEpoch = 3
  MaxLease = 2
  MaxStarting = 1
  Delivery = {"d", "e"}
  Commit = {"h", "i"}
  CommitOf <- Commits
  Contended = {"h"}
  Key = {"k", "l"}
  MaxAttempts = 2
  MaxEvents = 2
  MaxTombstones = 1
  MaxUnconfirmed = 1
  Room = 0
  MaxTasks = 1
  MaxCreated = 2
  MaxRestarts = 1
  MaxFaults = 1
  MaxProgress = 1
SPECIFICATION HostSpec
CHECK_DEADLOCK FALSE
INVARIANT RejectedBeforeExecution
