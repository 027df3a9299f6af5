CONSTANTS
  alice = alice
  bob = bob
  carol = carol
  Clients = {alice}
  Loopback = {}
  Categories = {"auth_user", "write"}
  Cap <- BucketSizes
  Rate = 2
  StaleAge = 4
  MaxClock = 7
  Users <- ThreeUsers
  NoUser = none
  Stores = {"pg", "json"}
  MaxRequests = 3
  LicenseKeys = {key1, key2}
  Machines = {laptop, desktop}
  Logins = {login1, login2}
  Syncs = {sync1}
  Nothing = none
  MaxChanges = 1
  MaxOutages = 1
  Beats = {beat1, beat2}
  MaxSilence = 3
  Period = 2
  Delay = 1
  Skew = 1
  MaxMoment = 7
  Messages = {msg1, msg2, msg3}
  PageSize = 2
  Keep = 2
  MaxHour = 6
  Tasks = {task1, task2}
  Callers = {call1, call2, call3}
  NoTask = none
  Backends = {"pg", "json"}
  People = {alice, bob}
  Legacy = {alice}
  MaxStarts = 3
  MaxFaults = 2
  Peers <- TwoPeers
  Signals = {sig1, sig2}
  Fetches = {poll1, poll2}
  None = none
  Modes = {"pg", "json"}
  TTL = 1
  MaxTime = 3
SPECIFICATION ServicesSpec
INVARIANTS
  ServicesTypeOK
  RateIsKept
  FriendsByConsent SentIsKept
  PayersKeepTheirTier DeviceOnlyLostToAStaleRead
  OnlineIsFresh
  UnreadOnlyInABurst
  StrayTaskIsARace
  PurgedStayPurged SessionsSurvive
  LostOnlyToAPoll
PROPERTIES OnlyTheSilentAreSwept TierConverges EverySignalLeaves
CHECK_DEADLOCK FALSE
