SPECIFICATION Spec
CONSTANTS
  Images = {m1, m2}
  LimaImages = {"default"}
  LimaFaults = 2
  Insts = {"i1"}
  Recipes = {"base", "more"}
  Default = "base"
  Sizes = {1, 2, 3}
  Versions = {1, 2, 3}
  Bundled = {2, 3}
  Commands = {c1, c2}
  Repos = {"dashed", "nested"}
  Slug <- SlugValues
  Providers = {"p"}
  Backends = {"file", "system"}
  Replacing = {"system"}
  Requests = {q1, q2, q3}
  MAX_CONCURRENT_REQUESTS = 2
  Pieces = {w1}
  Updaters = {"u1", "u2"}
  LastRelease = 3
  Sessions = {"s1", "s2"}
  Passwords = {"x", "y"}
  MaxFaults = 1
SYMMETRY Symmetry
INVARIANTS
  TypeOK ImagesWhole PrivateIsGuarded InstalledIsVerified EntriesResolve
  GuestFollowsConfig ProxyHolds CodexRuns
PROPERTIES NoLostWrites OnlyUnguardedWorkIsLost
CHECK_DEADLOCK FALSE
