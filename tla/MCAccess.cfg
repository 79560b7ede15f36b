SPECIFICATION Spec
CONSTANTS
  Workers = {"c1", "c2"}
  Verbs <- ManagerAndStatus
  Pids = {p1, p2, p3}
  Strangers = {"other"}
  SudoFails <- Anywhere
  Stale = Stale
  NoValue = NoValue
  VmFaults = 4
  Vms = {v1, v2}
  Upstreams <- OneProvider
  MoreUpstreams <- TwoProviders
  Persisting = {"openai"}
  HostPorts = {8080}
  MaxTokens = 2
  Insts = {"i1", "i2"}
  Configs <- SessionConfigs
  Hosts <- OneHost
  Options <- UpOptions
  File <- UpFile
  Settings <- UpSettings
  Contents <- DevFiles
  Mounted <- DevMounted
  Lines <- DevLines
  Digests = {"d1", "d2"}
  SessionEdits = 3
  MaxEdits = 1
  Slugs <- SlugValues
  Modules <- ModuleValues
  RepoArgs <- RepoArgValues
  CloneUrls <- CloneValues
  Origins <- OriginValues
  Worlds <- WorldValues
  Pasted <- TokenValues
  Scope <- ScopeValues
  Dead = {"dead"}
  Ports = {"p1", "p2"}
  Codes = {0, 1}
  MaxCommands = 4
  Urls = {"https", "http"}
  Subs <- SubValues
  Tables <- TableValues
  MoreFaults = 2
  MaxFaults = 1
SYMMETRY Symmetry
INVARIANTS
  TypeOK OneFindableVmm RunningIsConnected CredentialsTracked DestroyedLeavesNothing
  OptionsHold SuppressedStaysOut TokensFit SshHolds EgressHolds
PROPERTIES RunningIsOwn
CHECK_DEADLOCK FALSE
