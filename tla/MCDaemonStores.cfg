SPECIFICATION StoresSpec
CONSTANTS
  Services = {s1}
  MaxVersion = 2
  ConfigOps = {o1, o2}
  Torn = Torn
  Users = {u1}
  Groups = {g1}
  MaxCred = 1
  MaxCredRequests = 2
  MaxConnects = 1
  Templated = FALSE
  Required = FALSE
  None = None
  Unreadable = Unreadable
  CredentialKeys = {k1}
  BareService = bare
  Listings = {l1}
  DriftChecks = {c1, c2}
  SchemaCommands = {x1}
  MaxSchema = 2
  MaxWriters = 3
  Sections = {m1}
  Texts = {t1}
  Regens = {e1, e2}
  MaxParts = 6
  MaxEdits = 2
  Placeholder = ph
  NoFile = NoFile
  Loggers = {p1, p2}
  MaxAuditSize = 2
  MaxAudits = 6
  MaxGenerations = 6
  RuleUser = ru
  RuleGroups = {h1, h2, h3}
  Verbs = {get, list}
  MinChunk = 2
  MaxChunk = 3
INVARIANTS
  MemoryFollowsFile
  ConnectedAsConfigured
  CredentialsInFile
  StaleEvicted
  NoStaleEntry
  UserTextKept
  ReportedAsResolved
  SkillShowsDrift
  KeepsNewest
CHECK_DEADLOCK FALSE
