SPECIFICATION GovernanceSpec
\* The requests of a run are bounded.
CHECK_DEADLOCK FALSE
CONSTANTS
  Keys = {"a", "b"}
  Issues = {"i"}
  Rules = {"r"}
  Users = {"u", "v"}
  Admins = {"u"}
  Filters = {"f"}
  MaxTagOps = 3
  RuleKeys = {k}
  BundledKeys = {}
  Packs = {p}
  Definitions <- MCDefinitions
  Editors = {e, f}
  MaxVersions = 2
  MaxRuleOps = 4
  Languages = {"go"}
  RuleLanguage <- MCRuleLanguage
  BundledRules = {"b1"}
  Projects = {"pr"}
  Stewards = {"u"}
  MaxProfiles = 3
  MaxProfileOps = 3
  GateIds = {"g0", "g1"}
  BuiltinGate = "g0"
  GateProjects = {"pr"}
  Conditions <- MCConditions
  Payloads <- MCPayloads
  Branches = {"b"}
  Strategies = {"number_of_days"}
  Histories <- MCHistories
  MaxPeriods = 2
  MaxGateOps = 2
INVARIANTS
  
  PublishableHoldsExamples
  PolicyIsNearest
  
PROPERTIES
  
  CopyIsWhole
