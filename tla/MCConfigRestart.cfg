SPECIFICATION Spec
CONSTANTS
  none = none
  NoVal = none
  File = {"main", "main.yml", "i1", "i1.yml", "i2"}
  Primary = "main"
  PrimaryYaml = "main.yml"
  Toml <- MCToml
  Key = {"a", "b"}
  ArrayKey = {"l"}
  IMPORT_RECURSION_LIMIT = 2
  Installed <- MCInstalled
  Contents <- MCContents
  Window = {1, 2}
  Options <- MCOptions
  MaxEdits = 3
  MaxRequests = 3
  Loads <- MCLoads
INVARIANT
  MonitorFollows
CHECK_DEADLOCK FALSE
