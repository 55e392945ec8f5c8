SPECIFICATION FairSpec
CONSTANTS
  None = None
  Raw = Raw
  Files <- MCFiles
  Holds <- MCHolds
  PyProject = "pyproject.toml"
  CiWorkflow = "ci.yml"
  TemplateWorkflow = "template-only.yml"
  EnvExample = ".env.example"
  EnvFile = ".env"
  Answers = {a1, a2, a3}
  MaxCrashes = 2
INVARIANTS TypeOK SentinelMeansPatched ResumableUntilStamped 
PROPERTIES KeysAreKept InitializedInTheEnd
CHECK_DEADLOCK FALSE
