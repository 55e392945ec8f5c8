SPECIFICATION Spec
CONSTANTS
  None = None
  Raw = Raw
  Files <- MCFiles
  Holds <- MCHolds
  PyProject = "pyproject.toml"
  CiWorkflow = "ci.yml"
  TemplateWorkflow = "template-only.yml"
  EnvExample = ".env.example"
  EnvFile = ".env"
  Answers = {a1, a2}
  MaxCrashes = 1
INVARIANTS CiSeesInitialization
CHECK_DEADLOCK FALSE
