SPECIFICATION Spec
CONSTANTS
  Candidates = {h1, h2}
  Ids = {d}
  MaxReport = 2
  CompilerCandidates = 1
  RuntimePatches = 1
  EnvironmentPatches = 1
  ScenarioPatches = 1
  InfrastructureRetries = 1
INVARIANTS NeverExhausted EachQuestionOnce OnlyLastUnanswered
