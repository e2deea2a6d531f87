SPECIFICATION Spec
CONSTANTS
  Parts = {"people", "api", "address", "search", "settings", "edit", "init", "places", "experts", "scan", "key", "doctor", "repo", "sweep", "split", "report", "static", "strip", "tickets", "links", "json", "command", "text", "serve", "release", "answers", "board", "summary", "aggregate", "team", "wire", "parse", "chunks", "path", "browser", "context", "inject", "source", "prompt"}
  DefaultExperts <- MCExperts
  MinValueLen = 2
  BadPath = {"", "..", "~"}
  BodyBudget = 3
  MaxPages = 2
  SearchLimit = 2
  GithubHost <- MCGithub
  MaxTickets = 2
  MaxShortDigits = 6
  MaxDiffSize = 24
  MediumLine = 3
  AggressiveLine = 2
  AggressiveTokens = 12
  MaxTree = 2
  MaxExcerpt = 4
  MaxSingleFile = 7
  MaxAgents = 4
  NoteBytes = 2
  RawExcerpt = 3
  RangesShown = 2
  MaxYaml = 5
INVARIANT ToolsAreFaithful
INVARIANT ReviewInputIsWhole
CHECK_DEADLOCK FALSE
