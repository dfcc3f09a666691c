SPECIFICATION RSpec
CONSTANTS
  Paths <- MCPaths
  Files <- MCFiles
  Unusable <- MCUnusable
  Dirs <- MCDirs
  Names <- MCNames
  Join <- MCJoin
  Dir <- MCDir
  IncludePaths <- MCIncludePaths
  Graphs <- MCGraphs
INVARIANTS
  ResolverTypeOK
  InProgressIsStacked
  DefinitionsClosed
  ReportedCyclesExist
  AnswerDependsOnFilesAlone
PROPERTY
  CallsReturn
