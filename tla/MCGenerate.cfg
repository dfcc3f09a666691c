SPECIFICATION GSpec
CONSTANTS
  Files <- MCFiles
  Modules <- MCModules
  Lower <- MCLower
  IdlNames <- MCIdlNames
  GoNames <- MCGoNames
  PascalCase <- MCPascalCase
  Own <- MCOwn
  BaseNames <- MCBaseNames
  Base <- MCBase
  Quoted <- MCQuoted
  Angled <- MCAngled
  Broken <- MCBroken
  Unresolved <- MCUnresolved
  Unformatted <- MCUnformatted
  Rank <- MCRank
  Calls <- MCCalls
CHECK_DEADLOCK FALSE
INVARIANTS
  GeneratorTypeOK
  DeclaredOnce
  OwnDefinitionsOnly
  SuccessDeclaresAll
  FailureKeepsDefinitions
