CONSTANTS
  Worlds <- MCWorlds
  LowerCase <- MCLowerCase
  Text <- MCText
  NameHash <- MCNameHash
SPECIFICATION TypesSpec
INVARIANTS
  TypesTypeOK
  ResolvedInScope
  ReferencesDenote
  IdentifiersMatchStructure
  OneIdentityPerType
  InformationReadable
  DependenciesComplete
  EnumLiteralsAgree
PROPERTY GenerationEnds
