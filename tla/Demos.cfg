SPECIFICATION MCSpec
CONSTANTS
  BUFFER_SIZE = 3
  Bytes = {nul, b1, b2}
  NUL = nul
  MaxCall = 4
  nul = nul
  b1 = b1
  b2 = b2
  Messages = 5
  Reads = 5
  Roles = {alice, bob, group}
  PUBLIC = public
  Columns = {col}
  Owner = alice
  Privileges = {sel}
  GrantOptions = {gsel}
  Grantors = {alice}
  Asked = {{}, {sel}, {gsel}}
  MaxEntries = 3
  alice = alice
  bob = bob
  group = group
  public = public
  col = col
  sel = sel
  gsel = gsel
  Vars = {11, 12, 13}
  Far = {13}
  Consts = {1, 2}
  Values = {1, 2, 3}
  MaxClauses = 3
  SampleTree <- MCSampleTree
  LeafRow <- MCLeafRow
  Root = 0
  INVALID_BLOCK <- MCNone
  NoKey <- MCNone
  ScanKeys <- MCScanKeys
  MaxPages = 12
  P = 3
  Names = {x, y}
  Used = {x}
  x = x
  y = y
  Assigned = {2}
  Constants = {1}
  VarCount = 1
  Nesting = 2
  OrTrees <- MCOrTrees
  VarNames <- MCVarNames
  MaxArgs = 2
  TreeDepth = 6
  VARHDRSZ = 2
  VARHDRSZ_SHORT = 1
  VARATT_SHORT_MAX = 3
  Word = 32
  Strings <- MCStrings
  MaxText = 7
INVARIANTS
  ChildGetsAll
  LedgerKept
  RolesAnswer
  MasksAreUnions
  TableDecides
  OutputsFollow
  OutputsSuffice
  FoundIsPosition
  MatchIsHere
  EvaluatorsAgree
  StackSuffices
  FlattenKeepsMeaning
  FlattenOwnsNodes
  TextKept
PROPERTY IsAPipe
CHECK_DEADLOCK FALSE
