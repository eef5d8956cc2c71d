CONSTANTS
  MaxVar = 6
  LogCap = 1
  MaxDepth = 3
  OrderVars = 6
  THashSlots = 2
  WMemoSlots = 2
  ProfCap = 1
  Epochs = 3
  Layouts <- MCLayouts
  Configs <- MCConfigs
SPECIFICATION Spec
INVARIANTS
  SubstClear
  MostGeneral
  VariantsMeet
  Normalizes
  PairsExact
  KboAgree
  LpoAgree
  ReductionOrder
  MemoTransparent
