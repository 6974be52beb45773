\* Two frames for three pages: every miss after the second evicts.
CONSTANTS
  POOL_SIZE = 2
  PAGES = 3
  MAX_TIME = 5
  Guards = {g1, g2, g3}
  Content = {Zeros, Fresh}
  Zeros = Zeros
  Fresh = Fresh
SPECIFICATION Spec
SYMMETRY GuardSymmetry
INVARIANTS
  TypeOK
  PageTableExact
  GuardsPointToTheirPage
  PinsCountGuards
  CleanPagesMatchDisk
  KnownPagesReadable
  RecencyDistinct
  ThrowsOnlyWhenAllGuarded
PROPERTIES
  FlushAllIsDurable
  ImplementsPageStore
