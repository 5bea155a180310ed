SPECIFICATION FairSpec
CONSTANTS
  Addr = {a, b, c, d}
  NULL = NULL
  Chars = {"p", "q", "r"}
  Root = Root
  Missing = Missing
  Stale = Stale
  Names <- MCNames
INVARIANTS TypeOK NoDangling TreeLinks LinksSpell PluginAtItsName NoDeadBranches AllFreed
PROPERTIES LoadsOnce LoaderReturns
