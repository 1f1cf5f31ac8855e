CONSTANTS
  Files = {f1, f2}
  Environments = {"web", "node", "shell"}
  Loads = {l1, l2}
  NoLoad = NoLoad
  Assemblies = {"MyLibrary", "Other"}
  TypeImports <- MCTypeImports
  StaticImports <- MCStaticImports
  HostModules <- MCHostModules
  ObjectSizes = {1, 3}
  MaxHeap = 8
SPECIFICATION PageSpec
INVARIANTS LoaderTypeOK ReadyMeansComplete FunctionsAreLinked BlocksDisjoint
PROPERTIES StartEnds LoadsSettle ImplementsAvailability
CHECK_DEADLOCK FALSE
