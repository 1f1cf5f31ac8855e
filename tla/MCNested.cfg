CONSTANT Assemblies <- NestedAssemblies
CONSTANT ArgName <- MCArgName
SPECIFICATION Spec
INVARIANT EveryCallReachesItsMethod
CHECK_DEADLOCK FALSE
