CONSTANT Assemblies <- InstanceAssemblies
CONSTANT ArgName <- MCArgName
SPECIFICATION Spec
INVARIANT InteropPassesAllArguments
CHECK_DEADLOCK FALSE
