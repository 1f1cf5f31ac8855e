CONSTANT Assemblies <- MCAssemblies
CONSTANT ArgName <- MCArgName
SPECIFICATION Spec
INVARIANTS TypeOK IndexSpacesAgree LocalsDistinct InteropFindsFunction
CHECK_DEADLOCK FALSE
