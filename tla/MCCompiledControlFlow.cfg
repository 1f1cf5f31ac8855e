CONSTANT Methods <- MCMethods
SPECIFICATION Spec
INVARIANTS TypeOKEngine NeverReachesFakeReturn
PROPERTIES ImplementsCil RestartReachesTarget ForwardBodiesEnd
CHECK_DEADLOCK FALSE
