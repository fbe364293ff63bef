SPECIFICATION Spec
CONSTANT MAX_TASKS = 3
PROPERTY YieldReturns
