\* A model that names its target type in model-metadata.yaml only.
SPECIFICATION Spec
CONSTANTS
    Workers = {w1}
    Hooks = {score, chat}
    DefaultThreads = 2
    EnvThreads = 4
INVARIANT TargetIsConfigured
CHECK_DEADLOCK FALSE
