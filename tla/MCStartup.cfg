\* One worker and its replacements: workers share only an environment that is fixed.
SPECIFICATION Spec
CONSTANTS
    Workers = {w1}
    Hooks = {score, chat}
    DefaultThreads = 2
    EnvThreads = 4
INVARIANTS
    WorkersFollowTheCommand
    ParametersArrive
    ServedHooksAreUniform
    TargetsAgree
\* The command may end before it runs a server.
CHECK_DEADLOCK FALSE
