SPECIFICATION RpcSpec
CONSTANTS
    NoOne = NoOne
    Callers = {c1, c2}
    MaxId = 2
    MethodOf <- OneMethod
    MaxChanges = 1
INVARIANTS PromiseOnePlace RepliesRight
PROPERTIES ImplementsClient CallsResolve
CHECK_DEADLOCK FALSE
