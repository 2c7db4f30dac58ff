CONSTANTS
    c1 = c1
    c2 = c2
    w1 = w1
    None = None
    Conns <- MCConns
    Workers <- MCWorkers
    MaxDatagrams <- MCMaxDatagrams
    MaxFlows <- MCMaxFlows

SPECIFICATION Spec

INVARIANT TypeOK
INVARIANT NoFlowWithoutDispatcher

PROPERTY DatagramsReachDevice

\* Every peer's connection may end and the device may go down; then every
\* goroutine has returned.
CHECK_DEADLOCK FALSE
