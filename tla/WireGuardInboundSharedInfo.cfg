\* Two peers whose Process calls overlap.
CONSTANTS
    c1 = c1
    c2 = c2
    w1 = w1
    None = None
    Conns <- MCConns
    Workers <- MCWorkers
    MaxDatagrams <- MCMaxDatagrams
    MaxFlows <- MCMaxFlows

SPECIFICATION Spec

INVARIANT FlowRoutedByOwnPeerInfo

CHECK_DEADLOCK FALSE
