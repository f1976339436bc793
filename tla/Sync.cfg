SPECIFICATION Spec
CONSTANTS
    DBs = {d1, d2, d3}
    NoDB = NoDB
    MinSynchronousStandbys = 1
    MaxSynchronousStandbys = 1
    Settings <- SwapAndFailover
    MaxTxns = 1
SYMMETRY DBSymmetry
INVARIANTS ElectableIsComplete GenerationInForce NoLostCommit NoLostAck
