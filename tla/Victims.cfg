SPECIFICATION Spec
CONSTANTS
    a1 = a1
    a2 = a2
    a3 = a3
    b1 = b1
    b2 = b2
    b3 = b3
    pre = pre
    qa = qa
    qb = qb
    batch = batch
    service = service
    pdb1 = pdb1
    pdb2 = pdb2
    NoLabel = NoLabel
    NilMatcher = NilMatcher
    NilSelector = NilSelector
    InvalidSelector = InvalidSelector
    Others <- AllOthers
    Preemptor = pre
    PodOf <- MCPodOf
    CfgOf <- MCCfgOf
    MaxOf <- MCMaxOf
    Capacities <- MCCapacities
    PDBs = {pdb1, pdb2}
    Protects <- MCProtects
    MaxAllowed = 1
INVARIANTS
    VictimsMakeRoom
    NoNeedlessVictim
    VictimsReported
    BudgetsAccounted
    SimulationFaithful
CHECK_DEADLOCK FALSE
