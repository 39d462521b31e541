CONSTANTS
    R1 = R1
    NT1 = NT1
    n1 = n1
    n2 = n2
    None = None
    RelTypes <- MCRelTypes
    NodeTypes <- MCNodeTypes
    Nodes <- MCNodes
    DepthInputs <- MCDepthInputs
    MaxTraversals <- MCMaxTraversals
    MaxStartNodes <- MCMaxStartNodes
SYMMETRY MCSymmetry
SPECIFICATION Spec
INVARIANTS
    TypeOK
    DerivedExtendsBase
PROPERTIES
    ImplementsValues
