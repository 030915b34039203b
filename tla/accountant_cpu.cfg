CONSTANTS
    n1 = n1
    n2 = n2
    Nodes <- MCNodes
    Inputs <- MCInputs
    Unsigned = FALSE
    W = 4
SPECIFICATION Spec
PROPERTY AggregateRefined
