CONSTANTS
    c1 = c1
    c2 = c2
    Callers <- MCCallers
    NPol = 1
    NSvc = 1
    Exposed = {1}
    MaxFaults = 1
    MaxDeletes = 1
SYMMETRY Symmetry
SPECIFICATION Spec
INVARIANT PoliciesApplied
\* Each call runs once; when all have returned and the namespace is settled
\* no request is left and the provider idles.
CHECK_DEADLOCK FALSE
