CONSTANTS
    IDs = {"", "d1"}
    Images = {"", "nginx"}
    CPUs <- MCCPUs
    Quantities = {0, 1}
    Protocols = {"", "tcp", "Udp", "sctp"}
    MaxServices = 2
    MaxPorts = 1
    Factors <- MCFactors
    P = 14
SPECIFICATION Spec
INVARIANT TranslationAsSpecified
\* A translation is one call: it returns and the model stops.
CHECK_DEADLOCK FALSE
