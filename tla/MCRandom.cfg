SPECIFICATION Spec
CONSTANTS
    numg = 3
    Clients <- MCClients
    Uniforms <- MCUniforms
INVARIANTS
    DeviatesDefined
PROPERTIES
    ImplementsStreams
CHECK_DEADLOCK FALSE
