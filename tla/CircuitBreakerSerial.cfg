SPECIFICATION Spec
CONSTANTS
    Clients = {p1}
    Threshold = 5
    Cooldown = 3
INVARIANTS
    NoSpuriousOpen
PROPERTIES
    RefinesMachine
