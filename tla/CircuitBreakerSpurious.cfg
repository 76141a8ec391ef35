SPECIFICATION Spec
CONSTANTS
    Clients = {p1, p2}
    Threshold = 3
    Cooldown = 2
INVARIANTS
    NoSpuriousOpen
