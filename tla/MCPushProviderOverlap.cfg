SPECIFICATION Spec
CONSTANTS
    Connections = {c1, c2}
    Names = {n1}
    Handles = {h1, h2}
    None = None
    Runner = Runner
INVARIANTS
    PublishedIsRouted
