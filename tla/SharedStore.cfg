\* Two command-line processes, one project.
CONSTANTS
    Procs = {cli1, cli2}
    Desktop = {}
    j1 = j1
    j2 = j2
    Projects = {j1}
    small1 = small1
    small2 = small2
    small3 = small3
    large1 = large1
    large2 = large2
    large3 = large3
    history1 = history1
    Generations = {small1, small2, small3, large1}
    Shape <- MCShape
    LazyThreshold = 3
    Quota = 3
    MaxVersions = 2
    NoGeneration = NoGeneration
    NoDataset = NoDataset
    OutsideStore = OutsideStore
SYMMETRY Symmetry
SPECIFICATION Spec
INVARIANT CurrentIsReadable
