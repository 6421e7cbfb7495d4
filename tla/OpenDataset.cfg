\* The dataset opened in place from a stored generation.
CONSTANTS
    Procs = {app}
    Desktop = {app}
    Projects = {j1}
    small1 = small1
    small2 = small2
    small3 = small3
    large1 = large1
    large2 = large2
    large3 = large3
    history1 = history1
    Generations = {large1, large2, large3}
    Shape <- MCShape
    LazyThreshold = 3
    Quota = 3
    MaxVersions = 2
    NoGeneration = NoGeneration
    NoDataset = NoDataset
    OutsideStore = OutsideStore
SPECIFICATION Spec
INVARIANT OpenDatasetSurvives
