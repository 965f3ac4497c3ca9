SPECIFICATION MCSpec
CONSTANTS
    Ids = {1, 2, 3}
    Writers = {c1, c2}
    Walkers = {w1}
    Fields = {config_json}
    Values = {v1, v2}
    Slugs = {s1, s2, s3}
    MAX_ATTEMPTS = 2
    PAGE_SIZE = 1
    MAX_TIME = 1
SYMMETRY Symmetry
INVARIANTS WalkComplete
PROPERTY OmittedKeptUnlessOverlapped
