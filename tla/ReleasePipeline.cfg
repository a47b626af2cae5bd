CONSTANTS
    d1 = d1
    d2 = d2
    r1 = r1
    r2 = r2
    Versions = {"0.1.0", "0.2.0"}
    WellFormed = {"0.1.0", "0.2.0"}
    Commits = {1, 2, 3}
    Pyproject <- SomePyproject
    Headings <- SomeHeadings
    Notes <- SomeNotes
    Dispatches = {d1, d2}
    Runs = {r1, r2}
CHECK_DEADLOCK FALSE
SPECIFICATION Spec
INVARIANTS
    TypeOK
    PushedTagIsOwned
    ReleasesShowTheirNotes
SYMMETRY Alike
