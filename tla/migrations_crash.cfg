\* One instance that may die between a script and its journal entry.
SPECIFICATION Spec
CONSTANTS
    Proc = {p1}
    Images <- GappedImages
    MaxCrashes = 1
INVARIANTS TracksWhatRan
