\* Three instances, three images with and without gaps, a crash anywhere.
SPECIFICATION FairSpec
CONSTANTS
    Proc = {p1, p2, p3}
    Images <- GappedImages
    MaxCrashes = 1
INVARIANTS TypeOK JournalIsPrefix SingleRecorder ServingMeansMigrated OnlyCrashesStrand
PROPERTIES AppliedInOrder SomeoneServes
