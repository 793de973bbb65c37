\* Three activations at once, of either function.
SPECIFICATION FairSpec
CONSTANT Tasks = {1, 2, 3}
INVARIANTS
    TypeOK
    FailureIsWatched
    WayOutIsOffered
    StaleListenerNeedsOverlap
PROPERTIES
    ReloadNeedsOverlap
    RecoversUnattended
