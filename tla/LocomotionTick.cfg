SPECIFICATION FairSpec
CONSTANTS
    Radius = 4  Speed = 1  NodeSpeed = 2  Safe = 6  Near = 3  Post = 2
    Elapsed <- MCElapsed
    Waits <- MCWaits
INVARIANT Synced
PROPERTIES WalkTethered Homecoming KeepsWandering FleeGetsThere MoveToGetsThere
