\* A session that is over stutters, so a reader stuck on a closed stream would be a deadlock.
SPECIFICATION Spec
CONSTANTS
    Bodies <- MCBodies
    Noise <- MCNoise
    Cap = 3
    Window = 8
    MaxMessages = 3
    MaxNoise = 1
INVARIANTS
    Conserved
    FramesAreMessages
    NoStall
