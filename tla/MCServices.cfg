\* One process, both versions of wait_closed.
SPECIFICATION Spec
CONSTANTS
    Proc = {p1}
INVARIANTS
    TypeOK
    DrainIsComplete
    OrphanOnlyByFailedStop
PROPERTIES
    Mended
    StopsEnd
