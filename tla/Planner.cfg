SPECIFICATION Spec
CONSTANTS
    None = None
    Checkpoints <- MCCheckpoints
    Hosts <- MCHosts
    Contexts = {0, 16, 256}
INVARIANTS WithinMemory RunsOnEveryCard FlagsFollowCheckpoint
PROPERTIES MoreMemoryNeverHurts
