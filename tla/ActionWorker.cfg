CONSTANTS
    Pids = {p1, p2}
    NoPid = NoPid
    Codes = {ok, failed}
    Success = ok
    Stopped = stopped
SPECIFICATION FairSpec
INVARIANTS
    TypeOK
    OnlyOwnChildSignalled
    GroupExistsWhenSignalled
    FreedOnlyWhenUnused
    NoOrphan
    BusyOrPending
PROPERTIES
    ImplementsActionJob
    Reclaimed
