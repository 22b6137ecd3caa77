\* Every backend call, over every configuration and remote behaviour of the
\* bounded sets, the archive's files written or not; scale requests of
\* up to three workloads, so a failure can fall before, between and after
\* enabled and disabled ones.
SPECIFICATION Spec
CONSTANTS
    ExtractOutcomes = {"ok", "err"}
    MaxScale = 3
    MaxTemplate = 5
INVARIANTS
    HttpdeployMeetsContract
    HttpcheckMeetsContract
    HealthcheckMeetsContract
    ScaleMeetsContract
    MessageSound
    ServicesScoped
    TargetsScoped
    TempFilesRemoved
