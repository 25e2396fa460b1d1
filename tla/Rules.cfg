\* Every rule on the inputs of a small set.
CONSTANTS
    Loadable <- MCLoadable
    Dialects <- MCDialects
    Zone = "Asia/Shanghai"
    Today = "today"
    Offset = "-480"
    ZoneLike <- MCZoneLike
SPECIFICATION Spec
INVARIANTS WaitsAreBounded YoungAreReprobed ScheduleIsMostlyKept ShapesAreLengths
    TimeOnlyHeals AnyRowsWillDo EditsMostlySurvive
    RewritesAreStable DeclarationsAreTheLimit
