SPECIFICATION PeopleSpec
CONSTANTS
    Workers = {w1, w2}
    MayAbort = TRUE
SYMMETRY Interchangeable
INVARIANTS PeopleTypeOK SettingsStand TrackerTells ConsentHasRecord
