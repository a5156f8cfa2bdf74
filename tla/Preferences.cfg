\* One request to each of the two endpoints at a time, again and again, from one client.
SPECIFICATION PrefSpec
CONSTANTS
    Classify = {c1}
    Extract = {e1}
    Boot = boot
    RequestsPerMinute = 2
    Scenarios = 2
    Field = {"scenarios", "budget", "age"}
    Core = {"scenarios", "budget"}
    TripAfter = 2
    Bucket = {"classify", "extract_prefs"}
    Limit = {2}
    Minute = 2
    Watched = "extract_prefs"
INVARIANTS
    BurstBound
    GroqFailsNoQuery
    LocalKept
    TablesWhole
