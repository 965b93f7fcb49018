SPECIFICATION Spec
SYMMETRY Symmetry
CONSTANTS
    Services = {"service"}
    Critical = {}
    StartTypes = {"auto", "manual"}
    Manual = "manual"
    Disabled = "disabled"
    Names = {"entry"}
    Commands = {c1, c2}
    None = None
    MaxEvents = 4
    Tweaks = {t1, t2}
    Calls = {1, 2, 3}
    Profile = Profile
INVARIANTS
    OriginalUnlessOvertaken
    CommandKept
    RestoreComplete
    MarkerUnlessLost
    MarkerRestorable
CHECK_DEADLOCK FALSE
