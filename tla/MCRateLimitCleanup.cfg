CONSTANTS
    Threads = {t1}
    site = site
    admin = admin
    Keys = {site}
    Limit <- KeyLimits
    Start <- ClockStart
    Horizon <- ClockHorizon
    Step = 60
    MaxLag = 2
    MaxCleanups = 1
SPECIFICATION Spec
INVARIANT WithinLimit
