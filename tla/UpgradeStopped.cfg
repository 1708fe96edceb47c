SPECIFICATION UpgradeSpec
CONSTANTS
    Managers = {"systemd", "launchd"}
    MaxPids = 3
    MaxRelease = 2
    MaxFaults = 1
    MaxUses = 2
INVARIANT StoppedIsStarted
CHECK_DEADLOCK FALSE
