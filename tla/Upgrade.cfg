SPECIFICATION UpgradeSpec
CONSTANTS
    Managers = {"systemd", "launchd"}
    MaxPids = 3
    MaxRelease = 2
    MaxFaults = 1
    MaxUses = 2
INVARIANTS SourcesNeverSilent SuccessIsServed
PROPERTIES HealthyIsLeft ServiceComesUp
CHECK_DEADLOCK FALSE
