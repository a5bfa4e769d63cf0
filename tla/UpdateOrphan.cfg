CONSTANTS
    Files = 2
    Installed <- MCInstalled
    MaxFaults = 1
    MaxCrashes = 1
    MaxStrangers = 0
    MaxDamage = 0
SPECIFICATION Spec
INVARIANTS
    DebrisIsJournaled
