\* Two runs started from one card, each with up to two events.
SPECIFICATION FairTrailSpec
CONSTANTS
    Runs = {r1, r2}
    None = None
    MaxEvents = 2
INVARIANTS TrailTypeOK TrailIsFaithful
PROPERTIES TrailCatchesUp
