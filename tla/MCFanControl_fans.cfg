\* Two GPUs whose fans run at 50% to 95%, every failure, shutdowns and crashes.
SPECIFICATION FairSpec
CONSTANTS
    g1 = g1
    g2 = g2
    Gpus = {g1, g2}
    MinSpeed = 50
    MaxSpeed = 95
    Speeds = {70}
    Readings <- SampleReadings
    Cooldown = 2
    Driver = Driver
    Mixed = Mixed
    Curve = Curve
    Refused = Refused
    None = None
INVARIANTS TypeOK FansAsPromised Attended FansCool ShutdownRestores
PROPERTIES StepsAreEarned RestoresAreRetried
