SPECIFICATION MCSpec
CONSTANTS
    MaxIdle = 1
    LevelMax = 1
    MaxTimeouts = 1
INVARIANT PowerSound
PROPERTIES CommandFollowsLevel BoostDropsAsArmed
