SPECIFICATION Spec
CONSTANT NULL = NULL
INVARIANTS PrefixFollowed ReachesSolution PointsDecided
PROPERTY LoopsEnd
CHECK_DEADLOCK FALSE
