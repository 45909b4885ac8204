\* Three items at once out of every mixture of pictures, sounds and films.
CONSTANTS
    N = 4
    MaxConcurrent = 3
    Shapes <- MCShapes
    InputLimit = 6
    PixelLimit = 4
    DurationLimit = 4
SPECIFICATION Spec
INVARIANTS Accounted WithinLimits NoFalseRejection OutcomeSummarises
CHECK_DEADLOCK FALSE
