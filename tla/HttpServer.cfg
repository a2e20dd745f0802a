SPECIFICATION Spec
CONSTANTS
    io = io
    c1 = c1
    c2 = c2
    w1 = w1
    w2 = w2
    Base = base
    Loops = {base, io}
    IoLoops <- OneIoLoop
    Channels = {c1, c2}
    Messages = {1, 2}
    MaxFds = 1
    Workers = {w1, w2}
    Segments <- SegmentsOfC
    Malformed = {}
    Resetting = {c1}
SYMMETRY WorkerSymmetry
INVARIANTS
    NoLostWakeup
    OutputRight
    ConnectionsSound
    Freed
    AnsweredOnce
