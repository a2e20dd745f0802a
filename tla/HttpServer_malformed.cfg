SPECIFICATION Spec
CONSTANTS
    io = io
    c1 = c1
    c2 = c2
    w1 = w1
    Base = base
    Loops = {base, io}
    IoLoops <- OneIoLoop
    Channels = {c1}
    Messages = {1}
    MaxFds = 1
    Workers = {w1}
    Segments <- OneSegment
    Malformed = {c1}
    Resetting = {}
INVARIANT
    MalformedAnswered
