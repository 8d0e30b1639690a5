SPECIFICATION AllSpec
CONSTANTS
    a = a
    b = b
    c = c
    v = v
    w = w
    NONE = NONE
    PmtPids <- TablePids
    Size <- Sizes
    FirstList <- TwoPrograms
    StreamPids <- FramePids
    Layouts <- TwoLayouts
    Segmentations <- SixDescriptors
    Programs = {1, 2}
    V = 3
    MAX_PMT_PIDS = 2
    selected = 1
    MaxChanges = 1
    CC = 3
    offset = 1
    PacketSizes = {1, 2}
    MAX_BUFFER_SIZE = 3
    MaxBurst = 2
    MaxPackets = 4
    MaxPmts = 1
    MaxComponents = 2
    MaxDescriptors = 2
    Padding = 1
    Slots = {1, 2}
    Descriptors = {p, q, r}
    SILENT = 5
    MaxEvents = 2
INVARIANTS MonitorTypeOK TablesExact CueAsSent InputWatched LogFaithful LossCounted FramesGenuine
PROPERTIES TablesBecomeCurrent LossReported
CHECK_DEADLOCK FALSE
