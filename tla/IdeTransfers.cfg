CONSTANTS
    t1 = t1
    t2 = t2
    master = master
    slave = slave
    Thread = {t1, t2}
    Disk = {master, slave}
    MaxLba = 2
    MaxOp = 2
    Data = {0, 1}
    Request <- MCRequest
    NoCall = NoCall
    Failing = {"fetch"}
SPECIFICATION FairIdeSpec
INVARIANTS
    QuietChannel
    TransferExact
PROPERTIES
    OnlyWhatIsWritten
    ChannelReleased
