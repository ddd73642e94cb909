SPECIFICATION FairSpec
CONSTANTS
    UdpThreads = {udp}
    TxThreads = {tx}
    Parts = 2
    GenMod = 3
    MaxPublish = 4
    ReportIds <- MCReportIds
    ReportLens <- MCReportLens
    DestStrings = {"192.168.0.10", "192.168.0.255", "10.0.0.x", "255.255.255.0377"}
    Parses = {"192.168.0.10", "192.168.0.255", "255.255.255.0377"}
    Fits = {"192.168.0.10", "192.168.0.255", "10.0.0.x"}
    DefaultDest = "192.168.0.10"
INVARIANTS TornNeedsTwoPublishes GenerationCheckSound NoLostWakeup
PROPERTIES NeverBackwards ImplementsMailbox FreshReportSent
