SPECIFICATION LiveSpec
CONSTANTS
    Conf = {a, b}
    First = a
    None = None
    MboxSize = 5
    ApiMsgs = 3
    InPkts = 1
    Pbufs = 2
    RecvBox = 1
    RxBuffers = 1
INVARIANTS InfoWhole PbufsAccounted
PROPERTIES LinkFollows ReconfigureEnds FramesTaken PoolRecovers
