SPECIFICATION FairSpec
CONSTANTS
    ClientConns = {c1, c2, c3}
    AdminConns = {adm}
    AgentConns = {ag}
    OddConns = {c2}
    Leavers = {c1}
    Slow = {c1}
    MaxFd = 6
    HeaderLength = 2
    FrameLength = 3
    AnswerLength = 2
    MaxFrames <- MCMaxFrames
    Idle = {c3}
    Rosters = {{c1, ag}, {c1, adm}, {c1, c2}, {c2, c3, ag, adm}}
    NoConn = NoConn
INVARIANTS
  AnswersIntact
PROPERTIES
  ClosedForCause
  AnswersDelivered
CHECK_DEADLOCK FALSE
