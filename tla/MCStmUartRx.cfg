CONSTANTS
    STX = 9
    VERSION = 3
    MSG_MOTION_FB = 2
    MSG_SAFETY_EVENT = 1
    FbLen = 2
    SafetyLen = 1
    MaxPayload = 8
    QueueLen = 2
    SeqByte = {8, 9}
    PayloadByte = {5, 9}
    CrcByte = {6}
    NoiseByte = {0, 8, 9}
    MaxNoise = 2
SPECIFICATION Spec
INVARIANTS
    TypeOK
    BufferBound
    RecoversWithin
PROPERTY FeedbackIsSent
