SPECIFICATION RingBuffer_Spec
CONSTANTS
    Byte <- MCByte
    Block <- MCBlock
    Request <- MCRequest
    m_length <- MCLength
PROPERTY ImplementsByteQueue
