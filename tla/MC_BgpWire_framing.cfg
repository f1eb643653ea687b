\* A KEEPALIVE then an UPDATE, delivered by TCP in segments of any size.
CONSTANTS
    Sent <- MCSent
    BodyByte = 0
SPECIFICATION Spec
INVARIANTS
    RecvFramed
\* The peer may stop sending and keep the connection open.
CHECK_DEADLOCK FALSE
