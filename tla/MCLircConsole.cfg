CONSTANTS
    Nodes = {lirc0, lirc1}
    Senders = {lirc0}
    Threads = {t1, t2}
    Keys = {k1}
    MaxClicks = 2
SPECIFICATION Spec
PROPERTIES HeardIsLearnt
CHECK_DEADLOCK FALSE
