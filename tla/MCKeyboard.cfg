SPECIFICATION FairSpec
CONSTANTS
    Readers = {r1, r2}
    Sizes = {0, 2}
    KBD_BUF_SIZE = 3
    MaxKeys = 3
    None = None
    KbdWq = kbd_wq
INVARIANTS SleeperMissedNothing
PROPERTIES RingIsFifo InputIsRead
