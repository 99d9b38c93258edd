SPECIFICATION BusySpec
CONSTANTS
    Writers = {w1}
    Readers = {r1, r2}
    Byte = {x, y}
    FillByte = x
    PIPESIZE = 2
    UINT = 4
    MaxN = 2
    Victims = {r1}
CHECK_DEADLOCK FALSE
PROPERTIES IsFifo EofIsEnd CallsReturn
