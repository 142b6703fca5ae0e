SPECIFICATION GuiSpec
CONSTANTS
    Servers = {s1}
    Devices = {d1, d2}
    Jobs = {j1, j2}
    None = None
    MaxClicks = 3
    MaxRestarts = 1
INVARIANTS
    SessionOnDisk
    OneForwarder
PROPERTIES
    StopObeyed
    BusyEnds
