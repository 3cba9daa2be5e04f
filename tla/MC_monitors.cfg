CONSTANTS
    Configs <- MCConfigs
    Values <- MCValues
    ConfigsOf <- MCConfigsOf
    Readings <- MCReadings
    Zones = {z1, z2}
    Filtered = {z1}
    Growths <- MCGrowths
    MaxGrowth = 10
    WRAPPED = 1000
    MaxClients = 2
    MaxLines = 3
    Loads = {80, 150}
    Candidates = 2
    MaxPipe = 1
    MaxUnseen = 2
SPECIFICATION MonSpec
INVARIANTS NeverUnderstates OverstatesWithinBand SignalJustified GlitchForgotten SignalsForwarded
PROPERTIES NoFlapping ReturnsOnShutdown GpuReadingGenuine DropJoins
CHECK_DEADLOCK FALSE
