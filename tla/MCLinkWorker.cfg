CONSTANTS
    Freqs = {2484, 5745}
    Legal40 = {5745}
    Indices = {0, 60}
    MilliWatts = {0, 25, 500}
    McsIndices = {0, 7}
    FecPercs = {20, 100}
    RatePercs = {50, 100}
    RcChannels = {1000, 65535}
    Started <- MCStarted
    MaxEvents = 3
SPECIFICATION Spec
INVARIANT PowerInv
PROPERTIES RateBeforeMcs SettingsTakeEffect OnlyStaleReadBreaks
