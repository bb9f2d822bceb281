SPECIFICATION TimerSpec
CONSTANTS
    Clients = {c1}
    Workers = {w1, w2}
    Timers = {t1, t2}
    Ms = {1, 2}
    Width = 64
    IntRange = 32
    Hour = 4
    MaxTimeout = 2
    Start = 4
    MaxTime = 5
    NoTimer = NoTimer
SYMMETRY Symmetry
INVARIANTS TimersSound 
 
