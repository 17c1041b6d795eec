SPECIFICATION LiveSpec
CONSTANTS
    filesTimer = filesTimer
    chatTimer = chatTimer
    Callers = {c1, c2}
    Timers = {filesTimer, chatTimer}
    TimerScope <- MCTimerScope
    Watcher = watcher
    InlineCallers = TRUE
INVARIANTS
    CarriedIsServed
PROPERTIES
    SettlesWhileTimersRun
    NoTimerStarves
    CloseQuiesces
CHECK_DEADLOCK FALSE
