\* Two threads, two calls in a window of two ticks, two retries: calls that wait
\* for the limiter together, and a retry before and after a re-authentication.
CONSTANTS
    Callers = {t1, t2}
    Free = Free
    MaxRps = 2
    MaxRetries = 2
    Window = 2
SPECIFICATION FairSpec
INVARIANTS RateHolds AnswerTells
PROPERTIES SessionHeals
CHECK_DEADLOCK FALSE
