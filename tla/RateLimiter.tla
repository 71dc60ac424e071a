---------------------------- MODULE RateLimiter ----------------------------
(* FixedWindowRateLimiter: one counter per actor and tool. The clock counts   *)
(* ticks, several to the second, because the code rounds what is left of a    *)
(* window up to whole seconds.                                                *)
EXTENDS Integers

CONSTANTS MaxCalls, WindowSeconds, TicksPerSecond
ASSUME RateAssumption ==
    /\ MaxCalls \in Nat \ {0}
    /\ WindowSeconds \in Nat \ {0}
    /\ TicksPerSecond \in Nat \ {0}

Window == WindowSeconds * TicksPerSecond

Counter == [start : Int, used : Nat]

(* No counter yet: as good as one whose window is long over.                  *)
NoCounter == [start |-> 0 - Window, used |-> 0]

(* Mutants: a window that closes a tick early; one that closes a tick late.   *)
ClosesEarly(counter, time) ==
    IF time - counter.start >= Window - 1 THEN [start |-> time, used |-> 0] ELSE counter
ClosesLate(counter, time) ==
    IF time - counter.start > Window THEN [start |-> time, used |-> 0] ELSE counter

CurrentWindow(counter, time) ==
    IF time - counter.start >= Window THEN [start |-> time, used |-> 0] ELSE counter

Exhausted(counter, time) == CurrentWindow(counter, time).used >= MaxCalls

Consume(counter, time) ==
    [CurrentWindow(counter, time) EXCEPT !.used = @ + 1]

(* retry_after_seconds: max(1, ceil(what is left of the window)).             *)
RetryAfterSeconds(counter, time) ==
    LET left == Window - (time - counter.start)
        seconds == (left + TicksPerSecond - 1) \div TicksPerSecond
    IN  IF seconds >= 1 THEN seconds ELSE 1
=============================================================================
