------------------------------ MODULE Backoff ------------------------------
(***************************************************************************)
(* The delays between dials (util.go: backoff.next; websocket.go:          *)
(* tryReconnect) with integers of a given width.  The delay is computed as *)
(* a floating-point number, which does not overflow, and converted to an   *)
(* integer before it is compared with the maximum.                         *)
(***************************************************************************)
EXTENDS Integers

CONSTANTS
    MinDelay, MaxDelay,     \* WithReconnectBackoff: 0 < MinDelay <= MaxDelay,
                            \* and both fit a Duration
    Width,                  \* bits of a Duration: 64 in Go
    MaxAttempts             \* bound: dials that fail

VARIABLES
    attempts,       \* dials that failed since the connection was lost
    delay           \* the delay before the next dial

vars == <<attempts, delay>>

Least == -(2^(Width - 1))
Greatest == 2^(Width - 1) - 1

\* time.Duration(durf): of a value that does not fit, what the processor
\* yields: the least integer (amd64) or the nearest one (arm64).
Converted(x) == IF x <= Greatest THEN {x} ELSE {Least, Greatest}

\* MinDelay * 1.5^n and less than MinDelay more, at random.
Durations(n) ==
    {(MinDelay * 3^n) \div 2^n + jitter : jitter \in 0..MinDelay}

\* backoff.next
Delays(n) ==
    {IF d > MaxDelay THEN MaxDelay ELSE d :
       d \in UNION {Converted(x) : x \in Durations(n)}}

Init == attempts = 0 /\ delay \in Delays(0)

\* A dial fails, and the loop of tryReconnect waits again.
DialFails ==
    /\ attempts < MaxAttempts
    /\ attempts' = attempts + 1
    /\ delay' \in Delays(attempts + 1)

Spec == Init /\ [][DialFails]_vars

\* Between two dials lies at least the least and at most the greatest delay
\* of WithReconnectBackoff, however long the server stays away.
DelayInBounds == delay \in MinDelay..MaxDelay
=============================================================================
