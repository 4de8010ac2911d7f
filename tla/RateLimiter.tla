----------------------------- MODULE RateLimiter -----------------------------
(***************************************************************************)
(* The two limiters of pm-executor.  RateLimiter (safety.rs) is the lock-   *)
(* free limiter in front of the execution loop: it is called by the        *)
(* execution thread alone, so try_acquire is one action.  The quotes'      *)
(* commands pass QuoteCommandThrottle and are retried by retry_decision    *)
(* (execution.rs), which nothing calls yet: the model supplies a caller    *)
(* that submits each command when it is due, and no earlier.               *)
(*                                                                         *)
(* Both read the wall clock (SystemTime), which an adjustment may set back *)
(* while real time goes on.  Time is counted in ticks, Window of them to   *)
(* the second.                                                             *)
(*                                                                         *)
(* A definition named X_Fault is X with a mistake the code could have made *)
(* in its place; no action uses it.                                        *)
(***************************************************************************)
EXTENDS Integers, FiniteSetsExt

CONSTANTS
    MaxPerSecond,  \* max_per_second, max_commands_per_window
    Window,        \* ticks in 1_000_000_000 ns, throttle_window_ms
    QuoteCommands, \* the quotes' commands
    MaxRetries,    \* max_retries
    InitialBackoff, MaxBackoff,
    Setbacks,      \* how far an adjustment may set the wall clock back
    MaxSetbacks,   \* bound: how often that happens
    Horizon,       \* bound: the last tick of real time
    CountBound     \* bound: calls counted in one window

ASSUME LimiterAssumption == /\ MaxPerSecond \in Nat
                            /\ Window \in Nat \ {0}
                            /\ Setbacks \subseteq 1..Window
                            /\ Horizon \in Nat /\ CountBound \in Nat
                            /\ {MaxRetries, InitialBackoff, MaxBackoff, MaxSetbacks} \subseteq Nat

VARIABLES
    kind,          \* which of the two: "limiter" or "throttle"
    windowStart,   \* window_start_ns, window_started_ms; -1 for None
    count,         \* count_in_window, commands_in_window
    commands,      \* of each: [state, attempt, due], and as history how often and
                   \*   when in real time it was sent last: [sends, sentAt]
    real,          \* real time
    wall,          \* what SystemTime::now reads
    setbacks,      \* how often it was set back
    passed         \* history: how many calls were let through at each tick

limiterVars == <<kind, windowStart, count, commands, real, wall, setbacks, passed>>

LimiterInit ==
    /\ kind \in {"limiter", "throttle"}
    /\ windowStart = IF kind = "limiter" THEN 0 ELSE -1
    /\ commands = IF kind = "limiter" THEN <<>>
                  ELSE [c \in QuoteCommands |-> [state |-> "ready", attempt |-> 0, due |-> 0,
                                            sends |-> 0, sentAt |-> 0]]
    /\ count = 0
    /\ real = 0
    /\ wall = 2 * Window     \* the epoch is long past
    /\ setbacks = 0
    /\ passed = [t \in 0..Horizon |-> 0]

-----------------------------------------------------------------------------

SaturatingSub(a, b) == IF a > b THEN a - b ELSE 0

WindowOver == SaturatingSub(wall, windowStart) >= Window

LetThrough == passed' = [passed EXCEPT ![real] = @ + 1]

\* More than a second since the window started: a new window, with this call
\* in it.
OpenWindow ==
    /\ kind = "limiter" /\ WindowOver
    /\ windowStart' = wall
    /\ count' = 1
    /\ LetThrough
    /\ UNCHANGED <<kind, commands, real, wall, setbacks>>

\* Fault: the count before the increment is compared.
CountCall_Late ==
    /\ kind = "limiter" /\ ~WindowOver
    /\ count < CountBound
    /\ count' = count + 1
    /\ IF count > MaxPerSecond THEN UNCHANGED passed ELSE LetThrough
    /\ UNCHANGED <<kind, windowStart, commands, real, wall, setbacks>>

\* fetch_add, whose increment is kept when the call is refused.
CountCall ==
    /\ kind = "limiter" /\ ~WindowOver
    /\ count < CountBound
    /\ count' = count + 1
    /\ IF count + 1 > MaxPerSecond THEN UNCHANGED passed ELSE LetThrough
    /\ UNCHANGED <<kind, windowStart, commands, real, wall, setbacks>>

TryAcquire == OpenWindow \/ CountCall

-----------------------------------------------------------------------------
\* The throttle.

\* The first call starts the first window.
Started == IF windowStart = -1 THEN wall ELSE windowStart

Renewed == SaturatingSub(wall, Started) >= Window

\* Fault: the attempt is not counted.
RetryAfter_SameAttempt(c) ==
    [c EXCEPT !.due = wall + IF InitialBackoff * 2^c.attempt < MaxBackoff
                             THEN InitialBackoff * 2^c.attempt ELSE MaxBackoff]

\* RetryAt, the exponent stopping at 16.
RetryAfter(c) ==
    LET delay == InitialBackoff * 2^(IF c.attempt < 16 THEN c.attempt ELSE 16)
    IN  [c EXCEPT !.attempt = @ + 1, !.due = wall + IF delay < MaxBackoff THEN delay ELSE MaxBackoff]

\* retry_decision; a RateLimited failure is treated as a Transient one.
RetryDecision(c, failure) ==
    IF failure = "Permanent" \/ c.attempt >= MaxRetries THEN [c EXCEPT !.state = "given_up"]
    ELSE RetryAfter(c)

\* A command that is due: it is sent if the window has room, and otherwise due
\* again when the window ends.
Submit(c) ==
    LET start == IF Renewed THEN wall ELSE Started
        inWindow == IF Renewed THEN 0 ELSE count
        sent == [commands[c] EXCEPT !.sends = @ + 1, !.sentAt = real]
    IN  /\ kind = "throttle"
        /\ commands[c].state = "ready" /\ commands[c].due <= wall
        /\ windowStart' = start
        /\ \/ /\ inWindow < MaxPerSecond
              /\ count' = inWindow + 1
              /\ LetThrough
              /\ \/ commands' = [commands EXCEPT ![c] = [sent EXCEPT !.state = "done"]]
                 \/ \E failure \in {"Transient", "Permanent"} :
                        commands' = [commands EXCEPT ![c] = RetryDecision(sent, failure)]
           \/ /\ inWindow >= MaxPerSecond
              /\ count' = inWindow
              /\ commands' = [commands EXCEPT ![c].due = start + Window]
              /\ UNCHANGED passed
        /\ UNCHANGED <<kind, real, wall, setbacks>>

-----------------------------------------------------------------------------
LimiterTick ==
    /\ real < Horizon
    /\ real' = real + 1
    /\ wall' = wall + 1
    /\ UNCHANGED <<kind, windowStart, count, commands, setbacks, passed>>

SetBack(d) ==
    /\ wall >= Window + d
    /\ setbacks < MaxSetbacks /\ setbacks' = setbacks + 1
    /\ wall' = wall - d
    /\ UNCHANGED <<kind, windowStart, count, commands, real, passed>>

LimiterNext ==
    \/ TryAcquire \/ LimiterTick
    \/ \E c \in QuoteCommands : Submit(c)
    \/ \E d \in Setbacks : SetBack(d)

LimiterSpec == LimiterInit /\ [][LimiterNext]_limiterVars

-----------------------------------------------------------------------------

\* Calls let through at the ticks of a set.
PassedIn(ticks) == MapThenSumSet(LAMBDA t : passed[t], ticks)

\* The ticks of the second that starts at tick t.
SecondFrom(t) == {i \in 0..Horizon : t <= i /\ i < t + Window}

\* The bound a fixed window gives: no second of real time sees more than two
\* windows' worth of triggers, even when the wall clock is set back.  A limit of
\* zero still lets one call open each window.
TwoWindowsAtMost ==
    LET perWindow == IF MaxPerSecond = 0 THEN 1 ELSE MaxPerSecond
    IN  \A t \in 0..Horizon : PassedIn(SecondFrom(t)) <= 2 * perWindow

\* However often the throttle turns it away in between, a command is sent no
\* more than max_retries times again, each time after the back-off of that retry
\* in real time (execution.rs:100).
RetriesBackOff ==
    [][\A c \in DOMAIN commands : commands'[c].sends > commands[c].sends =>
          LET n == commands[c].sends
          IN  /\ n <= MaxRetries
              /\ n > 0 => \/ real - commands[c].sentAt >= MaxBackoff
                          \/ real - commands[c].sentAt >= InitialBackoff * 2^(n - 1)]_limiterVars
=============================================================================
