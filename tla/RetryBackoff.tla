---------------------------- MODULE RetryBackoff ------------------------------
(***************************************************************************)
(* RetryStrategy of processing/retry.rs: how long the retry after an       *)
(* attempt waits.  Delays are natural numbers of one unit, a multiplier is *)
(* a natural number; the random jitter makes the delay a set.              *)
(***************************************************************************)
EXTENDS Integers

\* The strategies the constructors build.
None == [type |-> "none"]
Fixed(interval, max_attempts) ==
    [type |-> "fixed", interval |-> interval, max_attempts |-> max_attempts]
ExponentialBackoff(initial_delay, multiplier, max_delay, max_attempts, jitter) ==
    [type |-> "exponential", initial_delay |-> initial_delay, multiplier |-> multiplier,
     max_delay |-> max_delay, max_attempts |-> max_attempts, jitter |-> jitter]
LinearBackoff(initial_delay, increment, max_delay, max_attempts) ==
    [type |-> "linear", initial_delay |-> initial_delay, increment |-> increment,
     max_delay |-> max_delay, max_attempts |-> max_attempts]

\* All of them.  A backoff multiplies by one at least.
RetryStrategy ==
    {None}
    \cup [type: {"fixed"}, interval: Nat, max_attempts: Nat]
    \cup [type: {"linear"}, initial_delay: Nat, increment: Nat, max_delay: Nat, max_attempts: Nat]
    \cup [type: {"exponential"}, initial_delay: Nat, multiplier: Nat \ {0}, max_delay: Nat,
          max_attempts: Nat, jitter: BOOLEAN]

IsRetryEnabled(s) == s.type # "none"
MaxAttempts(s) == IF s.type = "none" THEN 0 ELSE s.max_attempts

AtMost(delay, cap) == IF delay < cap THEN delay ELSE cap

\* Mutant: the loop multiplies for the first attempt, too.
GrownOnceMore(s, attempt) ==
    LET delay[n \in 0..attempt] ==
            IF n = 0 THEN s.initial_delay ELSE delay[n - 1] * s.multiplier
    IN  delay[attempt]

\* The loop that multiplies once for every attempt but the first.
Grown(s, attempt) ==
    LET delay[n \in 0..attempt] ==
            IF n <= 1 THEN s.initial_delay ELSE delay[n - 1] * s.multiplier
    IN  delay[attempt]

\* delay + delay * 0.25 * r for a random r of [-1, 1), cut to an integer.
Jittered(delay) == ((3 * delay) \div 4) .. (((5 * delay + 3) \div 4) - 1)

\* calculate_delay, as the set of its possible results; empty for no retry.
CalculateDelay(s, attempt) ==
    IF attempt > MaxAttempts(s) THEN {}
    ELSE CASE s.type = "fixed"  -> {s.interval}
           [] s.type = "linear" ->
                 {AtMost(s.initial_delay + s.increment * (attempt - 1), s.max_delay)}
           [] s.type = "exponential" ->
                 LET delay == AtMost(Grown(s, attempt), s.max_delay)
                 IN  IF s.jitter /\ delay > 0 THEN Jittered(delay) ELSE {delay}
==============================================================================
