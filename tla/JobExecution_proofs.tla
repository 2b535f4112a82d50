-------------------------- MODULE JobExecution_proofs --------------------------
(***************************************************************************)
(* Proofs about JobExecution, for any number of workers and jobs, any      *)
(* middleware stack and any retry policy: type correctness, the hook that  *)
(* agrees with the row, the gauge that accounts for every execution and    *)
(* every dropped one, and attempts that stay within the budget.            *)
(***************************************************************************)
EXTENDS JobExecution, FiniteSetTheorems, TLAPS

(***************************************************************************)
(* Rows.                                                                   *)
(***************************************************************************)

\* The states an attempt can end in.
Ended == {"Succeeded", "Failed", "AwaitingRetry"}

\* The attempt is one after which both limits allow another.
RetryAllowed(j, attempt) ==
    /\ attempt <= PolicyMaxAttempts
    /\ MaxRetries[j] > 0 => attempt <= MaxRetries[j]

\* The row of an absent id is a row.
LEMMA NoRowType == NoRow \in JobRow(Workers)
  BY DEF NoRow, JobRow, NoExpiry

\* Setting the state keeps the rest of the row, so it stays a row.
LEMMA SetStateType ==
  ASSUME NEW r \in JobRow(Workers), NEW kind \in Kinds, NEW t \in Nat
  PROVE  /\ SetState(r, kind, t) \in JobRow(Workers)
         /\ SetState(r, kind, t).kind = kind
         /\ SetState(r, kind, t).attempt = r.attempt
  BY DEF SetState, JobRow

\* The row a claim writes is the worker's Processing row.
LEMMA ClaimedType ==
  ASSUME NEW r \in JobRow(Workers), NEW w \in Workers
  PROVE  LET claimed == [SetState(r, "Processing", 0) EXCEPT !.worker = w]
         IN  /\ claimed \in JobRow(Workers)
             /\ claimed.kind = "Processing"
             /\ claimed.attempt = r.attempt
  BY SetStateType DEF Kinds, JobRow

\* Counting the attempt adds one below the u32 limit, and never gives 0.
LEMMA CountAttemptType ==
  ASSUME NEW r \in JobRow(Workers)
  PROVE  /\ CountAttempt(r) \in JobRow(Workers)
         /\ CountAttempt(r).attempt \in Nat
         /\ CountAttempt(r).attempt >= 1
         /\ r.attempt < AttemptMax => CountAttempt(r).attempt = r.attempt + 1
  BY ProcessorAssumption DEF CountAttempt, JobRow

\* Failing a job permanently writes a Failed row with the attempts counted.
LEMMA FailType ==
  ASSUME NEW r \in JobRow(Workers)
  PROVE  /\ FailJobPermanently(r) \in JobRow(Workers)
         /\ FailJobPermanently(r).kind = "Failed"
         /\ FailJobPermanently(r).attempt = r.attempt
  <1>1. SetState(r, "Failed", 0) \in JobRow(Workers)
    BY SetStateType DEF Kinds
  <1>2. QED
    BY <1>1, ProcessorAssumption DEF FailJobPermanently, JobRow, SetState

\* A retry ends in AwaitingRetry, when both limits allow one, or in Failed.
LEMMA RetryType ==
  ASSUME NEW r \in JobRow(Workers), NEW j \in Jobs, NEW d \in Nat
  PROVE  LET after == HandleJobRetry(j, r, d)
         IN  /\ after \in JobRow(Workers)
             /\ after.kind \in {"AwaitingRetry", "Failed"}
             /\ after.attempt = r.attempt
             /\ after.kind = "AwaitingRetry" => RetryAllowed(j, r.attempt)
  <1>1. /\ SetState(r, "AwaitingRetry", d) \in JobRow(Workers)
        /\ SetState(r, "AwaitingRetry", d).kind = "AwaitingRetry"
        /\ SetState(r, "AwaitingRetry", d).attempt = r.attempt
    BY SetStateType DEF Kinds
  <1>2. CASE ShouldRetryAttempt(j, r, NoException)
    <2>1. r.attempt \in Nat /\ MaxRetries[j] \in Nat
      BY ProcessorAssumption DEF JobRow
    <2>2. RetryAllowed(j, r.attempt)
      BY <1>2, <2>1, ProcessorAssumption DEF RetryAllowed, ShouldRetryAttempt, ShouldRetry
    <2>3. QED
      BY <1>1, <1>2, <2>2 DEF HandleJobRetry
  <1>3. CASE ~ShouldRetryAttempt(j, r, NoException)
    BY <1>3, FailType DEF HandleJobRetry
  <1>4. QED
    BY <1>2, <1>3

\* Whatever the outcome of an attempt, process_job ends it in one of three
\* states, leaves the count alone and asks for a retry only within the limits.
LEMMA ProcessJobType ==
  ASSUME NEW r \in JobRow(Workers), NEW j \in Jobs, NEW o, NEW d \in Nat
  PROVE  LET after == ProcessJob(j, r, o, d)
         IN  /\ after \in JobRow(Workers)
             /\ after.kind \in Ended
             /\ after.attempt = r.attempt
             /\ after.kind = "AwaitingRetry" => RetryAllowed(j, r.attempt)
  <1>1. /\ SetState(r, "Succeeded", 0) \in JobRow(Workers)
        /\ SetState(r, "Succeeded", 0).attempt = r.attempt
    BY SetStateType DEF Kinds
  <1>2. /\ CompleteJobSuccessfully(r) \in JobRow(Workers)
        /\ CompleteJobSuccessfully(r).kind = "Succeeded"
        /\ CompleteJobSuccessfully(r).attempt = r.attempt
    BY <1>1, ProcessorAssumption DEF CompleteJobSuccessfully, JobRow, SetState
  <1>3. ASSUME NEW e
        PROVE  LET after == HandleError(j, r, e, d)
               IN  /\ after \in JobRow(Workers)
                   /\ after.kind \in {"AwaitingRetry", "Failed"}
                   /\ after.attempt = r.attempt
                   /\ after.kind = "AwaitingRetry" => RetryAllowed(j, r.attempt)
    BY FailType, RetryType DEF HandleError
  <1>4. QED
    BY <1>2, <1>3, FailType, RetryType DEF ProcessJob, Ended

(***************************************************************************)
(* The delay of a retry.  What the loop of calculate_delay computes is     *)
(* shown by a least counterexample: no attempt is the first for which it   *)
(* differs from the power.                                                 *)
(***************************************************************************)

\* A set of natural numbers has a least element.
LEMMA LeastNumber ==
  ASSUME NEW T, T \subseteq Nat, T # {}
  PROVE  \E x \in T : \A y \in T : ~(y < x)
  <1> DEFINE R == OpToRel(<, Nat)
  <1>1. IsWellFoundedOn(R, Nat)
    BY NatLessThanWellFounded
  <1>2. \A x, y \in Nat : x < y => <<x, y>> \in R
    BY DEF OpToRel
  <1> HIDE DEF R
  <1>3. PICK x \in T : \A y \in T : ~(<<y, x>> \in R)
    BY <1>1, WFMin
  <1>4. QED
    BY <1>2, <1>3

\* The delays of the loop: d twice, then multiplied by m at every step.
Grows(f, d, m, a) == f = [n \in 0..a |-> IF n <= 1 THEN d ELSE f[n - 1] * m]

\* They are the only ones.
LEMMA GrowthUnique ==
  ASSUME NEW d, NEW m, NEW a \in Nat, NEW f, NEW g, Grows(f, d, m, a), Grows(g, d, m, a)
  PROVE  f[a] = g[a]
  <1> DEFINE T == {n \in 0..a : f[n] # g[n]}
  <1>1. T \subseteq Nat
    OBVIOUS
  <1>2. SUFFICES ASSUME T # {} PROVE FALSE
    OBVIOUS
  <1>3. PICK x \in T : \A y \in T : ~(y < x)
    <2> HIDE DEF T
    <2>1. QED
      BY <1>1, <1>2, LeastNumber
  <1>4. x \in 0..a /\ f[x] # g[x]
    OBVIOUS
  <1>5. \A n \in 0..a : f[n] = (IF n <= 1 THEN d ELSE f[n - 1] * m)
    BY DEF Grows
  <1>6. \A n \in 0..a : g[n] = (IF n <= 1 THEN d ELSE g[n - 1] * m)
    BY DEF Grows
  <1>7. ~(x <= 1)
    BY <1>4, <1>5, <1>6
  <1>8. x - 1 \in 0..a /\ x - 1 < x
    BY <1>4, <1>7
  <1>9. f[x - 1] = g[x - 1]
    BY <1>3, <1>8
  <1>10. QED
    BY <1>4, <1>5, <1>6, <1>7, <1>9

\* The loop multiplies once for every attempt but the first.
LEMMA GrownIsPower ==
  ASSUME NEW s \in Strategies, s.type = "exponential", NEW a \in 1..PolicyMaxAttempts
  PROVE  /\ Grown(s, a) = s.initial_delay * s.multiplier ^ (a - 1)
         /\ Grown(s, a) \in Nat
  <1> DEFINE d == s.initial_delay
             m == s.multiplier
  <1>1. d \in Nat /\ m \in Nat
    BY StrategyAssumption DEF RetryStrategy, None
  <1>2. PolicyMaxAttempts \in Nat /\ a \in Nat /\ a >= 1 /\ a <= PolicyMaxAttempts
    BY ProcessorAssumption
  <1> DEFINE p == [n \in 0..a |-> IF n <= 1 THEN d ELSE d * m ^ (n - 1)]
  <1>3. /\ m ^ 0 = 1
        /\ \A n \in 0..PolicyMaxAttempts : m ^ n \in Nat /\ m ^ (n + 1) = m ^ n * m
    BY PowerAssumption
  <1>4. Grows(p, d, m, a)
    <2> SUFFICES ASSUME NEW n \in 0..a
                 PROVE  (IF n <= 1 THEN d ELSE d * m ^ (n - 1))
                        = (IF n <= 1 THEN d ELSE p[n - 1] * m)
      BY DEF Grows
    <2>1. CASE n <= 1
      BY <2>1
    <2>2. CASE n = 2
      <3>1. m ^ (0 + 1) = 1 * m
        BY <1>2, <1>3
      <3>2. m ^ (n - 1) = m
        BY <3>1, <2>2, <1>1
      <3>3. p[n - 1] = d
        BY <2>2
      <3>4. QED
        BY <2>2, <3>2, <3>3
    <2>3. CASE n > 2
      <3>1. n - 2 \in 0..PolicyMaxAttempts /\ n - 1 \in 0..a /\ ~(n - 1 <= 1)
        BY <1>2, <2>3
      <3>2. PICK k \in 0..PolicyMaxAttempts : k = n - 2
        BY <3>1
      <3>3. m ^ k \in Nat /\ m ^ (k + 1) = m ^ k * m
        BY <1>3
      <3>4. n - 1 = k + 1 /\ (n - 1) - 1 = k
        BY <3>2
      <3>5. p[n - 1] = d * m ^ k
        BY <3>1, <3>4
      <3>6. m ^ (n - 1) = m ^ k * m
        BY <3>3, <3>4
      <3>7. PICK x \in Nat : x = m ^ k
        BY <3>3
      <3>8. d * (x * m) = (d * x) * m
        <4> HIDE DEF d, m
        <4>1. QED
          BY <1>1
      <3>9. QED
        BY <2>3, <3>5, <3>6, <3>7, <3>8
    <2>4. QED
      BY <2>1, <2>2, <2>3
  <1>5. PICK f : Grows(f, d, m, a) /\ Grown(s, a) = f[a]
    <2>1. Grows(CHOOSE f : Grows(f, d, m, a), d, m, a)
      BY <1>4
    <2>2. Grown(s, a) = (CHOOSE f : Grows(f, d, m, a))[a]
      BY DEF Grown, Grows
    <2>3. QED
      BY <2>1, <2>2
  <1>6. Grown(s, a) = p[a]
    <2> HIDE DEF d, m, p
    <2>1. QED
      BY <1>2, <1>4, <1>5, GrowthUnique
  <1>7. PICK k \in 0..PolicyMaxAttempts : k = a - 1
    BY <1>2
  <1>8. m ^ k \in Nat
    BY <1>3
  <1>9. p[a] = d * m ^ (a - 1)
    <2>1. CASE a = 1
      <3>1. p[a] = d /\ m ^ (a - 1) = 1
        BY <2>1, <1>3
      <3>2. QED
        BY <3>1, <1>1
    <2>2. CASE a # 1
      BY <2>2, <1>2
    <2>3. QED
      BY <2>1, <2>2
  <1>10. d * m ^ k \in Nat
    <2>1. PICK x \in Nat : x = m ^ k
      BY <1>8
    <2> HIDE DEF d, m
    <2>2. d * x \in Nat
      BY <1>1
    <2>3. QED
      BY <2>1, <2>2
  <1>11. QED
    BY <1>6, <1>7, <1>9, <1>10

\* Where the retry after the n-th attempt may lie, but for what workers ask.
Band(n) ==
    LET exact == Reference(n)
        quarter == IF strategy.type = "exponential" /\ strategy.jitter THEN exact \div 4 + 1 ELSE 0
    IN  (exact - quarter)..(exact + quarter)

\* The jitter moves a delay by no more than a quarter, cut to an integer.
LEMMA JitterBand ==
  ASSUME NEW x \in Nat, x > 0
  PROVE  /\ Jittered(x) # {} /\ Jittered(x) \subseteq Nat
         /\ Jittered(x) \subseteq (x - (x \div 4 + 1))..(x + (x \div 4 + 1))
  <1>1. /\ (3 * x) \div 4 \in Nat /\ (5 * x + 3) \div 4 \in Nat /\ x \div 4 \in Nat
        /\ x - (x \div 4 + 1) <= (3 * x) \div 4
        /\ (3 * x) \div 4 <= ((5 * x + 3) \div 4) - 1
        /\ ((5 * x + 3) \div 4) - 1 <= x + (x \div 4 + 1)
    OBVIOUS
  <1>2. QED
    BY <1>1 DEF Jittered

\* A delay the policy calculates lies where the n-th backoff does, and while
\* attempts are left it calculates one.
LEMMA DelayInBand ==
  ASSUME strategy \in Strategies, NEW n \in 1..PolicyMaxAttempts
  PROVE  /\ CalculateDelay(strategy, n) # {}
         /\ CalculateDelay(strategy, n) \subseteq Nat
         /\ CalculateDelay(strategy, n) \subseteq Band(n)
  <1>1. /\ PolicyMaxAttempts \in Nat /\ n \in Nat /\ n >= 1 /\ n <= PolicyMaxAttempts
        /\ MaxAttempts(strategy) = PolicyMaxAttempts
    BY ProcessorAssumption, ExecutionAssumption
  <1>2. strategy \in RetryStrategy
    BY StrategyAssumption
  <1>3. strategy # None
    BY <1>1 DEF MaxAttempts, None
  <1>4. CASE strategy \in [type: {"fixed"}, interval: Nat, max_attempts: Nat]
    <2>1. strategy.type = "fixed" /\ strategy.interval \in Nat
      BY <1>4
    <2>2. CalculateDelay(strategy, n) = {strategy.interval}
      BY <1>1, <2>1 DEF CalculateDelay
    <2>3. Band(n) = strategy.interval..strategy.interval
      BY <2>1 DEF Band, Reference
    <2>4. QED
      BY <2>1, <2>2, <2>3
  <1>5. CASE strategy \in [type: {"linear"}, initial_delay: Nat, increment: Nat, max_delay: Nat,
                           max_attempts: Nat]
    <2>1. /\ strategy.type = "linear" /\ strategy.initial_delay \in Nat
          /\ strategy.increment \in Nat /\ strategy.max_delay \in Nat
      BY <1>5
    <2> DEFINE x == AtMost(strategy.initial_delay + strategy.increment * (n - 1), strategy.max_delay)
    <2>2. CalculateDelay(strategy, n) = {x}
      BY <1>1, <2>1 DEF CalculateDelay
    <2>3. PICK k \in Nat : k = n - 1
      BY <1>1
    <2>4. strategy.increment * k = k * strategy.increment /\ strategy.increment * k \in Nat
      BY <2>1
    <2>5. x \in Nat
      BY <2>1, <2>3, <2>4 DEF AtMost
    <2>6. Reference(n) = x
      BY <2>1, <2>3, <2>4 DEF Reference
    <2> HIDE DEF x
    <2>7. Band(n) = x..x
      BY <2>1, <2>5, <2>6 DEF Band
    <2>8. QED
      BY <2>2, <2>5, <2>7
  <1>6. CASE strategy \in [type: {"exponential"}, initial_delay: Nat, multiplier: Nat \ {0},
                           max_delay: Nat, max_attempts: Nat, jitter: BOOLEAN]
    <2>1. strategy.type = "exponential" /\ strategy.max_delay \in Nat
      BY <1>6
    <2>2. PICK grown \in Nat : /\ grown = Grown(strategy, n)
                               /\ grown = strategy.initial_delay * strategy.multiplier ^ (n - 1)
      BY <2>1, GrownIsPower
    <2> DEFINE x == AtMost(grown, strategy.max_delay)
    <2>3. x \in Nat
      BY <2>1 DEF AtMost
    <2>4. Reference(n) = x
      BY <2>1, <2>2 DEF Reference
    <2>5. CalculateDelay(strategy, n) = IF strategy.jitter /\ x > 0 THEN Jittered(x) ELSE {x}
      BY <1>1, <2>1, <2>2 DEF CalculateDelay
    <2> HIDE DEF x
    <2>6. CASE strategy.jitter
      <3>1. Band(n) = (x - (x \div 4 + 1))..(x + (x \div 4 + 1))
        BY <2>1, <2>4, <2>6 DEF Band
      <3>2. x \in (x - (x \div 4 + 1))..(x + (x \div 4 + 1))
        BY <2>3
      <3>3. CASE x > 0
        <4>1. CalculateDelay(strategy, n) = Jittered(x)
          BY <2>5, <2>6, <3>3
        <4>2. QED
          BY <2>3, <3>1, <3>3, <4>1, JitterBand
      <3>4. CASE ~(x > 0)
        <4>1. CalculateDelay(strategy, n) = {x}
          BY <2>5, <3>4
        <4>2. QED
          BY <2>3, <3>1, <3>2, <4>1
      <3>5. QED
        BY <3>3, <3>4
    <2>7. CASE ~strategy.jitter
      <3>1. Band(n) = (x - 0)..(x + 0)
        BY <2>4, <2>7 DEF Band
      <3>2. CalculateDelay(strategy, n) = {x}
        BY <2>5, <2>7
      <3>3. QED
        BY <2>3, <3>1, <3>2
    <2>8. QED
      BY <2>6, <2>7
  <1>7. QED
    BY <1>2, <1>3, <1>4, <1>5, <1>6 DEF RetryStrategy

\* A retry waits a natural number of ticks, after whichever attempt.
LEMMA DelaysType ==
  ASSUME strategy \in Strategies, NEW o, NEW n \in Nat, n >= 1
  PROVE  Delays(o, n) \subseteq Nat
  <1>1. MaxAttempts(strategy) = PolicyMaxAttempts
    BY ExecutionAssumption
  <1>2. CalculateDelay(strategy, n) \subseteq Nat
    <2>1. CASE n <= PolicyMaxAttempts
      <3>1. n \in 1..PolicyMaxAttempts
        BY <2>1, ProcessorAssumption
      <3>2. QED
        BY <3>1, DelayInBand
    <2>2. CASE ~(n <= PolicyMaxAttempts)
      <3>1. n > MaxAttempts(strategy)
        BY <1>1, <2>2, ProcessorAssumption
      <3>2. QED
        BY <3>1 DEF CalculateDelay
    <2>3. QED
      BY <2>1, <2>2
  <1>3. QED
    BY <1>2, ExecutionAssumption DEF Delays

(***************************************************************************)
(* The layers of the stack.                                                *)
(***************************************************************************)

Layers(depth) == {i \in 1..depth : Stack[i] = "prometheus"}

\* The length of the stack is a number.
LEMMA StackLength == Len(Stack) \in Nat
  BY ExecutionAssumption

\* An execution is inside of finitely many layers.
LEMMA LayersFinite ==
  ASSUME NEW d \in 0..Len(Stack)
  PROVE  /\ IsFiniteSet(Layers(d))
         /\ Counting(d) = Cardinality(Layers(d))
         /\ Counting(d) \in Nat
  <1>1. d \in Nat
    BY StackLength
  <1>2. IsFiniteSet(1..d)
    BY <1>1, FS_Interval
  <1>3. Layers(d) \in SUBSET (1..d)
    BY DEF Layers
  <1>4. IsFiniteSet(Layers(d))
    BY <1>2, <1>3, FS_Subset
  <1>5. Cardinality(Layers(d)) \in Nat
    BY <1>4, FS_CardinalityType
  <1>6. QED
    BY <1>4, <1>5 DEF Counting, Layers

\* Outside of the stack there is nothing to count.
LEMMA NothingOutside == Counting(0) = 0
  <1>1. {i \in 1..0 : Stack[i] = "prometheus"} = {}
    OBVIOUS
  <1>2. QED
    BY <1>1, FS_EmptySet DEF Counting

(***************************************************************************)
(* The state of a worker loop, and the hook.                               *)
(***************************************************************************)

SlotSet == [pc: {"idle", "claimed", "run", "write", "gone"},
            id: Jobs \cup {NoJob}, copy: JobRow(Workers), depth: 0..Len(Stack)]

\* TypeOK but for the sign of the gauge, which the accounting gives.
LooseType ==
    /\ strategy \in Strategies
    /\ row \in [Jobs -> JobRow(Workers)]
    /\ slot \in [Workers -> SlotSet]
    /\ workers_active \in Int /\ jobs_processed \in [Labels -> Nat]
    /\ observed \in [Jobs -> Kinds \cup {"None"}]
    /\ dropped \in Nat /\ faults \in 0..MaxFaults
    /\ started \in [Jobs -> Nat] /\ lost \in [Jobs -> Nat]

Holding(w) == slot[w].pc \in {"claimed", "run", "write"}

\* What a loop in the middle of a job has: the job, whose row is Processing
\* as long as the result is not written, a place in the stack only while the
\* job runs, and a result only after the hook was told of it.
LoopOK(w) ==
    /\ Holding(w) <=> slot[w].id # NoJob
    /\ slot[w].pc # "run" => slot[w].depth = 0
    /\ slot[w].pc = "run" => slot[w].copy.attempt >= 1
    /\ Holding(w) => row[slot[w].id].kind = "Processing"
    /\ slot[w].pc = "write" => /\ slot[w].copy.kind \in Ended
                               /\ observed[slot[w].id] = slot[w].copy.kind

\* No two loops hold the same job.
Alone == \A v, w \in Workers : Holding(w) /\ slot[v].id = slot[w].id => v = w

HookInv ==
    /\ LooseType
    /\ \A w \in Workers : LoopOK(w)
    /\ Alone
    /\ HookAgreesWithRow

\* An idle loop, and one that is gone, are well typed.
LEMMA IdleType ==
  /\ Idle \in SlotSet
  /\ [Idle EXCEPT !.pc = "gone"] \in SlotSet
  BY NoRowType, StackLength DEF Idle, SlotSet

\* The initial state satisfies the invariant.
LEMMA InitHook == Init => HookInv
  <1> SUFFICES ASSUME Init PROVE HookInv
    OBVIOUS
  <1>1. NewJob("Enqueued", 0) \in JobRow(Workers)
    BY DEF NewJob, JobRow, Kinds, NoExpiry
  <1>2. LooseType
    BY <1>1, IdleType, ExecutionAssumption DEF Init, LooseType
  <1>3. \A w \in Workers : LoopOK(w)
    BY DEF Init, LoopOK, Holding, Idle
  <1>4. Alone
    BY DEF Init, Alone, Holding, Idle
  <1>5. HookAgreesWithRow
    BY DEF Init, HookAgreesWithRow, NewJob
  <1>6. QED
    BY <1>2, <1>3, <1>4, <1>5 DEF HookInv

\* A loop that holds a job holds one of Jobs.
LEMMA HeldJob ==
  ASSUME LooseType, NEW w \in Workers, LoopOK(w), Holding(w)
  PROVE  slot[w].id \in Jobs
  BY DEF LooseType, SlotSet, LoopOK

\* The end of an attempt, for the loop.
LEMMA ReportSlot ==
  ASSUME LooseType, NEW w \in Workers, NEW after \in JobRow(Workers), Report(w, after)
  PROVE  /\ slot' \in [Workers -> SlotSet]
         /\ slot'[w].pc = "write" /\ slot'[w].id = slot[w].id
         /\ slot'[w].copy = after /\ slot'[w].depth = 0
         /\ \A v \in Workers : v # w => slot'[v] = slot[v]
         /\ \A v \in Workers : slot'[v].id = slot[v].id
  <1> DEFINE new == [slot[w] EXCEPT !.pc = "write", !.copy = after, !.depth = 0]
  <1>1. slot[w] \in SlotSet /\ slot \in [Workers -> SlotSet]
    BY DEF LooseType
  <1>2. 0 \in 0..Len(Stack)
    BY StackLength
  <1>3. /\ new \in SlotSet
        /\ new.pc = "write" /\ new.id = slot[w].id /\ new.copy = after /\ new.depth = 0
    BY <1>1, <1>2 DEF SlotSet
  <1>4. slot' = [slot EXCEPT ![w] = new]
    BY DEF Report
  <1> HIDE DEF new
  <1>5. QED
    BY <1>1, <1>3, <1>4

\* The end of an attempt, for the loop and for the hook.
LEMMA ReportKeeps ==
  ASSUME HookInv, NEW w \in Workers, slot[w].pc \in {"claimed", "run"},
         NEW after \in JobRow(Workers), after.kind \in Ended,
         Report(w, after), UNCHANGED <<row, strategy>>,
         workers_active' \in Int, jobs_processed' \in [Labels -> Nat],
         dropped' \in Nat, faults' \in 0..MaxFaults,
         started' \in [Jobs -> Nat], lost' \in [Jobs -> Nat]
  PROVE  HookInv'
  <1>1. /\ slot[w].id \in Jobs
        /\ row[slot[w].id].kind = "Processing"
    BY HeldJob DEF HookInv, Holding, LoopOK
  <1>2. after.kind \in Kinds
    BY DEF Ended, Kinds
  <1>3. /\ slot' \in [Workers -> SlotSet]
        /\ slot'[w].pc = "write" /\ slot'[w].id = slot[w].id
        /\ slot'[w].copy = after /\ slot'[w].depth = 0
        /\ \A v \in Workers : v # w => slot'[v] = slot[v]
        /\ \A v \in Workers : slot'[v].id = slot[v].id
    BY ReportSlot DEF HookInv
  <1>4. /\ observed' \in [Jobs -> Kinds \cup {"None"}]
        /\ observed'[slot[w].id] = after.kind
        /\ \A j \in Jobs : j # slot[w].id => observed'[j] = observed[j]
    BY <1>1, <1>2 DEF HookInv, LooseType, Report
  <1>5. LooseType'
    BY <1>3, <1>4 DEF HookInv, LooseType
  <1>6. \A v \in Workers : v # w /\ Holding(v) => slot[v].id # slot[w].id
    BY DEF HookInv, Alone
  <1>7. ASSUME NEW v \in Workers PROVE LoopOK(v)'
    <2>1. CASE v = w
      BY <2>1, <1>1, <1>3, <1>4, ExecutionAssumption DEF LoopOK, Holding
    <2>2. CASE v # w
      <3>1. slot[v].pc = "write" => slot[v].id \in Jobs /\ slot[v].id # slot[w].id
        BY <2>2, <1>6, HeldJob DEF HookInv, Holding
      <3>2. QED
        BY <2>2, <3>1, <1>3, <1>4 DEF HookInv, LoopOK, Holding
    <2>3. QED
      BY <2>1, <2>2
  <1>8. Alone'
    <2>1. \A v \in Workers : Holding(v)' <=> Holding(v)
      BY <1>3 DEF Holding
    <2>2. QED
      BY <2>1, <1>3 DEF HookInv, Alone
  <1>9. HookAgreesWithRow'
    BY <1>1, <1>4 DEF HookInv, HookAgreesWithRow
  <1>10. QED
    BY <1>5, <1>7, <1>8, <1>9 DEF HookInv

\* A loop gives its job up, for good or after having written the row r.
LEMMA LetGoKeeps ==
  ASSUME HookInv, NEW w \in Workers, NEW new \in {Idle, [Idle EXCEPT !.pc = "gone"]},
         slot' = [slot EXCEPT ![w] = new],
         NEW r \in [Jobs -> JobRow(Workers)], row' = r,
         \A j \in Jobs : \/ r[j] = row[j]
                         \/ j = slot[w].id /\ slot[w].pc = "write" /\ r[j] = slot[w].copy,
         UNCHANGED <<strategy, observed>>,
         workers_active' \in Int, jobs_processed' \in [Labels -> Nat],
         dropped' \in Nat, faults' \in 0..MaxFaults,
         started' \in [Jobs -> Nat], lost' \in [Jobs -> Nat]
  PROVE  HookInv'
  <1>1. new \in SlotSet /\ new.id = NoJob /\ new.pc \in {"idle", "gone"} /\ new.depth = 0
    BY IdleType DEF Idle
  <1>2. /\ slot' \in [Workers -> SlotSet]
        /\ slot'[w] = new
        /\ \A v \in Workers : v # w => slot'[v] = slot[v]
    BY <1>1 DEF HookInv, LooseType
  <1>3. LooseType'
    BY <1>2 DEF HookInv, LooseType
  <1>4. ASSUME NEW v \in Workers PROVE LoopOK(v)'
    <2>1. CASE v = w
      BY <2>1, <1>1, <1>2 DEF LoopOK, Holding
    <2>2. CASE v # w
      <3>1. ASSUME Holding(v)
            PROVE  slot[v].id \in Jobs /\ row'[slot[v].id] = row[slot[v].id]
        <4>1. slot[v].id \in Jobs
          BY <3>1, HeldJob DEF HookInv
        <4>2. slot[v].id # slot[w].id
          BY <2>2, <3>1 DEF HookInv, Alone
        <4>3. QED
          BY <4>1, <4>2
      <3>2. QED
        BY <2>2, <3>1, <1>2 DEF HookInv, LoopOK, Holding
    <2>3. QED
      BY <2>1, <2>2
  <1>5. Alone'
    BY <1>1, <1>2 DEF HookInv, Alone, Holding, LoopOK
  <1>6. HookAgreesWithRow'
    BY DEF HookInv, HookAgreesWithRow, LoopOK
  <1>7. QED
    BY <1>3, <1>4, <1>5, <1>6 DEF HookInv

\* The row of a job back in the queue.
LEMMA EnqueuedType ==
  ASSUME NEW r \in JobRow(Workers)
  PROVE  /\ SetState(r, "Enqueued", 0) \in JobRow(Workers)
         /\ SetState(r, "Enqueued", 0).kind = "Enqueued"
         /\ SetState(r, "Enqueued", 0).attempt = r.attempt
  BY SetStateType DEF Kinds

\* A row nobody holds is put back into the queue.
LEMMA RequeuedKeeps ==
  ASSUME HookInv, NEW j \in Jobs, \A w \in Workers : Holding(w) => slot[w].id # j,
         row' = [row EXCEPT ![j] = SetState(@, "Enqueued", 0)],
         UNCHANGED <<strategy, slot, Metrics, observed, started, lost, faults>>
  PROVE  HookInv'
  <1>0. row[j] \in JobRow(Workers)
    BY DEF HookInv, LooseType
  <1>1. /\ SetState(row[j], "Enqueued", 0) \in JobRow(Workers)
        /\ SetState(row[j], "Enqueued", 0).kind = "Enqueued"
    BY <1>0, EnqueuedType
  <1>2. /\ row' \in [Jobs -> JobRow(Workers)]
        /\ row'[j].kind = "Enqueued"
        /\ \A k \in Jobs : k # j => row'[k] = row[k]
    BY <1>1 DEF HookInv, LooseType
  <1>3. LooseType'
    BY <1>2 DEF HookInv, LooseType, Metrics
  <1>4. ASSUME NEW v \in Workers PROVE LoopOK(v)'
    <2>1. Holding(v) => slot[v].id \in Jobs \ {j}
      BY HeldJob DEF HookInv
    <2>2. QED
      BY <2>1, <1>2 DEF HookInv, LoopOK, Holding
  <1>5. Alone'
    BY DEF HookInv, Alone, Holding
  <1>6. HookAgreesWithRow'
    BY <1>2 DEF HookInv, HookAgreesWithRow
  <1>7. QED
    BY <1>3, <1>4, <1>5, <1>6 DEF HookInv

\* Begin, and what it does to the slot when the job has a worker.
LEMMA BegunSlot ==
  ASSUME LooseType, NEW w \in Workers, NEW d \in Depths,
         NEW counted \in JobRow(Workers),
         slot' = [slot EXCEPT ![w].pc = "run", ![w].copy = counted, ![w].depth = d]
  PROVE  /\ slot' \in [Workers -> SlotSet]
         /\ slot'[w].pc = "run" /\ slot'[w].id = slot[w].id
         /\ slot'[w].copy = counted /\ slot'[w].depth = d
         /\ \A v \in Workers : v # w => slot'[v] = slot[v]
         /\ \A v \in Workers : slot'[v].id = slot[v].id
  <1> DEFINE new == [slot[w] EXCEPT !.pc = "run", !.copy = counted, !.depth = d]
  <1>1. slot[w] \in SlotSet /\ slot \in [Workers -> SlotSet]
    BY DEF LooseType
  <1>2. d \in 0..Len(Stack)
    BY StackLength DEF Depths
  <1>3. /\ new \in SlotSet
        /\ new.pc = "run" /\ new.id = slot[w].id /\ new.copy = counted /\ new.depth = d
    BY <1>1, <1>2 DEF SlotSet
  <1>4. slot' = [slot EXCEPT ![w] = new]
    OBVIOUS
  <1> HIDE DEF new
  <1>5. QED
    BY <1>1, <1>3, <1>4

\* Entering and leaving the layers keeps the metrics typed.
LEMMA LeaveType ==
  ASSUME LooseType, NEW d \in 0..Len(Stack), NEW o
  PROVE  /\ workers_active + Counting(d) \in Int
         /\ Leave(d, o) => workers_active' \in Int /\ jobs_processed' \in [Labels -> Nat]
         /\ Drop(d) => /\ workers_active' \in Int /\ jobs_processed' \in [Labels -> Nat]
                       /\ dropped' \in Nat
  <1>1. Counting(d) \in Nat
    BY LayersFinite
  <1>2. Label(o) \in Labels
    BY DEF Label, Labels
  <1>3. QED
    BY <1>1, <1>2 DEF LooseType, Leave, Drop

\* Every step keeps the invariant.
LEMMA NextHook == HookInv /\ [Next]_vars => HookInv'
  <1> SUFFICES ASSUME HookInv, [Next]_vars PROVE HookInv'
    OBVIOUS
  <1>a. LooseType
    BY DEF HookInv
  <1>b. \A w \in Workers : /\ slot[w] \in SlotSet /\ slot[w].copy \in JobRow(Workers)
                           /\ slot[w].depth \in 0..Len(Stack) /\ LoopOK(w)
                           /\ Holding(w) => slot[w].id \in Jobs
    <2>1. \A w \in Workers : LoopOK(w)
      BY DEF HookInv
    <2>2. \A w \in Workers : slot[w] \in SlotSet
      BY <1>a DEF LooseType
    <2>3. QED
      BY <1>a, <2>1, <2>2, HeldJob DEF SlotSet
  <1>1. ASSUME NEW w \in Workers, NEW j \in Jobs, Fetch(w, j) PROVE HookInv'
    <2> DEFINE claimed == [SetState(row[j], "Processing", 0) EXCEPT !.worker = w]
               new == [Idle EXCEPT !.pc = "claimed", !.id = j, !.copy = claimed]
    <2>1. row[j] \in JobRow(Workers)
      BY <1>a DEF LooseType
    <2>2. claimed \in JobRow(Workers) /\ claimed.kind = "Processing"
      BY <2>1, ClaimedType
    <2>3. row' = [row EXCEPT ![j] = claimed] /\ row[j].kind = "Enqueued" /\ slot[w].pc = "idle"
      BY <1>1 DEF Fetch
    <2>4. slot' = [slot EXCEPT ![w] = new]
      BY <1>1 DEF Fetch
    <2> HIDE DEF claimed
    <2>5. /\ new \in SlotSet /\ new.pc = "claimed" /\ new.id = j /\ new.depth = 0
      BY <2>2, IdleType DEF Idle, SlotSet
    <2> HIDE DEF new
    <2>6. /\ slot' \in [Workers -> SlotSet] /\ slot'[w] = new
          /\ \A v \in Workers : v # w => slot'[v] = slot[v]
      BY <1>a, <2>4, <2>5 DEF LooseType
    <2>7. /\ row' \in [Jobs -> JobRow(Workers)] /\ row'[j].kind = "Processing"
          /\ \A k \in Jobs : k # j => row'[k] = row[k]
      BY <1>a, <2>2, <2>3 DEF LooseType
    <2>8. \A v \in Workers : Holding(v) => slot[v].id # j
      BY <1>b, <2>3 DEF LoopOK
    <2>9. UNCHANGED <<strategy, workers_active, jobs_processed, dropped, observed, started, lost, faults>>
      BY <1>1 DEF Fetch, Metrics
    <2>10. LooseType'
      BY <1>a, <2>6, <2>7, <2>9 DEF LooseType
    <2>11. ASSUME NEW v \in Workers PROVE LoopOK(v)'
      <3>1. CASE v = w
        BY <3>1, <2>5, <2>6, <2>7, ExecutionAssumption DEF LoopOK, Holding
      <3>2. CASE v # w
        BY <3>2, <1>b, <2>6, <2>7, <2>8, <2>9 DEF LoopOK, Holding
      <3>3. QED
        BY <3>1, <3>2
    <2>12. Alone'
      <3>1. \A v \in Workers : v # w => slot[v].id # j
        BY <1>b, <2>8, ExecutionAssumption DEF LoopOK
      <3>2. QED
        BY <2>5, <2>6, <3>1, <1>b DEF HookInv, Alone, Holding
    <2>13. HookAgreesWithRow'
      BY <2>7, <2>9 DEF HookInv, HookAgreesWithRow
    <2>14. QED
      BY <2>10, <2>11, <2>12, <2>13 DEF HookInv
  <1>2. ASSUME NEW w \in Workers, Begin(w) PROVE HookInv'
    <2> DEFINE counted == CountAttempt(slot[w].copy)
    <2>1. /\ counted \in JobRow(Workers) /\ counted.attempt \in Nat /\ counted.attempt >= 1
      BY <1>b, CountAttemptType
    <2>2. slot[w].pc = "claimed" /\ slot[w].id \in Jobs
      BY <1>2, <1>b DEF Begin, Holding
    <2>3. /\ UNCHANGED <<strategy, row, jobs_processed, dropped, lost, faults>>
          /\ started' \in [Jobs -> Nat]
      BY <1>2, <1>a, <2>2 DEF Begin, LooseType
    <2>4. CASE GetWorker(slot[w].id)
      <3>1. PICK d \in Depths :
              /\ slot' = [slot EXCEPT ![w].pc = "run", ![w].copy = counted, ![w].depth = d]
              /\ workers_active' = workers_active + Counting(d)
              /\ UNCHANGED observed
        BY <1>2, <2>4 DEF Begin
      <3> HIDE DEF counted
      <3>2. /\ slot' \in [Workers -> SlotSet]
            /\ slot'[w].pc = "run" /\ slot'[w].id = slot[w].id
            /\ slot'[w].copy = counted /\ slot'[w].depth = d
            /\ \A v \in Workers : v # w => slot'[v] = slot[v]
            /\ \A v \in Workers : slot'[v].id = slot[v].id
        BY <1>a, <2>1, <3>1, BegunSlot
      <3>3. d \in 0..Len(Stack)
        BY StackLength DEF Depths
      <3>4. workers_active' \in Int
        BY <1>a, <3>1, <3>3, LeaveType
      <3>5. LooseType'
        BY <1>a, <2>3, <3>1, <3>2, <3>4 DEF LooseType
      <3>6. ASSUME NEW v \in Workers PROVE LoopOK(v)'
        <4>1. CASE v = w
          BY <4>1, <1>b, <2>1, <2>2, <2>3, <3>1, <3>2 DEF LoopOK, Holding
        <4>2. CASE v # w
          BY <4>2, <1>b, <2>3, <3>1, <3>2 DEF LoopOK, Holding
        <4>3. QED
          BY <4>1, <4>2
      <3>7. Alone'
        <4>1. \A v \in Workers : Holding(v)' <=> Holding(v)
          BY <2>2, <3>2 DEF Holding
        <4>2. QED
          BY <4>1, <3>2 DEF HookInv, Alone
      <3>8. HookAgreesWithRow'
        BY <2>3, <3>1 DEF HookInv, HookAgreesWithRow
      <3>9. QED
        BY <3>5, <3>6, <3>7, <3>8 DEF HookInv
    <2>5. CASE ~GetWorker(slot[w].id)
      <3>1. Report(w, FailJobPermanently(counted)) /\ UNCHANGED workers_active
        BY <1>2, <2>5 DEF Begin
      <3>2. /\ FailJobPermanently(counted) \in JobRow(Workers)
            /\ FailJobPermanently(counted).kind \in Ended
        BY <2>1, FailType DEF Ended
      <3>3. /\ workers_active' \in Int /\ jobs_processed' \in [Labels -> Nat]
            /\ dropped' \in Nat /\ faults' \in 0..MaxFaults /\ lost' \in [Jobs -> Nat]
        BY <1>a, <2>3, <3>1 DEF LooseType
      <3>4. QED
        BY <2>2, <2>3, <3>1, <3>2, <3>3, ReportKeeps
    <2>6. QED
      BY <2>4, <2>5
  <1>3. ASSUME NEW w \in Workers, NEW o, NEW d \in Delays(o, slot[w].copy.attempt),
               slot[w].pc = "run"
        PROVE  /\ ProcessJob(slot[w].id, slot[w].copy, o, d) \in JobRow(Workers)
               /\ ProcessJob(slot[w].id, slot[w].copy, o, d).kind \in Ended
    <2>1. slot[w].id \in Jobs
      BY <1>3, <1>b DEF Holding
    <2>2. slot[w].copy.attempt \in Nat /\ slot[w].copy.attempt >= 1
      BY <1>3, <1>b DEF LoopOK, JobRow
    <2>3. strategy \in Strategies
      BY <1>a DEF LooseType
    <2>4. d \in Nat
      BY <1>3, <2>2, <2>3, DelaysType
    <2>5. QED
      BY <1>b, <2>1, <2>4, ProcessJobType
  <1>4. ASSUME NEW w \in Workers, NEW o \in Outcomes, Complete(w, o) PROVE HookInv'
    <2>1. slot[w].pc = "run" /\ Leave(slot[w].depth, o)
      BY <1>4 DEF Complete
    <2>2. PICK d \in Delays(o, slot[w].copy.attempt) :
             Report(w, ProcessJob(slot[w].id, slot[w].copy, o, d))
      BY <1>4 DEF Complete
    <2>3. UNCHANGED <<strategy, row, dropped, started, lost, faults>>
      BY <1>4 DEF Complete
    <2>4. workers_active' \in Int /\ jobs_processed' \in [Labels -> Nat]
      BY <1>a, <1>b, <2>1, LeaveType
    <2>5. /\ dropped' \in Nat /\ faults' \in 0..MaxFaults
          /\ started' \in [Jobs -> Nat] /\ lost' \in [Jobs -> Nat]
      BY <1>a, <2>3 DEF LooseType
    <2>6. QED
      BY <1>3, <2>1, <2>2, <2>3, <2>4, <2>5, ReportKeeps
  <1>5. ASSUME NEW w \in Workers, Timeout(w) PROVE HookInv'
    <2>1. slot[w].pc = "run" /\ Drop(slot[w].depth)
      BY <1>5 DEF Timeout
    <2>2. PICK d \in Delays("timeout", slot[w].copy.attempt) :
             Report(w, ProcessJob(slot[w].id, slot[w].copy, "timeout", d))
      BY <1>5 DEF Timeout
    <2>3. UNCHANGED <<strategy, row, started, lost, faults>>
      BY <1>5 DEF Timeout
    <2>4. workers_active' \in Int /\ jobs_processed' \in [Labels -> Nat] /\ dropped' \in Nat
      BY <1>a, <1>b, <2>1, LeaveType
    <2>5. /\ faults' \in 0..MaxFaults
          /\ started' \in [Jobs -> Nat] /\ lost' \in [Jobs -> Nat]
      BY <1>a, <2>3 DEF LooseType
    <2>6. QED
      BY <1>3, <2>1, <2>2, <2>3, <2>4, <2>5, ReportKeeps
  <1>c. ASSUME Fault PROVE faults' \in 0..MaxFaults
    BY <1>a, <1>c, ExecutionAssumption DEF LooseType, Fault
  <1>d. ASSUME NEW w \in Workers, slot[w].id \in Jobs, LoseAttempt(slot[w].id)
        PROVE  lost' \in [Jobs -> Nat]
    BY <1>a, <1>d DEF LooseType, LoseAttempt
  <1>e. row \in [Jobs -> JobRow(Workers)]
    BY <1>a DEF LooseType
  <1>6. ASSUME NEW w \in Workers, Write(w) PROVE HookInv'
    <2> DEFINE r == [row EXCEPT ![slot[w].id] = slot[w].copy]
    <2>1. slot[w].pc = "write" /\ slot[w].id \in Jobs
      BY <1>6, <1>b DEF Write, Holding
    <2>2. r \in [Jobs -> JobRow(Workers)] /\ row' = r
      BY <1>6, <1>b, <1>e, <2>1 DEF Write
    <2>3. \A j \in Jobs : \/ r[j] = row[j]
                          \/ j = slot[w].id /\ slot[w].pc = "write" /\ r[j] = slot[w].copy
      BY <1>e, <2>1
    <2>4. /\ UNCHANGED <<strategy, observed>> /\ workers_active' \in Int
          /\ jobs_processed' \in [Labels -> Nat] /\ dropped' \in Nat /\ faults' \in 0..MaxFaults
          /\ started' \in [Jobs -> Nat] /\ lost' \in [Jobs -> Nat]
      BY <1>6, <1>a DEF Write, Metrics, LooseType
    <2>5. slot' = [slot EXCEPT ![w] = Idle]
      BY <1>6 DEF Write
    <2> HIDE DEF r
    <2>6. QED
      BY <2>2, <2>3, <2>4, <2>5, LetGoKeeps
  <1>7. ASSUME NEW w \in Workers, WriteFails(w) PROVE HookInv'
    <2>1. slot[w].pc = "write" /\ slot[w].id \in Jobs /\ Fault /\ LoseAttempt(slot[w].id)
      BY <1>7, <1>b DEF WriteFails, Holding
    <2>2. lost' \in [Jobs -> Nat] /\ faults' \in 0..MaxFaults
      BY <2>1, <1>c, <1>d
    <2>3. row' = row /\ slot' = [slot EXCEPT ![w] = Idle]
      BY <1>7 DEF WriteFails
    <2>4. /\ UNCHANGED <<strategy, observed>> /\ workers_active' \in Int
          /\ jobs_processed' \in [Labels -> Nat] /\ dropped' \in Nat
          /\ started' \in [Jobs -> Nat]
      BY <1>7, <1>a DEF WriteFails, Metrics, LooseType
    <2>5. QED
      BY <1>e, <2>2, <2>3, <2>4, LetGoKeeps
  <1>8. ASSUME NEW w \in Workers, Die(w) PROVE HookInv'
    <2>1. Holding(w) /\ slot[w].id \in Jobs /\ Fault /\ Drop(slot[w].depth)
      BY <1>8, <1>b DEF Die, Holding
    <2>2. lost' \in [Jobs -> Nat]
      BY <1>8, <1>a, <1>d, <2>1 DEF Die, LooseType
    <2>3. row' = row /\ slot' = [slot EXCEPT ![w] = [Idle EXCEPT !.pc = "gone"]]
      BY <1>8 DEF Die
    <2>4. workers_active' \in Int /\ jobs_processed' \in [Labels -> Nat] /\ dropped' \in Nat
      BY <1>a, <1>b, <2>1, LeaveType
    <2>5. UNCHANGED <<strategy, observed>> /\ started' \in [Jobs -> Nat]
      BY <1>8, <1>a DEF Die, LooseType
    <2>6. faults' \in 0..MaxFaults
      BY <2>1, <1>c
    <2>7. QED
      BY <1>e, <2>2, <2>3, <2>4, <2>5, <2>6, LetGoKeeps
  <1>9. ASSUME NEW w \in Workers, Restart(w) PROVE HookInv'
    <2>1. row' = row /\ slot' = [slot EXCEPT ![w] = Idle]
      BY <1>9 DEF Restart
    <2>2. /\ UNCHANGED <<strategy, observed>> /\ workers_active' \in Int
          /\ jobs_processed' \in [Labels -> Nat] /\ dropped' \in Nat
          /\ started' \in [Jobs -> Nat] /\ lost' \in [Jobs -> Nat] /\ faults' \in 0..MaxFaults
      BY <1>9, <1>a DEF Restart, Metrics, LooseType
    <2>3. QED
      BY <1>e, <2>1, <2>2, LetGoKeeps
  <1>10. ASSUME NEW j \in Jobs, Promote(j) PROVE HookInv'
    <2>1. \A w \in Workers : Holding(w) => slot[w].id # j
      BY <1>10, <1>b DEF Promote, LoopOK
    <2>2. /\ row' = [row EXCEPT ![j] = SetState(@, "Enqueued", 0)]
          /\ UNCHANGED <<strategy, slot, Metrics, observed, started, lost, faults>>
      BY <1>10 DEF Promote
    <2>3. QED
      BY <2>1, <2>2, RequeuedKeeps
  <1>11. ASSUME NEW j \in Jobs, Requeue(j) PROVE HookInv'
    <2>1. \A w \in Workers : Holding(w) => slot[w].id # j
      BY <1>11 DEF Requeue, Held
    <2>2. /\ row' = [row EXCEPT ![j] = SetState(@, "Enqueued", 0)]
          /\ UNCHANGED <<strategy, slot, Metrics, observed, started, lost, faults>>
      BY <1>11 DEF Requeue
    <2>3. QED
      BY <2>1, <2>2, RequeuedKeeps
  <1>12. CASE UNCHANGED vars
    BY <1>12 DEF vars, HookInv, LooseType, LoopOK, Holding, Alone, HookAgreesWithRow
  <1>13. QED
    BY <1>1, <1>2, <1>4, <1>5, <1>6, <1>7, <1>8, <1>9, <1>10, <1>11, <1>12 DEF Next

\* A row that says how its job went agrees with what the hook was last told,
\* through failed writes, panics, aborts and requeues.
THEOREM HookTellsTheRow == Spec => []HookAgreesWithRow
  <1>1. HookInv => HookAgreesWithRow
    BY DEF HookInv
  <1>2. QED
    BY <1>1, InitHook, NextHook, PTL DEF Spec

(***************************************************************************)
(* The gauge.                                                              *)
(***************************************************************************)

\* The executions when the loops are as in s, those of the other loops, and those of a loop at a depth.
InsidersOf(s) == {p \in Workers \X (1..Len(Stack)) :
                     p[2] <= s[p[1]].depth /\ Stack[p[2]] = "prometheus"}
Others(s, w) == {p \in InsidersOf(s) : p[1] # w}
Mine(w, depth) == {<<w, i>> : i \in Layers(depth)}

\* One loop at a depth is as many executions as there are layers above.
LEMMA MineCounted ==
  ASSUME NEW w, NEW d \in 0..Len(Stack)
  PROVE  /\ IsFiniteSet(Mine(w, d))
         /\ Cardinality(Mine(w, d)) = Counting(d)
  <1> DEFINE f == [i \in Layers(d) |-> <<w, i>>]
  <1>1. f \in Bijection(Layers(d), Mine(w, d))
    BY DEF Bijection, Injection, IsInjective, Surjection, Mine
  <1>2. ExistsBijection(Layers(d), Mine(w, d))
    BY <1>1 DEF ExistsBijection
  <1>3. QED
    BY <1>2, LayersFinite, FS_Bijection

\* The executions are those of one loop and those of the others.
LEMMA InsideSplit ==
  ASSUME NEW s \in [Workers -> SlotSet], NEW w \in Workers
  PROVE  /\ IsFiniteSet(Others(s, w)) /\ Cardinality(Others(s, w)) \in Nat
         /\ Cardinality(InsidersOf(s)) = Cardinality(Others(s, w)) + Counting(s[w].depth)
  <1>1. s[w].depth \in 0..Len(Stack)
    BY DEF SlotSet
  <1>2. IsFiniteSet(Workers \X (1..Len(Stack)))
    <2>1. IsFiniteSet(1..Len(Stack))
      BY StackLength, FS_Interval
    <2>2. QED
      BY <2>1, ExecutionAssumption, FS_Product
  <1>3. IsFiniteSet(Others(s, w))
    <2>1. Others(s, w) \in SUBSET (Workers \X (1..Len(Stack)))
      BY DEF Others, InsidersOf
    <2>2. QED
      BY <1>2, <2>1, FS_Subset
  <1>4. InsidersOf(s) = Others(s, w) \cup Mine(w, s[w].depth)
    <2>1. ASSUME NEW p \in InsidersOf(s) PROVE p \in Others(s, w) \cup Mine(w, s[w].depth)
      <3>1. CASE p[1] # w
        BY <3>1 DEF Others
      <3>2. CASE p[1] = w
        <4>1. /\ p = <<w, p[2]>> /\ p[2] \in 1..Len(Stack)
              /\ p[2] <= s[w].depth /\ Stack[p[2]] = "prometheus"
          BY <3>2 DEF InsidersOf
        <4>2. p[2] \in Layers(s[w].depth)
          BY <1>1, <4>1, StackLength DEF Layers
        <4>3. QED
          BY <4>1, <4>2 DEF Mine
      <3>3. QED
        BY <3>1, <3>2
    <2>2. ASSUME NEW i \in Layers(s[w].depth) PROVE <<w, i>> \in InsidersOf(s)
      <3>1. i \in 1..Len(Stack) /\ i <= s[w].depth /\ Stack[i] = "prometheus"
        BY <1>1, StackLength DEF Layers
      <3>2. <<w, i>> \in Workers \X (1..Len(Stack)) /\ <<w, i>>[1] = w /\ <<w, i>>[2] = i
        BY <3>1
      <3>3. QED
        BY <3>1, <3>2 DEF InsidersOf
    <2>3. QED
      BY <2>1, <2>2 DEF Others, Mine
  <1>5. Others(s, w) \cap Mine(w, s[w].depth) = {}
    BY DEF Others, Mine
  <1>6. /\ IsFiniteSet(Mine(w, s[w].depth))
        /\ Cardinality(Mine(w, s[w].depth)) = Counting(s[w].depth)
    BY <1>1, MineCounted
  <1>7. Cardinality(Others(s, w)) \in Nat /\ Counting(s[w].depth) \in Nat
    BY <1>1, <1>3, FS_CardinalityType, LayersFinite
  <1>8. Cardinality(InsidersOf(s)) = Cardinality(Others(s, w)) + Cardinality(Mine(w, s[w].depth))
                                   - Cardinality({})
    BY <1>3, <1>4, <1>5, <1>6, FS_Union
  <1>9. QED
    BY <1>3, <1>6, <1>7, <1>8, FS_EmptySet

\* A step of one loop changes the number of executions inside by what it
\* enters less what it leaves.
LEMMA InsideMoves ==
  ASSUME LooseType, LooseType', NEW w \in Workers,
         \A v \in Workers : v # w => slot'[v].depth = slot[v].depth
  PROVE  /\ Inside \in Nat /\ Inside' \in Nat
         /\ Counting(slot[w].depth) \in Nat /\ Counting(slot'[w].depth) \in Nat
         /\ Inside' = Inside - Counting(slot[w].depth) + Counting(slot'[w].depth)
  <1>1. slot \in [Workers -> SlotSet] /\ slot' \in [Workers -> SlotSet]
    BY DEF LooseType
  <1>2. Inside = Cardinality(InsidersOf(slot)) /\ Inside' = Cardinality(InsidersOf(slot'))
    BY DEF Inside, Insiders, InsidersOf
  <1>3. Others(slot', w) = Others(slot, w)
    BY DEF Others, InsidersOf
  <1>4. /\ Cardinality(Others(slot, w)) \in Nat
        /\ Inside = Cardinality(Others(slot, w)) + Counting(slot[w].depth)
    BY <1>1, <1>2, InsideSplit
  <1>5. Inside' = Cardinality(Others(slot', w)) + Counting(slot'[w].depth)
    BY <1>1, <1>2, InsideSplit
  <1>6. slot[w].depth \in 0..Len(Stack) /\ slot'[w].depth \in 0..Len(Stack)
    BY <1>1 DEF SlotSet
  <1>7. Counting(slot[w].depth) \in Nat /\ Counting(slot'[w].depth) \in Nat
    BY <1>6, LayersFinite
  <1>8. QED
    BY <1>3, <1>4, <1>5, <1>7

\* As long as no loop moves in the stack, the number stays.
LEMMA InsideStays ==
  ASSUME \A v \in Workers : slot'[v].depth = slot[v].depth
  PROVE  Inside' = Inside
  <1>1. Insiders' = Insiders
    BY DEF Insiders
  <1>2. QED
    BY <1>1 DEF Inside

GaugeInv == HookInv /\ GaugeAccounts

\* Nobody is inside at first.
LEMMA InitGauge == Init => GaugeInv
  <1> SUFFICES ASSUME Init PROVE GaugeInv
    OBVIOUS
  <1>1. Insiders = {}
    BY StackLength DEF Init, Idle, Insiders
  <1>2. Inside = 0
    BY <1>1, FS_EmptySet DEF Inside
  <1>3. QED
    BY <1>2, InitHook DEF Init, GaugeInv, GaugeAccounts

\* Every step keeps the account: what an execution enters is counted when it
\* enters, and moved to the dropped ones when it does not leave.
LEMMA NextGauge == GaugeInv /\ [Next]_vars => GaugeInv'
  <1> SUFFICES ASSUME GaugeInv, [Next]_vars PROVE GaugeInv'
    OBVIOUS
  <1>a. HookInv /\ HookInv' /\ LooseType /\ LooseType'
    BY NextHook DEF GaugeInv, HookInv
  <1>b. /\ slot \in [Workers -> SlotSet] /\ workers_active \in Int /\ dropped \in Nat
        /\ workers_active' \in Int /\ dropped' \in Nat
        /\ workers_active = Inside + dropped
    BY <1>a DEF LooseType, GaugeInv, GaugeAccounts
  <1>c. \A w \in Workers : slot[w].pc # "run" => slot[w].depth = 0
    BY <1>a DEF HookInv, LoopOK
  <1>d. \A w \in Workers : slot[w].depth \in 0..Len(Stack)
    BY <1>b DEF SlotSet
  <1>e. Idle.depth = 0 /\ [Idle EXCEPT !.pc = "gone"].depth = 0
    BY DEF Idle
  <1>f. SUFFICES GaugeAccounts'
    BY <1>a DEF GaugeInv
  <1>g. ASSUME UNCHANGED <<workers_active, dropped>>,
               \A v \in Workers : slot'[v].depth = slot[v].depth
        PROVE  GaugeAccounts'
    BY <1>g, <1>b, InsideStays DEF GaugeAccounts
  <1>h. ASSUME NEW w \in Workers, NEW after, Report(w, after)
        PROVE  /\ slot'[w].depth = 0
               /\ \A v \in Workers : v # w => slot'[v].depth = slot[v].depth
    <2>1. slot' = [slot EXCEPT ![w] = [slot[w] EXCEPT !.pc = "write", !.copy = after, !.depth = 0]]
      BY <1>h DEF Report
    <2>2. QED
      BY <1>b, <2>1 DEF SlotSet
  <1>1. ASSUME NEW w \in Workers, NEW j \in Jobs, Fetch(w, j) PROVE GaugeAccounts'
    <2>1. /\ slot[w].pc = "idle" /\ UNCHANGED <<workers_active, dropped>>
          /\ slot' = [slot EXCEPT ![w] = [Idle EXCEPT !.pc = "claimed", !.id = j,
                           !.copy = [SetState(row[j], "Processing", 0) EXCEPT !.worker = w]]]
      BY <1>1 DEF Fetch, Metrics
    <2>2. \A v \in Workers : slot'[v].depth = slot[v].depth
      BY <1>b, <1>c, <2>1 DEF Idle
    <2>3. QED
      BY <1>g, <2>1, <2>2
  <1>2. ASSUME NEW w \in Workers, Begin(w) PROVE GaugeAccounts'
    <2>1. slot[w].pc = "claimed" /\ slot[w].depth = 0 /\ UNCHANGED dropped
      BY <1>2, <1>c DEF Begin
    <2>2. CASE GetWorker(slot[w].id)
      <3>1. PICK d \in Depths :
              /\ slot' = [slot EXCEPT ![w].pc = "run", ![w].copy = CountAttempt(slot[w].copy),
                                     ![w].depth = d]
              /\ workers_active' = workers_active + Counting(d)
        BY <1>2, <2>2 DEF Begin
      <3>2. slot' = [slot EXCEPT ![w] = [slot[w] EXCEPT !.pc = "run",
                        !.copy = CountAttempt(slot[w].copy), !.depth = d]]
        BY <3>1
      <3>3. slot'[w].depth = d /\ \A v \in Workers : v # w => slot'[v].depth = slot[v].depth
        BY <1>b, <3>2 DEF SlotSet
      <3>4. /\ Inside \in Nat /\ Inside' \in Nat /\ Counting(d) \in Nat
            /\ Inside' = Inside - Counting(0) + Counting(d)
        BY <1>a, <2>1, <3>3, InsideMoves
      <3>5. QED
        BY <1>b, <2>1, <3>1, <3>4, NothingOutside DEF GaugeAccounts
    <2>3. CASE ~GetWorker(slot[w].id)
      <3>1. /\ Report(w, FailJobPermanently(CountAttempt(slot[w].copy)))
            /\ UNCHANGED workers_active
        BY <1>2, <2>3 DEF Begin
      <3>2. \A v \in Workers : slot'[v].depth = slot[v].depth
        BY <1>h, <2>1, <3>1
      <3>3. QED
        BY <1>g, <2>1, <3>1, <3>2
    <2>4. QED
      BY <2>2, <2>3
  <1>3. ASSUME NEW w \in Workers, slot'[w].depth = 0,
               \A v \in Workers : v # w => slot'[v].depth = slot[v].depth
        PROVE  /\ Inside \in Nat /\ Inside' \in Nat /\ Counting(slot[w].depth) \in Nat
               /\ Inside' = Inside - Counting(slot[w].depth)
    BY <1>3, <1>a, InsideMoves, NothingOutside
  <1>4. ASSUME NEW w \in Workers, NEW o \in Outcomes, Complete(w, o) PROVE GaugeAccounts'
    <2>1. /\ workers_active' = workers_active - Counting(slot[w].depth) /\ UNCHANGED dropped
          /\ \E after : Report(w, after)
      BY <1>4 DEF Complete, Leave
    <2>2. QED
      BY <1>b, <1>h, <1>3, <2>1 DEF GaugeAccounts
  <1>5. ASSUME NEW w \in Workers, Timeout(w) PROVE GaugeAccounts'
    <2>1. /\ dropped' = dropped + Counting(slot[w].depth) /\ UNCHANGED workers_active
          /\ \E after : Report(w, after)
      BY <1>5 DEF Timeout, Drop
    <2>2. QED
      BY <1>b, <1>h, <1>3, <2>1 DEF GaugeAccounts
  <1>6. ASSUME NEW w \in Workers, Write(w) \/ WriteFails(w) \/ Restart(w) PROVE GaugeAccounts'
    <2>1. /\ slot[w].pc \in {"write", "gone"} /\ slot' = [slot EXCEPT ![w] = Idle]
          /\ UNCHANGED <<workers_active, dropped>>
      BY <1>6 DEF Write, WriteFails, Restart, Metrics
    <2>2. \A v \in Workers : slot'[v].depth = slot[v].depth
      BY <1>b, <1>c, <1>e, <2>1
    <2>3. QED
      BY <1>g, <2>1, <2>2
  <1>7. ASSUME NEW w \in Workers, Die(w) PROVE GaugeAccounts'
    <2>1. /\ slot' = [slot EXCEPT ![w] = [Idle EXCEPT !.pc = "gone"]]
          /\ dropped' = dropped + Counting(slot[w].depth) /\ UNCHANGED workers_active
      BY <1>7 DEF Die, Drop
    <2>2. slot'[w].depth = 0 /\ \A v \in Workers : v # w => slot'[v].depth = slot[v].depth
      BY <1>b, <1>e, <2>1
    <2>3. QED
      BY <1>b, <1>3, <2>1, <2>2 DEF GaugeAccounts
  <1>8. ASSUME NEW j \in Jobs, Promote(j) \/ Requeue(j) PROVE GaugeAccounts'
    <2>1. UNCHANGED <<slot, workers_active, dropped>>
      BY <1>8 DEF Promote, Requeue, Metrics
    <2>2. QED
      BY <1>g, <2>1
  <1>9. CASE UNCHANGED vars
    <2>1. UNCHANGED <<slot, workers_active, dropped>>
      BY <1>9 DEF vars
    <2>2. QED
      BY <1>g, <2>1
  <1>10. QED
    BY <1>1, <1>2, <1>4, <1>5, <1>6, <1>7, <1>8, <1>9 DEF Next

\* The gauge has one for every execution inside a prometheus layer and one
\* for every execution that was dropped there, whatever the stack.
THEOREM GaugeIsExact == Spec => []GaugeAccounts
  <1>1. GaugeInv => GaugeAccounts
    BY DEF GaugeInv
  <1>2. QED
    BY <1>1, InitGauge, NextGauge, PTL DEF Spec

\* Every variable keeps its type; in particular the gauge is never negative.
THEOREM TypeCorrect == Spec => []TypeOK
  <1>1. GaugeInv => TypeOK
    <2> SUFFICES ASSUME GaugeInv PROVE TypeOK
      OBVIOUS
    <2>1. LooseType /\ GaugeAccounts
      BY DEF GaugeInv, HookInv
    <2>2. Inside \in Nat
      <3>1. IsFiniteSet(1..Len(Stack))
        BY StackLength, FS_Interval
      <3>2. IsFiniteSet(Workers \X (1..Len(Stack)))
        BY <3>1, ExecutionAssumption, FS_Product
      <3>3. Insiders \in SUBSET (Workers \X (1..Len(Stack)))
        BY DEF Insiders
      <3>4. QED
        BY <3>2, <3>3, FS_Subset, FS_CardinalityType DEF Inside
    <2>3. workers_active \in Nat
      BY <2>1, <2>2 DEF GaugeAccounts, LooseType
    <2>4. QED
      BY <2>1, <2>3 DEF LooseType, SlotSet, TypeOK
  <1>2. QED
    BY <1>1, InitGauge, NextGauge, PTL DEF Spec

(***************************************************************************)
(* The budget of attempts.                                                 *)
(***************************************************************************)

\* The u32 in which attempts are counted does not saturate within a budget.
BudgetsFit == \A j \in Jobs : Budget(j) <= AttemptMax

Counted(w) == slot[w].pc \in {"run", "write"}

\* The copy in memory is one attempt ahead of the row once it is counted, and
\* is retried only while the budget lasts.
LoopCount(w) ==
    /\ slot[w].pc = "claimed" => slot[w].copy.attempt = row[slot[w].id].attempt
    /\ Counted(w) => /\ slot[w].copy.attempt = row[slot[w].id].attempt + 1
                     /\ started[slot[w].id] <= slot[w].copy.attempt + lost[slot[w].id]
    /\ slot[w].pc = "write" /\ slot[w].copy.kind = "AwaitingRetry" =>
          slot[w].copy.attempt < Budget(slot[w].id)

\* A row that may run again has an attempt left, and between attempts it has
\* counted all those begun and not lost.
JobCount(j) ==
    /\ row[j].attempt <= Budget(j)
    /\ row[j].kind \in {"Enqueued", "Processing", "AwaitingRetry"} => row[j].attempt < Budget(j)
    /\ (\A w \in Workers : slot[w].id = j => ~Counted(w)) =>
          started[j] <= row[j].attempt + lost[j]

CountInv ==
    /\ HookInv
    /\ \A w \in Workers : LoopCount(w)
    /\ \A j \in Jobs : JobCount(j)

\* A budget is a positive number, above every attempt a retry is allowed for.
LEMMA BudgetType ==
  ASSUME NEW j \in Jobs
  PROVE  /\ Budget(j) \in Nat /\ Budget(j) >= 1
         /\ \A n \in Nat : RetryAllowed(j, n) => n < Budget(j)
  <1>1. MaxRetries[j] \in Nat /\ PolicyMaxAttempts \in Nat
    BY ProcessorAssumption
  <1>2. QED
    BY <1>1 DEF Budget, RetryAllowed

\* With both, a job is begun no more often than it may.
LEMMA CountBounds == CountInv => AttemptsWithinBudget
  <1> SUFFICES ASSUME CountInv, NEW j \in Jobs PROVE started[j] <= Budget(j) + lost[j]
    BY DEF AttemptsWithinBudget
  <1>1. /\ started[j] \in Nat /\ lost[j] \in Nat /\ row[j].attempt \in Nat /\ Budget(j) \in Nat
    BY BudgetType DEF CountInv, HookInv, LooseType, JobRow
  <1>2. CASE \A w \in Workers : slot[w].id = j => ~Counted(w)
    BY <1>1, <1>2 DEF CountInv, JobCount
  <1>3. CASE \E w \in Workers : slot[w].id = j /\ Counted(w)
    <2>1. PICK w \in Workers : slot[w].id = j /\ Counted(w)
      BY <1>3
    <2>2. row[j].kind = "Processing"
      BY <2>1 DEF CountInv, HookInv, LoopOK, Holding, Counted
    <2>3. /\ slot[w].copy.attempt = row[j].attempt + 1
          /\ started[j] <= slot[w].copy.attempt + lost[j]
      BY <2>1 DEF CountInv, LoopCount
    <2>4. row[j].attempt < Budget(j)
      BY <2>2 DEF CountInv, JobCount
    <2>5. QED
      BY <1>1, <2>3, <2>4
  <1>4. QED
    BY <1>2, <1>3

\* The initial state satisfies the invariant.
LEMMA InitCount == Init => CountInv
  <1> SUFFICES ASSUME Init PROVE CountInv
    OBVIOUS
  <1>1. \A w \in Workers : LoopCount(w)
    BY DEF Init, Idle, LoopCount, Counted
  <1>2. ASSUME NEW j \in Jobs PROVE JobCount(j)
    BY BudgetType DEF Init, NewJob, JobCount
  <1>3. QED
    BY <1>1, <1>2, InitHook DEF CountInv

\* A step of one loop and one job disturbs no other.
LEMMA CountLocal ==
  ASSUME CountInv, HookInv', NEW w \in Workers, NEW j \in Jobs,
         slot[w].id \in {j, NoJob}, slot'[w].id \in {j, NoJob},
         \A v \in Workers : v # w => slot'[v] = slot[v] /\ slot[v].id # j,
         \A k \in Jobs : k # j => /\ row'[k] = row[k] /\ started'[k] = started[k]
                                  /\ lost'[k] = lost[k],
         LoopCount(w)', JobCount(j)'
  PROVE  CountInv'
  <1>1. ASSUME NEW v \in Workers PROVE LoopCount(v)'
    <2>1. CASE v = w
      BY <2>1
    <2>2. CASE v # w
      <3>1. Holding(v) => slot[v].id \in Jobs \ {j}
        BY <2>2, HeldJob DEF CountInv, HookInv
      <3>2. LoopCount(v)
        BY DEF CountInv
      <3>3. QED
        BY <2>2, <3>1, <3>2 DEF LoopCount, Counted, Holding
    <2>3. QED
      BY <2>1, <2>2
  <1>2. ASSUME NEW k \in Jobs PROVE JobCount(k)'
    <2>1. CASE k = j
      BY <2>1
    <2>2. CASE k # j
      <3>1. \A v \in Workers : (slot'[v].id = k => ~Counted(v)') <=> (slot[v].id = k => ~Counted(v))
        <4>1. slot[w].id # k /\ slot'[w].id # k
          BY <2>2, ExecutionAssumption
        <4>2. QED
          BY <4>1 DEF Counted
      <3>2. JobCount(k)
        BY DEF CountInv
      <3>3. QED
        BY <2>2, <3>1, <3>2 DEF JobCount
    <2>3. QED
      BY <2>1, <2>2
  <1>3. QED
    BY <1>1, <1>2 DEF CountInv

\* A job nobody holds goes back into the queue with its attempts.
LEMMA CountRequeued ==
  ASSUME CountInv, HookInv', NEW j \in Jobs,
         row[j].kind \in {"Processing", "AwaitingRetry"},
         \A w \in Workers : Holding(w) => slot[w].id # j,
         row' = [row EXCEPT ![j] = SetState(@, "Enqueued", 0)],
         UNCHANGED <<slot, started, lost>>
  PROVE  CountInv'
  <1>1. row[j] \in JobRow(Workers) /\ row \in [Jobs -> JobRow(Workers)]
    BY DEF CountInv, HookInv, LooseType
  <1>2. /\ row'[j].attempt = row[j].attempt
        /\ \A k \in Jobs : k # j => row'[k] = row[k]
    BY <1>1, EnqueuedType
  <1>3. ASSUME NEW v \in Workers PROVE LoopCount(v)'
    <2>1. Holding(v) => slot[v].id \in Jobs \ {j}
      BY HeldJob DEF CountInv, HookInv
    <2>2. LoopCount(v)
      BY DEF CountInv
    <2>3. QED
      BY <1>2, <2>1, <2>2 DEF LoopCount, Counted, Holding
  <1>4. ASSUME NEW k \in Jobs PROVE JobCount(k)'
    <2>1. JobCount(k)
      BY DEF CountInv
    <2>2. QED
      BY <1>2, <2>1 DEF JobCount, Counted
  <1>5. QED
    BY <1>3, <1>4 DEF CountInv

\* Every step keeps the counts: an attempt is counted once, and a job whose
\* budget is used up ends.
LEMMA NextCount ==
  ASSUME BudgetsFit
  PROVE  CountInv /\ [Next]_vars => CountInv'
  <1> SUFFICES ASSUME CountInv, [Next]_vars PROVE CountInv'
    OBVIOUS
  <1>a. HookInv /\ HookInv' /\ LooseType
    BY NextHook DEF CountInv, HookInv
  <1>b. \A w \in Workers : /\ slot[w].copy \in JobRow(Workers) /\ LoopOK(w) /\ LoopCount(w)
                           /\ Holding(w) => slot[w].id \in Jobs
    <2>1. \A w \in Workers : LoopOK(w) /\ LoopCount(w)
      BY <1>a DEF CountInv, HookInv
    <2>2. QED
      BY <1>a, <2>1, HeldJob DEF LooseType, SlotSet
  <1>c. /\ slot \in [Workers -> SlotSet] /\ row \in [Jobs -> JobRow(Workers)]
        /\ started \in [Jobs -> Nat] /\ lost \in [Jobs -> Nat]
    BY <1>a DEF LooseType
  <1>d. \A j \in Jobs : /\ JobCount(j) /\ row[j] \in JobRow(Workers) /\ row[j].attempt \in Nat
                        /\ started[j] \in Nat /\ lost[j] \in Nat
                        /\ Budget(j) \in Nat /\ Budget(j) <= AttemptMax
    BY <1>c, BudgetType DEF CountInv, JobRow, BudgetsFit
  <1>e. \A w \in Workers : Holding(w) =>
            /\ slot[w].id \in Jobs /\ row[slot[w].id].kind = "Processing"
            /\ row[slot[w].id].attempt < Budget(slot[w].id)
            /\ \A v \in Workers : v # w => slot[v].id # slot[w].id
    BY <1>a, <1>b, <1>d DEF LoopOK, JobCount, HookInv, Alone
  <1>f. Idle.id = NoJob /\ Idle.pc = "idle"
        /\ [Idle EXCEPT !.pc = "gone"].id = NoJob /\ [Idle EXCEPT !.pc = "gone"].pc = "gone"
    BY DEF Idle
  <1>1. ASSUME NEW w \in Workers, NEW j \in Jobs, Fetch(w, j) PROVE CountInv'
    <2> DEFINE claimed == [SetState(row[j], "Processing", 0) EXCEPT !.worker = w]
               new == [Idle EXCEPT !.pc = "claimed", !.id = j, !.copy = claimed]
    <2>1. claimed.attempt = row[j].attempt /\ claimed.kind = "Processing"
      BY <1>d, ClaimedType
    <2>2. /\ slot[w].pc = "idle" /\ row[j].kind = "Enqueued"
          /\ row' = [row EXCEPT ![j] = claimed] /\ slot' = [slot EXCEPT ![w] = new]
          /\ UNCHANGED <<started, lost>>
      BY <1>1 DEF Fetch
    <2>3. new.pc = "claimed" /\ new.id = j /\ new.copy = claimed
      BY DEF Idle
    <2> HIDE DEF claimed, new
    <2>4. /\ slot'[w].pc = "claimed" /\ slot'[w].id = j /\ slot'[w].copy = claimed
          /\ \A v \in Workers : v # w => slot'[v] = slot[v]
          /\ row'[j] = claimed
          /\ \A k \in Jobs : k # j => row'[k] = row[k]
      BY <1>c, <2>2, <2>3
    <2>5. slot[w].id = NoJob
      BY <1>b, <2>2 DEF LoopOK, Holding
    <2>6. \A v \in Workers : slot[v].id # j
      BY <1>b, <1>e, <2>2, ExecutionAssumption DEF LoopOK
    <2>7. LoopCount(w)'
      BY <2>4 DEF LoopCount, Counted
    <2>8. JobCount(j)'
      <3>1. JobCount(j)
        BY <1>d
      <3>2. row[j].attempt < Budget(j) /\ started[j] <= row[j].attempt + lost[j]
        BY <3>1, <2>2, <2>6 DEF JobCount
      <3>3. QED
        BY <3>2, <1>d, <2>1, <2>2, <2>4 DEF JobCount
    <2>9. QED
      BY <1>a, <2>2, <2>4, <2>5, <2>6, <2>7, <2>8, CountLocal
  <1>2. ASSUME NEW w \in Workers, Begin(w) PROVE CountInv'
    <2>0. PICK j \in Jobs : j = slot[w].id
      BY <1>2, <1>e DEF Begin, Holding
    <2> DEFINE counted == CountAttempt(slot[w].copy)
    <2>1. /\ slot[w].pc = "claimed" /\ Holding(w)
          /\ row[j].kind = "Processing" /\ row[j].attempt < Budget(j)
          /\ \A v \in Workers : v # w => slot[v].id # j
      BY <2>0, <1>2, <1>e DEF Begin, Holding
    <2>2. slot[w].copy.attempt = row[j].attempt
      BY <1>b, <2>0, <2>1 DEF LoopCount
    <2>3. counted \in JobRow(Workers) /\ counted.attempt = row[j].attempt + 1
      <3>1. slot[w].copy.attempt < AttemptMax
        BY <1>d, <2>1, <2>2, ProcessorAssumption
      <3>2. QED
        BY <1>b, <2>2, <3>1, CountAttemptType
    <2>4. started[j] <= row[j].attempt + lost[j]
      <3>1. \A v \in Workers : slot[v].id = j => ~Counted(v)
        BY <2>1 DEF Counted
      <3>2. QED
        BY <3>1, <2>1, <1>d DEF JobCount
    <2>5. /\ UNCHANGED <<row, lost>>
          /\ started'[j] = started[j] + 1 /\ \A k \in Jobs : k # j => started'[k] = started[k]
      BY <1>2, <1>c, <2>0, <2>1 DEF Begin
    <2>6. /\ slot'[w].pc \in {"run", "write"} /\ slot'[w].id = j
          /\ slot'[w].copy.attempt = row[j].attempt + 1
          /\ slot'[w].pc = "write" => slot'[w].copy.kind = "Failed"
          /\ \A v \in Workers : v # w => slot'[v] = slot[v]
      <3>1. CASE GetWorker(slot[w].id)
        <4>1. PICK d \in Depths :
                slot' = [slot EXCEPT ![w].pc = "run", ![w].copy = counted, ![w].depth = d]
          BY <1>2, <3>1 DEF Begin
        <4> HIDE DEF counted
        <4>2. counted \in JobRow(Workers)
          BY <2>3
        <4>3. /\ slot' \in [Workers -> SlotSet]
              /\ slot'[w].pc = "run" /\ slot'[w].id = slot[w].id
              /\ slot'[w].copy = counted /\ slot'[w].depth = d
              /\ \A v \in Workers : v # w => slot'[v] = slot[v]
              /\ \A v \in Workers : slot'[v].id = slot[v].id
          BY <1>a, <4>1, <4>2, BegunSlot
        <4>4. QED
          BY <2>0, <2>3, <4>3
      <3>2. CASE ~GetWorker(slot[w].id)
        <4>1. Report(w, FailJobPermanently(counted))
          BY <1>2, <3>2 DEF Begin
        <4> HIDE DEF counted
        <4>2. /\ FailJobPermanently(counted) \in JobRow(Workers)
              /\ FailJobPermanently(counted).kind = "Failed"
              /\ FailJobPermanently(counted).attempt = counted.attempt
          BY <2>3, FailType
        <4>3. /\ slot'[w].pc = "write" /\ slot'[w].id = j
              /\ slot'[w].copy = FailJobPermanently(counted)
              /\ \A v \in Workers : v # w => slot'[v] = slot[v]
          BY <1>a, <2>0, <4>1, <4>2, ReportSlot
        <4>4. QED
          BY <2>3, <4>2, <4>3
      <3>3. QED
        BY <3>1, <3>2
    <2> HIDE DEF counted
    <2>7. LoopCount(w)'
      BY <1>d, <2>1, <2>4, <2>5, <2>6 DEF LoopCount, Counted
    <2>8. JobCount(j)'
      <3>1. Counted(w)' /\ slot'[w].id = j
        BY <2>6 DEF Counted
      <3>2. QED
        BY <3>1, <1>d, <2>1, <2>5 DEF JobCount
    <2>9. slot[w].id \in {j, NoJob} /\ slot'[w].id \in {j, NoJob}
      BY <2>0, <2>6
    <2>10. QED
      BY <1>a, <2>1, <2>5, <2>6, <2>7, <2>8, <2>9, CountLocal
  <1>3. ASSUME NEW w \in Workers, NEW o, NEW d \in Delays(o, slot[w].copy.attempt),
               slot[w].pc = "run", Report(w, ProcessJob(slot[w].id, slot[w].copy, o, d)),
               UNCHANGED <<row, started, lost>>
        PROVE  CountInv'
    <2>0. PICK j \in Jobs : j = slot[w].id
      BY <1>3, <1>e DEF Holding
    <2> DEFINE after == ProcessJob(slot[w].id, slot[w].copy, o, d)
    <2>1. /\ Holding(w) /\ row[j].kind = "Processing" /\ row[j].attempt < Budget(j)
          /\ \A v \in Workers : v # w => slot[v].id # j
      BY <2>0, <1>3, <1>e DEF Holding
    <2>2. slot[w].copy.attempt \in Nat /\ slot[w].copy.attempt >= 1
      BY <1>3, <1>b DEF LoopOK, JobRow
    <2>3. strategy \in Strategies
      BY <1>a DEF LooseType
    <2>4. d \in Nat
      BY <1>3, <2>2, <2>3, DelaysType
    <2>5. /\ after \in JobRow(Workers) /\ after.attempt = slot[w].copy.attempt
          /\ after.kind = "AwaitingRetry" => RetryAllowed(j, slot[w].copy.attempt)
      BY <1>b, <2>0, <2>4, ProcessJobType
    <2>6. /\ slot[w].copy.attempt = row[j].attempt + 1
          /\ started[j] <= slot[w].copy.attempt + lost[j]
      BY <1>3, <1>b, <2>0 DEF LoopCount, Counted
    <2>7. Report(w, after)
      BY <1>3
    <2> HIDE DEF after
    <2>8. /\ slot'[w].pc = "write" /\ slot'[w].id = j /\ slot'[w].copy = after
          /\ \A v \in Workers : v # w => slot'[v] = slot[v]
      BY <1>a, <2>0, <2>5, <2>7, ReportSlot
    <2>9. after.kind = "AwaitingRetry" => after.attempt < Budget(j)
      BY <2>1, <2>2, <2>5, BudgetType
    <2>10. LoopCount(w)'
      BY <1>3, <2>5, <2>6, <2>8, <2>9 DEF LoopCount, Counted, Budget
    <2>11. JobCount(j)'
      <3>1. Counted(w)' /\ slot'[w].id = j
        BY <2>8 DEF Counted
      <3>2. QED
        BY <3>1, <1>d, <1>3, <2>1 DEF JobCount
    <2>12. slot[w].id \in {j, NoJob} /\ slot'[w].id \in {j, NoJob}
      BY <2>0, <2>8
    <2>13. QED
      BY <1>a, <1>3, <2>1, <2>8, <2>10, <2>11, <2>12, CountLocal
  <1>4. ASSUME NEW w \in Workers, NEW o \in Outcomes, Complete(w, o) PROVE CountInv'
    BY <1>3, <1>4 DEF Complete
  <1>5. ASSUME NEW w \in Workers, Timeout(w) PROVE CountInv'
    BY <1>3, <1>5 DEF Timeout
  <1>6. ASSUME NEW w \in Workers, Holding(w), NEW new,
               slot' = [slot EXCEPT ![w] = new], new.id = NoJob, new.pc \in {"idle", "gone"},
               started' = started,
               \A k \in Jobs : k # slot[w].id => row'[k] = row[k] /\ lost'[k] = lost[k],
               /\ row'[slot[w].id].attempt <= Budget(slot[w].id)
               /\ row'[slot[w].id].kind \in {"Enqueued", "Processing", "AwaitingRetry"} =>
                     row'[slot[w].id].attempt < Budget(slot[w].id)
               /\ started[slot[w].id] <= row'[slot[w].id].attempt + lost'[slot[w].id]
        PROVE  CountInv'
    <2>1. slot[w].id \in Jobs /\ \A v \in Workers : v # w => slot[v].id # slot[w].id
      BY <1>6, <1>e
    <2>2. slot'[w] = new /\ \A v \in Workers : v # w => slot'[v] = slot[v]
      BY <1>6, <1>c
    <2>3. LoopCount(w)'
      BY <1>6, <2>2 DEF LoopCount, Counted
    <2>4. PICK j \in Jobs : j = slot[w].id
      BY <2>1
    <2>5. JobCount(j)'
      BY <1>6, <2>4 DEF JobCount
    <2>6. QED
      BY <1>a, <1>6, <2>1, <2>2, <2>3, <2>4, <2>5, CountLocal
  <1>7. ASSUME NEW w \in Workers, Write(w) PROVE CountInv'
    <2>1. /\ slot[w].pc = "write" /\ Holding(w) /\ slot[w].id \in Jobs
          /\ row[slot[w].id].attempt < Budget(slot[w].id)
      BY <1>7, <1>e DEF Write, Holding
    <2>2. /\ slot[w].copy.attempt = row[slot[w].id].attempt + 1
          /\ started[slot[w].id] <= slot[w].copy.attempt + lost[slot[w].id]
          /\ slot[w].copy.kind = "AwaitingRetry" => slot[w].copy.attempt < Budget(slot[w].id)
          /\ slot[w].copy.kind \in Ended
      BY <1>b, <2>1 DEF LoopCount, Counted, LoopOK
    <2>3. /\ row'[slot[w].id] = slot[w].copy
          /\ \A k \in Jobs : k # slot[w].id => row'[k] = row[k]
          /\ slot' = [slot EXCEPT ![w] = Idle] /\ started' = started /\ lost' = lost
      BY <1>7, <1>c, <2>1 DEF Write
    <2>4. slot[w].copy.attempt <= Budget(slot[w].id)
      BY <1>d, <2>1, <2>2
    <2>5. QED
      BY <1>f, <1>6, <2>1, <2>2, <2>3, <2>4 DEF Ended
  <1>8. ASSUME NEW w \in Workers, Counted(w), LoseAttempt(slot[w].id), UNCHANGED <<row, started>>,
               NEW new, slot' = [slot EXCEPT ![w] = new], new.id = NoJob, new.pc \in {"idle", "gone"}
        PROVE  CountInv'
    <2>1. /\ Holding(w) /\ slot[w].id \in Jobs
          /\ row[slot[w].id].attempt < Budget(slot[w].id)
      BY <1>8, <1>e DEF Counted, Holding
    <2>2. started[slot[w].id] <= row[slot[w].id].attempt + 1 + lost[slot[w].id]
      BY <1>8, <1>b DEF LoopCount
    <2>3. /\ lost'[slot[w].id] = lost[slot[w].id] + 1
          /\ \A k \in Jobs : k # slot[w].id => lost'[k] = lost[k]
      BY <1>8, <1>c, <2>1 DEF LoseAttempt
    <2>4. /\ started[slot[w].id] <= row[slot[w].id].attempt + lost'[slot[w].id]
          /\ row[slot[w].id].attempt <= Budget(slot[w].id)
      BY <1>d, <2>1, <2>2, <2>3
    <2>5. QED
      BY <1>6, <1>8, <2>1, <2>3, <2>4
  <1>9. ASSUME NEW w \in Workers, WriteFails(w) PROVE CountInv'
    BY <1>f, <1>8, <1>9 DEF WriteFails, Counted
  <1>10. ASSUME NEW w \in Workers, Die(w) PROVE CountInv'
    <2> DEFINE new == [Idle EXCEPT !.pc = "gone"]
    <2>1. /\ slot' = [slot EXCEPT ![w] = new] /\ new.id = NoJob /\ new.pc = "gone"
          /\ UNCHANGED <<row, started>>
      BY <1>10, <1>f DEF Die
    <2> HIDE DEF new
    <2>2. CASE slot[w].pc = "claimed"
      <3>1. lost' = lost
        BY <1>10, <2>2 DEF Die
      <3>2. /\ Holding(w) /\ slot[w].id \in Jobs
            /\ row[slot[w].id].attempt < Budget(slot[w].id)
            /\ \A v \in Workers : slot[v].id = slot[w].id => ~Counted(v)
        BY <2>2, <1>e DEF Counted, Holding
      <3>3. started[slot[w].id] <= row[slot[w].id].attempt + lost[slot[w].id]
        BY <3>2, <1>d DEF JobCount
      <3>4. row[slot[w].id].attempt <= Budget(slot[w].id)
        BY <3>2, <1>d
      <3>5. QED
        BY <1>6, <2>1, <3>1, <3>2, <3>3, <3>4
    <2>3. CASE slot[w].pc # "claimed"
      <3>1. Counted(w) /\ LoseAttempt(slot[w].id)
        BY <1>10, <2>3 DEF Die, Counted
      <3>2. QED
        BY <1>8, <2>1, <3>1
    <2>4. QED
      BY <2>2, <2>3
  <1>11. ASSUME NEW w \in Workers, Restart(w) PROVE CountInv'
    <2>1. /\ slot[w].pc = "gone" /\ slot' = [slot EXCEPT ![w] = Idle]
          /\ UNCHANGED <<row, started, lost>>
      BY <1>11 DEF Restart
    <2>2. slot'[w] = Idle /\ \A v \in Workers : v # w => slot'[v] = slot[v]
      BY <1>c, <2>1
    <2>3. ASSUME NEW v \in Workers
          PROVE  LoopCount(v)' /\ (Counted(v)' <=> Counted(v)) /\ slot'[v].id = slot[v].id
      BY <1>b, <1>f, <2>1, <2>2 DEF LoopCount, Counted, LoopOK, Holding
    <2>4. ASSUME NEW j \in Jobs PROVE JobCount(j)'
      <3>1. JobCount(j)
        BY <1>d
      <3>2. QED
        BY <3>1, <2>1, <2>3 DEF JobCount
    <2>5. QED
      BY <1>a, <2>3, <2>4 DEF CountInv
  <1>12. ASSUME NEW j \in Jobs, Promote(j) PROVE CountInv'
    <2>1. /\ row[j].kind = "AwaitingRetry" /\ UNCHANGED <<slot, started, lost>>
          /\ row' = [row EXCEPT ![j] = SetState(@, "Enqueued", 0)]
      BY <1>12 DEF Promote
    <2>2. \A w \in Workers : Holding(w) => slot[w].id # j
      BY <1>e, <2>1
    <2>3. QED
      BY <1>a, <2>1, <2>2, CountRequeued
  <1>13. ASSUME NEW j \in Jobs, Requeue(j) PROVE CountInv'
    <2>1. /\ row[j].kind = "Processing" /\ UNCHANGED <<slot, started, lost>>
          /\ row' = [row EXCEPT ![j] = SetState(@, "Enqueued", 0)]
          /\ \A w \in Workers : Holding(w) => slot[w].id # j
      BY <1>13 DEF Requeue, Held
    <2>2. QED
      BY <1>a, <2>1, CountRequeued
  <1>14. CASE UNCHANGED vars
    <2>1. UNCHANGED <<slot, row, started, lost>>
      BY <1>14 DEF vars
    <2>2. QED
      BY <1>a, <1>b, <1>d, <2>1 DEF CountInv, LoopCount, JobCount, Counted
  <1>15. QED
    BY <1>1, <1>2, <1>4, <1>5, <1>7, <1>9, <1>10, <1>11, <1>12, <1>13, <1>14 DEF Next

\* A job is begun no more often than its budget allows, but for the attempts
\* whose count was lost, when the budgets stay below u32::MAX.
THEOREM BudgetKept ==
  ASSUME BudgetsFit
  PROVE  Spec => []AttemptsWithinBudget
  BY InitCount, NextCount, CountBounds, PTL DEF Spec


(***************************************************************************)
(* The date of a retry.                                                    *)
(***************************************************************************)

\* A row that waits for its retry does so until a date the policy gives for
\* its attempts, or the worker asked for.
Dated(r) == r.kind = "AwaitingRetry" => r.timer \in AskedDelays \cup Band(r.attempt)

\* The dates are right in the table, and in the copies about to be written.
DateInv ==
    /\ HookInv
    /\ \A j \in Jobs : Dated(row[j])
    /\ \A w \in Workers : slot[w].pc = "write" => Dated(slot[w].copy)

\* The dates of the invariant are those of the property.
LEMMA DateMeaning == DateInv => RetryFollowsBackoff
  BY DEF DateInv, Dated, Band, RetryFollowsBackoff

\* process_job dates a retry by the delay it was given.
LEMMA RetryTimer ==
  ASSUME NEW r \in JobRow(Workers), NEW j \in Jobs, NEW o, NEW d \in Nat,
         ProcessJob(j, r, o, d).kind = "AwaitingRetry"
  PROVE  ProcessJob(j, r, o, d).timer = d
  <1>1. SetState(r, "AwaitingRetry", d).timer = d
    BY DEF SetState, JobRow
  <1>2. /\ FailJobPermanently(r).kind = "Failed"
        /\ HandleJobRetry(j, r, d) \in {SetState(r, "AwaitingRetry", d), FailJobPermanently(r)}
    BY FailType DEF HandleJobRetry
  <1>3. CompleteJobSuccessfully(r).kind = "Succeeded"
    <2>1. /\ SetState(r, "Succeeded", 0) \in JobRow(Workers)
          /\ SetState(r, "Succeeded", 0).kind = "Succeeded"
      BY SetStateType DEF Kinds
    <2>2. QED
      BY <2>1 DEF CompleteJobSuccessfully, JobRow
  <1>4. ASSUME NEW e
        PROVE  HandleError(j, r, e, d) \in {SetState(r, "AwaitingRetry", d), FailJobPermanently(r)}
    BY <1>2 DEF HandleError
  <1>5. ProcessJob(j, r, o, d) \in {SetState(r, "AwaitingRetry", d), FailJobPermanently(r),
                                    CompleteJobSuccessfully(r)}
    BY <1>2, <1>4 DEF ProcessJob
  <1>6. QED
    BY <1>1, <1>2, <1>3, <1>5

\* The row in which an attempt ends is dated right: a retry is asked for only
\* while the policy has a delay for it, so the fallback is never taken.
LEMMA ResultDated ==
  ASSUME strategy \in Strategies, NEW r \in JobRow(Workers), r.attempt >= 1, NEW j \in Jobs, NEW o,
         NEW d \in Delays(o, r.attempt)
  PROVE  Dated(ProcessJob(j, r, o, d))
  <1> DEFINE after == ProcessJob(j, r, o, d)
  <1> SUFFICES ASSUME after.kind = "AwaitingRetry"
               PROVE  after.timer \in AskedDelays \cup Band(after.attempt)
    BY DEF Dated
  <1>1. r.attempt \in Nat
    BY DEF JobRow
  <1>2. d \in Nat
    BY <1>1, DelaysType
  <1>3. after.timer = d
    BY <1>2, RetryTimer
  <1>4. after.attempt = r.attempt /\ RetryAllowed(j, r.attempt)
    BY <1>2, ProcessJobType
  <1>5. r.attempt \in 1..PolicyMaxAttempts
    BY <1>1, <1>4, ProcessorAssumption DEF RetryAllowed
  <1>6. /\ CalculateDelay(strategy, r.attempt) # {}
        /\ CalculateDelay(strategy, r.attempt) \subseteq Band(r.attempt)
    BY <1>5, DelayInBand
  <1>7. d \in AskedDelays \cup Band(r.attempt)
    BY <1>6 DEF Delays
  <1> HIDE DEF after
  <1>8. QED
    BY <1>3, <1>4, <1>7

\* A row of another kind needs no date.
LEMMA OtherDated ==
  ASSUME NEW r, r.kind # "AwaitingRetry"
  PROVE  Dated(r)
  BY DEF Dated

\* The strategy never changes, and with it what a date may be.
LEMMA DatedStable ==
  ASSUME strategy' = strategy, NEW r
  PROVE  Dated(r)' <=> Dated(r)
  BY DEF Dated, Band, Reference

\* The initial state satisfies the invariant.
LEMMA InitDate == Init => DateInv
  <1> SUFFICES ASSUME Init PROVE DateInv
    OBVIOUS
  <1>1. \A j \in Jobs : Dated(row[j])
    BY DEF Init, NewJob, Dated
  <1>2. \A w \in Workers : slot[w].pc # "write"
    BY DEF Init, Idle
  <1>3. QED
    BY <1>1, <1>2, InitHook DEF DateInv

\* Every step keeps the dates: only the end of an attempt sets one.
LEMMA NextDate == DateInv /\ [Next]_vars => DateInv'
  <1> SUFFICES ASSUME DateInv, [Next]_vars PROVE DateInv'
    OBVIOUS
  <1>a. HookInv /\ HookInv' /\ LooseType
    BY NextHook DEF DateInv, HookInv
  <1>b. /\ slot \in [Workers -> SlotSet] /\ row \in [Jobs -> JobRow(Workers)]
        /\ strategy \in Strategies
    BY <1>a DEF LooseType
  <1>c. /\ \A j \in Jobs : Dated(row[j]) /\ row[j] \in JobRow(Workers)
        /\ \A w \in Workers : /\ slot[w].pc = "write" => Dated(slot[w].copy)
                              /\ slot[w].copy \in JobRow(Workers)
    BY <1>b DEF DateInv, SlotSet
  <1>d. \A w \in Workers : Holding(w) => slot[w].id \in Jobs
    BY <1>a, HeldJob DEF HookInv
  <1>e. strategy' = strategy
    BY DEF Next, Fetch, Begin, Complete, Timeout, Write, WriteFails, Die, Restart, Promote, Requeue,
           vars
  <1>f. ASSUME \A j \in Jobs : \/ row'[j] = row[j]
                               \/ row'[j].kind # "AwaitingRetry"
                               \/ \E w \in Workers : slot[w].pc = "write" /\ row'[j] = slot[w].copy,
               \A w \in Workers : \/ slot'[w] = slot[w]
                                  \/ slot'[w].pc # "write"
                                  \/ Dated(slot'[w].copy)
        PROVE  DateInv'
    <2>1. \A j \in Jobs : Dated(row'[j])
      BY <1>c, <1>f, OtherDated
    <2>2. \A w \in Workers : slot'[w].pc = "write" => Dated(slot'[w].copy)
      BY <1>c, <1>f
    <2>3. ASSUME NEW j \in Jobs PROVE Dated(row[j])'
      <3>1. PICK r : r = row'[j]
        OBVIOUS
      <3>2. Dated(r)'
        BY <1>e, <2>1, <3>1, DatedStable
      <3>3. QED
        BY <3>1, <3>2 DEF Dated
    <2>4. ASSUME NEW w \in Workers, slot'[w].pc = "write" PROVE Dated(slot[w].copy)'
      <3>1. PICK r : r = slot'[w].copy
        OBVIOUS
      <3>2. Dated(r)'
        BY <1>e, <2>2, <2>4, <3>1, DatedStable
      <3>3. QED
        BY <3>1, <3>2 DEF Dated
    <2>5. QED
      BY <1>a, <2>3, <2>4 DEF DateInv
  <1>1. ASSUME NEW w \in Workers, NEW j \in Jobs, Fetch(w, j) PROVE DateInv'
    <2> DEFINE claimed == [SetState(row[j], "Processing", 0) EXCEPT !.worker = w]
               new == [Idle EXCEPT !.pc = "claimed", !.id = j, !.copy = claimed]
    <2>1. claimed.kind = "Processing"
      BY <1>c, ClaimedType
    <2>2. row' = [row EXCEPT ![j] = claimed] /\ slot' = [slot EXCEPT ![w] = new]
      BY <1>1 DEF Fetch
    <2>3. new.pc = "claimed"
      BY DEF Idle
    <2> HIDE DEF claimed, new
    <2>4. QED
      BY <1>b, <1>f, <2>1, <2>2, <2>3
  <1>2. ASSUME NEW w \in Workers, Begin(w) PROVE DateInv'
    <2> DEFINE counted == CountAttempt(slot[w].copy)
    <2>1. counted \in JobRow(Workers) /\ row' = row
      BY <1>2, <1>c, CountAttemptType DEF Begin
    <2>2. CASE GetWorker(slot[w].id)
      <3>1. PICK d \in Depths :
              slot' = [slot EXCEPT ![w].pc = "run", ![w].copy = counted, ![w].depth = d]
        BY <1>2, <2>2 DEF Begin
      <3> HIDE DEF counted
      <3>2. /\ slot'[w].pc = "run"
            /\ \A v \in Workers : v # w => slot'[v] = slot[v]
        BY <1>a, <2>1, <3>1, BegunSlot
      <3>3. QED
        BY <1>f, <2>1, <3>2
    <2>3. CASE ~GetWorker(slot[w].id)
      <3>1. Report(w, FailJobPermanently(counted))
        BY <1>2, <2>3 DEF Begin
      <3> HIDE DEF counted
      <3>2. /\ FailJobPermanently(counted) \in JobRow(Workers)
            /\ FailJobPermanently(counted).kind = "Failed"
        BY <2>1, FailType
      <3>3. /\ slot'[w].copy = FailJobPermanently(counted)
            /\ \A v \in Workers : v # w => slot'[v] = slot[v]
        BY <1>a, <3>1, <3>2, ReportSlot
      <3>4. Dated(slot'[w].copy)
        BY <3>2, <3>3, OtherDated
      <3>5. QED
        BY <1>f, <2>1, <3>3, <3>4
    <2>4. QED
      BY <2>2, <2>3
  <1>3. ASSUME NEW w \in Workers, NEW o, NEW d \in Delays(o, slot[w].copy.attempt),
               slot[w].pc = "run", Report(w, ProcessJob(slot[w].id, slot[w].copy, o, d)),
               row' = row
        PROVE  DateInv'
    <2> DEFINE after == ProcessJob(slot[w].id, slot[w].copy, o, d)
    <2>1. /\ slot[w].id \in Jobs /\ slot[w].copy \in JobRow(Workers)
          /\ slot[w].copy.attempt \in Nat /\ slot[w].copy.attempt >= 1
      BY <1>a, <1>c, <1>d, <1>3 DEF HookInv, LoopOK, Holding, JobRow
    <2>2. Dated(after)
      BY <1>b, <1>3, <2>1, ResultDated
    <2>3. d \in Nat
      BY <1>b, <1>3, <2>1, DelaysType
    <2>4. after \in JobRow(Workers)
      BY <2>1, <2>3, ProcessJobType
    <2>5. Report(w, after)
      BY <1>3
    <2> HIDE DEF after
    <2>6. slot'[w].copy = after /\ \A v \in Workers : v # w => slot'[v] = slot[v]
      BY <1>a, <2>4, <2>5, ReportSlot
    <2>7. QED
      BY <1>f, <1>3, <2>2, <2>6
  <1>4. ASSUME NEW w \in Workers, NEW o \in Outcomes, Complete(w, o) PROVE DateInv'
    BY <1>3, <1>4 DEF Complete
  <1>5. ASSUME NEW w \in Workers, Timeout(w) PROVE DateInv'
    BY <1>3, <1>5 DEF Timeout
  <1>6. ASSUME NEW w \in Workers, Write(w) PROVE DateInv'
    <2>1. slot[w].pc = "write" /\ slot[w].id \in Jobs
      BY <1>6, <1>d DEF Write, Holding
    <2>2. /\ row' = [row EXCEPT ![slot[w].id] = slot[w].copy]
          /\ slot' = [slot EXCEPT ![w] = Idle] /\ Idle.pc = "idle"
      BY <1>6 DEF Write, Idle
    <2>3. \A j \in Jobs : row'[j] = row[j] \/ row'[j] = slot[w].copy
      BY <1>b, <2>1, <2>2
    <2>4. \A v \in Workers : slot'[v] = slot[v] \/ slot'[v].pc # "write"
      BY <1>b, <2>2
    <2>5. QED
      BY <1>f, <2>1, <2>3, <2>4
  <1>7. ASSUME NEW w \in Workers, NEW new, slot' = [slot EXCEPT ![w] = new], new.pc # "write",
               row' = row
        PROVE  DateInv'
    <2>1. \A v \in Workers : slot'[v] = slot[v] \/ slot'[v].pc # "write"
      BY <1>b, <1>7
    <2>2. QED
      BY <1>f, <1>7, <2>1
  <1>8. ASSUME NEW w \in Workers, WriteFails(w) \/ Die(w) \/ Restart(w) PROVE DateInv'
    <2>1. Idle.pc # "write" /\ [Idle EXCEPT !.pc = "gone"].pc # "write"
      BY DEF Idle
    <2>2. /\ row' = row
          /\ \/ slot' = [slot EXCEPT ![w] = Idle]
             \/ slot' = [slot EXCEPT ![w] = [Idle EXCEPT !.pc = "gone"]]
      BY <1>8 DEF WriteFails, Die, Restart
    <2>3. QED
      BY <1>7, <2>1, <2>2
  <1>9. ASSUME NEW j \in Jobs, Promote(j) \/ Requeue(j) PROVE DateInv'
    <2>1. row' = [row EXCEPT ![j] = SetState(row[j], "Enqueued", 0)] /\ slot' = slot
      BY <1>9 DEF Promote, Requeue
    <2>2. SetState(row[j], "Enqueued", 0).kind = "Enqueued"
      BY <1>c, EnqueuedType
    <2>3. \A k \in Jobs : row'[k] = row[k] \/ row'[k].kind # "AwaitingRetry"
      BY <1>b, <2>1, <2>2
    <2>4. QED
      BY <1>f, <2>1, <2>3
  <1>10. CASE UNCHANGED vars
    BY <1>f, <1>10 DEF vars
  <1>11. QED
    BY <1>1, <1>2, <1>4, <1>5, <1>6, <1>8, <1>9, <1>10 DEF Next

\* A retry is dated where the n-th backoff lies, give or take a quarter of
\* jitter, or where the worker asked, n being the attempts of the row
\* (handle_job_retry, calculate_delay): whatever the strategies, and whatever
\* was lost, aborted or run again in between.
THEOREM RetriesFollowBackoff == Spec => []RetryFollowsBackoff
  BY InitDate, NextDate, DateMeaning, PTL DEF Spec

==============================================================================
