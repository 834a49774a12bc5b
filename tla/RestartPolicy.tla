---------------------------- MODULE RestartPolicy ----------------------------
(***************************************************************************)
(* RestartPolicy (shepherd-domain/src/restart.rs): the delay before the    *)
(* restart that follows a number of consecutive failures, and when a       *)
(* service gives up.  A duration is a natural up to Top, where its         *)
(* multiplication saturates (Duration::MAX).                               *)
(***************************************************************************)
EXTENDS Naturals

CONSTANTS
  Top,             \* Duration::MAX
  MaxFactor,       \* bound on the growth factor
  Last             \* bound on the consecutive failures

VARIABLES
  initial, max, factor,
  tolerated,       \* max_failures: {} is None, {n} is Some(n)
  failures, reason

vars == <<initial, max, factor, tolerated, failures, reason>>
policy == <<initial, max, factor, tolerated>>

Least(a, b) == IF a < b THEN a ELSE b
Greatest(a, b) == IF a > b THEN a ELSE b

\* RestartPolicy::new raises max to initial, factor is at least 1.
Init ==
  /\ initial \in 0..Top
  /\ \E m \in 0..Top : max = Greatest(m, initial)
  /\ \E f \in 0..MaxFactor : factor = Greatest(f, 1)
  /\ tolerated \in {{}} \cup {{n} : n \in 0..Last}
  /\ failures = 0
  /\ reason = "running"

\* Mutant: the product wraps around.
WrappingMul(a, b) == (a * b) % (Top + 1)
saturating_mul(a, b) == Least(a * b, Top)

\* delay: the loop stops growing at max.
delay(n) ==
  LET grown[k \in 1..Last + 1] ==
        IF k = 1 THEN initial
        ELSE IF grown[k - 1] >= max THEN grown[k - 1]
             ELSE saturating_mul(grown[k - 1], factor)
  IN IF n = 0 THEN 0 ELSE Least(grown[n], max)

gives_up(n) == \E m \in tolerated : n > m

\* A run fails: the service backs off, or gives up.
Fail ==
  /\ reason = "running"
  /\ failures < Last
  /\ failures' = failures + 1
  /\ reason' = IF gives_up(failures + 1) THEN "failed" ELSE "backoff"
  /\ UNCHANGED policy

Restart ==
  /\ reason = "backoff"
  /\ reason' = "running"
  /\ UNCHANGED <<policy, failures>>

\* A run that stayed ready for healthy_after clears the count, then fails.
Healthy ==
  /\ reason = "running"
  /\ failures > 0
  /\ failures' = 0
  /\ UNCHANGED <<policy, reason>>

Next == Fail \/ Restart \/ Healthy

Spec == Init /\ [][Next]_vars

-----------------------------------------------------------------------------
(* Properties. *)

\* The delay is the documented exponential, capped at max, also where the
\* product exceeds what a duration can hold.
DelayIsCappedPower ==
  \A n \in 1..Last : delay(n) = Least(initial * factor ^ (n - 1), max)

\* Consecutive failures never shorten the wait.
DelayNeverShrinks ==
  [][failures' > failures => delay(failures') >= delay(failures)]_vars

\* Exactly max_failures consecutive failures are tolerated: the service fails at
\* the next one, and without a limit never.
ToleratesLimit ==
  /\ reason = "backoff" => \A m \in tolerated : failures <= m
  /\ reason = "failed" => \E m \in tolerated : failures = m + 1
=============================================================================
