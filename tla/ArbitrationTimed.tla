-------------------------- MODULE ArbitrationTimed --------------------------
(***************************************************************************)
(* Arbitration with time: the sleeps and the deadline of the polling loop  *)
(* of obtain_arbitration (i2c-arbitrate.c:118-126) and the settings that   *)
(* sysfs may change under it (i2c-arbitrate-sysfs.c:61).                   *)
(*                                                                         *)
(* Every action is an action of Arbitration under a condition on timers.   *)
(* Time advances in ticks, and only while every task is asleep, on the bus *)
(* or idle: register accesses are short against the settings.  A sleep     *)
(* lasts at least what was asked for and at most LateBound ticks more; the *)
(* bus is used for at most HoldBound ticks.  Registers do not fail.        *)
(***************************************************************************)
EXTENDS Arbitration, Integers

CONSTANTS
    Policies,   \* what an administrator may store: sets of settings, in ticks
    HoldBound,  \* longest use of the bus
    LateBound   \* longest oversleep

\* A setting is a u32, so what may be stored has a least and a largest value.
Ticks == {S \in SUBSET (Nat \ {0}) : \E m, n \in S : \A k \in S : m <= k /\ k <= n}

ASSUME SettingsAssumption ==
    /\ \A p \in Policies : p.timeouts \in Ticks /\ p.grants \in Ticks /\ p.retries \in Ticks
    /\ HoldBound \in Nat /\ LateBound \in Nat

VARIABLES
    policy,     \* the administrator's choice: the values sysfs stores from
    timeout,    \* hw->arb.timeout_jiffies of each host
    grant,      \* hw->arb.peer_grant_jiffies
    retry,      \* hw->arb.peer_retry_jiffies
    timer,      \* ticks of sleep, or of bus use, left to each task
    waited,     \* jiffies - start of a waiting task
    limit,      \* expires - start of a waiting task
    overtaken   \* history: sessions of the other host since the wait began

settings == <<policy, timeout, grant, retry>>
clocks   == <<timer, waited, limit, overtaken>>
timedVars == <<vars, settings, clocks>>

\* A waiting task's sleep is over once its timer has run down.
Awake(t) == timer[t] <= 0

\* Task t enters the bus: its wait is over, and it overtakes every waiting
\* task of the other host.
EnterBus(t) ==
    /\ timer' = [timer EXCEPT ![t] = HoldBound]
    /\ waited' = [waited EXCEPT ![t] = 0]
    /\ limit' = [limit EXCEPT ![t] = 0]
    /\ overtaken' =
          [u \in Task |-> CASE u = t -> 0
                           [] pc[u] = "wait" /\ HostOf[u] # HostOf[t] -> overtaken[u] + 1
                           [] OTHER -> overtaken[u]]

TimedInit ==
    /\ Init
    /\ policy \in Policies
    /\ timeout \in [Host -> policy.timeouts]
    /\ grant \in [Host -> policy.grants]
    /\ retry \in [Host -> policy.retries]
    /\ timer = [t \in Task |-> 0]
    /\ waited = [t \in Task |-> 0]
    /\ limit = [t \in Task |-> 0]
    /\ overtaken = [t \in Task |-> 0]

\* Register accesses and lock operations outside the polling loop.
Instant(t) ==
    /\ \/ Lock(t) \/ LockBus(t) \/ TrylockBus(t) \/ ReadPeer(t)
       \/ ReleaseArb(t) \/ Unlock(t)
    /\ UNCHANGED <<settings, clocks>>

TimedClearLocal(t) ==
    /\ ClearLocal(t)
    /\ timer' = [timer EXCEPT ![t] = 0]
    /\ UNCHANGED <<settings, waited, limit, overtaken>>

\* First read of the semaphore.
TimedReadArb(t) ==
    /\ ReadArb(t)
    /\ IF pc'[t] = "bus" THEN EnterBus(t) ELSE UNCHANGED clocks
    /\ UNCHANGED settings

\* Faulty variants, as in Arbitration.
\* The wait begins with the retry interval: the yielding host polls at once.
StartWait_Retry(t) ==
    /\ WriteLocal(t) \/ ClearArb(t)
    /\ IF pc'[t] = "wait"
       THEN /\ timer' = [timer EXCEPT ![t] = retry[HostOf[t]]]
            /\ limit' = [limit EXCEPT ![t] = timeout[HostOf[t]]]
            /\ UNCHANGED <<waited, overtaken>>
       ELSE UNCHANGED clocks
    /\ UNCHANGED settings

\* The deadline is the grant, not the timeout.
StartWait_ShortLimit(t) ==
    /\ WriteLocal(t) \/ ClearArb(t)
    /\ IF pc'[t] = "wait"
       THEN /\ timer' = [timer EXCEPT ![t] = grant[HostOf[t]]]
            /\ limit' = [limit EXCEPT ![t] = grant[HostOf[t]]]
            /\ UNCHANGED <<waited, overtaken>>
       ELSE UNCHANGED clocks
    /\ UNCHANGED settings

\* The sleep is not shortened to the retry interval after the first poll.
TimedPoll_Grant(t) ==
    /\ Awake(t)
    /\ Poll(t)
    /\ \/ pc'[t] = "bus" /\ EnterBus(t)
       \/ /\ pc'[t] = "wait" /\ waited[t] <= limit[t]
          /\ timer' = [timer EXCEPT ![t] = grant[HostOf[t]]]
          /\ UNCHANGED <<waited, limit, overtaken>>
    /\ UNCHANGED settings

\* The loop does not look at the clock.
TimedPoll_NoDeadline(t) ==
    /\ Awake(t)
    /\ Poll(t)
    /\ \/ pc'[t] = "bus" /\ EnterBus(t)
       \/ /\ pc'[t] = "wait"
          /\ timer' = [timer EXCEPT ![t] = retry[HostOf[t]]]
          /\ UNCHANGED <<waited, limit, overtaken>>
    /\ UNCHANGED settings

\* start = jiffies; expires = start + timeout; the first sleep is the grant.
StartWait(t) ==
    /\ WriteLocal(t) \/ ClearArb(t)
    /\ IF pc'[t] = "wait"
       THEN /\ timer' = [timer EXCEPT ![t] = grant[HostOf[t]]]
            /\ limit' = [limit EXCEPT ![t] = timeout[HostOf[t]]]
            /\ UNCHANGED <<waited, overtaken>>
       ELSE UNCHANGED clocks
    /\ UNCHANGED settings

\* A poll after a sleep; the next sleep, if any, is the retry interval.
TimedPoll(t) ==
    /\ Awake(t)
    /\ Poll(t)
    /\ \/ pc'[t] = "bus" /\ EnterBus(t)
       \/ /\ pc'[t] = "wait" /\ waited[t] <= limit[t]
          /\ timer' = [timer EXCEPT ![t] = retry[HostOf[t]]]
          /\ UNCHANGED <<waited, limit, overtaken>>
    /\ UNCHANGED settings

TimedExpire(t) ==
    /\ Awake(t)
    /\ waited[t] > limit[t]
    /\ Expire(t)
    /\ EnterBus(t)
    /\ UNCHANGED settings

\* _store_u32: one setting of one host changes; running sleeps keep theirs.
Store(h) ==
    /\ \/ /\ \E v \in policy.timeouts : timeout' = [timeout EXCEPT ![h] = v]
          /\ UNCHANGED <<grant, retry>>
       \/ /\ \E v \in policy.grants : grant' = [grant EXCEPT ![h] = v]
          /\ UNCHANGED <<timeout, retry>>
       \/ /\ \E v \in policy.retries : retry' = [retry EXCEPT ![h] = v]
          /\ UNCHANGED <<timeout, grant>>
    /\ UNCHANGED <<vars, policy, clocks>>

Patient(t) ==
    \/ pc[t] = "idle"
    \/ pc[t] = "lock" /\ bus_lock[HostOf[t]] # NoTask
    \/ pc[t] = "wait" /\ timer[t] > -LateBound
    \/ pc[t] = "bus" /\ timer[t] > 0

Tick ==
    /\ \A t \in Task : Patient(t)
    /\ \E t \in Task : pc[t] \in {"wait", "bus"}
    /\ timer' = [t \in Task |-> IF pc[t] \in {"wait", "bus"} THEN timer[t] - 1 ELSE timer[t]]
    /\ waited' = [t \in Task |-> IF pc[t] = "wait" THEN waited[t] + 1 ELSE waited[t]]
    /\ UNCHANGED <<vars, settings, limit, overtaken>>

TimedNext ==
    \/ \E t \in Task :
        \/ Instant(t)
        \/ TimedClearLocal(t)
        \/ TimedReadArb(t)
        \/ StartWait(t)
        \/ TimedPoll(t)
        \/ TimedExpire(t)
    \/ \E h \in Host : Store(h)
    \/ Tick

TimedSpec == TimedInit /\ [][TimedNext]_timedVars
-----------------------------------------------------------------------------
Largest(S) == CHOOSE m \in S : \A n \in S : n <= m
Smallest(S) == CHOOSE m \in S : \A n \in S : m <= n

\* A host that yields sleeps longer than the other takes to poll again.
GrantExceedsRetry == Smallest(policy.grants) > Largest(policy.retries) + LateBound

\* The first sleep, one session of the other host that began meanwhile, a
\* poll that meets the semaphore while the other host is handing it over,
\* and the poll after it.
WaitBound ==
    Largest(policy.grants) + LateBound + HoldBound + 2 * (Largest(policy.retries) + LateBound)

(* However sysfs shuffles settings that keep the grant above the retry, the *)
(* sessions of the other host that start while a host waits all start      *)
(* within its first sleep, and all but one of them are preceded by a grant *)
(* that the other host sleeps in its turn.  With grants of about the same  *)
(* length these are two: yielding really hands the segment over.           *)
BoundedOvertaking ==
    GrantExceedsRetry =>
        \A t \in Task : pc[t] = "wait" =>
            (overtaken[t] - 1) * Smallest(policy.grants) <= Largest(policy.grants) + LateBound

(* ... and it waits no longer than WaitBound.                              *)
WaitBounded ==
    GrantExceedsRetry =>
        \A t \in Task : pc[t] = "wait" => waited[t] <= WaitBound

(* With timeouts of at least WaitBound no wait expires, and the access is  *)
(* exclusive without reservation, although expiry exists.                  *)
ExclusiveWhenSized ==
    GrantExceedsRetry /\ Smallest(policy.timeouts) >= WaitBound => ExclusiveAccess

(* Whatever the settings, and even if the other host never lets go in      *)
(* time, obtain_arbitration returns: a wait lasts no longer than its       *)
(* deadline and one more sleep.                                            *)
LockReturnsInTime ==
    \A t \in Task : pc[t] = "wait" =>
        waited[t] <= limit[t] + Largest(policy.grants \cup policy.retries) + LateBound

=============================================================================
