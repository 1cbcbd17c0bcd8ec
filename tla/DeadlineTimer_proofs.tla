------------------------ MODULE DeadlineTimer_proofs ------------------------
(***************************************************************************)
(* The safety properties of DeadlineTimer, for any rows, runs and delays.  *)
(***************************************************************************)
EXTENDS DeadlineTimer, TLAPS, FiniteSetTheorems, WellFoundedInduction

----------------------------------------------------------------------------
(* Numbers.                                                                *)

(* A set of natural numbers that is not empty has a least element.         *)
LEMMA LeastIsLeast ==
  ASSUME NEW T \in SUBSET Nat, T # {}
  PROVE  Min(T) \in T /\ \A i \in T : Min(T) <= i
<1> DEFINE less == {p \in Nat \X Nat : p[1] < p[2]}
<1>1. IsWellFoundedOn(less, Nat)
  BY NatLessThanWellFounded DEF OpToRel
<1>2. PICK m \in T : \A i \in T : <<i, m>> \notin less
  <2> HIDE DEF less
  <2> QED BY <1>1, WFMin
<1>3. ASSUME NEW i \in T PROVE m <= i
  <2>1. <<i, m>> \notin less /\ <<i, m>> \in Nat \X Nat
    BY <1>2
  <2>2. ~(i < m)
    BY <2>1
  <2> QED BY <2>2
<1> QED BY <1>3 DEF Min

LEMMA MinOfTwo ==
  ASSUME NEW a \in Int, NEW b \in Int
  PROVE  Min({a, b}) = IF a <= b THEN a ELSE b
BY DEF Min

LEMMA MaxOfTwo ==
  ASSUME NEW a \in Int, NEW b \in Int
  PROVE  Max({a, b}) = IF a >= b THEN a ELSE b
BY DEF Max

(* 2 ^ n counts the subsets of 1 .. n.                                     *)
LEMMA PowersOfTwo == \A n \in Nat : 2 ^ n \in Nat \ {0}
<1> SUFFICES ASSUME NEW n \in Nat PROVE 2 ^ n \in Nat \ {0}
  OBVIOUS
<1>1. IsFiniteSet(1 .. n) /\ Cardinality(1 .. n) = n
  BY FS_Interval
<1>2. IsFiniteSet(SUBSET (1 .. n)) /\ Cardinality(SUBSET (1 .. n)) = 2 ^ n
  BY <1>1, FS_SUBSET
<1>3. SUBSET (1 .. n) # {}
  OBVIOUS
<1> QED BY <1>2, <1>3, FS_CardinalityType, FS_EmptySet

(* The backoff is never shorter than the first one, nor longer than the    *)
(* longest.                                                                *)
LEMMA BackoffBounds ==
  ASSUME NEW n \in Nat \ {0}
  PROVE  Backoff(n) \in Nat /\ StaleBackoff <= Backoff(n) /\ Backoff(n) <= StaleBackoffMax
<1>1. PICK p \in Nat \ {0} : p = 2 ^ (n - 1)
  BY PowersOfTwo
<1>2. StaleBackoff * p \in Nat /\ StaleBackoff <= StaleBackoff * p
  BY DelayAssumption
<1> QED BY <1>1, <1>2, MinOfTwo, DelayAssumption DEF Backoff

----------------------------------------------------------------------------
(* The object.                                                             *)

TimerFields ==
  [handle: [wake: Nat, work: BOOLEAN, set: BOOLEAN],
   phase: {"idle", "reading", "read"}, found: Deadline, queued: BOOLEAN,
   armedFor: Deadline, lastFired: Nat, staleRuns: Nat]

(* Work is set either for a deadline that was fired already, no sooner     *)
(* than the backoff after the last firing (at f), or for a later one, no   *)
(* sooner than the margin after it.  The deadline last fired has come (it  *)
(* is n).                                                                  *)
Aimed(t, n, f) ==
  /\ t \in TimerFields
  /\ t.lastFired <= n
  /\ t.handle.work =>
       /\ t.handle.set /\ t.armedFor \in Nat
       /\ \/ t.armedFor <= t.lastFired /\ t.handle.wake >= f + StaleBackoff
          \/ t.armedFor > t.lastFired /\ t.handle.wake >= t.armedFor + Skew

(* While it reads, no timeout is set; when it does not, no call waits.     *)
Settled(t) ==
  /\ t.phase # "idle" => t.handle = NoHandle /\ t.armedFor = None
  /\ t.phase = "idle" => ~t.queued

Sound(t, n, f) == Aimed(t, n, f) /\ Settled(t)

(* A query is under way, and it is either still to be made or made again.  *)
Asking(t) == t.phase # "idle" /\ (t.phase = "read" => t.queued)

LEMMA RearmSound ==
  ASSUME NEW t, NEW n \in Nat, NEW f \in Nat, Sound(t, n, f)
  PROVE  Sound(Rearm(t), n, f) /\ Asking(Rearm(t))
<1> USE DEF Sound, Aimed, Settled, TimerFields, Asking, NoHandle, Deadline
<1>1. CASE t.phase = "idle"
  BY <1>1 DEF Rearm, Cleared
<1>2. CASE t.phase # "idle"
  BY <1>2 DEF Rearm
<1> QED BY <1>1, <1>2

(* The finally of rearm: done, or a call came and the query is made again. *)
LEMMA FinishedSound ==
  ASSUME NEW t, NEW n \in Nat, NEW f \in Nat, Aimed(t, n, f)
  PROVE  /\ Sound(Finished(t), n, f)
         /\ t.queued => Asking(Finished(t))
         /\ ~t.queued => /\ Finished(t).phase = "idle" /\ Finished(t).handle = t.handle
                         /\ Finished(t).staleRuns = t.staleRuns
<1> DEFINE idle == [t EXCEPT !.phase = "idle", !.found = None, !.queued = FALSE]
<1>1. Sound(idle, n, f) /\ idle.handle = t.handle /\ idle.staleRuns = t.staleRuns
  BY DEF Sound, Aimed, Settled, TimerFields, Deadline
<1>2. Finished(t) = IF t.queued THEN Rearm(idle) ELSE idle
  BY DEF Finished
<1>3. idle.phase = "idle"
  BY DEF Aimed, TimerFields
<1> HIDE DEF idle
<1> QED BY <1>1, <1>2, <1>3, RearmSound DEF Asking

(* setTimeout: within the delay that was asked for, and after exactly that *)
(* unless it is negative or beyond the longest one.                        *)
LEMMA WakeTime ==
  ASSUME NEW delay \in Int, now \in Nat
  PROVE  LET wake == now + Min({Max({delay, 0}), MaxTimeout})
         IN /\ wake \in Nat /\ now <= wake
            /\ wake <= now + delay \/ wake = now
            /\ delay <= MaxTimeout => wake >= now + delay
<1>1. MaxTimeout \in Nat
  BY DelayAssumption
<1>2. PICK m \in Nat : m = Max({delay, 0}) /\ (m = delay \/ (m = 0 /\ delay < 0))
  BY MaxOfTwo
<1>3. Min({m, MaxTimeout}) = IF m <= MaxTimeout THEN m ELSE MaxTimeout
  BY <1>1, MinOfTwo
<1> QED BY <1>1, <1>2, <1>3

(* Setting the timeout leaves the other fields.                            *)
LEMMA ArmFields ==
  ASSUME NEW t \in TimerFields, NEW u, NEW h \in [wake: Nat, work: BOOLEAN, set: BOOLEAN],
         u = [t EXCEPT !.handle = h]
  PROVE  /\ u \in TimerFields /\ u.handle = h
         /\ u.phase = t.phase /\ u.queued = t.queued /\ u.armedFor = t.armedFor
         /\ u.lastFired = t.lastFired /\ u.staleRuns = t.staleRuns
BY DEF TimerFields

(* What computeAndArm decides: nothing if nothing is pending; a backoff    *)
(* for a deadline that was fired; else the deadline and its margin.        *)
LEMMA ArmedAims ==
  ASSUME NEW t, now \in Nat, NEW f \in Nat, f <= now, Aimed(t, now, f), Settled(t),
         t.phase = "read"
  PROVE  LET u == Armed(t)
         IN /\ Aimed(u, now, f) /\ u.phase = "read" /\ u.queued = t.queued
            /\ t.found # None =>
                 /\ u.handle.set
                 /\ \/ u.handle.wake <= t.found + Skew
                    \/ u.handle.wake <= now
                    \/ u.staleRuns > 0 /\ u.handle.wake <= now + StaleBackoffMax
<1> DEFINE aim == [t EXCEPT !.armedFor = t.found]
<1>1. /\ t \in TimerFields /\ ~t.handle.work /\ None \notin Nat
      /\ t.found \in Deadline /\ t.lastFired \in Nat /\ t.staleRuns \in Nat
      /\ t.lastFired <= now
  BY RowsAssumption DEF Aimed, Settled, NoHandle, TimerFields
<1>2. CASE t.found = None
  <2>1. PICK u : u = [t EXCEPT !.lastFired = 0, !.staleRuns = 0]
    OBVIOUS
  <2>2. Armed(t) = u
    BY <1>2, <2>1 DEF Armed
  <2>3. /\ u \in TimerFields /\ u.handle = t.handle
        /\ u.lastFired = 0 /\ u.phase = t.phase /\ u.queued = t.queued
    BY <1>1, <2>1 DEF TimerFields
  <2> QED BY <1>1, <1>2, <2>2, <2>3 DEF Aimed
<1>3. CASE t.found # None /\ IsStale(t)
  <2> DEFINE back == Backoff(t.staleRuns + 1)
             base == [aim EXCEPT !.staleRuns = t.staleRuns + 1]
             wake == now + Min({Max({back, 0}), MaxTimeout})
  <2>1. t.found \in Nat /\ t.found <= t.lastFired
    BY <1>1, <1>3 DEF Deadline, IsStale
  <2>2. back \in Nat /\ StaleBackoff <= back /\ back <= StaleBackoffMax
    <3>1. t.staleRuns + 1 \in Nat \ {0}
      BY <1>1
    <3> QED BY <3>1, BackoffBounds
  <2>3. wake \in Nat /\ wake >= now + StaleBackoff /\ wake <= now + StaleBackoffMax
    <3> HIDE DEF back
    <3> QED BY <2>2, WakeTime, DelayAssumption
  <2>4. Armed(t) = [base EXCEPT !.handle = [wake |-> wake, work |-> TRUE, set |-> TRUE]]
    <3>1. aim.staleRuns = t.staleRuns
      BY <1>1 DEF TimerFields
    <3> QED BY <1>3, <3>1 DEF Armed, Arm
  <2>5. /\ base \in TimerFields /\ base.phase = t.phase /\ base.queued = t.queued
        /\ base.armedFor = t.found /\ base.lastFired = t.lastFired
        /\ base.staleRuns = t.staleRuns + 1
    <3>1. t.staleRuns + 1 \in Nat
      BY <1>1
    <3> QED BY <1>1, <3>1 DEF TimerFields
  <2> HIDE DEF back, wake, base
  <2>6. /\ Armed(t) \in TimerFields
        /\ Armed(t).handle = [wake |-> wake, work |-> TRUE, set |-> TRUE]
        /\ Armed(t).armedFor = t.found /\ Armed(t).lastFired = t.lastFired
        /\ Armed(t).phase = t.phase /\ Armed(t).queued = t.queued
        /\ Armed(t).staleRuns = t.staleRuns + 1
    <3>1. [wake |-> wake, work |-> TRUE, set |-> TRUE]
            \in [wake: Nat, work: BOOLEAN, set: BOOLEAN]
      BY <2>3
    <3> QED BY <2>4, <2>5, <3>1, ArmFields
  <2>7. wake >= f + StaleBackoff
    BY <2>3, DelayAssumption
  <2> QED BY <1>1, <1>3, <2>1, <2>3, <2>6, <2>7 DEF Aimed
<1>4. CASE t.found # None /\ ~IsStale(t)
  <2> DEFINE delay == Delay(t.found)
             fits == delay <= MaxTimeout
             base == [aim EXCEPT !.staleRuns = 0]
             wake == now + Min({Max({delay, 0}), MaxTimeout})
  <2>1. t.found \in Nat /\ t.found > t.lastFired
    BY <1>1, <1>4 DEF Deadline, IsStale
  <2>2. delay = t.found - now + Skew /\ delay \in Int
    BY <2>1, DelayAssumption DEF Delay
  <2>3. /\ wake \in Nat /\ (wake <= t.found + Skew \/ wake <= now)
        /\ delay <= MaxTimeout => wake >= t.found + Skew
    <3> HIDE DEF delay
    <3>1. /\ wake \in Nat /\ (wake <= now + delay \/ wake = now)
          /\ delay <= MaxTimeout => wake >= now + delay
      BY <2>2, WakeTime
    <3> QED BY <2>1, <2>2, <3>1, DelayAssumption
  <2>4. /\ base \in TimerFields /\ base.phase = t.phase /\ base.queued = t.queued
        /\ base.armedFor = t.found /\ base.lastFired = t.lastFired
    <3>1. 0 \in Nat
      OBVIOUS
    <3> QED BY <1>1, <3>1 DEF TimerFields
  <2>5. Armed(t) = Arm(base, delay, fits)
    BY <1>4 DEF Armed
  <2> HIDE DEF delay, base
  <2>6. CASE fits
    <3>1. Armed(t) = [base EXCEPT !.handle = [wake |-> wake, work |-> TRUE, set |-> TRUE]]
      BY <2>5, <2>6 DEF Arm
    <3> HIDE DEF wake
    <3>2. [wake |-> wake, work |-> TRUE, set |-> TRUE]
            \in [wake: Nat, work: BOOLEAN, set: BOOLEAN]
      BY <2>3
    <3>3. /\ Armed(t) \in TimerFields
          /\ Armed(t).handle = [wake |-> wake, work |-> TRUE, set |-> TRUE]
          /\ Armed(t).armedFor = t.found /\ Armed(t).lastFired = t.lastFired
          /\ Armed(t).phase = t.phase /\ Armed(t).queued = t.queued
      BY <2>4, <3>1, <3>2, ArmFields
    <3> QED BY <1>1, <1>4, <2>1, <2>3, <2>6, <3>3 DEF Aimed
  <2>7. CASE ~fits
    <3>1. Armed(t) = [base EXCEPT !.handle = [wake |-> wake, work |-> FALSE, set |-> TRUE]]
      <4>1. fits = FALSE
        BY <2>2, <2>7, DelayAssumption
      <4> QED BY <2>5, <4>1 DEF Arm
    <3> HIDE DEF wake
    <3>2. [wake |-> wake, work |-> FALSE, set |-> TRUE]
            \in [wake: Nat, work: BOOLEAN, set: BOOLEAN]
      BY <2>3
    <3>3. /\ Armed(t) \in TimerFields
          /\ Armed(t).handle = [wake |-> wake, work |-> FALSE, set |-> TRUE]
          /\ Armed(t).armedFor = t.found /\ Armed(t).lastFired = t.lastFired
          /\ Armed(t).phase = t.phase /\ Armed(t).queued = t.queued
      BY <2>4, <3>1, <3>2 DEF TimerFields
    <3> QED BY <1>1, <1>4, <2>1, <2>3, <3>3 DEF Aimed
  <2> QED BY <2>6, <2>7
<1> QED BY <1>2, <1>3, <1>4

----------------------------------------------------------------------------
(* The inductive invariant.                                                *)

(* No run has rows to serve before its query.                              *)
Data ==
  /\ now \in Nat /\ owed \in Nat /\ untold \in BOOLEAN /\ up \in BOOLEAN
  /\ deadline \in [Rows -> Deadline]
  /\ runs \in [Runs -> [phase: {"off", "select", "serve"}, by: {"timer", "sweep"},
                    todo: SUBSET Rows]]
  /\ changes \in 0 .. MaxChanges /\ failures \in 0 .. MaxFailures
  /\ firedAt \in Nat /\ fired \in Nat /\ firedAt <= now
  /\ \A k \in Runs : runs[k].todo # {} => runs[k].phase = "serve"

(* Every writer has called reschedule or is past failing to, and no run is *)
(* under way that will call it: a sweep whose query is still to come has   *)
(* moved no deadline.                                                      *)
Calm ==
  /\ up /\ owed = 0 /\ ~untold
  /\ \A k \in Runs : runs[k].phase = "off" \/ (runs[k].phase = "select" /\ runs[k].by = "sweep")

(* What was read is not later than any deadline there is.                  *)
Knows ==
  Calm /\ timer.phase = "read" /\ ~timer.queued =>
    \A r \in Pending : timer.found \in Nat /\ timer.found <= deadline[r]

Slack == IF timer.staleRuns > 0 THEN Max({Retry, StaleBackoffMax})
         ELSE IF timer.handle.work THEN 0 ELSE Retry

(* The timeout that is set comes by every deadline, or within the slack.   *)
Covered ==
  Calm /\ timer.phase = "idle" /\ Pending # {} =>
    /\ timer.handle.set
    /\ \/ \A r \in Pending : timer.handle.wake <= deadline[r] + Skew
       \/ timer.handle.wake <= now + Slack

IInv == Data /\ Sound(timer, now, firedAt) /\ Knows /\ Covered

LEMMA SlackBounds ==
  ASSUME timer \in TimerFields
  PROVE  /\ Slack \in Nat
         /\ timer.staleRuns > 0 => Slack >= StaleBackoffMax
         /\ ~timer.handle.work => Slack >= Retry
<1>1. Retry \in Nat /\ StaleBackoffMax \in Nat
  BY DelayAssumption
<1>2. Max({Retry, StaleBackoffMax}) = IF Retry >= StaleBackoffMax THEN Retry ELSE StaleBackoffMax
  BY <1>1, MaxOfTwo
<1> QED BY <1>1, <1>2 DEF Slack, TimerFields

(* A query that is still to be made, or a writer that is still to call:    *)
(* nothing need be known of the deadlines.                                 *)
LEMMA NothingOwed ==
  ASSUME Asking(timer') \/ ~Calm'
  PROVE  Knows' /\ Covered'
BY DEF Asking, Knows, Covered

(* Deadlines that go, and time that passes, leave the timeout in time.     *)
LEMMA StillCovered ==
  ASSUME Data, Data', timer \in TimerFields, Knows, Covered, timer' = timer, now' >= now,
         Calm' => Calm,
         Pending' \subseteq Pending, \A r \in Pending' : deadline'[r] = deadline[r]
  PROVE  Knows' /\ Covered'
<1>1. Knows'
  BY DEF Knows
<1>2. ASSUME Calm', timer.phase = "idle", Pending' # {}
      PROVE  /\ timer.handle.set
             /\ \/ \A r \in Pending' : timer.handle.wake <= deadline'[r] + Skew
                \/ timer.handle.wake <= now' + Slack'
  <2>1. Slack' = Slack /\ Slack \in Nat
    BY SlackBounds DEF Slack
  <2>2. now \in Nat /\ now' \in Nat /\ timer.handle.wake \in Nat
    BY DEF Data, TimerFields
  <2> QED BY <1>2, <2>1, <2>2 DEF Covered
<1> QED BY <1>1, <1>2 DEF Covered

LEMMA TypesFollow == IInv => TypeOK
BY RowsAssumption DEF IInv, Data, Sound, Aimed, TimerFields, TypeOK

LEMMA Start == Init => IInv
<1> SUFFICES ASSUME Init PROVE IInv
  OBVIOUS
<1>1. Data
  <2>1. /\ runs \in [Runs -> [phase: {"off", "select", "serve"}, by: {"timer", "sweep"},
                              todo: SUBSET Rows]]
        /\ \A k \in Runs : runs[k].todo = {}
    BY DEF Init, NoRun
  <2>2. up \in BOOLEAN /\ untold \in BOOLEAN
    BY DEF Init
  <2>3. /\ now \in Nat /\ owed \in Nat /\ deadline \in [Rows -> Deadline]
        /\ changes \in 0 .. MaxChanges /\ failures \in 0 .. MaxFailures
        /\ firedAt \in Nat /\ fired \in Nat /\ firedAt <= now
    BY BoundsAssumption DEF Init, Deadline
  <2> QED BY <2>1, <2>2, <2>3 DEF Data
<1>2. Sound(Fresh, now, firedAt)
  BY DEF Init, Sound, Aimed, Settled, Fresh, NoHandle, TimerFields, Deadline
<1>3. Sound(timer, now, firedAt) /\ Asking(timer)
  BY <1>1, <1>2, RearmSound DEF Init, Data
<1> QED BY <1>1, <1>3 DEF IInv, Asking, Knows, Covered

----------------------------------------------------------------------------
(* Each action keeps it.                                                   *)

LEMMA ReadNextKeeps == IInv /\ ReadNext => IInv'
<1> SUFFICES ASSUME IInv, ReadNext PROVE IInv'
  OBVIOUS
<1> USE DEF ReadNext
<1>1. Data'
  BY DEF IInv, Data
<1>2. Earliest \in Deadline /\ \A r \in Pending : Earliest \in Nat /\ Earliest <= deadline[r]
  <2> DEFINE T == {deadline[r] : r \in Pending}
  <2>1. T \in SUBSET Nat
    BY DEF IInv, Data, Pending, Deadline
  <2>2. CASE Pending = {}
    BY <2>2 DEF Earliest, Deadline
  <2>3. CASE Pending # {}
    <3>1. Min(T) \in T /\ \A i \in T : Min(T) <= i
      <4>1. T # {}
        BY <2>3
      <4> HIDE DEF T
      <4> QED BY <2>1, <4>1, LeastIsLeast
    <3> QED BY <2>1, <2>3, <3>1 DEF Earliest, Deadline
  <2> QED BY <2>2, <2>3
<1>3. Sound(timer', now', firedAt')
  BY <1>2 DEF IInv, Sound, Aimed, Settled, TimerFields, NoHandle
<1>4. Pending' = Pending
  BY DEF Pending
<1>5. timer'.phase = "read" /\ timer'.found = Earliest
  BY DEF IInv, Sound, Aimed, TimerFields
<1> QED BY <1>1, <1>2, <1>3, <1>4, <1>5 DEF IInv, Knows, Covered

LEMMA ReadFailsKeeps == IInv /\ ReadFails => IInv'
<1> SUFFICES ASSUME IInv, ReadFails PROVE IInv'
  OBVIOUS
<1> USE DEF ReadFails
<1>1. Data'
  BY BoundsAssumption DEF IInv, Data, Fails
<1> DEFINE wake == now + Min({Max({Retry, 0}), MaxTimeout})
<1>2. wake \in Nat /\ wake <= now + Retry
  BY WakeTime, DelayAssumption DEF IInv, Data
<1>3. PICK u : u = Arm(timer, Retry, FALSE)
  OBVIOUS
<1>4. u = [timer EXCEPT !.handle = [wake |-> wake, work |-> FALSE, set |-> TRUE]]
  BY <1>3 DEF Arm
<1> HIDE DEF wake
<1>5. /\ u \in TimerFields /\ u.handle.wake = wake
      /\ ~u.handle.work /\ u.handle.set /\ u.lastFired = timer.lastFired
  BY <1>2, <1>4 DEF IInv, Sound, Aimed, TimerFields
<1>6. Aimed(u, now, firedAt) /\ now \in Nat /\ firedAt \in Nat
  BY <1>5 DEF IInv, Data, Sound, Aimed
<1>7. timer' = Finished(u) /\ now' = now /\ firedAt' = firedAt
  BY <1>3
<1> HIDE DEF ReadFails
<1>8. Sound(timer', now', firedAt')
  BY <1>6, <1>7, FinishedSound
<1>9. CASE u.queued
  BY <1>1, <1>6, <1>7, <1>8, <1>9, FinishedSound, NothingOwed DEF IInv
<1>10. CASE ~u.queued
  <2>1. timer'.phase = "idle" /\ timer'.handle = u.handle
    BY <1>6, <1>7, <1>10, FinishedSound
  <2>2. timer' \in TimerFields /\ ~timer'.handle.work /\ timer'.handle.set
    <3>1. timer' \in TimerFields
      BY <1>8 DEF Sound, Aimed
    <3> QED BY <1>5, <2>1, <3>1
  <2>3. Slack' \in Nat /\ Slack' >= Retry
    <3>1. Retry \in Nat /\ StaleBackoffMax \in Nat
      BY DelayAssumption
    <3>2. Max({Retry, StaleBackoffMax}) = IF Retry >= StaleBackoffMax THEN Retry ELSE StaleBackoffMax
      BY <3>1, MaxOfTwo
    <3> QED BY <2>2, <3>1, <3>2 DEF Slack, TimerFields
  <2>4. timer'.handle.wake <= now' + Slack'
    <3>1. timer'.handle.wake = wake /\ now' = now /\ now \in Nat
      BY <1>5, <1>6, <1>7, <2>1
    <3>2. Retry \in Nat
      BY DelayAssumption
    <3>3. \A w, n, r, k \in Nat : w <= n + r /\ k >= r => w <= n + k
      OBVIOUS
    <3>4. wake <= now + Slack'
      BY <1>2, <2>3, <3>1, <3>2, <3>3
    <3> QED BY <3>1, <3>4
  <2> QED BY <1>1, <1>8, <2>1, <2>2, <2>4 DEF IInv, Knows, Covered
<1> QED BY <1>9, <1>10

LEMMA ComputeKeeps == IInv /\ Compute => IInv'
<1> SUFFICES ASSUME IInv, Compute PROVE IInv'
  OBVIOUS
<1> USE DEF Compute
<1>1. Data'
  BY DEF IInv, Data
<1>2. PICK u : u = Armed(timer)
  OBVIOUS
<1>3. /\ now \in Nat /\ firedAt \in Nat /\ firedAt <= now
      /\ Aimed(timer, now, firedAt) /\ Settled(timer) /\ timer \in TimerFields
  BY DEF IInv, Data, Sound, Aimed
<1>4. /\ Aimed(u, now, firedAt) /\ u.queued = timer.queued
      /\ timer.found # None =>
           /\ u.handle.set
           /\ \/ u.handle.wake <= timer.found + Skew
              \/ u.handle.wake <= now
              \/ u.staleRuns > 0 /\ u.handle.wake <= now + StaleBackoffMax
  BY <1>2, <1>3, ArmedAims
<1>5. timer' = Finished(u) /\ now' = now /\ firedAt' = firedAt
  BY <1>2
<1>6. Sound(timer', now', firedAt')
  BY <1>3, <1>4, <1>5, FinishedSound
<1>7. CASE timer.queued
  BY <1>1, <1>3, <1>4, <1>5, <1>6, <1>7, FinishedSound, NothingOwed DEF IInv
<1>8. CASE ~timer.queued
  <2>1. timer'.phase = "idle" /\ timer'.handle = u.handle /\ timer'.staleRuns = u.staleRuns
    BY <1>3, <1>4, <1>5, <1>8, FinishedSound
  <2>2. timer' \in TimerFields
    BY <1>6 DEF Sound, Aimed
  <2>3. Slack' \in Nat /\ (timer'.staleRuns > 0 => Slack' >= StaleBackoffMax)
    <3>1. Retry \in Nat /\ StaleBackoffMax \in Nat
      BY DelayAssumption
    <3>2. Max({Retry, StaleBackoffMax}) = IF Retry >= StaleBackoffMax THEN Retry ELSE StaleBackoffMax
      BY <3>1, MaxOfTwo
    <3> QED BY <2>2, <3>1, <3>2 DEF Slack
  <2>4. Pending' = Pending /\ deadline' = deadline /\ (Calm' => Calm)
    BY DEF Pending, Calm
  <2>5. ASSUME Calm', Pending' # {}
        PROVE  /\ timer'.handle.set
               /\ \/ \A r \in Pending' : timer'.handle.wake <= deadline'[r] + Skew
                  \/ timer'.handle.wake <= now' + Slack'
    <3>1. timer.found \in Nat /\ \A r \in Pending : timer.found <= deadline[r]
      BY <1>8, <2>4, <2>5 DEF IInv, Knows
    <3>2. timer.found # None
      BY <3>1, RowsAssumption
    <3>3. u.handle.wake \in Nat /\ Skew \in Nat /\ StaleBackoffMax \in Nat
      BY <1>4, DelayAssumption DEF Aimed, TimerFields
    <3>4. \A r \in Pending : deadline[r] \in Nat
      BY DEF IInv, Data, Pending, Deadline
    <3>5. CASE u.handle.wake <= timer.found + Skew
      <4>1. \A r \in Pending : u.handle.wake <= deadline[r] + Skew
        BY <3>1, <3>3, <3>4, <3>5
      <4> QED BY <1>4, <2>1, <2>4, <3>2, <4>1
    <3>6. CASE u.handle.wake <= now
      BY <1>3, <1>4, <1>5, <2>1, <2>3, <3>2, <3>3, <3>6
    <3>7. CASE u.staleRuns > 0 /\ u.handle.wake <= now + StaleBackoffMax
      BY <1>3, <1>4, <1>5, <2>1, <2>3, <3>2, <3>3, <3>7
    <3> QED BY <1>4, <3>2, <3>5, <3>6, <3>7
  <2> QED BY <1>1, <1>6, <2>1, <2>5 DEF IInv, Knows, Covered
<1> QED BY <1>7, <1>8

(* When a timeout comes, nothing is being read.                            *)
LEMMA RingsIdle ==
  ASSUME IInv, Rings
  PROVE  timer.phase = "idle" /\ ~timer.queued
BY DEF IInv, Sound, Settled, Rings, NoHandle

LEMMA WakeKeeps == IInv /\ Wake => IInv'
<1> SUFFICES ASSUME IInv, Wake PROVE IInv'
  OBVIOUS
<1> USE DEF Wake
<1>1. Data'
  BY DEF IInv, Data
<1>2. PICK t : t = [timer EXCEPT !.handle = NoHandle]
  OBVIOUS
<1>3. Sound(t, now, firedAt) /\ now \in Nat /\ firedAt \in Nat
  BY <1>2, RingsIdle DEF IInv, Data, Sound, Aimed, Settled, TimerFields, NoHandle
<1>4. timer' = Rearm(t) /\ now' = now /\ firedAt' = firedAt
  BY <1>2
<1> QED BY <1>1, <1>3, <1>4, RearmSound, NothingOwed DEF IInv

(* The work is fired for a deadline that has come, and no sooner after the *)
(* last time than the backoff if it is the same one.                       *)
LEMMA FiresInTime ==
  ASSUME IInv, NEW k \in Runs, Fire(k)
  PROVE  /\ timer.armedFor \in Nat /\ timer.armedFor <= now
         /\ timer.armedFor <= timer.lastFired => now - firedAt >= StaleBackoff - Early
<1>1. /\ timer.armedFor \in Nat /\ timer.lastFired \in Nat /\ timer.lastFired <= now
      /\ now \in Nat /\ firedAt \in Nat /\ timer.handle.wake \in Nat
      /\ now + Early >= timer.handle.wake
      /\ \/ timer.armedFor <= timer.lastFired /\ timer.handle.wake >= firedAt + StaleBackoff
         \/ timer.armedFor > timer.lastFired /\ timer.handle.wake >= timer.armedFor + Skew
  BY DEF IInv, Data, Sound, Aimed, TimerFields, Fire, Rings
<1>2. {Skew, Early, StaleBackoff} \subseteq Nat /\ Skew >= Early
  BY DelayAssumption
<1> QED BY <1>1, <1>2

LEMMA FireKeeps == ASSUME NEW k \in Runs PROVE IInv /\ Fire(k) => IInv'
<1> SUFFICES ASSUME IInv, Fire(k) PROVE IInv'
  OBVIOUS
<1> USE DEF Fire
<1>1. Data'
  BY DEF IInv, Data, Started
<1>2. timer.armedFor \in Nat /\ timer.armedFor <= now /\ timer.armedFor # None
  BY FiresInTime, RowsAssumption
<1>3. timer' = [timer EXCEPT !.handle = NoHandle, !.armedFor = None,
                             !.lastFired = timer.armedFor]
  BY <1>2
<1>4. Sound(timer', now', firedAt')
  <2>1. timer \in TimerFields /\ timer.phase = "idle" /\ ~timer.queued
    BY RingsIdle DEF IInv, Sound, Aimed
  <2>2. /\ timer' \in TimerFields /\ timer'.handle = NoHandle
        /\ timer'.lastFired = timer.armedFor /\ timer'.phase = "idle" /\ ~timer'.queued
    <3>1. NoHandle \in [wake: Nat, work: BOOLEAN, set: BOOLEAN] /\ None \in Deadline
      BY DEF NoHandle, Deadline
    <3> QED BY <1>2, <1>3, <2>1, <3>1 DEF TimerFields
  <2>3. ~timer'.handle.work /\ now' = now
    BY <2>2 DEF NoHandle
  <2> QED BY <1>2, <2>2, <2>3 DEF Sound, Aimed, Settled
<1>5. ~Calm'
  <2>1. runs'[k].phase = "select" /\ runs'[k].by = "timer"
    BY DEF IInv, Data, Started
  <2> QED BY <2>1 DEF Calm
<1> QED BY <1>1, <1>4, <1>5, NothingOwed DEF IInv

(* What calls rearm makes a query that is still to come.                   *)
LEMMA RearmKeeps ==
  ASSUME IInv, Data', timer' = Rearm(timer), now' = now, firedAt' = firedAt
  PROVE  IInv'
<1>1. Sound(timer', now', firedAt') /\ Asking(timer')
  BY RearmSound DEF IInv, Data
<1> QED BY <1>1, NothingOwed DEF IInv

(* What leaves the timer alone keeps it while deadlines only go ...        *)
LEMMA LeavesKeeps ==
  ASSUME IInv, Data', timer' = timer, now' >= now, firedAt' = firedAt, Calm' => Calm,
         Pending' \subseteq Pending, \A r \in Pending' : deadline'[r] = deadline[r]
  PROVE  IInv'
<1>1. timer \in TimerFields
  BY DEF IInv, Sound, Aimed
<1>2. Sound(timer', now', firedAt')
  BY <1>1 DEF IInv, Data, Sound, Aimed, Settled, TimerFields
<1> QED BY <1>1, <1>2, StillCovered DEF IInv

(* ... and whatever happens to them while someone is to call rearm.        *)
LEMMA BusyKeeps ==
  ASSUME IInv, Data', timer' = timer, now' = now, firedAt' = firedAt, ~Calm'
  PROVE  IInv'
BY NothingOwed DEF IInv

LEMMA SweepKeeps == ASSUME NEW k \in Runs PROVE IInv /\ Sweep(k) => IInv'
<1> SUFFICES ASSUME IInv, Sweep(k) PROVE IInv'
  OBVIOUS
<1> USE DEF Sweep
<1>1. Data'
  BY BoundsAssumption DEF IInv, Data, Fails, Started
<1>2. Calm' => Calm
  BY DEF IInv, Data, Calm, Started
<1> QED BY <1>1, <1>2, LeavesKeeps DEF IInv, Data, Pending

LEMMA CronKeeps == ASSUME NEW k \in Runs PROVE IInv /\ Cron(k) => IInv'
<1> SUFFICES ASSUME IInv, Cron(k) PROVE IInv'
  OBVIOUS
<1> USE DEF Cron
<1>1. Data'
  BY DEF IInv, Data, Started
<1>2. ~Calm'
  BY DEF Calm
<1> QED BY <1>1, <1>2, BusyKeeps DEF IInv, Data

LEMMA SelectKeeps == ASSUME NEW k \in Runs PROVE IInv /\ Select(k) => IInv'
<1> SUFFICES ASSUME IInv, Select(k) PROVE IInv'
  OBVIOUS
<1> USE DEF Select
<1>1. Data'
  BY DEF IInv, Data, Due, Pending
<1>2. runs'[k].phase = "serve"
  BY DEF IInv, Data
<1> QED BY <1>1, <1>2, BusyKeeps DEF Calm

LEMMA ServeKeeps ==
  ASSUME NEW k \in Runs, NEW r \in Rows PROVE IInv /\ Serve(k, r) => IInv'
<1> SUFFICES ASSUME IInv, Serve(k, r) PROVE IInv'
  OBVIOUS
<1> USE DEF Serve
<1>1. runs[k].phase = "serve"
  BY DEF IInv, Data
<1>2. runs' = [runs EXCEPT ![k].todo = @ \ {r}]
  OBVIOUS
<1>3. /\ runs' \in [Runs -> [phase: {"off", "select", "serve"}, by: {"timer", "sweep"},
                             todo: SUBSET Rows]]
      /\ runs'[k].phase = "serve"
      /\ \A j \in Runs : runs'[j].todo # {} => runs'[j].phase = "serve"
  BY <1>1, <1>2 DEF IInv, Data
<1>4. now + Window \in Deadline /\ None \in Deadline
  BY DelayAssumption DEF IInv, Data, Deadline
<1>5. deadline' \in [Rows -> Deadline]
  BY <1>4 DEF IInv, Data
<1>6. changes' \in 0 .. MaxChanges
  <2>1. deadline \in [Rows -> Deadline] /\ changes \in 0 .. MaxChanges /\ MaxChanges \in Nat
    BY BoundsAssumption DEF IInv, Data
  <2>2. CASE deadline'[r] = None \/ deadline'[r] = deadline[r]
    BY <2>1, <2>2
  <2>3. CASE ~(deadline'[r] = None \/ deadline'[r] = deadline[r])
    <3>1. changes < MaxChanges /\ changes' = changes + 1
      BY <2>1, <2>3
    <3> QED BY <2>1, <3>1
  <2> QED BY <2>2, <2>3
<1>7. Data'
  BY <1>3, <1>5, <1>6 DEF IInv, Data
<1> QED BY <1>3, <1>7, BusyKeeps DEF Calm

LEMMA EndRunKeeps == ASSUME NEW k \in Runs PROVE IInv /\ EndRun(k) => IInv'
<1> SUFFICES ASSUME IInv, EndRun(k) PROVE IInv'
  OBVIOUS
<1>1. Data'
  BY DEF EndRun, IInv, Data, NoRun
<1> QED BY <1>1, RearmKeeps DEF EndRun

LEMMA RunFailsKeeps == ASSUME NEW k \in Runs PROVE IInv /\ RunFails(k) => IInv'
<1> SUFFICES ASSUME IInv, RunFails(k) PROVE IInv'
  OBVIOUS
<1> USE DEF RunFails
<1>1. Data'
  BY BoundsAssumption DEF IInv, Data, Fails, NoRun
<1>2. CASE runs[k].by = "timer"
  BY <1>1, <1>2, RearmKeeps
<1>3. CASE runs[k].by # "timer"
  <2>1. runs[k].phase = "select" /\ runs[k].by = "sweep"
    BY <1>3 DEF IInv, Data
  <2>2. Calm' => Calm
    BY <2>1 DEF IInv, Data, Calm, NoRun
  <2> QED BY <1>1, <1>3, <2>2, LeavesKeeps DEF IInv, Data, Pending
<1> QED BY <1>2, <1>3

LEMMA ChangeKeeps ==
  ASSUME NEW r \in Rows, NEW d PROVE IInv /\ Change(r, d) => IInv'
<1> SUFFICES ASSUME IInv, Change(r, d) PROVE IInv'
  OBVIOUS
<1> USE DEF Change
<1>1. d \in Deadline
  BY DelayAssumption DEF IInv, Data, Deadline
<1>2. Data'
  BY <1>1, BoundsAssumption DEF IInv, Data
<1>3. ~Calm'
  BY DEF IInv, Data, Calm
<1> QED BY <1>2, <1>3, BusyKeeps

LEMMA RescheduleKeeps == IInv /\ Reschedule => IInv'
<1> SUFFICES ASSUME IInv, Reschedule PROVE IInv'
  OBVIOUS
<1>1. Data'
  BY DEF Reschedule, IInv, Data
<1> QED BY <1>1, RearmKeeps DEF Reschedule

LEMMA ForgetKeeps == IInv /\ Forget => IInv'
<1> SUFFICES ASSUME IInv, Forget PROVE IInv'
  OBVIOUS
<1> USE DEF Forget
<1>1. Data'
  BY BoundsAssumption DEF IInv, Data, Fails
<1>2. ~Calm'
  BY DEF Calm
<1> QED BY <1>1, <1>2, BusyKeeps

LEMMA PayKeeps == ASSUME NEW r \in Rows PROVE IInv /\ Pay(r) => IInv'
<1> SUFFICES ASSUME IInv, Pay(r) PROVE IInv'
  OBVIOUS
<1> USE DEF Pay
<1>1. Data'
  BY DEF IInv, Data, Deadline
<1>2. Calm' => Calm
  BY DEF Calm
<1>3. Pending' \subseteq Pending /\ \A q \in Pending' : deadline'[q] = deadline[q]
  BY DEF IInv, Data, Pending
<1> QED BY <1>1, <1>2, <1>3, LeavesKeeps DEF IInv, Data

LEMMA CrashKeeps == IInv /\ Crash => IInv'
<1> SUFFICES ASSUME IInv, Crash PROVE IInv'
  OBVIOUS
<1> USE DEF Crash
<1>1. Data'
  <2>1. /\ runs' \in [Runs -> [phase: {"off", "select", "serve"}, by: {"timer", "sweep"},
                               todo: SUBSET Rows]]
        /\ \A k \in Runs : runs'[k].todo = {}
    BY DEF NoRun
  <2>2. failures' \in 0 .. MaxFailures
    BY BoundsAssumption DEF IInv, Data, Fails
  <2>3. /\ now' \in Nat /\ owed' \in Nat /\ untold' \in BOOLEAN /\ up' \in BOOLEAN
        /\ deadline' \in [Rows -> Deadline] /\ changes' \in 0 .. MaxChanges
        /\ firedAt' \in Nat /\ fired' \in Nat /\ firedAt' <= now'
    <3>1. now \in Nat /\ deadline \in [Rows -> Deadline] /\ changes \in 0 .. MaxChanges
      BY DEF IInv, Data
    <3>2. /\ now' = now /\ deadline' = deadline /\ changes' = changes
          /\ owed' = 0 /\ firedAt' = 0 /\ fired' = 0
      OBVIOUS
    <3>3. up' \in BOOLEAN /\ untold' \in BOOLEAN
      OBVIOUS
    <3> HIDE DEF Crash
    <3> QED BY <3>1, <3>2, <3>3
  <2> HIDE DEF Crash
  <2> QED BY <2>1, <2>2, <2>3 DEF Data
<1>2. Sound(Fresh, now', firedAt')
  BY DEF IInv, Data, Sound, Aimed, Settled, Fresh, NoHandle, TimerFields, Deadline
<1>3. ~Calm' /\ timer' = Fresh
  BY DEF Calm
<1> QED BY <1>1, <1>2, <1>3, NothingOwed DEF IInv

LEMMA BootKeeps == IInv /\ Boot => IInv'
<1> SUFFICES ASSUME IInv, Boot PROVE IInv'
  OBVIOUS
<1>1. Data'
  BY DEF Boot, IInv, Data
<1> QED BY <1>1, RearmKeeps DEF Boot

LEMMA TickKeeps == IInv /\ Tick => IInv'
<1> SUFFICES ASSUME IInv, Tick PROVE IInv'
  OBVIOUS
<1> USE DEF Tick
<1>1. Data'
  BY DEF IInv, Data
<1>2. Calm' => Calm
  BY DEF Calm
<1> QED BY <1>1, <1>2, LeavesKeeps DEF IInv, Data, Pending

LEMMA NextKeeps == IInv /\ [Next]_vars => IInv'
<1> SUFFICES ASSUME IInv, [Next]_vars PROVE IInv'
  OBVIOUS
<1>1. CASE ReadNext BY <1>1, ReadNextKeeps
<1>2. CASE Compute BY <1>2, ComputeKeeps
<1>3. CASE Wake BY <1>3, WakeKeeps
<1>4. ASSUME NEW k \in Runs, Fire(k) PROVE IInv' BY <1>4, FireKeeps
<1>5. ASSUME NEW k \in Runs, Select(k) PROVE IInv' BY <1>5, SelectKeeps
<1>6. ASSUME NEW k \in Runs, NEW r \in Rows, Serve(k, r) PROVE IInv' BY <1>6, ServeKeeps
<1>7. ASSUME NEW k \in Runs, EndRun(k) PROVE IInv' BY <1>7, EndRunKeeps
<1>8. CASE Reschedule BY <1>8, RescheduleKeeps
<1>9. CASE Boot BY <1>9, BootKeeps
<1>10. CASE ReadFails BY <1>10, ReadFailsKeeps
<1>11. ASSUME NEW k \in Runs, RunFails(k) PROVE IInv' BY <1>11, RunFailsKeeps
<1>12. ASSUME NEW k \in Runs, Sweep(k) PROVE IInv' BY <1>12, SweepKeeps
<1>13. ASSUME NEW r \in Rows, NEW d, Change(r, d) PROVE IInv' BY <1>13, ChangeKeeps
<1>14. ASSUME NEW r \in Rows, Pay(r) PROVE IInv' BY <1>14, PayKeeps
<1>15. CASE Crash BY <1>15, CrashKeeps
<1>16. CASE Tick BY <1>16, TickKeeps
<1>17. ASSUME NEW k \in Runs, Cron(k) PROVE IInv' BY <1>17, CronKeeps
<1>18. CASE Forget BY <1>18, ForgetKeeps
<1>19. CASE UNCHANGED vars
  BY <1>19 DEF vars, IInv, Data, Sound, Aimed, Settled, Knows, Covered, Calm, Slack, Pending
<1> QED
  BY <1>1, <1>2, <1>3, <1>4, <1>5, <1>6, <1>7, <1>8, <1>9, <1>10, <1>11, <1>12, <1>13,
     <1>14, <1>15, <1>16, <1>17, <1>18, <1>19 DEF Next, Work

----------------------------------------------------------------------------
(* The theorems.                                                           *)

(* The inductive invariant: every timeout that is set for the work was set *)
(* with its margin or its backoff (Sound), and once no writer still has to *)
(* call reschedule, what was read (Knows) or set (Covered) is in time for  *)
(* every deadline.                                                         *)
THEOREM Inductive == Spec => []IInv
<1>1. Init => IInv
  BY Start
<1>2. IInv /\ [Next]_vars => IInv'
  BY NextKeeps
<1> QED BY <1>1, <1>2, PTL DEF Spec

(* The fields of the timer and the rest have their types.                  *)
THEOREM Types == Spec => []TypeOK
BY Inductive, TypesFollow, PTL

LEMMA CoveredInTime == IInv => NeverOversleeps
<1> SUFFICES ASSUME IInv, Quiet, ~untold, Pending # {}
             PROVE  /\ timer.handle.set
                    /\ timer.handle.wake <= Max({Earliest + Skew, now + Slack})
  BY DEF NeverOversleeps, Slack
<1>1. Calm /\ timer.phase = "idle"
  BY DEF Quiet, Calm
<1>2. /\ timer.handle.set
      /\ \/ \A r \in Pending : timer.handle.wake <= deadline[r] + Skew
         \/ timer.handle.wake <= now + Slack
  BY <1>1 DEF IInv, Covered
<1>3. PICK r \in Pending : Earliest = deadline[r] /\ deadline[r] \in Nat
  <2> DEFINE T == {deadline[r] : r \in Pending}
  <2>1. T \in SUBSET Nat /\ T # {}
    BY DEF IInv, Data, Pending, Deadline
  <2>2. Min(T) \in T
    <3> HIDE DEF T
    <3> QED BY <2>1, LeastIsLeast
  <2> QED BY <2>1, <2>2 DEF Earliest
<1>4. /\ now \in Nat /\ Skew \in Nat /\ Slack \in Nat /\ timer.handle.wake \in Nat
  BY SlackBounds, DelayAssumption DEF IInv, Data, Sound, Aimed, TimerFields
<1>5. PICK a \in Nat : a = Earliest + Skew
  BY <1>3, <1>4
<1>6. PICK b \in Nat : b = now + Slack
  BY <1>4
<1>7. Max({a, b}) = IF a >= b THEN a ELSE b
  BY MaxOfTwo
<1>8. timer.handle.wake <= a \/ timer.handle.wake <= b
  BY <1>2, <1>3, <1>5, <1>6
<1>9. timer.handle.wake <= Max({a, b})
  BY <1>4, <1>7, <1>8
<1> QED BY <1>2, <1>5, <1>6, <1>9

(* Once things are quiet the timer is set and comes in time for the next   *)
(* deadline, for any rows, writers, failures and delays.                   *)
THEOREM InTime == Spec => []NeverOversleeps
BY Inductive, CoveredInTime, PTL

(* The work is never fired before the deadline it was set for.             *)
THEOREM NeverEarly == Spec => NotTooEarly
<1>1. IInv => \A k \in Runs : Fire(k) => timer.armedFor <= now
  BY FiresInTime
<1>2. IInv => [\A k \in Runs : Fire(k) => timer.armedFor <= now]_vars
  BY <1>1
<1> QED BY Inductive, <1>2, PTL DEF NotTooEarly

(* It is not fired again on the same deadline, or an earlier one, before   *)
(* the first backoff has passed.                                           *)
THEOREM NeverTight == Spec => NoTightLoop
<1>1. IInv => [\A k \in Runs :
                 Fire(k) /\ timer.armedFor <= timer.lastFired
                   => now - firedAt >= StaleBackoff - Early]_vars
  BY FiresInTime
<1> QED BY Inductive, <1>1, PTL DEF NoTightLoop
=============================================================================
