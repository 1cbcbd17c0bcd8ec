---------------------------- MODULE DeadlineTimer ----------------------------
(***************************************************************************)
(* The timer that brings due auctions to closeDueAuctions, and due orders  *)
(* to expirePaymentDeadlines: it sleeps until the earliest deadline in the *)
(* database instead of polling.  There are two of them, alike.             *)
(*                                                                         *)
(* Grain.  What the JavaScript does between two awaits is one step.  The   *)
(* query for the next deadline is a step of its own, and so are the run's  *)
(* query and the transaction on each row: writers commit in between, and   *)
(* call reschedule some time after they have committed.                    *)
(***************************************************************************)
EXTENDS Integers, FiniteSetsExt

CONSTANTS
  Rows,           \* auctions, or orders
  Stuck,          \* the rows whose transaction fails every time
  None,           \* no deadline: the row is not LIVE, or not AWAITING_PAYMENT
  Runs,           \* bound: runs of onDue in flight
  Window,         \* how far ahead a new deadline is set
  Skew,           \* SKEW_MS
  Early,          \* how much too early setTimeout may call back
  Retry,          \* RETRY_MS
  StaleBackoff,   \* STALE_BACKOFF_MS
  StaleBackoffMax,\* STALE_BACKOFF_MAX_MS
  MaxTimeout,     \* MAX_TIMEOUT_MS
  MaxTime,        \* bound: the last tick
  BusyUntil,      \* bound: later ticks wait for the work under way
  LastChange,     \* bound: no deadline moves and nothing fails later
  MaxChanges,     \* bound: writes that move a deadline
  MaxFailures     \* bound: failed queries, crashes and sweeps

ASSUME RowsAssumption == Stuck \subseteq Rows /\ None \notin Nat
ASSUME DelayAssumption ==
  /\ {Skew, Early, Retry, StaleBackoff, StaleBackoffMax, MaxTimeout} \subseteq Nat
  /\ Window \in Nat \ {0} /\ Skew >= Early /\ StaleBackoff > Early
  /\ StaleBackoff <= StaleBackoffMax /\ StaleBackoffMax <= MaxTimeout
ASSUME BoundsAssumption == MaxChanges \in Nat /\ MaxFailures \in Nat

VARIABLES
  now,
  deadline,   \* the column that rows are due by
  timer,      \* the fields of the DeadlineTimer object
  runs,       \* the calls of onDue under way
  owed,       \* commits whose writer has not called reschedule yet
  untold,     \* a writer failed before it called, and nothing was read since
  up,         \* the process is running
  changes, failures,  \* what the bounds count
  firedAt,    \* history: when the work was last fired
  fired       \* history: how often it was fired on lastFiredDeadline

vars == <<now, deadline, timer, runs, owed, untold, up, changes, failures, firedAt, fired>>

NoHandle == [wake |-> 0, work |-> FALSE, set |-> FALSE]

(* A new object; lastFiredDeadline is 0 until the first run.               *)
Fresh == [handle |-> NoHandle, phase |-> "idle", found |-> None, queued |-> FALSE,
          armedFor |-> None, lastFired |-> 0, staleRuns |-> 0]

NoRun == [phase |-> "off", by |-> "timer", todo |-> {}]

Deadline == Nat \cup {None}

TypeOK ==
  /\ now \in Nat /\ owed \in Nat /\ untold \in BOOLEAN /\ up \in BOOLEAN
  /\ deadline \in [Rows -> Deadline]
  /\ timer \in [handle: [wake: Nat, work: BOOLEAN, set: BOOLEAN],
                phase: {"idle", "reading", "read"}, found: Deadline, queued: BOOLEAN,
                armedFor: Deadline, lastFired: Nat, staleRuns: Nat]
  /\ timer.handle.work => timer.handle.set /\ timer.armedFor # None
  /\ runs \in [Runs -> [phase: {"off", "select", "serve"}, by: {"timer", "sweep"},
                    todo: SUBSET Rows]]
  /\ changes \in 0 .. MaxChanges /\ failures \in 0 .. MaxFailures
  /\ firedAt \in Nat /\ fired \in Nat

Pending  == {r \in Rows : deadline[r] # None}
Due      == {r \in Pending : deadline[r] <= now}

(* nextDueAt: the first row by deadline. *)
Earliest == IF Pending = {} THEN None ELSE Min({deadline[r] : r \in Pending})

----------------------------------------------------------------------------
(* The object.                                                             *)

(* Mutant: the timeout that is set is not cleared. *)
Cleared_Kept(t) == [t EXCEPT !.armedFor = None]

(* clear *)
Cleared(t) == [t EXCEPT !.handle = NoHandle, !.armedFor = None]

(* Mutant: a call that comes during the query is dropped. *)
Rearm_Dropped(t) == IF t.phase = "idle" THEN [Cleared(t) EXCEPT !.phase = "reading"] ELSE t

(* rearm: at most one query at a time; a call during it asks for another.  *)
Rearm(t) ==
  IF t.phase = "idle"
  THEN [Cleared(t) EXCEPT !.phase = "reading"]
  ELSE [t EXCEPT !.queued = TRUE]

(* The finally of rearm. *)
Finished(t) ==
  LET idle == [t EXCEPT !.phase = "idle", !.found = None, !.queued = FALSE]
  IN IF t.queued THEN Rearm(idle) ELSE idle

Arm(t, delay, work) ==
  [t EXCEPT !.handle = [wake |-> now + Min({Max({delay, 0}), MaxTimeout}),
                        work |-> work, set |-> TRUE]]

(* The delay before a deadline that is still due is tried again.           *)
Backoff(n) == Min({StaleBackoff * 2 ^ (n - 1), StaleBackoffMax})

(* Mutant: a deadline is stale only once a later one was fired. *)
IsStale_Later(t) == t.found < t.lastFired

IsStale(t) == t.found <= t.lastFired

(* Mutant: without the margin, a callback may come before the deadline. *)
Delay_NoSkew(d) == d - now

Delay(d) == d - now + Skew

(* What computeAndArm does once it knows the next deadline.                *)
Armed(t) ==
  LET aim == [t EXCEPT !.armedFor = t.found]
  IN IF t.found = None THEN [t EXCEPT !.lastFired = 0, !.staleRuns = 0]
     ELSE IF IsStale(t)
          THEN Arm([aim EXCEPT !.staleRuns = @ + 1], Backoff(t.staleRuns + 1), TRUE)
     ELSE Arm([aim EXCEPT !.staleRuns = 0], Delay(t.found), Delay(t.found) <= MaxTimeout)

----------------------------------------------------------------------------
Init ==
  /\ now = 1
  /\ deadline = [r \in Rows |-> None]
  /\ timer = Rearm(Fresh)
  /\ runs = [k \in Runs |-> NoRun]
  /\ owed = 0 /\ untold = FALSE /\ up = TRUE
  /\ changes = 0 /\ failures = 0
  /\ firedAt = 0 /\ fired = 0

Fails == now <= LastChange /\ failures < MaxFailures /\ failures' = failures + 1

(* computeAndArm, before and after its await. *)
ReadNext ==
  /\ up /\ timer.phase = "reading"
  /\ timer' = [timer EXCEPT !.phase = "read", !.found = Earliest]
  /\ untold' = FALSE
  /\ UNCHANGED <<now, deadline, runs, owed, up, changes, failures, firedAt, fired>>

ReadFails ==
  /\ up /\ timer.phase = "reading"
  /\ Fails
  /\ timer' = Finished(Arm(timer, Retry, FALSE))
  /\ UNCHANGED <<now, deadline, runs, owed, untold, up, changes, firedAt, fired>>

Compute ==
  /\ up /\ timer.phase = "read"
  /\ timer' = Finished(Armed(timer))
  /\ UNCHANGED <<now, deadline, runs, owed, untold, up, changes, failures, firedAt, fired>>

(* The timeout calls back. *)
Rings == up /\ timer.handle.set /\ now + Early >= timer.handle.wake

Wake ==
  /\ Rings /\ ~timer.handle.work
  /\ timer' = Rearm([timer EXCEPT !.handle = NoHandle])
  /\ UNCHANGED <<now, deadline, runs, owed, untold, up, changes, failures, firedAt, fired>>

Started(k, by) == [runs EXCEPT ![k] = [phase |-> "select", by |-> by, todo |-> {}]]

Fire(k) ==
  /\ Rings /\ timer.handle.work
  /\ runs[k].phase = "off"
  /\ timer' = [timer EXCEPT !.handle = NoHandle, !.armedFor = None,
                            !.lastFired = IF timer.armedFor = None THEN @ ELSE timer.armedFor]
  /\ runs' = Started(k, "timer")
  /\ firedAt' = now
  /\ fired' = IF timer.armedFor = timer.lastFired THEN fired + 1 ELSE 1
  /\ UNCHANGED <<now, deadline, owed, untold, up, changes, failures>>

(* A six-hourly sweep, or POST /scheduler/run: a run outside the timer.    *)
Sweep(k) ==
  /\ up /\ runs[k].phase = "off"
  /\ Fails
  /\ runs' = Started(k, "sweep")
  /\ UNCHANGED <<now, deadline, timer, owed, untold, up, changes, firedAt, fired>>

(* Mutant: no job is scheduled. *)
Cron_Never(k) == FALSE

(* The sweep that comes after a reschedule that was forgotten.             *)
Cron(k) ==
  /\ up /\ untold /\ runs[k].phase = "off"
  /\ runs' = Started(k, "sweep")
  /\ UNCHANGED <<now, deadline, timer, owed, untold, up, changes, failures, firedAt, fired>>

----------------------------------------------------------------------------
(* A run: the due rows, then one transaction each, then rearm.             *)

Select(k) ==
  /\ up /\ runs[k].phase = "select"
  /\ runs' = [runs EXCEPT ![k].phase = "serve", ![k].todo = Due]
  /\ UNCHANGED <<now, deadline, timer, owed, untold, up, changes, failures, firedAt, fired>>

(* The transaction looks at the row again; an expired order may be         *)
(* followed by an offer with a deadline of its own.                        *)
Serve(k, r) ==
  /\ up /\ r \in runs[k].todo
  /\ runs' = [runs EXCEPT ![k].todo = @ \ {r}]
  /\ \/ r \in Due \ Stuck /\ deadline' = [deadline EXCEPT ![r] = None]
     \/ /\ r \in Due \ Stuck /\ now <= LastChange /\ changes < MaxChanges
        /\ deadline' = [deadline EXCEPT ![r] = now + Window]
     \/ r \notin Due \ Stuck /\ UNCHANGED deadline
  /\ changes' = IF deadline'[r] = None \/ deadline'[r] = deadline[r] THEN changes ELSE changes + 1
  /\ UNCHANGED <<now, timer, owed, untold, up, failures, firedAt, fired>>

EndRun(k) ==
  /\ up /\ runs[k].phase = "serve" /\ runs[k].todo = {}
  /\ runs' = [runs EXCEPT ![k] = NoRun]
  /\ timer' = Rearm(timer)
  /\ UNCHANGED <<now, deadline, owed, untold, up, changes, failures, firedAt, fired>>

(* The run's own query fails and nothing is done.  The timer sets itself   *)
(* again; a sweep ends before it would have told it.                       *)
RunFails(k) ==
  /\ up /\ runs[k].phase = "select"
  /\ Fails
  /\ runs' = [runs EXCEPT ![k] = NoRun]
  /\ timer' = IF runs[k].by = "timer" THEN Rearm(timer) ELSE timer
  /\ UNCHANGED <<now, deadline, owed, untold, up, changes, firedAt, fired>>

----------------------------------------------------------------------------
(* Everything else.                                                        *)

(* Approval, anti-snipe extension, cancel and force-end commit a deadline  *)
(* and call reschedule afterwards.                                         *)
Change(r, d) ==
  /\ up /\ now <= LastChange /\ changes < MaxChanges
  /\ \/ deadline[r] = None /\ d = now + Window
     \/ deadline[r] # None /\ deadline[r] > now /\ d = deadline[r] + Window
     \/ deadline[r] # None /\ d = None
  /\ deadline' = [deadline EXCEPT ![r] = d]
  /\ owed' = owed + 1
  /\ changes' = changes + 1
  /\ UNCHANGED <<now, timer, runs, untold, up, failures, firedAt, fired>>

Reschedule ==
  /\ up /\ owed > 0
  /\ owed' = owed - 1
  /\ timer' = Rearm(timer)
  /\ UNCHANGED <<now, deadline, runs, untold, up, changes, failures, firedAt, fired>>

(* runAll closes auctions and fails at its next query; forceEnd fails once *)
(* the auction is closed: reschedule is not reached.                       *)
Forget ==
  /\ up /\ owed > 0
  /\ Fails
  /\ owed' = owed - 1 /\ untold' = TRUE
  /\ UNCHANGED <<now, deadline, timer, runs, up, changes, firedAt, fired>>

(* payOrder ends a deadline and tells nobody. *)
Pay(r) ==
  /\ up /\ deadline[r] # None
  /\ deadline' = [deadline EXCEPT ![r] = None]
  /\ UNCHANGED <<now, timer, runs, owed, untold, up, changes, failures, firedAt, fired>>

(* The process stops, with everything it held in memory ...                *)
Crash ==
  /\ up /\ Fails
  /\ up' = FALSE
  /\ timer' = Fresh /\ runs' = [k \in Runs |-> NoRun]
  /\ owed' = 0 /\ untold' = FALSE
  /\ firedAt' = 0 /\ fired' = 0
  /\ UNCHANGED <<now, deadline, changes>>

(* ... and starts again: onApplicationBootstrap. *)
Boot ==
  /\ ~up
  /\ up' = TRUE /\ timer' = Rearm(timer)
  /\ UNCHANGED <<now, deadline, runs, owed, untold, changes, failures, firedAt, fired>>

(* Nothing is under way and no writer still has to call reschedule.        *)
Quiet == /\ up /\ timer.phase = "idle" /\ owed = 0
         /\ \A k \in Runs : runs[k].phase = "off"

Tick ==
  /\ now < MaxTime
  /\ now < BusyUntil \/ ~up \/ (Quiet /\ ~Rings)
  /\ now' = now + 1
  /\ UNCHANGED <<deadline, timer, runs, owed, untold, up, changes, failures, firedAt, fired>>

Work ==
  \/ ReadNext
  \/ Compute
  \/ Wake
  \/ \E k \in Runs : Fire(k)
  \/ \E k \in Runs : Select(k)
  \/ \E k \in Runs, r \in Rows : Serve(k, r)
  \/ \E k \in Runs : EndRun(k)
  \/ Reschedule
  \/ \E k \in Runs : Cron(k)
  \/ Boot

Next ==
  \/ Work
  \/ ReadFails
  \/ \E k \in Runs : RunFails(k)
  \/ \E k \in Runs : Sweep(k)
  \/ \E r \in Rows, d \in now + 1 .. MaxTime + Window : Change(r, d)
  \/ \E r \in Rows : Change(r, None)
  \/ \E r \in Rows : Pay(r)
  \/ Forget
  \/ Crash
  \/ Tick

Spec == Init /\ [][Next]_vars

(* Fairness: the event loop and the database answer, the job of every six  *)
(* hours comes, and time passes.  No failure, other sweep, writer or       *)
(* payment is owed.                                                        *)
FairSpec ==
  /\ Spec /\ WF_vars(Tick)
  /\ WF_vars(ReadNext) /\ WF_vars(Compute) /\ WF_vars(Wake)
  /\ WF_vars(Reschedule) /\ WF_vars(Boot)
  /\ \A k \in Runs : /\ WF_vars(Fire(k)) /\ WF_vars(Select(k)) /\ WF_vars(EndRun(k))
                     /\ WF_vars(Cron(k))
                     /\ \A r \in Rows : WF_vars(Serve(k, r))

----------------------------------------------------------------------------
(* The timer never sleeps past the next deadline that it was told of.  Once*)
(* things are quiet a timeout is set, and it comes no later than the deadline and its margin; *)
(* than the retry, after a failed query; and, while a row that was run for *)
(* stays due, than the longest backoff.                                    *)
NeverOversleeps ==
  Quiet /\ ~untold /\ Pending # {} =>
    LET slack == IF timer.staleRuns > 0 THEN Max({Retry, StaleBackoffMax})
                 ELSE IF timer.handle.work THEN 0 ELSE Retry
    IN timer.handle.set /\ timer.handle.wake <= Max({Earliest + Skew, now + slack})

(* The work is not fired for a deadline that has not come.                 *)
NotTooEarly ==
  [][\A k \in Runs : Fire(k) => timer.armedFor <= now]_vars

(* A row that stays due does not turn the timer into a tight loop.         *)
NoTightLoop ==
  [][\A k \in Runs :
       Fire(k) /\ timer.armedFor <= timer.lastFired => now - firedAt >= StaleBackoff - Early]_vars

(* As many backoffs as runs: the delay grows with the failed attempts.     *)
StaleCountsRuns == timer.staleRuns <= fired

(* Every due row that can be closed is closed, although another one is     *)
(* stuck, queries fail, the process restarts, and a writer may fail before *)
(* it tells the timer: then the next sweep makes up for it.                *)
DueIsServed == \A r \in Rows \ Stuck : r \in Due ~> r \notin Due
=============================================================================
