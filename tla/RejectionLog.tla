---------------------------- MODULE RejectionLog ----------------------------
(***************************************************************************)
(* RejectionLog (trust.rs): the rate limit on the warnings about peers     *)
(* outside TRUSTED_PROXIES.  One value is shared by all connection tasks.  *)
(* should_log takes its timestamp before it takes the mutex, and the       *)
(* caller writes the line after the mutex was released, so a task may be   *)
(* overtaken between any two of the three.                                 *)
(***************************************************************************)
EXTENDS Integers, Sequences, FiniteSets

CONSTANTS
    Tasks,      \* the rejected connections
    Interval,   \* the interval of the limit, in ticks of the clock
    MaxTime     \* bound: ticks of the clock

ASSUME RejectionLogAssumption ==
    /\ IsFiniteSet(Tasks)
    /\ Interval \in Nat \ {0}
    /\ MaxTime \in Nat

VARIABLES
    clock,      \* the monotonic clock behind Instant::now()
    pc,         \* where each task is in should_log and after it
    now,        \* each task's timestamp
    got,        \* the count a task was given to report
    last,       \* the timestamp of the last line allowed; None is -1
    suppressed, \* events swallowed since
    log         \* the lines written: task and count

vars == <<clock, pc, now, got, last, suppressed, log>>

Init ==
    /\ clock = 0
    /\ pc = [t \in Tasks |-> "rejected"]
    /\ now = [t \in Tasks |-> 0]
    /\ got = [t \in Tasks |-> 0]
    /\ last = -1
    /\ suppressed = 0
    /\ log = <<>>

Tick ==
    /\ clock < MaxTime
    /\ clock' = clock + 1
    /\ UNCHANGED <<pc, now, got, last, suppressed, log>>

\* let now = Instant::now()
TakeTimestamp(t) ==
    /\ pc[t] = "rejected"
    /\ now' = [now EXCEPT ![t] = clock]
    /\ pc' = [pc EXCEPT ![t] = "lock"]
    /\ UNCHANGED <<clock, got, last, suppressed, log>>

\* Mutant: the distance between two instants is taken without its sign.
DueEitherWay(t) == last = -1 \/ now[t] - last >= Interval \/ last > now[t]

\* duration_since is zero for an instant that is later than now.
Due(t) == last = -1 \/ now[t] - last >= Interval

\* Mutant: the counter is read but not cleared.
AllowWithoutReset(t) ==
    /\ pc[t] = "lock" /\ Due(t)
    /\ last' = now[t]
    /\ got' = [got EXCEPT ![t] = suppressed]
    /\ pc' = [pc EXCEPT ![t] = "write"]
    /\ UNCHANGED <<clock, now, suppressed, log>>

\* Mutant: the first line's timestamp is kept for good.
AllowKeepsFirst(t) ==
    /\ pc[t] = "lock" /\ Due(t)
    /\ last' = IF last = -1 THEN now[t] ELSE last
    /\ got' = [got EXCEPT ![t] = suppressed] /\ suppressed' = 0
    /\ pc' = [pc EXCEPT ![t] = "write"]
    /\ UNCHANGED <<clock, now, log>>

\* The critical section: the line is allowed and takes the count with it.
Allow(t) ==
    /\ pc[t] = "lock" /\ Due(t)
    /\ last' = now[t]
    /\ got' = [got EXCEPT ![t] = suppressed] /\ suppressed' = 0
    /\ pc' = [pc EXCEPT ![t] = "write"]
    /\ UNCHANGED <<clock, now, log>>

\* Mutant: a swallowed event restarts the interval.
SuppressRestarts(t) ==
    /\ pc[t] = "lock" /\ ~Due(t)
    /\ suppressed' = suppressed + 1 /\ last' = now[t]
    /\ pc' = [pc EXCEPT ![t] = "done"]
    /\ UNCHANGED <<clock, now, got, log>>

\* The critical section: the event is swallowed.
Suppress(t) ==
    /\ pc[t] = "lock" /\ ~Due(t)
    /\ suppressed' = suppressed + 1
    /\ pc' = [pc EXCEPT ![t] = "done"]
    /\ UNCHANGED <<clock, now, got, last, log>>

\* log::warn! in handle_client.
WriteLine(t) ==
    /\ pc[t] = "write"
    /\ log' = Append(log, [task |-> t, count |-> got[t]])
    /\ pc' = [pc EXCEPT ![t] = "done"]
    /\ UNCHANGED <<clock, now, got, last, suppressed>>

Terminated == (\A t \in Tasks : pc[t] = "done") /\ UNCHANGED vars

ShouldLog(t) == TakeTimestamp(t) \/ Allow(t) \/ Suppress(t) \/ WriteLine(t)

Next == Tick \/ (\E t \in Tasks : ShouldLog(t)) \/ Terminated

Spec == Init /\ [][Next]_vars

-----------------------------------------------------------------------------
TypeOK ==
    /\ clock \in 0 .. MaxTime
    /\ pc \in [Tasks -> {"rejected", "lock", "write", "done"}]
    /\ now \in [Tasks -> 0 .. MaxTime]
    /\ got \in [Tasks -> Nat]
    /\ last \in {-1} \cup (0 .. MaxTime)
    /\ suppressed \in Nat
    /\ log \in Seq([task : Tasks, count : Nat])

\* The tasks whose line was allowed, written or not.
Written == {log[i].task : i \in DOMAIN log}
Allowed == Written \cup {t \in Tasks : pc[t] = "write"}

(***************************************************************************)
(* "At most one line per interval": the lines that were allowed carry      *)
(* timestamps at least an interval apart, in whatever order the tasks took *)
(* the mutex and wrote.                                                    *)
(***************************************************************************)
LinesApart ==
    \A t, u \in Allowed : t # u => now[t] - now[u] >= Interval \/ now[u] - now[t] >= Interval

(***************************************************************************)
(* So the log grows at the rate of one line per interval from the start,   *)
(* although a delayed task may write its line right before the next one.   *)
(***************************************************************************)
LogRateBounded == (Len(log) - 1) * Interval =< clock

\* The tasks that are through without a line.
Swallowed == {t \in Tasks : pc[t] = "done"} \ Written

(***************************************************************************)
(* No rejection is lost or counted twice: the swallowed ones that are      *)
(* reported can be dealt out to the lines so that each line's count is     *)
(* what it got, and the counter holds the others.                          *)
(***************************************************************************)
RejectionsAccountedFor ==
    \E reported \in SUBSET Swallowed : \E line \in [reported -> Allowed] :
        /\ \A t \in Allowed : got[t] = Cardinality({s \in reported : line[s] = t})
        /\ suppressed = Cardinality(Swallowed \ reported)

\* A task whose clock was read before the last line's does not undo it.
LastNeverGoesBack == [][last' >= last]_last
=============================================================================
