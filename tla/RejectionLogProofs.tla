------------------------- MODULE RejectionLogProofs -------------------------
(***************************************************************************)
(* For any number of tasks and any interval: the lines RejectionLog lets   *)
(* through are an interval apart, its last timestamp never goes back, the  *)
(* log grows by at most a line per interval and every rejection is         *)
(* accounted for.                                                          *)
(***************************************************************************)
EXTENDS RejectionLog, FiniteSetTheorems, TLAPS

(***************************************************************************)
(* What should_log maintains under its mutex: the last timestamp is the    *)
(* latest of all that were allowed, and a task whose line is in the log is *)
(* through.                                                                *)
(***************************************************************************)
LastIsLatest == \A t \in Allowed : now[t] =< last
WrittenDone == \A t \in Written : pc[t] = "done"

IInv == TypeOK /\ WrittenDone /\ LastIsLatest /\ LinesApart

\* An element of a sequence over S is in S.
LEMMA ElementIn == \A S : \A s \in Seq(S) : \A i \in DOMAIN s : s[i] \in S
  OBVIOUS

\* The first step of every argument: RejectionLog starts with nothing allowed.
LEMMA InitInv == Init => IInv
<1> SUFFICES ASSUME Init PROVE IInv
  OBVIOUS
<1> USE RejectionLogAssumption
<1>1. TypeOK
  BY DEF Init, TypeOK
<1>2. Written = {} /\ Allowed = {}
  BY DEF Init, Written, Allowed
<1> QED
  BY <1>1, <1>2 DEF IInv, WrittenDone, LastIsLatest, LinesApart

\* Every step keeps the types: what is counted stays natural, what is stamped
\* stays within the clock.
LEMMA TypeStep == ASSUME TypeOK, [Next]_vars PROVE TypeOK'
<1> USE RejectionLogAssumption DEF TypeOK
<1>1. CASE Tick
  BY <1>1 DEF Tick
<1>2. ASSUME NEW t \in Tasks, TakeTimestamp(t) PROVE TypeOK'
  BY <1>2 DEF TakeTimestamp
<1>3. ASSUME NEW t \in Tasks, Allow(t) PROVE TypeOK'
  BY <1>3 DEF Allow
<1>4. ASSUME NEW t \in Tasks, Suppress(t) PROVE TypeOK'
  BY <1>4 DEF Suppress
<1>5. ASSUME NEW t \in Tasks, WriteLine(t) PROVE TypeOK'
  <2>1. [task |-> t, count |-> got[t]] \in [task : Tasks, count : Nat]
    OBVIOUS
  <2>2. log' \in Seq([task : Tasks, count : Nat])
    BY <1>5, <2>1 DEF WriteLine
  <2> QED
    BY <1>5, <2>2 DEF WriteLine
<1>6. CASE UNCHANGED vars
  BY <1>6 DEF vars
<1> QED
  BY <1>1, <1>2, <1>3, <1>4, <1>5, <1>6 DEF Next, ShouldLog, Terminated

\* Only WriteLine adds to the log, and it adds its own task.
LEMMA WrittenGrows ==
    ASSUME TypeOK, NEW t \in Tasks, WriteLine(t)
    PROVE  Written' = Written \cup {t}
<1>1. log \in Seq([task : Tasks, count : Nat])
  BY DEF TypeOK
<1>2. log' = Append(log, [task |-> t, count |-> got[t]])
  BY DEF WriteLine
<1>3. DOMAIN log' = DOMAIN log \cup {Len(log) + 1} /\ log'[Len(log) + 1].task = t
      /\ \A i \in DOMAIN log : log'[i] = log[i]
  <2> DEFINE line == [task |-> t, count |-> got[t]]
  <2>1. line \in [task : Tasks, count : Nat] /\ line.task = t
    BY DEF TypeOK
  <2> HIDE DEF line
  <2>2. /\ Len(log) \in Nat /\ DOMAIN log = 1 .. Len(log)
        /\ Len(Append(log, line)) = Len(log) + 1
        /\ DOMAIN Append(log, line) = 1 .. Len(log) + 1
    BY <1>1, <2>1
  <2>3. /\ Append(log, line)[Len(log) + 1] = line
        /\ \A i \in DOMAIN log : Append(log, line)[i] = log[i]
    BY <1>1, <2>1, <2>2
  <2>4. log' = Append(log, line)
    BY <1>2 DEF line
  <2>5. 1 .. Len(log) + 1 = 1 .. Len(log) \cup {Len(log) + 1}
    BY <2>2
  <2> QED
    BY <2>1, <2>2, <2>3, <2>4, <2>5
<1>4. ASSUME NEW u \in Written' PROVE u \in Written \cup {t}
  BY <1>3, <1>4, Zenon DEF Written
<1>5. ASSUME NEW u \in Written PROVE u \in Written'
  <2>1. PICK i \in DOMAIN log : log[i].task = u
    BY <1>5, Zenon DEF Written
  <2>2. i \in DOMAIN log' /\ log'[i].task = u
    BY <1>3, <2>1, Zenon
  <2> QED
    BY <2>2, Zenon DEF Written
<1>6. t \in Written'
  BY <1>3, Zenon DEF Written
<1> QED
  BY <1>4, <1>5, <1>6, Zenon

\* Of the steps of a task only the two critical sections and the write touch
\* what was allowed.
LEMMA InvStep == ASSUME IInv, [Next]_vars PROVE IInv'
<1> USE RejectionLogAssumption
<1>0. TypeOK /\ TypeOK' /\ WrittenDone /\ LastIsLatest /\ LinesApart
  BY TypeStep DEF IInv
<1>w. Written \subseteq Tasks
  <2>1. \A i \in DOMAIN log : log[i] \in [task : Tasks, count : Nat]
    BY <1>0, ElementIn DEF TypeOK
  <2>2. \A i \in DOMAIN log : log[i].task \in Tasks
    BY <2>1
  <2> QED
    BY <2>2, Zenon DEF Written
<1> SUFFICES (WrittenDone /\ LastIsLatest /\ LinesApart)'
  BY <1>0 DEF IInv
<1>1. CASE Tick
  <2>1. Written' = Written /\ Allowed' = Allowed /\ pc' = pc /\ now' = now /\ last' = last
    BY <1>1 DEF Tick, Written, Allowed
  <2> QED
    BY <1>0, <2>1 DEF WrittenDone, LastIsLatest, LinesApart
<1>2. ASSUME NEW t \in Tasks, TakeTimestamp(t)
      PROVE  (WrittenDone /\ LastIsLatest /\ LinesApart)'
  <2>1. Written' = Written /\ pc[t] = "rejected" /\ t \notin Written
    BY <1>0, <1>2 DEF TakeTimestamp, Written, WrittenDone
  <2>2. Allowed' = Allowed /\ t \notin Allowed
    BY <1>0, <1>2, <2>1 DEF TakeTimestamp, Allowed, TypeOK
  <2>3. \A u \in Allowed : now'[u] = now[u]
    BY <1>0, <1>2, <1>w, <2>2 DEF TakeTimestamp, Allowed, TypeOK
  <2>4. \A u \in Written : pc'[u] = pc[u]
    BY <1>0, <1>2, <1>w, <2>1 DEF TakeTimestamp, TypeOK
  <2>5. last' = last
    BY <1>2 DEF TakeTimestamp
  <2> QED
    BY <1>0, <2>1, <2>2, <2>3, <2>4, <2>5 DEF WrittenDone, LastIsLatest, LinesApart
<1>3. ASSUME NEW t \in Tasks, Allow(t)
      PROVE  (WrittenDone /\ LastIsLatest /\ LinesApart)'
  <2>1. Written' = Written /\ pc[t] = "lock" /\ t \notin Written
    BY <1>0, <1>3 DEF Allow, Written, WrittenDone
  <2>2. Allowed' = Allowed \cup {t} /\ t \notin Allowed /\ Allowed \subseteq Tasks
    BY <1>0, <1>3, <1>w, <2>1 DEF Allow, Allowed, TypeOK
  <2>3. now' = now /\ last' = now[t] /\ (last = -1 \/ now[t] - last >= Interval)
    BY <1>3 DEF Allow, Due
  <2>4. \A u \in Allowed : now[t] - now[u] >= Interval
    <3> SUFFICES ASSUME NEW u \in Allowed PROVE now[t] - now[u] >= Interval
      OBVIOUS
    <3>1. now[u] \in 0 .. MaxTime /\ now[t] \in 0 .. MaxTime /\ now[u] =< last
      BY <1>0, <2>2 DEF TypeOK, LastIsLatest
    <3>2. last \in Int /\ last # -1
      BY <1>0, <3>1 DEF TypeOK
    <3> QED
      BY <2>3, <3>1, <3>2
  <2>5. \A u \in Written : pc'[u] = pc[u]
    BY <1>0, <1>3, <1>w, <2>1 DEF Allow, TypeOK
  <2>6. WrittenDone'
    BY <1>0, <2>1, <2>5 DEF WrittenDone
  <2>7. LastIsLatest'
    <3>1. \A u \in Tasks : now[u] \in Int
      BY <1>0 DEF TypeOK
    <3> QED
      BY <2>2, <2>3, <2>4, <3>1 DEF LastIsLatest
  <2>8. LinesApart'
    BY <1>0, <2>2, <2>3, <2>4 DEF LinesApart
  <2> QED
    BY <2>6, <2>7, <2>8
<1>4. ASSUME NEW t \in Tasks, Suppress(t)
      PROVE  (WrittenDone /\ LastIsLatest /\ LinesApart)'
  <2>1. Written' = Written /\ pc[t] = "lock" /\ t \notin Written
    BY <1>0, <1>4 DEF Suppress, Written, WrittenDone
  <2>2. Allowed' = Allowed /\ now' = now /\ last' = last
    BY <1>0, <1>4, <2>1 DEF Suppress, Allowed, TypeOK
  <2>3. \A u \in Written : pc'[u] = pc[u]
    BY <1>0, <1>4, <1>w, <2>1 DEF Suppress, TypeOK
  <2> QED
    BY <1>0, <2>1, <2>2, <2>3 DEF WrittenDone, LastIsLatest, LinesApart
<1>5. ASSUME NEW t \in Tasks, WriteLine(t)
      PROVE  (WrittenDone /\ LastIsLatest /\ LinesApart)'
  <2>1. Written' = Written \cup {t}
    BY <1>0, <1>5, WrittenGrows
  <2>2. Allowed' = Allowed /\ now' = now /\ last' = last
    BY <1>0, <1>5, <2>1 DEF WriteLine, Allowed, TypeOK
  <2>3. \A u \in Written' : pc'[u] = "done"
    BY <1>0, <1>5, <1>w, <2>1 DEF WriteLine, TypeOK, WrittenDone
  <2> QED
    BY <1>0, <2>2, <2>3 DEF WrittenDone, LastIsLatest, LinesApart
<1>6. CASE UNCHANGED vars
  <2>1. Written' = Written /\ Allowed' = Allowed /\ pc' = pc /\ now' = now /\ last' = last
    BY <1>6 DEF vars, Written, Allowed
  <2> QED
    BY <1>0, <2>1 DEF WrittenDone, LastIsLatest, LinesApart
<1> QED
  BY <1>1, <1>2, <1>3, <1>4, <1>5, <1>6 DEF Next, ShouldLog, Terminated

\* The lines should_log lets through carry timestamps an interval apart, for
\* any number of tasks in any order.
THEOREM AllowedApart == Spec => []LinesApart
<1>1. IInv => LinesApart
  BY DEF IInv
<1> QED
  BY InitInv, InvStep, <1>1, PTL DEF Spec

\* A task that was overtaken between its timestamp and the mutex never moves
\* the last timestamp back.
THEOREM LastMonotonic == Spec => LastNeverGoesBack
<1>1. ASSUME IInv, [Next]_vars PROVE [last' >= last]_last
  <2>1. last \in Int
    BY <1>1, RejectionLogAssumption DEF IInv, TypeOK
  <2>2. ASSUME NEW t \in Tasks, Allow(t) PROVE last' >= last
    <3>1. now[t] \in 0 .. MaxTime /\ last' = now[t] /\ (last = -1 \/ now[t] - last >= Interval)
      BY <1>1, <2>2 DEF IInv, TypeOK, Allow, Due
    <3> QED
      BY <2>1, <3>1, RejectionLogAssumption
  <2> QED
    BY <1>1, <2>1, <2>2
    DEF Next, ShouldLog, Terminated, Tick, TakeTimestamp, Suppress, WriteLine, vars
<1> QED
  BY InitInv, InvStep, <1>1, PTL DEF Spec, LastNeverGoesBack
-----------------------------------------------------------------------------
(* The rate of the log.                                                    *)

\* A task writes one line, the lines are an interval apart from the start, and
\* none is stamped later than the clock.
RateInv ==
    /\ Len(log) = Cardinality(Written)
    /\ \A t \in Tasks : now[t] =< clock
    /\ last =< clock
    /\ Allowed # {} => (Cardinality(Allowed) - 1) * Interval =< last

\* The tasks are finitely many, so are those with a line.
LEMMA FinitelyMany ==
    ASSUME TypeOK
    PROVE  /\ Written \subseteq Tasks /\ Written \subseteq Allowed /\ Allowed \subseteq Tasks
           /\ IsFiniteSet(Written) /\ IsFiniteSet(Allowed)
           /\ Cardinality(Written) \in Nat /\ Cardinality(Allowed) \in Nat
           /\ Cardinality(Written) =< Cardinality(Allowed)
<1>1. Written \subseteq Tasks
  <2>1. \A i \in DOMAIN log : log[i] \in [task : Tasks, count : Nat]
    BY ElementIn DEF TypeOK
  <2>2. \A i \in DOMAIN log : log[i].task \in Tasks
    BY <2>1
  <2> QED
    BY <2>2, Zenon DEF Written
<1>2. Written \subseteq Allowed /\ Allowed \subseteq Tasks
  BY <1>1 DEF Allowed
<1>3. IsFiniteSet(Allowed)
  BY <1>2, RejectionLogAssumption, FS_Subset
<1>4. IsFiniteSet(Written) /\ Cardinality(Written) =< Cardinality(Allowed)
  BY <1>2, <1>3, FS_Subset
<1> QED
  BY <1>1, <1>2, <1>3, <1>4, FS_CardinalityType

\* Which tasks have a line after a step.
LEMMA WhoIsAllowed ==
    ASSUME TypeOK, WrittenDone, NEW t \in Tasks
    PROVE  /\ Allow(t) => Written' = Written /\ Allowed' = Allowed \cup {t} /\ t \notin Allowed
           /\ WriteLine(t) => Written' = Written \cup {t} /\ Allowed' = Allowed /\ t \notin Written
           /\ TakeTimestamp(t) \/ Suppress(t) => Written' = Written /\ Allowed' = Allowed
<1>1. Written \subseteq Tasks
  BY FinitelyMany
<1>2. pc[t] # "done" => t \notin Written
  BY DEF WrittenDone
<1>3. ASSUME Allow(t)
      PROVE  Written' = Written /\ Allowed' = Allowed \cup {t} /\ t \notin Allowed
  BY <1>1, <1>2, <1>3 DEF Allow, Written, Allowed, TypeOK
<1>4. ASSUME WriteLine(t)
      PROVE  Written' = Written \cup {t} /\ Allowed' = Allowed /\ t \notin Written
  <2>1. Written' = Written \cup {t}
    BY <1>4, WrittenGrows
  <2> QED
    BY <1>1, <1>2, <1>4, <2>1 DEF WriteLine, Allowed, TypeOK
<1>5. ASSUME TakeTimestamp(t) \/ Suppress(t) PROVE Written' = Written /\ Allowed' = Allowed
  <2>1. CASE TakeTimestamp(t)
    BY <1>1, <1>2, <2>1 DEF TakeTimestamp, Written, Allowed, TypeOK
  <2>2. CASE Suppress(t)
    BY <1>1, <1>2, <2>2 DEF Suppress, Written, Allowed, TypeOK
  <2> QED
    BY <1>5, <2>1, <2>2
<1> QED
  BY <1>3, <1>4, <1>5

\* A line that is allowed comes an interval after the last one.
LEMMA RateStep == ASSUME IInv, IInv', RateInv, [Next]_vars PROVE RateInv'
<1>0. TypeOK /\ TypeOK' /\ WrittenDone /\ LastIsLatest
  BY DEF IInv
<1>t. /\ clock \in Nat /\ clock' \in Nat /\ last \in Int /\ last >= -1 /\ Interval \in Nat
      /\ now \in [Tasks -> 0 .. MaxTime] /\ \A u \in Tasks : now[u] \in Nat
      /\ MaxTime \in Nat
  BY <1>0, RejectionLogAssumption DEF TypeOK
<1>f. /\ Cardinality(Written) \in Nat /\ Cardinality(Allowed) \in Nat
      /\ IsFiniteSet(Written) /\ IsFiniteSet(Allowed) /\ Allowed \subseteq Tasks
  BY <1>0, FinitelyMany
<1>1. CASE Tick
  <2>1. Written' = Written /\ Allowed' = Allowed /\ UNCHANGED <<log, now, last>> /\ clock' = clock + 1
    BY <1>1 DEF Tick, Written, Allowed
  <2> QED
    BY <1>t, <2>1 DEF RateInv
<1>2. ASSUME NEW t \in Tasks, TakeTimestamp(t) PROVE RateInv'
  <2>1. Written' = Written /\ Allowed' = Allowed
    BY <1>0, <1>2, WhoIsAllowed
  <2>2. UNCHANGED <<log, last, clock>> /\ now' = [now EXCEPT ![t] = clock]
    BY <1>2 DEF TakeTimestamp
  <2>3. \A u \in Tasks : now'[u] =< clock
    BY <1>t, <2>2 DEF RateInv
  <2> QED
    BY <2>1, <2>2, <2>3 DEF RateInv
<1>3. ASSUME NEW t \in Tasks, Allow(t) PROVE RateInv'
  <2>1. Written' = Written /\ Allowed' = Allowed \cup {t} /\ t \notin Allowed
    BY <1>0, <1>3, WhoIsAllowed
  <2>2. UNCHANGED <<log, now, clock>> /\ last' = now[t] /\ (last = -1 \/ now[t] - last >= Interval)
    BY <1>3 DEF Allow, Due
  <2>3. Cardinality(Allowed') = Cardinality(Allowed) + 1
    BY <1>f, <2>1, FS_AddElement
  <2>4. last' =< clock'
    BY <1>t, <2>2 DEF RateInv
  <2>5. Cardinality(Allowed) * Interval =< last'
    <3>1. CASE Allowed = {}
      <4>1. Cardinality(Allowed) = 0
        BY <3>1, FS_EmptySet
      <4> QED
        BY <1>t, <2>2, <4>1
    <3>2. CASE Allowed # {}
      <4>1. PICK u \in Allowed : now[u] =< last
        BY <1>0, <3>2 DEF LastIsLatest
      <4>2. last # -1 /\ last' >= last + Interval /\ last' \in Nat
        BY <1>t, <1>f, <2>2, <4>1
      <4>3. (Cardinality(Allowed) - 1) * Interval =< last
        BY <3>2 DEF RateInv
      <4>4. \A c, i \in Nat : c * i = (c - 1) * i + i /\ (c - 1) * i \in Int
        OBVIOUS
      <4>5. /\ Cardinality(Allowed) * Interval = (Cardinality(Allowed) - 1) * Interval + Interval
            /\ (Cardinality(Allowed) - 1) * Interval \in Int
        BY <1>t, <1>f, <4>4
      <4>6. \A a, l, m \in Int : a =< l /\ m >= l + Interval => a + Interval =< m
        BY <1>t
      <4> QED
        BY <1>t, <4>2, <4>3, <4>5, <4>6
    <3> QED
      BY <3>1, <3>2
  <2>6. Cardinality(Allowed') - 1 = Cardinality(Allowed)
    BY <1>f, <2>3
  <2> QED
    BY <2>1, <2>2, <2>4, <2>5, <2>6 DEF RateInv
<1>4. ASSUME NEW t \in Tasks, Suppress(t) PROVE RateInv'
  <2>1. Written' = Written /\ Allowed' = Allowed
    BY <1>0, <1>4, WhoIsAllowed
  <2> QED
    BY <1>4, <2>1 DEF RateInv, Suppress
<1>5. ASSUME NEW t \in Tasks, WriteLine(t) PROVE RateInv'
  <2>1. Written' = Written \cup {t} /\ Allowed' = Allowed /\ t \notin Written
    BY <1>0, <1>5, WhoIsAllowed
  <2>2. Cardinality(Written') = Cardinality(Written) + 1
    BY <1>f, <2>1, FS_AddElement
  <2>3. Len(log') = Len(log) + 1
    BY <1>0, <1>5 DEF TypeOK, WriteLine
  <2> QED
    BY <1>5, <2>1, <2>2, <2>3 DEF RateInv, WriteLine
<1>6. CASE UNCHANGED vars
  BY <1>6 DEF vars, RateInv, Written, Allowed
<1> QED
  BY <1>1, <1>2, <1>3, <1>4, <1>5, <1>6 DEF Next, ShouldLog, Terminated

\* The log never holds more than one line per interval since the start,
\* however many peers are turned away at once.
THEOREM LogBounded == Spec => []LogRateBounded
<1>1. Init => RateInv
  <2> SUFFICES ASSUME Init PROVE RateInv
    OBVIOUS
  <2>1. Written = {} /\ Allowed = {}
    BY DEF Init, Written, Allowed
  <2> QED
    BY <2>1, FS_EmptySet DEF Init, RateInv
<1>2. ASSUME IInv /\ IInv' /\ RateInv, [Next]_vars PROVE RateInv'
  BY <1>2, RateStep
<1>3. IInv /\ RateInv => LogRateBounded
  <2> SUFFICES ASSUME IInv, RateInv PROVE LogRateBounded
    OBVIOUS
  <2>1. /\ Cardinality(Written) \in Nat /\ Cardinality(Allowed) \in Nat /\ IsFiniteSet(Written)
        /\ Cardinality(Written) =< Cardinality(Allowed) /\ Written \subseteq Allowed
        /\ Interval \in Nat /\ clock \in Nat /\ last \in Int
    BY FinitelyMany, RejectionLogAssumption DEF IInv, TypeOK
  <2>2. \A a, b, i \in Nat : a =< b => (a - 1) * i =< (b - 1) * i
    <3> SUFFICES ASSUME NEW a \in Nat, NEW b \in Nat, NEW i \in Nat, a =< b
                 PROVE  (a - 1) * i =< (b - 1) * i
      OBVIOUS
    <3>1. PICK d \in Nat : b = a + d
      <4>1. b - a \in Nat /\ b = a + (b - a)
        OBVIOUS
      <4> QED
        BY <4>1
    <3>2. (b - 1) * i = (a - 1) * i + d * i /\ d * i \in Nat /\ (a - 1) * i \in Int
      BY <3>1
    <3> QED
      BY <3>2
  <2>3. CASE Allowed = {}
    <3>1. Cardinality(Written) = 0
      BY <2>1, <2>3, FS_EmptySet
    <3>2. (0 - 1) * Interval =< 0
      BY <2>1
    <3> QED
      BY <2>1, <3>1, <3>2 DEF RateInv, LogRateBounded
  <2>4. CASE Allowed # {}
    <3>1. (Cardinality(Written) - 1) * Interval =< (Cardinality(Allowed) - 1) * Interval
      BY <2>1, <2>2
    <3>2. (Cardinality(Allowed) - 1) * Interval =< last /\ last =< clock
      BY <2>4 DEF RateInv
    <3>3. (Cardinality(Written) - 1) * Interval \in Int /\ (Cardinality(Allowed) - 1) * Interval \in Int
      BY <2>1
    <3>4. (Cardinality(Written) - 1) * Interval =< clock
      <4>1. \A a, b, c, d \in Int : a =< b /\ b =< c /\ c =< d => a =< d
        OBVIOUS
      <4> QED
        BY <2>1, <3>1, <3>2, <3>3, <4>1
    <3> QED
      BY <3>4 DEF RateInv, LogRateBounded
  <2> QED
    BY <2>3, <2>4
<1> QED
  BY InitInv, InvStep, <1>1, <1>2, <1>3, PTL DEF Spec
-----------------------------------------------------------------------------
(* The count of the swallowed rejections.                                  *)

\* How the swallowed rejections are dealt out to the lines.
Dealt(reported, line) ==
    /\ reported \in SUBSET Swallowed /\ line \in [reported -> Allowed]
    /\ \A t \in Allowed : got[t] = Cardinality({s \in reported : line[s] = t})
    /\ suppressed = Cardinality(Swallowed \ reported)

\* Which tasks are swallowed after a step.
LEMMA WhoIsSwallowed ==
    ASSUME TypeOK, WrittenDone, NEW t \in Tasks
    PROVE  /\ Suppress(t) => Swallowed' = Swallowed \cup {t} /\ t \notin Swallowed
           /\ TakeTimestamp(t) \/ Allow(t) \/ WriteLine(t) => Swallowed' = Swallowed
<1>1. ASSUME Suppress(t) PROVE Swallowed' = Swallowed \cup {t} /\ t \notin Swallowed
  <2>1. Written' = Written /\ t \notin Written
    BY <1>1, WhoIsAllowed DEF WrittenDone, Suppress
  <2> QED
    BY <1>1, <2>1 DEF Suppress, Swallowed, TypeOK
<1>2. ASSUME TakeTimestamp(t) \/ Allow(t) PROVE Swallowed' = Swallowed
  <2>1. Written' = Written
    BY <1>2, WhoIsAllowed
  <2> QED
    BY <1>2, <2>1 DEF TakeTimestamp, Allow, Swallowed, TypeOK
<1>3. ASSUME WriteLine(t) PROVE Swallowed' = Swallowed
  <2>1. Written' = Written \cup {t}
    BY <1>3, WhoIsAllowed
  <2> QED
    BY <1>3, <2>1 DEF WriteLine, Swallowed, TypeOK
<1> QED
  BY <1>1, <1>2, <1>3

\* A line that is allowed takes all that the counter holds; nothing else
\* changes how the rest was dealt out.
LEMMA AccountStep ==
    ASSUME IInv, RejectionsAccountedFor, [Next]_vars
    PROVE  RejectionsAccountedFor'
<1>0. TypeOK /\ WrittenDone
  BY DEF IInv
<1>p. PICK reported, line : Dealt(reported, line)
  <2>1. PICK reported \in SUBSET Swallowed : \E line \in [reported -> Allowed] :
            /\ \A t \in Allowed : got[t] = Cardinality({s \in reported : line[s] = t})
            /\ suppressed = Cardinality(Swallowed \ reported)
    BY DEF RejectionsAccountedFor
  <2>2. PICK line \in [reported -> Allowed] :
            /\ \A t \in Allowed : got[t] = Cardinality({s \in reported : line[s] = t})
            /\ suppressed = Cardinality(Swallowed \ reported)
    BY <2>1
  <2>3. Dealt(reported, line)
    BY <2>2 DEF Dealt
  <2> QED
    BY <2>3
<1>q. ASSUME NEW r, NEW l, Dealt(r, l)' PROVE RejectionsAccountedFor'
  BY <1>q DEF Dealt, RejectionsAccountedFor
<1>s. ASSUME Swallowed' = Swallowed, Allowed' = Allowed, got' = got, suppressed' = suppressed
      PROVE  RejectionsAccountedFor'
  BY <1>p, <1>q, <1>s DEF Dealt
<1>1. CASE Tick
  BY <1>1, <1>s DEF Tick, Swallowed, Allowed, Written
<1>2. ASSUME NEW t \in Tasks, TakeTimestamp(t) PROVE RejectionsAccountedFor'
  BY <1>0, <1>2, <1>s, WhoIsAllowed, WhoIsSwallowed DEF TakeTimestamp
<1>3. ASSUME NEW t \in Tasks, Allow(t) PROVE RejectionsAccountedFor'
  <2>1. Swallowed' = Swallowed /\ Allowed' = Allowed \cup {t} /\ t \notin Allowed
    BY <1>0, <1>3, WhoIsAllowed, WhoIsSwallowed
  <2>2. got' = [got EXCEPT ![t] = suppressed] /\ suppressed' = 0
    BY <1>3 DEF Allow
  <2> DEFINE all == [s \in Swallowed |-> IF s \in reported THEN line[s] ELSE t]
  <2>3. all \in [Swallowed -> Allowed \cup {t}]
    BY <1>p DEF Dealt
  <2>4. {s \in Swallowed : all[s] = t} = Swallowed \ reported
    BY <1>p, <2>1 DEF Dealt
  <2>5. \A u \in Allowed : {s \in Swallowed : all[s] = u} = {s \in reported : line[s] = u}
    BY <1>p, <2>1 DEF Dealt
  <2> HIDE DEF all
  <2>6. got'[t] = suppressed /\ \A u \in Allowed : got'[u] = got[u]
    <3>1. Allowed \subseteq Tasks /\ got \in [Tasks -> Nat]
      BY <1>0, FinitelyMany DEF TypeOK
    <3> QED
      BY <2>1, <2>2, <3>1
  <2>7. \A u \in Allowed' : got'[u] = Cardinality({s \in Swallowed : all[s] = u})
    BY <1>p, <2>1, <2>4, <2>5, <2>6 DEF Dealt
  <2>8. Swallowed \ Swallowed = {} /\ Cardinality({}) = 0
    BY FS_EmptySet
  <2> QED
    BY <2>1, <2>2, <2>3, <2>7, <2>8 DEF RejectionsAccountedFor
<1>4. ASSUME NEW t \in Tasks, Suppress(t) PROVE RejectionsAccountedFor'
  <2>1. Swallowed' = Swallowed \cup {t} /\ t \notin Swallowed /\ Allowed' = Allowed
    BY <1>0, <1>4, WhoIsAllowed, WhoIsSwallowed
  <2>2. got' = got /\ suppressed' = suppressed + 1
    BY <1>4 DEF Suppress
  <2>3. Swallowed' \ reported = (Swallowed \ reported) \cup {t} /\ t \notin Swallowed \ reported
    BY <1>p, <2>1 DEF Dealt
  <2>4. IsFiniteSet(Swallowed \ reported)
    BY RejectionLogAssumption, FS_Subset DEF Swallowed
  <2>5. Cardinality(Swallowed' \ reported) = suppressed'
    BY <1>p, <2>2, <2>3, <2>4, FS_AddElement DEF Dealt
  <2>6. Dealt(reported, line)'
    BY <1>p, <2>1, <2>2, <2>5 DEF Dealt
  <2> QED
    BY <1>q, <2>6
<1>5. ASSUME NEW t \in Tasks, WriteLine(t) PROVE RejectionsAccountedFor'
  BY <1>0, <1>5, <1>s, WhoIsAllowed, WhoIsSwallowed DEF WriteLine
<1>6. CASE UNCHANGED vars
  BY <1>6, <1>s DEF vars, Swallowed, Allowed, Written
<1> QED
  BY <1>1, <1>2, <1>3, <1>4, <1>5, <1>6 DEF Next, ShouldLog, Terminated

\* No rejection is lost or counted twice, for any number of tasks racing for
\* the mutex.
THEOREM AllAccountedFor == Spec => []RejectionsAccountedFor
<1>1. Init => RejectionsAccountedFor
  <2> SUFFICES ASSUME Init PROVE RejectionsAccountedFor
    OBVIOUS
  <2>1. Allowed = {} /\ Swallowed = {}
    BY DEF Init, Written, Allowed, Swallowed
  <2>2. Cardinality({}) = 0 /\ {} \ {} = {} /\ [s \in {} |-> s] \in [{} -> {}]
    BY FS_EmptySet
  <2> QED
    BY <2>1, <2>2 DEF Init, RejectionsAccountedFor
<1>2. ASSUME IInv /\ RejectionsAccountedFor, [Next]_vars PROVE RejectionsAccountedFor'
  BY <1>2, AccountStep
<1> QED
  BY InitInv, InvStep, <1>1, <1>2, PTL DEF Spec
=============================================================================
