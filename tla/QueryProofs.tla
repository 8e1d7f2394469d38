---------------------------- MODULE QueryProofs ----------------------------
(***************************************************************************)
(* Proofs about QueryProtocol for any number of cycles and any depth of    *)
(* pipelining.                                                             *)
(***************************************************************************)
EXTENDS QueryProtocol, SequenceTheorems, FunctionTheorems, FiniteSetTheorems, TLAPS

-----------------------------------------------------------------------------
(* The inductive invariant.                                                *)

RequestTypes == {"Q", "P", "B", "E", "S"}
Requests == [type : RequestTypes, cycle : Nat]
Replies == [type : {"error", "result", "ready"}, cycle : Nat]

TypeInv ==
    /\ patient \in BOOLEAN /\ strayed \in BOOLEAN /\ skip \in BOOLEAN
    /\ cycles \in Seq([text : Texts, extended : BOOLEAN])
    /\ ready \in Nat
    /\ fromClient \in Seq(Requests) /\ toPg \in Seq(Requests)
    /\ fromPg \in Seq(Replies) /\ toClient \in Seq(Replies)
    /\ stmt \in Texts \cup {NoText} /\ portal \in Texts \cup {NoText}
    /\ tx \in {"idle", "block", "failed"}
    /\ ran \in Seq([text : Texts \cup {NoText}, cycle : Nat])

\* The place of a request in the order the client makes them.
Pos == [t \in RequestTypes |->
           CASE t = "B" -> 2 [] t = "E" -> 3 [] t = "S" -> 4 [] OTHER -> 1]
Rank(m) == 5 * m.cycle + Pos[m.type]

Increasing(s) == \A i, j \in 1 .. Len(s) : i < j => Rank(s[i]) < Rank(s[j])

\* The client has made it, and it has not come to PostgreSQL yet.
Made(m) ==
    /\ m \in Requests /\ m.cycle \in DOMAIN cycles
    /\ m.type \in IF cycles[m.cycle].extended THEN {"P", "B", "E", "S"} ELSE {"Q"}
Pending == ToSet(toPg) \cup ToSet(fromClient)

\* Requests stay in order, and those behind one that is under way are under
\* way too, unless they are refused.
OrderInv ==
    /\ \A m \in Pending : Made(m)
    /\ \A m \in ToSet(toPg) : ~Refuses(m)
    /\ Increasing(toPg) /\ Increasing(fromClient)
    /\ \A m \in ToSet(toPg), n \in ToSet(fromClient) : Rank(m) < Rank(n)
    /\ \A m \in Pending, n \in [type : RequestTypes, cycle : DOMAIN cycles] :
          Made(n) /\ Rank(m) < Rank(n) /\ ~Refuses(n) => n \in Pending

\* A text that Guardian let through, of a cycle PostgreSQL has come to.
Passed(text) ==
    /\ text # "blocked"
    /\ \E c \in DOMAIN cycles : cycles[c].text = text /\ \A m \in Pending : c =< m.cycle

\* What PostgreSQL has prepared and bound, between two messages of a cycle.
PreparedInv ==
    /\ stmt # NoText => Passed(stmt)
    /\ portal # NoText => Passed(portal)
    /\ \A c \in DOMAIN cycles : Msg("B", c) \in Pending /\ Msg("P", c) \notin Pending =>
          c \in RefusedParses \/ skip \/ stmt = cycles[c].text
    /\ \A c \in DOMAIN cycles : Msg("E", c) \in Pending /\ Msg("B", c) \notin Pending =>
          skip \/ (portal # NoText /\ (c \in RefusedParses \/ portal = cycles[c].text))

\* A message that is discarded lies before the Sync of its own cycle.
SkipInv ==
    skip => \E c \in DOMAIN cycles :
        cycles[c].extended /\ Msg("S", c) \in Pending /\ \A m \in Pending : c =< m.cycle

\* What was run is not under way any more.
RanInv ==
    /\ RunsWhatPassed
    /\ \A i \in DOMAIN ran :
          /\ ran[i].cycle \in DOMAIN cycles
          /\ Msg("Q", ran[i].cycle) \notin Pending /\ Msg("E", ran[i].cycle) \notin Pending
    /\ \A i, j \in DOMAIN ran : ran[i].cycle = ran[j].cycle => i = j

IInv == TypeInv /\ OrderInv /\ PreparedInv /\ SkipInv /\ RanInv

-----------------------------------------------------------------------------
(* A client that waits.                                                    *)

\* The messages that make a cycle be over, or will.
Ends == {"ready", "Q", "S"}
EndsLast(s) == \A i \in 1 .. Len(s) : s[i].type \in Ends => i = Len(s)
HasEnd(s) == \E i \in 1 .. Len(s) : s[i].type \in Ends
InCycle(s, c) == \A i \in 1 .. Len(s) : s[i].cycle = c

\* One cycle is under way, and nothing is behind the message that ends it.
InStep ==
    /\ ~strayed
    /\ ready = Len(cycles) => Drained
    /\ ready # Len(cycles) => ready + 1 = Len(cycles)
    /\ EndsLast(toClient) /\ EndsLast(fromPg) /\ EndsLast(toPg) /\ EndsLast(fromClient)
    /\ InCycle(toClient, Len(cycles)) /\ InCycle(fromPg, Len(cycles))
    /\ InCycle(toPg, Len(cycles)) /\ InCycle(fromClient, Len(cycles))
    /\ HasEnd(toClient) => fromPg = <<>> /\ toPg = <<>> /\ fromClient = <<>>
    /\ HasEnd(fromPg) => toPg = <<>> /\ fromClient = <<>>
    /\ HasEnd(toPg) => fromClient = <<>>
    /\ fromClient # <<>> /\ Head(fromClient).type = "Q" => toClient = <<>> /\ fromPg = <<>> /\ toPg = <<>>

WaitingInv == patient /\ RefusedParses = {} => InStep

-----------------------------------------------------------------------------
(* The count of ReadyForQuery.                                             *)

\* How many messages of some types a queue holds.
Count(s, types) == Cardinality({i \in 1 .. Len(s) : s[i].type \in types})
Readies(s) == Count(s, {"ready"})
Closers(s) == Count(s, {"Q", "S"})

\* The refused Parse messages that have been answered.
Answered == {c \in RefusedParses : Msg("P", c) \notin ToSet(fromClient)}

BalanceInv ==
    ready + Readies(toClient) + Readies(fromPg)
          + Closers(toPg) + Closers(fromClient)
        = Len(cycles) + Cardinality(Answered)

-----------------------------------------------------------------------------
(* Queues.                                                                 *)

\* One more at the end of a queue.
LEMMA Put ==
    ASSUME NEW S, NEW s \in Seq(S), NEW e \in S
    PROVE  /\ Append(s, e) \in Seq(S) /\ Append(s, e) # <<>>
           /\ Len(s) \in Nat /\ Len(Append(s, e)) = Len(s) + 1
           /\ Append(s, e)[Len(s) + 1] = e
           /\ \A i \in 1 .. Len(s) : Append(s, e)[i] = s[i]
           /\ 1 .. Len(s) + 1 = 1 .. Len(s) \cup {Len(s) + 1}
           /\ ToSet(Append(s, e)) = ToSet(s) \cup {e}
<1> DEFINE t == Append(s, e)
<1>1. /\ t \in Seq(S) /\ t # <<>> /\ Len(s) \in Nat /\ Len(t) = Len(s) + 1
      /\ t[Len(s) + 1] = e /\ \A i \in 1 .. Len(s) : t[i] = s[i]
  OBVIOUS
<1>2. 1 .. Len(s) + 1 = 1 .. Len(s) \cup {Len(s) + 1}
  BY <1>1
<1>3. DOMAIN t = 1 .. Len(s) + 1 /\ DOMAIN s = 1 .. Len(s)
  BY <1>1
<1>4. ToSet(t) = ToSet(s) \cup {e}
  <2> HIDE DEF t
  <2>1. ASSUME NEW x \in ToSet(t) PROVE x \in ToSet(s) \cup {e}
    BY <1>1, <1>2, <1>3, <2>1, Zenon DEF ToSet
  <2>2. ASSUME NEW x \in ToSet(s) PROVE x \in ToSet(t)
    <3>1. PICK i \in DOMAIN s : x = s[i]
      BY <2>2, Zenon DEF ToSet
    <3>2. i \in DOMAIN t /\ x = t[i]
      BY <1>1, <1>2, <1>3, <3>1, Zenon
    <3> QED
      BY <3>2, Zenon DEF ToSet
  <2>3. e \in ToSet(t)
    BY <1>1, <1>2, <1>3, Zenon DEF ToSet
  <2> QED
    BY <2>1, <2>2, <2>3, Zenon
<1> QED
  BY <1>1, <1>2, <1>4

\* The first of a queue is taken.
LEMMA Got ==
    ASSUME NEW S, NEW s \in Seq(S), s # <<>>
    PROVE  /\ Head(s) \in S /\ Head(s) = s[1] /\ Tail(s) \in Seq(S)
           /\ Len(s) \in Nat \ {0} /\ Len(Tail(s)) = Len(s) - 1
           /\ \A i \in 1 .. Len(s) - 1 : Tail(s)[i] = s[i + 1]
           /\ ToSet(s) = ToSet(Tail(s)) \cup {Head(s)}
<1> DEFINE t == Tail(s)
<1>1. /\ Head(s) \in S /\ Head(s) = s[1] /\ t \in Seq(S) /\ Len(s) \in Nat \ {0} /\ Len(t) = Len(s) - 1
      /\ \A i \in 1 .. Len(s) - 1 : t[i] = s[i + 1]
  OBVIOUS
<1>2. DOMAIN t = 1 .. Len(s) - 1 /\ DOMAIN s = 1 .. Len(s)
  BY <1>1
<1> HIDE DEF t
<1>3. \A i \in 1 .. Len(s) : i = 1 \/ (i - 1 \in 1 .. Len(s) - 1 /\ t[i - 1] = s[i])
  BY <1>1
<1>4. 1 \in 1 .. Len(s) /\ \A i \in 1 .. Len(s) - 1 : i + 1 \in 1 .. Len(s)
  BY <1>1
<1>5. ToSet(s) = ToSet(t) \cup {Head(s)}
  <2>1. ASSUME NEW x \in ToSet(s) PROVE x \in ToSet(t) \cup {Head(s)}
    <3>1. PICK i \in 1 .. Len(s) : x = s[i]
      BY <1>2, <2>1, Zenon DEF ToSet
    <3> QED
      BY <1>1, <1>2, <1>3, <3>1, Zenon DEF ToSet
  <2>2. ASSUME NEW x \in ToSet(t) PROVE x \in ToSet(s)
    <3>1. PICK i \in 1 .. Len(s) - 1 : x = t[i]
      BY <1>2, <2>2, Zenon DEF ToSet
    <3> QED
      BY <1>1, <1>2, <1>4, <3>1, Zenon DEF ToSet
  <2>3. Head(s) \in ToSet(s)
    BY <1>1, <1>2, <1>4, Zenon DEF ToSet
  <2> QED
    BY <2>1, <2>2, <2>3, Zenon
<1> QED
  BY <1>1, <1>5 DEF t

\* What is in a queue has the type of the queue.
LEMMA Held ==
    ASSUME NEW S, NEW s \in Seq(S)
    PROVE  /\ ToSet(s) \subseteq S /\ Len(s) \in Nat /\ DOMAIN s = 1 .. Len(s)
           /\ ToSet(s) = {s[i] : i \in 1 .. Len(s)}
           /\ s = <<>> => ToSet(s) = {}
<1>1. Len(s) \in Nat /\ DOMAIN s = 1 .. Len(s) /\ \A i \in 1 .. Len(s) : s[i] \in S
  OBVIOUS
<1>2. s = <<>> => DOMAIN s = {}
  OBVIOUS
<1> QED
  BY <1>1, <1>2, Zenon DEF ToSet

LEMMA Element ==
    ASSUME NEW S, NEW s \in Seq(S), NEW i \in DOMAIN s
    PROVE  s[i] \in S
  OBVIOUS

\* Several at once are put one by one.
LEMMA PutAll ==
    ASSUME NEW S, NEW s \in Seq(S), NEW a \in S, NEW b \in S, NEW c \in S, NEW d \in S
    PROVE  /\ s \o <<a>> = Append(s, a)
           /\ s \o <<a, b>> = Append(Append(s, a), b)
           /\ s \o <<a, b, c, d>> = Append(Append(Append(Append(s, a), b), c), d)
  OBVIOUS

\* The messages of a list of types.
LEMMA Listed ==
    ASSUME NEW a, NEW b, NEW e, NEW f, NEW c
    PROVE  /\ [i \in DOMAIN <<a>> |-> Msg(<<a>>[i], c)] = <<Msg(a, c)>>
           /\ [i \in DOMAIN <<a, b>> |-> Msg(<<a, b>>[i], c)] = <<Msg(a, c), Msg(b, c)>>
           /\ [i \in DOMAIN <<a, b, e, f>> |-> Msg(<<a, b, e, f>>[i], c)]
                 = <<Msg(a, c), Msg(b, c), Msg(e, c), Msg(f, c)>>
  BY DEF Msg

-----------------------------------------------------------------------------
(* The order of the requests.                                              *)

\* Requests of an earlier cycle come first; within a cycle P, B, E, S.
LEMMA Ranks ==
    ASSUME NEW m \in Requests, NEW n \in Requests
    PROVE  /\ Rank(m) \in Nat
           /\ m.cycle < n.cycle => Rank(m) < Rank(n)
           /\ Rank(m) < Rank(n) => m.cycle =< n.cycle
           /\ m.cycle = n.cycle /\ m.type = "P" /\ n.type \in {"B", "E", "S"} => Rank(m) < Rank(n)
           /\ m.cycle = n.cycle /\ m.type = "B" /\ n.type \in {"E", "S"} => Rank(m) < Rank(n)
           /\ m.cycle = n.cycle /\ m.type = "E" /\ n.type = "S" => Rank(m) < Rank(n)
           /\ m.cycle = n.cycle /\ Rank(m) < Rank(n) =>
                 \/ m.type \in {"Q", "P"} /\ n.type \in {"B", "E", "S"}
                 \/ m.type = "B" /\ n.type \in {"E", "S"}
                 \/ m.type = "E" /\ n.type = "S"
<1>1. /\ m.cycle \in Nat /\ n.cycle \in Nat /\ m.type \in RequestTypes /\ n.type \in RequestTypes
  BY DEF Requests
<1>2. /\ Pos["Q"] = 1 /\ Pos["P"] = 1 /\ Pos["B"] = 2 /\ Pos["E"] = 3 /\ Pos["S"] = 4
  BY DEF Pos, RequestTypes
<1>3. Pos[m.type] \in 1 .. 4 /\ Pos[n.type] \in 1 .. 4
  BY <1>1, <1>2 DEF RequestTypes
<1>4. /\ Rank(m) = 5 * m.cycle + Pos[m.type]
      /\ Rank(n) = 5 * n.cycle + Pos[n.type]
  BY DEF Rank
<1>5. /\ Rank(m) \in Nat
      /\ m.cycle < n.cycle => Rank(m) < Rank(n)
      /\ Rank(m) < Rank(n) => m.cycle =< n.cycle
      /\ m.cycle = n.cycle => (Rank(m) < Rank(n) <=> Pos[m.type] < Pos[n.type])
  BY <1>1, <1>3, <1>4
<1> QED
  BY <1>1, <1>2, <1>5 DEF RequestTypes

\* A queue stays in order.
LEMMA InOrder ==
    ASSUME NEW s \in Seq(Requests), Increasing(s)
    PROVE  /\ s # <<>> => /\ Increasing(Tail(s))
                          /\ \A m \in ToSet(Tail(s)) : Rank(Head(s)) < Rank(m)
           /\ \A e \in Requests : (\A m \in ToSet(s) : Rank(m) < Rank(e)) => Increasing(Append(s, e))
<1>1. ASSUME s # <<>>
      PROVE  Increasing(Tail(s)) /\ \A m \in ToSet(Tail(s)) : Rank(Head(s)) < Rank(m)
  <2> DEFINE t == Tail(s)
  <2>1. /\ Head(s) = s[1] /\ t \in Seq(Requests) /\ Len(s) \in Nat \ {0} /\ Len(t) = Len(s) - 1
        /\ \A i \in 1 .. Len(s) - 1 : t[i] = s[i + 1]
    BY <1>1, Got
  <2> HIDE DEF t
  <2>2. \A i, j \in 1 .. Len(s) - 1 : i < j => i + 1 \in 1 .. Len(s) /\ j + 1 \in 1 .. Len(s) /\ i + 1 < j + 1
    BY <2>1
  <2>3. Increasing(t)
    BY <2>1, <2>2 DEF Increasing
  <2>4. ASSUME NEW m \in ToSet(t) PROVE Rank(Head(s)) < Rank(m)
    <3>1. PICK i \in 1 .. Len(s) - 1 : m = t[i]
      BY <2>1, Held
    <3>2. 1 \in 1 .. Len(s) /\ i + 1 \in 1 .. Len(s) /\ 1 < i + 1
      BY <2>1
    <3> QED
      BY <2>1, <3>1, <3>2 DEF Increasing
  <2> QED
    BY <2>3, <2>4 DEF t
<1>2. ASSUME NEW e \in Requests, \A m \in ToSet(s) : Rank(m) < Rank(e) PROVE Increasing(Append(s, e))
  <2> DEFINE t == Append(s, e)
  <2>1. /\ Len(s) \in Nat /\ Len(t) = Len(s) + 1 /\ t[Len(s) + 1] = e
        /\ \A i \in 1 .. Len(s) : t[i] = s[i]
    BY Put
  <2> HIDE DEF t
  <2>2. \A i \in 1 .. Len(s) : Rank(s[i]) < Rank(e)
    BY <1>2, Held
  <2>3. ASSUME NEW i \in 1 .. Len(t), NEW j \in 1 .. Len(t), i < j PROVE Rank(t[i]) < Rank(t[j])
    <3>1. i \in 1 .. Len(s) /\ (j \in 1 .. Len(s) \/ j = Len(s) + 1)
      BY <2>1, <2>3
    <3> QED
      BY <2>1, <2>2, <2>3, <3>1 DEF Increasing
  <2>4. Increasing(t)
    BY <2>3 DEF Increasing
  <2> QED
    BY <2>4 DEF t
<1> QED
  BY <1>1, <1>2
-----------------------------------------------------------------------------
(* What the steps do to the queues.                                        *)

\* A message is what it is made of.
LEMMA Message ==
    ASSUME NEW t, NEW c
    PROVE  /\ Msg(t, c).type = t /\ Msg(t, c).cycle = c
           /\ t \in RequestTypes /\ c \in Nat => Msg(t, c) \in Requests
           /\ t \in {"error", "result", "ready"} /\ c \in Nat => Msg(t, c) \in Replies
           /\ \A m \in Requests : m.type = t /\ m.cycle = c => m = Msg(t, c)
  BY DEF Msg, Requests, Replies

\* The requests of a cycle.
TypesOf(extended) == IF extended THEN {"P", "B", "E", "S"} ELSE {"Q"}
RequestsOf(extended, c) == {Msg(t, c) : t \in TypesOf(extended)}

\* A cycle is started behind all others, with all its requests.
LEMMA CycleStarted ==
    ASSUME TypeInv, NEW text \in Texts, NEW extended \in BOOLEAN, StartCycle(text, extended),
           NEW c, c = Len(cycles) + 1
    PROVE  /\ c \in Nat /\ Len(cycles) \in Nat /\ Len(cycles') = c
           /\ cycles' \in Seq([text : Texts, extended : BOOLEAN])
           /\ DOMAIN cycles = 1 .. Len(cycles) /\ DOMAIN cycles' = DOMAIN cycles \cup {c} /\ c \notin DOMAIN cycles
           /\ \A d \in DOMAIN cycles : cycles'[d] = cycles[d] /\ d < c /\ d \in Nat
           /\ cycles'[c].text = text /\ cycles'[c].extended = extended
           /\ extended => fromClient' = Append(Append(Append(Append(fromClient,
                              Msg("P", c)), Msg("B", c)), Msg("E", c)), Msg("S", c))
           /\ ~extended => fromClient' = Append(fromClient, Msg("Q", c))
<1> DEFINE cycle == [text |-> text, extended |-> extended]
<1>1. cycle \in [text : Texts, extended : BOOLEAN] /\ cycle.text = text /\ cycle.extended = extended
  OBVIOUS
<1>2. cycles \in Seq([text : Texts, extended : BOOLEAN]) /\ cycles' = Append(cycles, cycle)
  BY DEF TypeInv, StartCycle
<1> HIDE DEF cycle
<1>3. /\ cycles' \in Seq([text : Texts, extended : BOOLEAN])
      /\ Len(cycles) \in Nat /\ Len(cycles') = Len(cycles) + 1
      /\ cycles'[Len(cycles) + 1] = cycle
      /\ \A i \in 1 .. Len(cycles) : cycles'[i] = cycles[i]
      /\ 1 .. Len(cycles) + 1 = 1 .. Len(cycles) \cup {Len(cycles) + 1}
  BY <1>1, <1>2, Put
<1>4. DOMAIN cycles = 1 .. Len(cycles) /\ DOMAIN cycles' = 1 .. Len(cycles')
  BY <1>2, <1>3
<1>5. fromClient \in Seq(Requests) /\ c \in Nat
  BY <1>3 DEF TypeInv
<1>6. /\ Msg("P", c) \in Requests /\ Msg("B", c) \in Requests /\ Msg("E", c) \in Requests
      /\ Msg("S", c) \in Requests /\ Msg("Q", c) \in Requests
  BY <1>5, Message DEF RequestTypes
<1>7. ASSUME extended
      PROVE  fromClient' = Append(Append(Append(Append(fromClient,
                              Msg("P", c)), Msg("B", c)), Msg("E", c)), Msg("S", c))
  <2>1. fromClient' = fromClient \o [i \in DOMAIN <<"P", "B", "E", "S">> |-> Msg(<<"P", "B", "E", "S">>[i], c)]
    BY <1>7 DEF StartCycle
  <2>2. fromClient' = fromClient \o <<Msg("P", c), Msg("B", c), Msg("E", c), Msg("S", c)>>
    BY <2>1, Listed
  <2> QED
    BY <1>5, <1>6, <2>2, PutAll
<1>8. ASSUME ~extended PROVE fromClient' = Append(fromClient, Msg("Q", c))
  <2>1. fromClient' = fromClient \o [i \in DOMAIN <<"Q">> |-> Msg(<<"Q">>[i], c)]
    BY <1>8 DEF StartCycle
  <2>2. fromClient' = fromClient \o <<Msg("Q", c)>>
    BY <2>1, Listed
  <2> QED
    BY <1>5, <1>6, <2>2, PutAll
<1>9. /\ Len(cycles') = c /\ DOMAIN cycles' = DOMAIN cycles \cup {c} /\ c \notin DOMAIN cycles
      /\ \A d \in DOMAIN cycles : d < c /\ d \in Nat
  BY <1>3, <1>4
<1>10. /\ \A d \in DOMAIN cycles : cycles'[d] = cycles[d]
       /\ cycles'[c] = cycle
  BY <1>3, <1>4, Zenon
<1>11. cycles'[c].text = text /\ cycles'[c].extended = extended
  BY <1>1, <1>10, Zenon
<1> QED
  BY <1>3, <1>4, <1>5, <1>7, <1>8, <1>9, <1>10, <1>11, Zenon

\* Its requests join those under way, in order and behind them.
LEMMA RequestsJoin ==
    ASSUME TypeInv, OrderInv, NEW text \in Texts, NEW extended \in BOOLEAN, StartCycle(text, extended),
           NEW c, c = Len(cycles) + 1
    PROVE  /\ fromClient' \in Seq(Requests) /\ Increasing(fromClient')
           /\ ToSet(fromClient') = ToSet(fromClient) \cup RequestsOf(extended, c)
           /\ \A m \in Pending : m \in Requests /\ m.cycle < c
<1>1. /\ c \in Nat /\ \A d \in DOMAIN cycles : d < c /\ d \in Nat
      /\ extended => fromClient' = Append(Append(Append(Append(fromClient,
                         Msg("P", c)), Msg("B", c)), Msg("E", c)), Msg("S", c))
      /\ ~extended => fromClient' = Append(fromClient, Msg("Q", c))
  BY CycleStarted
<1>2. /\ Msg("P", c) \in Requests /\ Msg("B", c) \in Requests /\ Msg("E", c) \in Requests
      /\ Msg("S", c) \in Requests /\ Msg("Q", c) \in Requests
  BY <1>1, Message DEF RequestTypes
<1>3. fromClient \in Seq(Requests) /\ Increasing(fromClient)
  BY DEF TypeInv, OrderInv
<1>4. \A m \in Pending : m \in Requests /\ m.cycle < c
  BY <1>1 DEF OrderInv, Made
<1>5. \A m \in ToSet(fromClient), t \in RequestTypes : Rank(m) < Rank(Msg(t, c))
  <2> SUFFICES ASSUME NEW m \in ToSet(fromClient), NEW t \in RequestTypes PROVE Rank(m) < Rank(Msg(t, c))
    OBVIOUS
  <2>1. m \in Requests /\ m.cycle < c
    BY <1>4 DEF Pending
  <2>2. Msg(t, c) \in Requests /\ Msg(t, c).cycle = c
    BY <1>1, Message
  <2> QED
    BY <2>1, <2>2, Ranks
<1>6. /\ Rank(Msg("P", c)) < Rank(Msg("B", c)) /\ Rank(Msg("P", c)) < Rank(Msg("E", c))
      /\ Rank(Msg("P", c)) < Rank(Msg("S", c)) /\ Rank(Msg("B", c)) < Rank(Msg("E", c))
      /\ Rank(Msg("B", c)) < Rank(Msg("S", c)) /\ Rank(Msg("E", c)) < Rank(Msg("S", c))
  BY <1>2, Message, Ranks
<1>7. CASE extended
  <2> DEFINE s1 == Append(fromClient, Msg("P", c))
             s2 == Append(s1, Msg("B", c))
             s3 == Append(s2, Msg("E", c))
             s4 == Append(s3, Msg("S", c))
  <2>0. fromClient' = s4
    BY <1>1, <1>7
  <2> HIDE DEF s4
  <2>1. s1 \in Seq(Requests) /\ ToSet(s1) = ToSet(fromClient) \cup {Msg("P", c)} /\ Increasing(s1)
    BY <1>2, <1>3, <1>5, Put, InOrder DEF RequestTypes
  <2> HIDE DEF s1
  <2>2. s2 \in Seq(Requests) /\ ToSet(s2) = ToSet(s1) \cup {Msg("B", c)}
    BY <1>2, <2>1, Put
  <2>3. \A m \in ToSet(s1) : Rank(m) < Rank(Msg("B", c))
    BY <1>5, <1>6, <2>1 DEF RequestTypes
  <2>4. Increasing(s2)
    BY <1>2, <2>1, <2>3, InOrder
  <2> HIDE DEF s2
  <2>5. s3 \in Seq(Requests) /\ ToSet(s3) = ToSet(s2) \cup {Msg("E", c)}
    BY <1>2, <2>2, Put
  <2>6. \A m \in ToSet(s2) : Rank(m) < Rank(Msg("E", c))
    BY <1>5, <1>6, <2>1, <2>2 DEF RequestTypes
  <2>7. Increasing(s3)
    BY <1>2, <2>2, <2>4, <2>6, InOrder
  <2> HIDE DEF s3
  <2>8. s4 \in Seq(Requests) /\ ToSet(s4) = ToSet(s3) \cup {Msg("S", c)}
    BY <1>2, <2>5, Put DEF s4
  <2>9. \A m \in ToSet(s3) : Rank(m) < Rank(Msg("S", c))
    BY <1>5, <1>6, <2>1, <2>2, <2>5 DEF RequestTypes
  <2>10. Increasing(s4)
    BY <1>2, <2>5, <2>7, <2>9, InOrder DEF s4
  <2>11. ToSet(s4) = ToSet(fromClient) \cup {Msg(t, c) : t \in {"P", "B", "E", "S"}}
    BY <2>1, <2>2, <2>5, <2>8
  <2> QED
    BY <1>4, <1>7, <2>0, <2>8, <2>10, <2>11 DEF TypesOf, RequestsOf
<1>8. CASE ~extended
  <2>1. fromClient' = Append(fromClient, Msg("Q", c))
    BY <1>1, <1>8
  <2>2. fromClient' \in Seq(Requests) /\ ToSet(fromClient') = ToSet(fromClient) \cup {Msg("Q", c)}
    BY <1>2, <1>3, <2>1, Put
  <2>3. \A m \in ToSet(fromClient) : Rank(m) < Rank(Msg("Q", c))
    BY <1>5, Zenon DEF RequestTypes
  <2>4. Increasing(fromClient')
    BY <1>2, <1>3, <2>1, <2>3, InOrder
  <2>5. ToSet(fromClient') = ToSet(fromClient) \cup {Msg(t, c) : t \in {"Q"}}
    BY <2>2
  <2> QED
    BY <1>4, <1>8, <2>2, <2>4, <2>5 DEF TypesOf, RequestsOf
<1> QED
  BY <1>7, <1>8

\* One reply, or two.
LEMMA Replied ==
    ASSUME TypeInv, NEW c \in Nat, NEW a \in {"error", "result", "ready"}
    PROVE  /\ Answer(<<a>>, c) => fromPg' = Append(fromPg, Msg(a, c)) /\ fromPg' \in Seq(Replies)
           /\ Answer(<<a, "ready">>, c) =>
                 /\ fromPg' = Append(Append(fromPg, Msg(a, c)), Msg("ready", c))
                 /\ fromPg' \in Seq(Replies)
<1>1. fromPg \in Seq(Replies) /\ Msg(a, c) \in Replies /\ Msg("ready", c) \in Replies
  BY Message DEF TypeInv
<1>2. ASSUME Answer(<<a>>, c) PROVE fromPg' = Append(fromPg, Msg(a, c))
  <2>1. fromPg' = fromPg \o <<Msg(a, c)>>
    BY <1>2, Listed DEF Answer
  <2> QED
    BY <1>1, <2>1, PutAll
<1>3. ASSUME Answer(<<a, "ready">>, c) PROVE fromPg' = Append(Append(fromPg, Msg(a, c)), Msg("ready", c))
  <2>1. fromPg' = fromPg \o [i \in DOMAIN <<a, "ready">> |-> Msg(<<a, "ready">>[i], c)]
    BY <1>3 DEF Answer
  <2>2. [i \in DOMAIN <<a, "ready">> |-> Msg(<<a, "ready">>[i], c)] = <<Msg(a, c), Msg("ready", c)>>
    BY Listed
  <2>3. fromPg' = fromPg \o <<Msg(a, c), Msg("ready", c)>>
    BY <2>1, <2>2, Zenon
  <2> QED
    BY <1>1, <2>3, PutAll
<1>4. Append(fromPg, Msg(a, c)) \in Seq(Replies)
  BY <1>1, Put
<1>5. Append(Append(fromPg, Msg(a, c)), Msg("ready", c)) \in Seq(Replies)
  BY <1>1, <1>4, Put
<1> QED
  BY <1>2, <1>3, <1>4, <1>5

\* A refusal is an error and a ReadyForQuery.
LEMMA RefusalSent ==
    ASSUME TypeInv, NEW m \in Requests
    PROVE  /\ toClient \o Refusal(m) = Append(Append(toClient, Msg("error", m.cycle)), Msg("ready", m.cycle))
           /\ Append(toClient, Msg("error", m.cycle)) \in Seq(Replies)
           /\ toClient \o Refusal(m) \in Seq(Replies)
<1>1. m.cycle \in Nat
  BY DEF Requests
<1>2. toClient \in Seq(Replies) /\ Msg("error", m.cycle) \in Replies /\ Msg("ready", m.cycle) \in Replies
  BY <1>1, Message DEF TypeInv
<1>3. toClient \o Refusal(m) = Append(Append(toClient, Msg("error", m.cycle)), Msg("ready", m.cycle))
  BY <1>2, PutAll DEF Refusal
<1>4. Append(toClient, Msg("error", m.cycle)) \in Seq(Replies)
  BY <1>2, Put
<1> QED
  BY <1>2, <1>3, <1>4, Put
-----------------------------------------------------------------------------
(* What the steps do to the requests under way.                            *)

\* What a request is depends on the cycles alone.
LEMMA SameCycles ==
    ASSUME cycles' = cycles
    PROVE  /\ \A m : (Made(m)' <=> Made(m)) /\ (Refuses(m)' <=> Refuses(m))
           /\ RefusedParses' = RefusedParses
  BY DEF Made, Refuses, RefusedParses

\* PostgreSQL takes the first of all the requests under way.
LEMMA Taken ==
    ASSUME TypeInv, OrderInv, NEW m \in ToSet(toPg), Take(m)
    PROVE  /\ m \in Requests /\ m \in Pending /\ Made(m) /\ ~Refuses(m)
           /\ Pending' = Pending \ {m}
           /\ \A n \in Pending' : n \in Requests /\ Rank(m) < Rank(n) /\ m.cycle =< n.cycle
           /\ cycles' = cycles /\ toPg' \in Seq(Requests) /\ fromClient' = fromClient
           /\ OrderInv'
<1>1. /\ toPg \in Seq(Requests) /\ fromClient \in Seq(Requests) /\ toPg # <<>>
      /\ m = Head(toPg) /\ toPg' = Tail(toPg) /\ cycles' = cycles /\ fromClient' = fromClient
  BY DEF TypeInv, Take, client
<1>2. /\ m \in Requests /\ toPg' \in Seq(Requests) /\ ToSet(toPg) = ToSet(toPg') \cup {m}
      /\ ToSet(fromClient) \subseteq Requests /\ ToSet(toPg) \subseteq Requests
  BY <1>1, Got, Held
<1>3. Increasing(toPg') /\ \A n \in ToSet(toPg') : Rank(m) < Rank(n)
  BY <1>1, InOrder DEF OrderInv
<1>4. \A n \in ToSet(fromClient) : Rank(m) < Rank(n)
  BY DEF OrderInv
<1>5. /\ Pending = ToSet(toPg) \cup ToSet(fromClient)
      /\ Pending' = ToSet(toPg') \cup ToSet(fromClient)
      /\ Pending \subseteq Requests
  BY <1>1, <1>2 DEF Pending
<1>6. ~(Rank(m) < Rank(m))
  BY <1>2, Ranks
<1>7. \A n \in Pending' : n \in Requests /\ Rank(m) < Rank(n)
  BY <1>2, <1>3, <1>4, <1>5
<1>8. Pending' = Pending \ {m}
  BY <1>2, <1>5, <1>6, <1>7
<1>9. \A n \in Pending' : m.cycle =< n.cycle
  BY <1>2, <1>7, Ranks
<1>10. m \in Pending /\ Made(m) /\ ~Refuses(m)
  BY <1>5 DEF OrderInv
<1>11. OrderInv'
  <2>1. \A n \in Pending' : Made(n)'
    BY <1>1, <1>8, SameCycles DEF OrderInv
  <2>2. \A n \in ToSet(toPg') : ~Refuses(n)'
    BY <1>1, <1>2, SameCycles DEF OrderInv
  <2>3. Increasing(toPg') /\ Increasing(fromClient')
    BY <1>1, <1>3 DEF OrderInv
  <2>4. \A k \in ToSet(toPg'), n \in ToSet(fromClient') : Rank(k) < Rank(n)
    BY <1>1, <1>2 DEF OrderInv
  <2>5. ASSUME NEW k \in Pending', NEW n \in [type : RequestTypes, cycle : DOMAIN cycles'],
               Made(n)', Rank(k) < Rank(n), ~Refuses(n)'
        PROVE  n \in Pending'
    <3>1. n \in Pending
      BY <1>1, <1>8, <2>5, SameCycles DEF OrderInv
    <3>2. n # m
      <4>1. k \in Requests /\ Rank(m) < Rank(k) /\ Rank(m) \in Nat /\ Rank(k) \in Nat
        BY <1>2, <1>7, <2>5, Ranks
      <4> QED
        BY <2>5, <4>1
    <3> QED
      BY <1>8, <3>1, <3>2
  <2> QED
    BY <2>1, <2>2, <2>3, <2>4, <2>5 DEF OrderInv, Increasing, Rank
<1> QED
  BY <1>1, <1>2, <1>7, <1>8, <1>9, <1>10, <1>11

\* Guardian looks at a request: under way it stays, unless it is refused.
LEMMA Filtered ==
    ASSUME TypeInv, OrderInv, Filter, NEW m, m = Head(fromClient)
    PROVE  /\ m \in Requests /\ m \in ToSet(fromClient) /\ Made(m)
           /\ Pending' = IF Refuses(m) THEN Pending \ {m} ELSE Pending
           /\ ToSet(fromClient') = ToSet(fromClient) \ {m}
           /\ cycles' = cycles /\ toPg' \in Seq(Requests) /\ fromClient' \in Seq(Requests)
           /\ OrderInv'
<1>1. /\ toPg \in Seq(Requests) /\ fromClient \in Seq(Requests) /\ fromClient # <<>>
      /\ fromClient' = Tail(fromClient) /\ cycles' = cycles
      /\ toPg' = IF Refuses(m) THEN toPg ELSE Append(toPg, m)
  BY DEF TypeInv, Filter, FilterThen, client
<1>2. /\ m \in Requests /\ fromClient' \in Seq(Requests)
      /\ ToSet(fromClient) = ToSet(fromClient') \cup {m}
      /\ ToSet(fromClient) \subseteq Requests /\ ToSet(toPg) \subseteq Requests
  BY <1>1, Got, Held
<1>3. Increasing(fromClient') /\ \A n \in ToSet(fromClient') : Rank(m) < Rank(n)
  BY <1>1, InOrder DEF OrderInv
<1>4. ~(Rank(m) < Rank(m))
  BY <1>2, Ranks
<1>5. ToSet(fromClient') = ToSet(fromClient) \ {m}
  BY <1>2, <1>3, <1>4
<1>6. \A n \in ToSet(toPg) : Rank(n) < Rank(m)
  BY <1>2 DEF OrderInv
<1>7. Made(m) /\ m \in Pending
  BY <1>2 DEF OrderInv, Pending
<1>8. /\ Refuses(m) => toPg' = toPg
      /\ ~Refuses(m) => toPg' = Append(toPg, m)
  BY <1>1
<1>9. ASSUME ~Refuses(m)
      PROVE  toPg' \in Seq(Requests) /\ ToSet(toPg') = ToSet(toPg) \cup {m} /\ Increasing(toPg')
  BY <1>1, <1>2, <1>6, <1>8, <1>9, Put, InOrder DEF OrderInv
<1>10. toPg' \in Seq(Requests) /\ Increasing(toPg') /\ ToSet(toPg') \subseteq ToSet(toPg) \cup {m}
  BY <1>1, <1>8, <1>9 DEF OrderInv
<1>11. Pending' = IF Refuses(m) THEN Pending \ {m} ELSE Pending
  <2>1. /\ Pending = ToSet(toPg) \cup ToSet(fromClient)
        /\ Pending' = ToSet(toPg') \cup ToSet(fromClient')
    BY DEF Pending
  <2>2. CASE Refuses(m)
    <3>1. m \notin ToSet(toPg)
      BY <1>4, <1>6
    <3> QED
      BY <1>5, <1>8, <2>1, <2>2, <3>1
  <2>3. CASE ~Refuses(m)
    BY <1>2, <1>5, <1>9, <2>1, <2>3
  <2> QED
    BY <2>2, <2>3
<1>12. OrderInv'
  <2>1. \A n \in Pending' : Made(n)'
    BY <1>1, <1>11, SameCycles DEF OrderInv
  <2>2. \A n \in ToSet(toPg') : ~Refuses(n)'
    <3>1. CASE Refuses(m)
      BY <1>1, <1>8, <3>1, SameCycles DEF OrderInv
    <3>2. CASE ~Refuses(m)
      BY <1>1, <1>9, <3>2, SameCycles DEF OrderInv
    <3> QED
      BY <3>1, <3>2
  <2>3. \A k \in ToSet(toPg'), n \in ToSet(fromClient') : Rank(k) < Rank(n)
    BY <1>2, <1>3, <1>10 DEF OrderInv
  <2>4. ASSUME NEW k \in Pending', NEW n \in [type : RequestTypes, cycle : DOMAIN cycles'],
               Made(n)', Rank(k) < Rank(n), ~Refuses(n)'
        PROVE  n \in Pending'
    <3>1. n \in Pending /\ ~Refuses(n)
      BY <1>1, <1>11, <2>4, SameCycles DEF OrderInv
    <3> QED
      BY <1>11, <3>1
  <2> QED
    BY <1>3, <1>10, <2>1, <2>2, <2>3, <2>4 DEF OrderInv, Increasing, Rank
<1> QED
  BY <1>1, <1>2, <1>5, <1>7, <1>10, <1>11, <1>12
\* A cycle is started: its requests are under way behind all others.
LEMMA Started ==
    ASSUME TypeInv, OrderInv, NEW text \in Texts, NEW extended \in BOOLEAN, StartCycle(text, extended),
           NEW c, c = Len(cycles) + 1
    PROVE  /\ c \in Nat /\ DOMAIN cycles' = DOMAIN cycles \cup {c} /\ c \notin DOMAIN cycles
           /\ \A d \in DOMAIN cycles : cycles'[d] = cycles[d] /\ d < c /\ d \in Nat
           /\ cycles'[c].text = text /\ cycles'[c].extended = extended
           /\ Pending' = Pending \cup RequestsOf(extended, c)
           /\ \A m \in Pending : m \in Requests /\ m.cycle < c /\ m.cycle \in DOMAIN cycles
           /\ OrderInv'
<1>1. /\ c \in Nat /\ DOMAIN cycles' = DOMAIN cycles \cup {c} /\ c \notin DOMAIN cycles
      /\ \A d \in DOMAIN cycles : cycles'[d] = cycles[d] /\ d < c /\ d \in Nat
      /\ cycles'[c].text = text /\ cycles'[c].extended = extended
  BY CycleStarted
<1>2. /\ fromClient' \in Seq(Requests) /\ Increasing(fromClient')
      /\ ToSet(fromClient') = ToSet(fromClient) \cup RequestsOf(extended, c)
      /\ \A m \in Pending : m \in Requests /\ m.cycle < c
  BY RequestsJoin
<1>3. toPg' = toPg
  BY DEF StartCycle
<1> DEFINE new == {Msg(t, c) : t \in TypesOf(extended)}
<1>4. Pending' = Pending \cup new
  BY <1>2, <1>3 DEF Pending, RequestsOf
<1>5. \A m \in new : m \in Requests /\ m.cycle = c /\ m.type \in TypesOf(extended)
  <2> SUFFICES ASSUME NEW t \in TypesOf(extended)
               PROVE  Msg(t, c) \in Requests /\ Msg(t, c).cycle = c /\ Msg(t, c).type \in TypesOf(extended)
    OBVIOUS
  <2>1. t \in RequestTypes
    BY DEF TypesOf, RequestTypes
  <2> QED
    BY <1>1, <2>1, Message
<1>6. \A m \in Requests : m.cycle = c /\ m.type \in TypesOf(extended) => m \in new
  BY Message
<1> HIDE DEF new
<1>7. \A m \in Pending : m.cycle \in DOMAIN cycles
  BY DEF OrderInv, Made
<1>8. \A m \in Requests : m.cycle \in DOMAIN cycles =>
         (Made(m)' <=> Made(m)) /\ (Refuses(m)' <=> Refuses(m))
  BY <1>1 DEF Made, Refuses
<1>9. \A m \in Requests : m.cycle = c => (Made(m)' <=> m.type \in TypesOf(extended))
  BY <1>1 DEF Made, TypesOf
<1>10. OrderInv'
  <2>1. \A m \in Pending' : Made(m)'
    BY <1>2, <1>4, <1>5, <1>7, <1>8, <1>9 DEF OrderInv
  <2>2. \A m \in ToSet(toPg') : ~Refuses(m)'
    BY <1>2, <1>3, <1>7, <1>8 DEF OrderInv, Pending
  <2>3. Increasing(toPg') /\ Increasing(fromClient')
    BY <1>2, <1>3 DEF OrderInv
  <2>4. ASSUME NEW m \in ToSet(toPg'), NEW n \in ToSet(fromClient') PROVE Rank(m) < Rank(n)
    <3>1. m \in Pending /\ m \in ToSet(toPg) /\ m \in Requests /\ m.cycle < c
      BY <1>2, <1>3, <2>4 DEF Pending
    <3>2. CASE n \in ToSet(fromClient)
      BY <3>1, <3>2 DEF OrderInv
    <3>3. CASE n \in new
      BY <1>5, <3>1, <3>3, Ranks
    <3> QED
      BY <1>2, <2>4, <3>2, <3>3 DEF new, RequestsOf
  <2>5. ASSUME NEW m \in Pending', NEW n \in [type : RequestTypes, cycle : DOMAIN cycles'],
               Made(n)', Rank(m) < Rank(n), ~Refuses(n)'
        PROVE  n \in Pending'
    <3>1. n \in Requests /\ m \in Requests
      BY <1>1, <1>2, <1>4, <1>5, <2>5 DEF Requests
    <3>2. CASE n.cycle = c
      BY <1>4, <1>6, <1>9, <2>5, <3>1, <3>2
    <3>3. CASE n.cycle \in DOMAIN cycles
      <4>1. m \in Pending
        <5>1. m.cycle =< n.cycle /\ n.cycle < c /\ n.cycle \in Nat /\ m.cycle \in Nat
          BY <1>1, <2>5, <3>1, <3>3, Ranks DEF Requests
        <5> QED
          BY <1>1, <1>4, <1>5, <2>5, <5>1
      <4>2. Made(n) /\ ~Refuses(n)
        BY <1>8, <2>5, <3>1, <3>3
      <4>3. n \in [type : RequestTypes, cycle : DOMAIN cycles]
        BY <3>1, <3>3 DEF Requests
      <4> QED
        BY <1>4, <2>5, <4>1, <4>2, <4>3 DEF OrderInv
    <3> QED
      BY <1>1, <2>5, <3>2, <3>3
  <2> QED
    BY <2>1, <2>2, <2>3, <2>4, <2>5 DEF OrderInv, Increasing, Rank
<1> QED
  BY <1>1, <1>2, <1>4, <1>7, <1>10 DEF new, RequestsOf

\* A request behind the one PostgreSQL takes is under way, unless it was refused.
LEMMA Behind ==
    ASSUME TypeInv, OrderInv, NEW m \in ToSet(toPg), Take(m),
           NEW n \in Requests, Made(n), Rank(m) < Rank(n), ~Refuses(n)
    PROVE  n \in Pending'
<1>1. m \in Requests /\ m \in Pending /\ Pending' = Pending \ {m}
  BY Taken
<1>2. n \in [type : RequestTypes, cycle : DOMAIN cycles]
  BY DEF Made, Requests
<1>3. n \in Pending
  BY <1>1, <1>2 DEF OrderInv
<1>4. n # m
  BY <1>1, Ranks
<1> QED
  BY <1>1, <1>3, <1>4

\* A Bind is at the head of its cycle when its Parse was taken just now or was
\* refused, and an Execute when its Bind was taken just now.
LEMMA Opened ==
    ASSUME TypeInv, OrderInv, NEW m \in ToSet(toPg), Take(m), NEW c \in DOMAIN cycles
    PROVE  /\ Msg("B", c) \in Pending' /\ Msg("P", c) \notin Pending' => m = Msg("P", c) \/ c \in RefusedParses
           /\ Msg("E", c) \in Pending' /\ Msg("B", c) \notin Pending' => m = Msg("B", c)
<1>1. /\ m \in Requests /\ m \in Pending /\ Made(m) /\ Pending' = Pending \ {m}
      /\ \A n \in Pending' : n \in Requests /\ Rank(m) < Rank(n) /\ m.cycle =< n.cycle
  BY Taken
<1>2. c \in Nat /\ m.cycle \in Nat
  BY <1>1 DEF TypeInv, Requests
<1>3. /\ Msg("P", c) \in Requests /\ Msg("P", c).type = "P" /\ Msg("P", c).cycle = c
      /\ Msg("B", c) \in Requests /\ Msg("B", c).type = "B" /\ Msg("B", c).cycle = c
      /\ Msg("E", c) \in Requests /\ Msg("E", c).type = "E" /\ Msg("E", c).cycle = c
  BY <1>2, Message DEF RequestTypes
<1>4. ASSUME NEW t \in {"B", "E"}, Msg(t, c) \in Pending'
      PROVE  /\ cycles[c].extended /\ Made(Msg("P", c)) /\ Made(Msg("B", c))
             /\ m.cycle = c => m.type \in {"P", "B", "E", "S"}
  <2>1. Made(Msg(t, c))
    BY <1>1, <1>4 DEF OrderInv
  <2>2. cycles[c].extended
    BY <1>3, <2>1 DEF Made
  <2> QED
    BY <1>1, <1>3, <2>2 DEF Made
<1>5. ASSUME Msg("B", c) \in Pending', Msg("P", c) \notin Pending'
      PROVE  m = Msg("P", c) \/ c \in RefusedParses
  <2>1. /\ cycles[c].extended /\ Made(Msg("P", c)) /\ Rank(m) < Rank(Msg("B", c)) /\ m.cycle =< c
        /\ m.cycle = c => m.type \in {"P", "B", "E", "S"}
    BY <1>1, <1>3, <1>4, <1>5
  <2>2. CASE m.cycle = c
    <3>1. m.type = "P"
      BY <1>1, <1>3, <2>1, <2>2, Ranks
    <3> QED
      BY <1>1, <2>2, <3>1, Message
  <2>3. CASE m.cycle < c
    <3>1. Rank(m) < Rank(Msg("P", c))
      BY <1>1, <1>3, <2>3, Ranks
    <3>2. Refuses(Msg("P", c))
      BY <1>3, <1>5, <2>1, <3>1, Behind
    <3> QED
      BY <1>3, <2>1, <3>2 DEF Refuses, RefusedParses
  <2> QED
    BY <1>2, <2>1, <2>2, <2>3
<1>6. ASSUME Msg("E", c) \in Pending', Msg("B", c) \notin Pending'
      PROVE  m = Msg("B", c)
  <2>1. /\ Made(Msg("B", c)) /\ Rank(m) < Rank(Msg("E", c)) /\ m.cycle =< c
        /\ m.cycle = c => m.type \in {"P", "B", "E", "S"}
    BY <1>1, <1>3, <1>4, <1>6
  <2>2. ~(Rank(m) < Rank(Msg("B", c)))
    <3>1. ~Refuses(Msg("B", c))
      BY <1>3 DEF Refuses
    <3> QED
      BY <1>3, <1>6, <2>1, <3>1, Behind
  <2>3. m.cycle = c
    BY <1>1, <1>2, <1>3, <2>1, <2>2, Ranks
  <2>4. m.type = "B"
    BY <1>1, <1>3, <2>1, <2>2, <2>3, Ranks
  <2> QED
    BY <1>1, <2>3, <2>4, Message
<1> QED
  BY <1>5, <1>6
-----------------------------------------------------------------------------
(* The invariant is inductive.                                             *)

LEMMA InitInv == Init => IInv
<1> SUFFICES ASSUME Init PROVE IInv
  OBVIOUS
<1>1. /\ cycles = <<>> /\ toPg = <<>> /\ fromClient = <<>> /\ ran = <<>> /\ Len(<<>>) = 0 /\ DOMAIN <<>> = {}
  BY DEF Init
<1>2. ToSet(toPg) = {} /\ ToSet(fromClient) = {} /\ Pending = {}
  BY <1>1 DEF ToSet, Pending
<1>3. TypeInv
  <2>1. patient \in BOOLEAN /\ strayed \in BOOLEAN /\ skip \in BOOLEAN
    BY Zenon DEF Init
  <2>2. /\ cycles \in Seq([text : Texts, extended : BOOLEAN]) /\ ready \in Nat
        /\ fromClient \in Seq(Requests) /\ toPg \in Seq(Requests)
        /\ fromPg \in Seq(Replies) /\ toClient \in Seq(Replies)
        /\ stmt \in Texts \cup {NoText} /\ portal \in Texts \cup {NoText}
        /\ tx \in {"idle", "block", "failed"}
        /\ ran \in Seq([text : Texts \cup {NoText}, cycle : Nat])
    BY DEF Init
  <2> QED
    BY <2>1, <2>2 DEF TypeInv
<1>4. OrderInv
  BY <1>1, <1>2 DEF OrderInv, Increasing
<1>5. PreparedInv
  BY <1>1 DEF PreparedInv, Init
<1>6. SkipInv
  BY DEF SkipInv, Init
<1>7. RanInv
  BY <1>1 DEF RanInv, RunsWhatPassed
<1> QED
  BY <1>3, <1>4, <1>5, <1>6, <1>7 DEF IInv

\* What one more run leaves of what was run.
LEMMA RunTyped ==
    ASSUME TypeInv, NEW text \in Texts \cup {NoText}, NEW c \in Nat, RunText(text, c)
    PROVE  /\ tx' \in {"idle", "block", "failed"}
           /\ ran' \in Seq([text : Texts \cup {NoText}, cycle : Nat])
<1>1. tx' \in {"idle", "block", "failed"}
  BY DEF TypeInv, RunText, TxAfter
<1>2. [text |-> text, cycle |-> c] \in [text : Texts \cup {NoText}, cycle : Nat]
  OBVIOUS
<1>3. ran \in Seq([text : Texts \cup {NoText}, cycle : Nat])
  BY DEF TypeInv
<1>4. ran' = ran \/ ran' = Append(ran, [text |-> text, cycle |-> c])
  BY DEF RunText
<1>5. Append(ran, [text |-> text, cycle |-> c]) \in Seq([text : Texts \cup {NoText}, cycle : Nat])
  BY <1>2, <1>3, Put
<1> QED
  BY <1>1, <1>3, <1>4, <1>5

\* The types of PostgreSQL's side after one of its steps.
LEMMA PostgresTyped ==
    ASSUME TypeInv, OrderInv, NEW m \in ToSet(toPg),
           \/ Discard(m) \/ ExecQuery(m) \/ ExecParse(m) \/ ExecBind(m) \/ ExecExecute(m) \/ ExecSync(m)
    PROVE  TypeInv'
<1>0. Take(m)
  BY DEF Discard, ExecQuery, ExecParse, ExecBind, ExecExecute, ExecSync
<1>1. /\ m \in Requests /\ m.cycle \in Nat /\ m.cycle \in DOMAIN cycles /\ toPg' \in Seq(Requests)
  BY <1>0, Taken DEF Requests, Made
<1>2. /\ patient' = patient /\ strayed' = strayed /\ cycles' = cycles /\ ready' = ready
      /\ fromClient' = fromClient /\ toClient' = toClient
  BY <1>0 DEF Take, client
<1>3. cycles[m.cycle].text \in Texts
  <2>1. cycles \in Seq([text : Texts, extended : BOOLEAN])
    BY DEF TypeInv
  <2>2. cycles[m.cycle] \in [text : Texts, extended : BOOLEAN]
    BY <1>1, <2>1, Element
  <2> QED
    BY <2>2
<1>4. patient \in BOOLEAN /\ strayed \in BOOLEAN /\ skip \in BOOLEAN
  BY Zenon DEF TypeInv
<1>5. fromPg' \in Seq(Replies)
  <2>1. CASE Discard(m)
    BY <2>1 DEF Discard, TypeInv
  <2>2. CASE ExecQuery(m)
    <3>1. PICK a \in {"error", "result"} : Answer(<<a, "ready">>, m.cycle)
      BY <2>2 DEF ExecQuery
    <3> QED
      BY <1>1, <3>1, Replied
  <2>3. CASE ExecParse(m)
    <3>1. Answer(<<"error">>, m.cycle) \/ fromPg' = fromPg
      BY <2>3 DEF ExecParse
    <3> QED
      BY <1>1, <3>1, Replied DEF TypeInv
  <2>4. CASE ExecBind(m)
    <3>1. Answer(<<"error">>, m.cycle) \/ fromPg' = fromPg
      BY <2>4 DEF ExecBind
    <3> QED
      BY <1>1, <3>1, Replied DEF TypeInv
  <2>5. CASE ExecExecute(m)
    <3>1. PICK a \in {"error", "result"} : Answer(<<a>>, m.cycle)
      BY <2>5 DEF ExecExecute
    <3> QED
      BY <1>1, <3>1, Replied
  <2>6. CASE ExecSync(m)
    <3>1. Answer(<<"ready">>, m.cycle)
      BY <2>6 DEF ExecSync
    <3> QED
      BY <1>1, <3>1, Replied
  <2> QED
    BY <2>1, <2>2, <2>3, <2>4, <2>5, <2>6
<1>6. tx' \in {"idle", "block", "failed"} /\ ran' \in Seq([text : Texts \cup {NoText}, cycle : Nat])
  <2>1. CASE ExecQuery(m)
    <3>1. RunText(cycles[m.cycle].text, m.cycle)
      BY <2>1 DEF ExecQuery
    <3> QED
      BY <1>1, <1>3, <3>1, RunTyped
  <2>2. CASE ExecExecute(m)
    <3>1. RunText(portal, m.cycle) /\ portal \in Texts \cup {NoText}
      BY <2>2 DEF ExecExecute, TypeInv
    <3> QED
      BY <1>1, <3>1, RunTyped
  <2>3. CASE ExecBind(m)
    BY <2>3 DEF ExecBind, TypeInv, TxAfter
  <2>4. CASE Discard(m) \/ ExecParse(m) \/ ExecSync(m)
    BY <2>4 DEF Discard, ExecParse, ExecSync, TypeInv, pg
  <2> QED
    BY <2>1, <2>2, <2>3, <2>4
<1>7. stmt' \in Texts \cup {NoText} /\ portal' \in Texts \cup {NoText}
  BY <1>3 DEF Discard, ExecQuery, ExecParse, ExecBind, ExecExecute, ExecSync, TypeInv, pg
<1>8. skip' \in BOOLEAN
  <2>1. CASE Discard(m) \/ ExecQuery(m)
    BY <1>4, <2>1, Zenon DEF Discard, ExecQuery, pg
  <2>2. CASE ExecParse(m)
    BY <2>2, Zenon DEF ExecParse
  <2>3. CASE ExecBind(m)
    BY <1>4, <2>3, Zenon DEF ExecBind
  <2>4. CASE ExecExecute(m)
    BY <2>4, Zenon DEF ExecExecute, Fails
  <2>5. CASE ExecSync(m)
    BY <2>5, Zenon DEF ExecSync
  <2> QED
    BY <2>1, <2>2, <2>3, <2>4, <2>5
<1>9. patient' \in BOOLEAN /\ strayed' \in BOOLEAN
  BY <1>2, <1>4, Zenon
<1> QED
  BY <1>1, <1>2, <1>5, <1>6, <1>7, <1>8, <1>9 DEF TypeInv

LEMMA TypeStep == TypeInv /\ OrderInv /\ [Next]_vars => TypeInv'
<1> SUFFICES ASSUME TypeInv, OrderInv, [Next]_vars PROVE TypeInv'
  OBVIOUS
<1>1. patient \in BOOLEAN /\ strayed \in BOOLEAN /\ skip \in BOOLEAN
  BY Zenon DEF TypeInv
<1>2. ASSUME NEW text \in Texts, NEW extended \in BOOLEAN, StartCycle(text, extended) PROVE TypeInv'
  <2>1. cycles' \in Seq([text : Texts, extended : BOOLEAN]) /\ fromClient' \in Seq(Requests)
    BY <1>2, CycleStarted, RequestsJoin
  <2>2. patient' \in BOOLEAN /\ strayed' \in BOOLEAN /\ skip' \in BOOLEAN
    BY <1>1, <1>2, Zenon DEF StartCycle, pg
  <2> QED
    BY <1>2, <2>1, <2>2 DEF TypeInv, StartCycle, pg
<1>3. ASSUME Receive PROVE TypeInv'
  <2>1. toClient' \in Seq(Replies)
    BY <1>3, Got DEF TypeInv, Receive
  <2>2. patient' \in BOOLEAN /\ strayed' \in BOOLEAN /\ skip' \in BOOLEAN
    BY <1>1, <1>3, Zenon DEF Receive, pg
  <2> QED
    BY <1>3, <2>1, <2>2 DEF TypeInv, Receive, pg
<1>4. ASSUME Filter PROVE TypeInv'
  <2>0. Head(fromClient) \in Requests /\ toPg' \in Seq(Requests) /\ fromClient' \in Seq(Requests)
    BY <1>4, Filtered
  <2>1. toClient' \in Seq(Replies)
    <3>1. toClient' = toClient \/ toClient' = toClient \o Refusal(Head(fromClient))
      BY <1>4 DEF Filter, FilterThen
    <3> QED
      BY <2>0, <3>1, RefusalSent DEF TypeInv
  <2>2. patient' \in BOOLEAN /\ strayed' \in BOOLEAN /\ skip' \in BOOLEAN
    BY <1>1, <1>4, Zenon DEF Filter, FilterThen, client, pg
  <2> QED
    BY <1>4, <2>0, <2>1, <2>2 DEF TypeInv, Filter, FilterThen, client, pg
<1>5. ASSUME Pass PROVE TypeInv'
  <2>1. fromPg \in Seq(Replies) /\ fromPg # <<>> /\ fromPg' = Tail(fromPg)
        /\ toClient \in Seq(Replies) /\ toClient' = Append(toClient, Head(fromPg))
    BY <1>5 DEF Pass, TypeInv
  <2>2. fromPg' \in Seq(Replies) /\ Head(fromPg) \in Replies
    BY <2>1, Got
  <2>3. toClient' \in Seq(Replies)
    BY <2>1, <2>2, Put
  <2>4. patient' \in BOOLEAN /\ strayed' \in BOOLEAN /\ skip' \in BOOLEAN
    BY <1>1, <1>5, Zenon DEF Pass, client, pg
  <2> QED
    BY <1>5, <2>2, <2>3, <2>4 DEF TypeInv, Pass, client, pg
<1>6. ASSUME Postgres PROVE TypeInv'
  BY <1>6, PostgresTyped DEF Postgres
<1>7. ASSUME UNCHANGED vars PROVE TypeInv'
  BY <1>7 DEF TypeInv, vars, client, pg
<1> QED
  BY <1>2, <1>3, <1>4, <1>5, <1>6, <1>7 DEF Next, Finished
\* Requests that leave change nothing of what was passed, prepared or run.
LEMMA FewerUnderWay ==
    ASSUME cycles' = cycles, Pending' \subseteq Pending
    PROVE  /\ \A text : Passed(text) => Passed(text)'
           /\ RanInv /\ ran' = ran => RanInv'
<1>1. \A text : Passed(text) => Passed(text)'
  BY DEF Passed
<1>2. RefusedParses' = RefusedParses
  BY SameCycles
<1>3. ASSUME RanInv, ran' = ran PROVE RanInv'
  <2>1. RunsWhatPassed'
    BY <1>2, <1>3, Zenon DEF RanInv, RunsWhatPassed
  <2>2. \A i \in DOMAIN ran' :
          /\ ran'[i].cycle \in DOMAIN cycles'
          /\ Msg("Q", ran'[i].cycle) \notin Pending' /\ Msg("E", ran'[i].cycle) \notin Pending'
    BY <1>3 DEF RanInv
  <2>3. \A i, j \in DOMAIN ran' : ran'[i].cycle = ran'[j].cycle => i = j
    BY <1>3 DEF RanInv
  <2> QED
    BY <2>1, <2>2, <2>3 DEF RanInv, Msg
<1> QED
  BY <1>1, <1>3

\* A statement is run: it was passed, for the very cycle unless the Parse was
\* refused, and the cycle had run nothing yet.
LEMMA RunStep ==
    ASSUME TypeInv, OrderInv, RanInv, NEW m \in ToSet(toPg), Take(m), m.type \in {"Q", "E"},
           NEW text, Passed(text), RunText(text, m.cycle),
           m.cycle \in RefusedParses \/ text = cycles[m.cycle].text
    PROVE  RanInv'
<1>1. /\ m \in Requests /\ m \in Pending /\ Made(m) /\ Pending' = Pending \ {m} /\ cycles' = cycles
      /\ m.cycle \in DOMAIN cycles /\ m.cycle \in Nat
  BY Taken DEF Made, Requests
<1>2. CASE ran' = ran
  BY <1>1, <1>2, FewerUnderWay
<1>3. CASE ran' = Append(ran, [text |-> text, cycle |-> m.cycle])
  <2> DEFINE r == [text |-> text, cycle |-> m.cycle]
             n == Len(ran) + 1
  <2>1. r.text = text /\ r.cycle = m.cycle
    OBVIOUS
  <2>2. /\ ran' = Append(ran, r) /\ Len(ran) \in Nat /\ ran'[n] = r
        /\ \A i \in DOMAIN ran : ran'[i] = ran[i]
        /\ DOMAIN ran' = DOMAIN ran \cup {n} /\ n \notin DOMAIN ran
    <3>1. /\ ran \in Seq([text : Texts \cup {NoText}, cycle : Nat])
          /\ Passed(text)
      BY DEF TypeInv
    <3>2. /\ text \in Texts
      <4>1. PICK c \in DOMAIN cycles : cycles[c].text = text
        BY <3>1 DEF Passed
      <4>2. cycles \in Seq([text : Texts, extended : BOOLEAN])
        BY DEF TypeInv
      <4>3. cycles[c] \in [text : Texts, extended : BOOLEAN]
        BY <4>2, Element
      <4> QED
        BY <4>1, <4>3
    <3>3. r \in [text : Texts \cup {NoText}, cycle : Nat]
      BY <1>1, <3>2
    <3> HIDE DEF r
    <3> QED
      BY <1>3, <3>1, <3>3, Put DEF r
  <2> HIDE DEF r, n
  <2>3. /\ Msg("Q", m.cycle) \notin Pending' /\ Msg("E", m.cycle) \notin Pending'
    <3>1. Msg("Q", m.cycle) \in Pending => Msg("Q", m.cycle) = m
      BY <1>1, Message DEF OrderInv, Made, RequestTypes
    <3>2. Msg("E", m.cycle) \in Pending => Msg("E", m.cycle) = m
      BY <1>1, Message DEF OrderInv, Made, RequestTypes
    <3> QED
      BY <1>1, <3>1, <3>2
  <2>4. \A i \in DOMAIN ran : ran[i].cycle # m.cycle
    <3>1. m = Msg("Q", m.cycle) \/ m = Msg("E", m.cycle)
      BY <1>1, Message
    <3> QED
      BY <1>1, <3>1 DEF RanInv
  <2>5. \A i, j \in DOMAIN ran' : ran'[i].cycle = ran'[j].cycle => i = j
    BY <2>1, <2>2, <2>4 DEF RanInv
  <2>6. \A i \in DOMAIN ran' :
          /\ ran'[i].cycle \in DOMAIN cycles'
          /\ Msg("Q", ran'[i].cycle) \notin Pending' /\ Msg("E", ran'[i].cycle) \notin Pending'
    BY <1>1, <2>1, <2>2, <2>3 DEF RanInv
  <2>7. \A i \in DOMAIN ran' : \E c \in 1 .. ran'[i].cycle :
          cycles'[c].text = ran'[i].text /\ ran'[i].text # "blocked"
    <3> SUFFICES ASSUME NEW i \in DOMAIN ran'
                 PROVE  \E c \in 1 .. ran'[i].cycle :
                            cycles'[c].text = ran'[i].text /\ ran'[i].text # "blocked"
      OBVIOUS
    <3>1. CASE i = n
      <4>1. PICK c \in DOMAIN cycles : cycles[c].text = text /\ c =< m.cycle
        BY <1>1 DEF Passed
      <4>2. c \in 1 .. m.cycle
        BY <1>1, <4>1 DEF TypeInv
      <4> QED
        BY <1>1, <2>1, <2>2, <3>1, <4>1, <4>2 DEF Passed
    <3>2. CASE i \in DOMAIN ran
      BY <1>1, <2>2, <3>2 DEF RanInv, RunsWhatPassed
    <3> QED
      BY <2>2, <3>1, <3>2
  <2>8. \A i \in DOMAIN ran' : ran'[i].cycle \notin RefusedParses' =>
          ran'[i].text = cycles'[ran'[i].cycle].text
    <3>1. RefusedParses' = RefusedParses
      BY <1>1, SameCycles
    <3> QED
      BY <1>1, <2>1, <2>2, <3>1 DEF RanInv, RunsWhatPassed
  <2>9. RunsWhatPassed'
    BY <2>5, <2>7, <2>8, Zenon DEF RunsWhatPassed
  <2> QED
    BY <2>5, <2>6, <2>9 DEF RanInv, Msg
<1> QED
  BY <1>2, <1>3 DEF RunText

\* What PostgreSQL has prepared, bound and run after one of its steps.
LEMMA PostgresStep ==
    ASSUME IInv, NEW m \in ToSet(toPg),
           \/ Discard(m) \/ ExecQuery(m) \/ ExecParse(m) \/ ExecBind(m) \/ ExecExecute(m) \/ ExecSync(m)
    PROVE  PreparedInv' /\ SkipInv' /\ RanInv'
<1>0. TypeInv /\ OrderInv /\ PreparedInv /\ SkipInv /\ RanInv
  BY DEF IInv
<1>1. Take(m)
  BY DEF Discard, ExecQuery, ExecParse, ExecBind, ExecExecute, ExecSync
<1>2. /\ m \in Requests /\ m \in Pending /\ Made(m) /\ ~Refuses(m) /\ Pending' = Pending \ {m}
      /\ \A n \in Pending' : n \in Requests /\ Rank(m) < Rank(n) /\ m.cycle =< n.cycle
      /\ cycles' = cycles /\ m.cycle \in DOMAIN cycles /\ m.cycle \in Nat
      /\ RefusedParses' = RefusedParses
  BY <1>0, <1>1, Taken, SameCycles DEF Made, Requests
<1>3. \A n \in Pending : m.cycle =< n.cycle
  BY <1>2
<1>4. \A text : Passed(text) =>
         (stmt' = text => Passed(stmt)') /\ (portal' = text => Passed(portal)')
  BY <1>2 DEF Passed
<1>5. ran' = ran => RanInv'
  BY <1>0, <1>2, FewerUnderWay
<1>6. \A c \in DOMAIN cycles :
        /\ Msg("B", c) \in Pending' /\ Msg("P", c) \notin Pending' => m = Msg("P", c) \/ c \in RefusedParses
        /\ Msg("E", c) \in Pending' /\ Msg("B", c) \notin Pending' => m = Msg("B", c)
  BY <1>0, <1>1, Opened
<1>7. ASSUME m.type # "S", SkipInv, skip PROVE SkipInv'
  <2>1. PICK c \in DOMAIN cycles :
            cycles[c].extended /\ Msg("S", c) \in Pending /\ \A n \in Pending : c =< n.cycle
    BY <1>7 DEF SkipInv
  <2>2. Msg("S", c) \in Pending'
    BY <1>2, <1>7, <2>1, Message
  <2> QED
    BY <1>2, <2>1, <2>2 DEF SkipInv, Msg
<1>8. ASSUME m.type \in {"P", "B", "E"} PROVE SkipInv'
  <2> DEFINE s == Msg("S", m.cycle)
  <2>1. s \in Requests /\ s.type = "S" /\ s.cycle = m.cycle
    BY <1>2, Message DEF RequestTypes
  <2> HIDE DEF s
  <2>2. cycles[m.cycle].extended /\ Made(s)
    BY <1>2, <1>8, <2>1 DEF Made
  <2>3. Rank(m) < Rank(s)
    BY <1>2, <1>8, <2>1, Ranks
  <2>4. s \in Pending'
    BY <1>0, <1>1, <2>1, <2>2, <2>3, Behind DEF Refuses
  <2> QED
    BY <1>2, <2>2, <2>4 DEF SkipInv, Msg, s
<1>9. CASE Discard(m)
  <2>1. skip /\ m.type # "S" /\ stmt' = stmt /\ portal' = portal /\ skip' = skip /\ ran' = ran
    BY <1>9 DEF Discard, pg
  <2>2. PreparedInv'
    <3>1. (stmt' # NoText => Passed(stmt)') /\ (portal' # NoText => Passed(portal)')
      BY <1>0, <1>4, <2>1 DEF PreparedInv
    <3> QED
      BY <2>1, <3>1 DEF PreparedInv
  <2> QED
    BY <1>0, <1>5, <1>7, <2>1, <2>2
<1>10. CASE ExecQuery(m)
  <2>1. ~skip /\ m.type = "Q" /\ stmt' = NoText /\ portal' = NoText /\ skip' = skip
        /\ RunText(cycles[m.cycle].text, m.cycle)
    BY <1>10 DEF ExecQuery
  <2>2. m.type # "P" /\ m.type # "B"
    BY <2>1
  <2>3. \A c : m # Msg("P", c) /\ m # Msg("B", c)
    BY <2>2, Message
  <2>4. PreparedInv'
    BY <1>2, <1>6, <2>1, <2>3 DEF PreparedInv, Msg
  <2>5. SkipInv'
    BY <2>1 DEF SkipInv
  <2>6. Passed(cycles[m.cycle].text)
    <3>1. cycles[m.cycle].text # "blocked"
      BY <1>2, <2>1 DEF Refuses
    <3> QED
      BY <1>2, <1>3, <3>1 DEF Passed
  <2>7. RanInv'
    BY <1>0, <1>1, <2>1, <2>6, RunStep
  <2> QED
    BY <2>4, <2>5, <2>7
<1>11. CASE ExecParse(m)
  <2> DEFINE text == cycles[m.cycle].text
  <2>1. /\ ~skip /\ m.type = "P" /\ portal' = portal /\ ran' = ran
        /\ (stmt' = text /\ ~skip') \/ (stmt' = NoText /\ skip')
    BY <1>11 DEF ExecParse
  <2>2. Passed(text)
    <3>1. text # "blocked"
      BY <1>2, <2>1 DEF Refuses
    <3> QED
      BY <1>2, <1>3, <3>1 DEF Passed
  <2>3. \A c : m # Msg("B", c)
    BY <2>1, Message
  <2>4. \A c : m = Msg("P", c) => c = m.cycle
    BY Message
  <2>5. (stmt' # NoText => Passed(stmt)') /\ (portal' # NoText => Passed(portal)')
    BY <1>0, <1>4, <2>1, <2>2 DEF PreparedInv
  <2>6. PreparedInv'
    BY <1>2, <1>6, <2>1, <2>3, <2>4, <2>5 DEF PreparedInv, Msg
  <2> QED
    BY <1>5, <1>8, <2>1, <2>6
<1>12. CASE ExecBind(m)
  <2>1. /\ ~skip /\ m.type = "B" /\ stmt' = stmt /\ ran' = ran
        /\ \/ stmt = NoText /\ skip' /\ portal' = portal
           \/ stmt # NoText /\ ~skip' /\ portal' = stmt
    BY <1>12 DEF ExecBind
  <2>2. (stmt' # NoText => Passed(stmt)') /\ (portal' # NoText => Passed(portal)')
    BY <1>0, <1>4, <2>1 DEF PreparedInv
  <2>3. \A c : m # Msg("P", c)
    BY <2>1, Message
  <2>4. \A c : m = Msg("B", c) => c = m.cycle
    BY Message
  <2>5. m = Msg("B", m.cycle)
    BY <1>2, <2>1, Message
  <2>6. Msg("P", m.cycle) \notin Pending
    <3>1. Msg("P", m.cycle) \in Requests /\ Msg("P", m.cycle).type = "P" /\ Msg("P", m.cycle).cycle = m.cycle
      BY <1>2, Message DEF RequestTypes
    <3>2. Rank(Msg("P", m.cycle)) < Rank(m) /\ Rank(m) \in Nat /\ Rank(Msg("P", m.cycle)) \in Nat
      BY <1>2, <2>1, <3>1, Ranks
    <3>3. ~(Rank(m) < Rank(Msg("P", m.cycle)))
      BY <3>2
    <3> QED
      BY <1>2, <2>1, <3>1, <3>3
  <2>7. m.cycle \in RefusedParses \/ stmt = cycles[m.cycle].text
    BY <1>0, <1>2, <2>1, <2>5, <2>6 DEF PreparedInv
  <2>8. PreparedInv'
    BY <1>2, <1>6, <2>1, <2>2, <2>3, <2>4, <2>7 DEF PreparedInv, Msg
  <2> QED
    BY <1>5, <1>8, <2>1, <2>8
<1>13. CASE ExecExecute(m)
  <2>1. ~skip /\ m.type = "E" /\ stmt' = stmt /\ portal' = portal /\ RunText(portal, m.cycle)
    BY <1>13 DEF ExecExecute
  <2>2. \A c : m # Msg("P", c) /\ m # Msg("B", c)
    BY <2>1, Message
  <2>3. (stmt' # NoText => Passed(stmt)') /\ (portal' # NoText => Passed(portal)')
    BY <1>0, <1>4, <2>1 DEF PreparedInv
  <2>4. PreparedInv'
    BY <1>2, <1>6, <2>2, <2>3 DEF PreparedInv, Msg
  <2>5. m = Msg("E", m.cycle)
    BY <1>2, <2>1, Message
  <2>6. Msg("B", m.cycle) \notin Pending
    <3>1. Msg("B", m.cycle) \in Requests /\ Msg("B", m.cycle).type = "B" /\ Msg("B", m.cycle).cycle = m.cycle
      BY <1>2, Message DEF RequestTypes
    <3>2. Rank(Msg("B", m.cycle)) < Rank(m) /\ Rank(m) \in Nat /\ Rank(Msg("B", m.cycle)) \in Nat
      BY <1>2, <2>1, <3>1, Ranks
    <3>3. ~(Rank(m) < Rank(Msg("B", m.cycle)))
      BY <3>2
    <3> QED
      BY <1>2, <2>1, <3>1, <3>3
  <2>7. portal # NoText /\ (m.cycle \in RefusedParses \/ portal = cycles[m.cycle].text)
    BY <1>0, <1>2, <2>1, <2>5, <2>6 DEF PreparedInv
  <2>8. RanInv'
    <3>1. Passed(portal)
      BY <1>0, <2>7 DEF PreparedInv
    <3> QED
      BY <1>0, <1>1, <2>1, <2>7, <3>1, RunStep
  <2> QED
    BY <1>8, <2>1, <2>4, <2>8
<1>14. CASE ExecSync(m)
  <2>1. m.type = "S" /\ ~skip' /\ portal' = NoText /\ stmt' = stmt /\ ran' = ran
    BY <1>14 DEF ExecSync
  <2>2. \A c : m # Msg("P", c) /\ m # Msg("B", c)
    BY <2>1, Message
  <2>3. stmt' # NoText => Passed(stmt)'
    BY <1>0, <1>4, <2>1 DEF PreparedInv
  <2>4. PreparedInv'
    BY <1>2, <1>6, <2>1, <2>2, <2>3 DEF PreparedInv, Msg
  <2>5. SkipInv'
    BY <2>1 DEF SkipInv
  <2> QED
    BY <1>5, <2>1, <2>4, <2>5
<1> QED
  BY <1>9, <1>10, <1>11, <1>12, <1>13, <1>14
\* A new cycle changes nothing of the earlier ones.
LEMMA StartStep ==
    ASSUME IInv, NEW text \in Texts, NEW extended \in BOOLEAN, StartCycle(text, extended),
           NEW c, c = Len(cycles) + 1
    PROVE  OrderInv' /\ PreparedInv' /\ SkipInv' /\ RanInv'
<1>0. TypeInv /\ OrderInv /\ PreparedInv /\ SkipInv /\ RanInv
  BY DEF IInv
<1>1. /\ c \in Nat /\ DOMAIN cycles' = DOMAIN cycles \cup {c} /\ c \notin DOMAIN cycles
      /\ \A d \in DOMAIN cycles : cycles'[d] = cycles[d] /\ d < c /\ d \in Nat
      /\ cycles'[c].text = text /\ cycles'[c].extended = extended
      /\ Pending' = Pending \cup RequestsOf(extended, c)
      /\ \A m \in Pending : m \in Requests /\ m.cycle < c /\ m.cycle \in DOMAIN cycles
      /\ OrderInv'
  <2>1. TypeInv /\ OrderInv
    BY <1>0
  <2>2. OrderInv'
    BY <2>1, Started
  <2>3. \A m \in Pending : m \in Requests /\ m.cycle < c /\ m.cycle \in DOMAIN cycles
    BY <2>1, Started
  <2>4. Pending' = Pending \cup RequestsOf(extended, c)
    <3>1. ToSet(fromClient') = ToSet(fromClient) \cup RequestsOf(extended, c)
      BY <2>1, RequestsJoin
    <3> QED
      BY <3>1 DEF Pending, StartCycle
  <2>5. c \in Nat /\ DOMAIN cycles' = DOMAIN cycles \cup {c} /\ c \notin DOMAIN cycles
    BY <2>1, Started
  <2>6. cycles'[c].text = text /\ cycles'[c].extended = extended
    BY <2>1, CycleStarted
  <2>7. \A d \in DOMAIN cycles : cycles'[d] = cycles[d] /\ d < c /\ d \in Nat
    BY <2>1, Started
  <2> QED
    BY <2>2, <2>3, <2>4, <2>5, <2>6, <2>7
<1>2. stmt' = stmt /\ portal' = portal /\ skip' = skip /\ ran' = ran
  BY DEF StartCycle, pg
<1>3. \A t, d : Msg(t, d) \in Pending' /\ d # c => Msg(t, d) \in Pending
  BY <1>1, Message DEF RequestsOf
<1>4. \A m \in Pending' \ Pending : m.cycle = c
  BY <1>1, Message DEF RequestsOf
<1>5. \A d \in DOMAIN cycles : d \in RefusedParses' <=> d \in RefusedParses
  BY <1>1 DEF RefusedParses
<1>6. \A d \in DOMAIN cycles : (\A m \in Pending : d =< m.cycle) => (\A m \in Pending' : d =< m.cycle)
  BY <1>1, <1>4
<1>7. \A s : Passed(s) => (stmt' = s => Passed(stmt)') /\ (portal' = s => Passed(portal)')
  BY <1>1, <1>6 DEF Passed
<1>8. PreparedInv'
  <2>1. (stmt' # NoText => Passed(stmt)') /\ (portal' # NoText => Passed(portal)')
    BY <1>0, <1>2, <1>7 DEF PreparedInv
  <2>2. ASSUME NEW t \in {"B", "E"}, Msg(t, c) \in Pending'
        PROVE  Msg("P", c) \in Pending' /\ Msg("B", c) \in Pending'
    <3>1. Msg(t, c) \notin Pending
      BY <1>1, Message
    <3>2. PICK u \in TypesOf(extended) : Msg(t, c) = Msg(u, c)
      BY <1>1, <2>2, <3>1 DEF RequestsOf
    <3>3. t = u
      <4>1. Msg(t, c).type = t /\ Msg(u, c).type = u
        BY Message
      <4> QED
        BY <3>2, <4>1
    <3>4. extended
      BY <3>3 DEF TypesOf
    <3> QED
      BY <1>1, <3>4 DEF TypesOf, RequestsOf
  <2>3. \A d \in DOMAIN cycles' : Msg("B", d) \in Pending' /\ Msg("P", d) \notin Pending' =>
          d \in RefusedParses' \/ skip' \/ stmt' = cycles'[d].text
    <3> SUFFICES ASSUME NEW d \in DOMAIN cycles', Msg("B", d) \in Pending', Msg("P", d) \notin Pending'
                 PROVE  d \in RefusedParses' \/ skip' \/ stmt' = cycles'[d].text
      OBVIOUS
    <3>1. d # c /\ d \in DOMAIN cycles
      BY <1>1, <2>2
    <3>2. Msg("B", d) \in Pending /\ Msg("P", d) \notin Pending
      BY <1>1, <1>3, <3>1
    <3> QED
      BY <1>0, <1>1, <1>2, <1>5, <3>1, <3>2 DEF PreparedInv
  <2>4. \A d \in DOMAIN cycles' : Msg("E", d) \in Pending' /\ Msg("B", d) \notin Pending' =>
          skip' \/ (portal' # NoText /\ (d \in RefusedParses' \/ portal' = cycles'[d].text))
    <3> SUFFICES ASSUME NEW d \in DOMAIN cycles', Msg("E", d) \in Pending', Msg("B", d) \notin Pending'
                 PROVE  skip' \/ (portal' # NoText /\ (d \in RefusedParses' \/ portal' = cycles'[d].text))
      OBVIOUS
    <3>1. d # c /\ d \in DOMAIN cycles
      BY <1>1, <2>2
    <3>2. Msg("E", d) \in Pending /\ Msg("B", d) \notin Pending
      BY <1>1, <1>3, <3>1
    <3> QED
      BY <1>0, <1>1, <1>2, <1>5, <3>1, <3>2 DEF PreparedInv
  <2> QED
    BY <2>1, <2>3, <2>4 DEF PreparedInv, Msg
<1>9. SkipInv'
  <2> SUFFICES ASSUME skip' PROVE SkipInv'
    BY DEF SkipInv
  <2>1. PICK d \in DOMAIN cycles :
            cycles[d].extended /\ Msg("S", d) \in Pending /\ \A m \in Pending : d =< m.cycle
    BY <1>0, <1>2 DEF SkipInv
  <2>2. d \in DOMAIN cycles' /\ cycles'[d].extended /\ Msg("S", d) \in Pending' /\ \A m \in Pending' : d =< m.cycle
    BY <1>1, <1>6, <2>1
  <2> QED
    BY <2>2 DEF SkipInv, Msg
<1>10. RanInv'
  <2>1. \A i \in DOMAIN ran : ran[i].cycle \in DOMAIN cycles /\ ran[i].cycle # c
    BY <1>0, <1>1 DEF RanInv
  <2>2. \A i \in DOMAIN ran' :
          /\ ran'[i].cycle \in DOMAIN cycles'
          /\ Msg("Q", ran'[i].cycle) \notin Pending' /\ Msg("E", ran'[i].cycle) \notin Pending'
    BY <1>0, <1>1, <1>2, <1>3, <2>1 DEF RanInv
  <2>3. \A i, j \in DOMAIN ran' : ran'[i].cycle = ran'[j].cycle => i = j
    BY <1>0, <1>2 DEF RanInv
  <2>4. \A i \in DOMAIN ran' : \E d \in 1 .. ran'[i].cycle :
          cycles'[d].text = ran'[i].text /\ ran'[i].text # "blocked"
    <3> SUFFICES ASSUME NEW i \in DOMAIN ran
                 PROVE  \E d \in 1 .. ran[i].cycle : cycles'[d].text = ran[i].text /\ ran[i].text # "blocked"
      BY <1>2
    <3>1. PICK d \in 1 .. ran[i].cycle : cycles[d].text = ran[i].text /\ ran[i].text # "blocked"
      BY <1>0 DEF RanInv, RunsWhatPassed
    <3>2. d \in DOMAIN cycles
      <4>1. DOMAIN cycles = 1 .. Len(cycles) /\ Len(cycles) \in Nat
        BY <1>0 DEF TypeInv
      <4> QED
        BY <2>1, <4>1
    <3> QED
      BY <1>1, <3>1, <3>2
  <2>5. \A i \in DOMAIN ran' : ran'[i].cycle \notin RefusedParses' =>
          ran'[i].text = cycles'[ran'[i].cycle].text
    BY <1>0, <1>1, <1>2, <1>5, <2>1 DEF RanInv, RunsWhatPassed
  <2>6. RunsWhatPassed'
    BY <2>3, <2>4, <2>5, Zenon DEF RunsWhatPassed
  <2> QED
    BY <2>2, <2>3, <2>6 DEF RanInv, Msg
<1> QED
  BY <1>1, <1>8, <1>9, <1>10

\* A refusal takes a Query or a Parse away, and nothing else.
LEMMA FilterStep ==
    ASSUME IInv, Filter
    PROVE  OrderInv' /\ PreparedInv' /\ SkipInv' /\ RanInv'
<1> DEFINE m == Head(fromClient)
<1>0. TypeInv /\ OrderInv /\ PreparedInv /\ SkipInv /\ RanInv
  BY DEF IInv
<1>1. /\ m \in Requests /\ Made(m) /\ cycles' = cycles /\ OrderInv'
      /\ Pending' = IF Refuses(m) THEN Pending \ {m} ELSE Pending
  BY <1>0, Filtered
<1> HIDE DEF m
<1>2. stmt' = stmt /\ portal' = portal /\ skip' = skip /\ ran' = ran
  BY DEF Filter, FilterThen, pg
<1>3. /\ Pending' \subseteq Pending /\ RefusedParses' = RefusedParses
  BY <1>1, SameCycles
<1>4. RanInv'
  BY <1>0, <1>1, <1>2, <1>3, FewerUnderWay
<1>5. \A c : \A t \in {"B", "E", "S"} : Msg(t, c) \in Pending' <=> Msg(t, c) \in Pending
  BY <1>1, Message DEF Refuses
<1>6. \A c \in DOMAIN cycles : Msg("P", c) \in Pending /\ Msg("P", c) \notin Pending' => c \in RefusedParses
  <2> SUFFICES ASSUME NEW c \in DOMAIN cycles, Msg("P", c) \in Pending, Msg("P", c) \notin Pending'
               PROVE  c \in RefusedParses
    OBVIOUS
  <2>1. m = Msg("P", c) /\ Refuses(m)
    BY <1>1
  <2>2. m.type = "P" /\ m.cycle = c
    BY <2>1, Message
  <2> QED
    BY <1>1, <2>1, <2>2 DEF Refuses, Made, RefusedParses
<1>7. (stmt' # NoText => Passed(stmt)') /\ (portal' # NoText => Passed(portal)')
  BY <1>0, <1>1, <1>2, <1>3 DEF PreparedInv, Passed
<1>8. PreparedInv'
  <2>1. \A c \in DOMAIN cycles' : Msg("B", c) \in Pending' /\ Msg("P", c) \notin Pending' =>
          c \in RefusedParses' \/ skip' \/ stmt' = cycles'[c].text
    BY <1>0, <1>1, <1>2, <1>3, <1>5, <1>6 DEF PreparedInv
  <2>2. \A c \in DOMAIN cycles' : Msg("E", c) \in Pending' /\ Msg("B", c) \notin Pending' =>
          skip' \/ (portal' # NoText /\ (c \in RefusedParses' \/ portal' = cycles'[c].text))
    BY <1>0, <1>1, <1>2, <1>3, <1>5 DEF PreparedInv
  <2> QED
    BY <1>7, <2>1, <2>2 DEF PreparedInv, Msg
<1>9. SkipInv'
  <2> SUFFICES ASSUME skip' PROVE SkipInv'
    BY DEF SkipInv
  <2>1. PICK c \in DOMAIN cycles :
            cycles[c].extended /\ Msg("S", c) \in Pending /\ \A n \in Pending : c =< n.cycle
    BY <1>0, <1>2 DEF SkipInv
  <2> QED
    BY <1>1, <1>3, <1>5, <2>1 DEF SkipInv, Msg
<1> QED
  BY <1>1, <1>4, <1>8, <1>9

LEMMA InvStep == IInv /\ [Next]_vars => IInv'
<1> SUFFICES ASSUME IInv, [Next]_vars PROVE IInv'
  OBVIOUS
<1>1. TypeInv'
  BY TypeStep DEF IInv
<1>2. ASSUME NEW text \in Texts, NEW extended \in BOOLEAN, StartCycle(text, extended) PROVE IInv'
  BY <1>1, <1>2, StartStep DEF IInv
<1>3. ASSUME Filter PROVE IInv'
  BY <1>1, <1>3, FilterStep DEF IInv
<1>4. ASSUME Postgres PROVE IInv'
  <2>1. PICK m \in ToSet(toPg) :
            \/ Discard(m) \/ ExecQuery(m) \/ ExecParse(m) \/ ExecBind(m) \/ ExecExecute(m) \/ ExecSync(m)
    BY <1>4 DEF Postgres
  <2>2. Take(m)
    BY <2>1 DEF Discard, ExecQuery, ExecParse, ExecBind, ExecExecute, ExecSync
  <2>3. OrderInv'
    BY <2>2, Taken DEF IInv
  <2>4. PreparedInv' /\ SkipInv' /\ RanInv'
    BY <2>1, PostgresStep
  <2> QED
    BY <1>1, <2>3, <2>4 DEF IInv
<1>5. ASSUME Receive \/ Pass \/ UNCHANGED vars PROVE IInv'
  <2>1. /\ cycles' = cycles /\ toPg' = toPg /\ fromClient' = fromClient
        /\ stmt' = stmt /\ portal' = portal /\ skip' = skip /\ ran' = ran
    BY <1>5 DEF Receive, Pass, vars, client, pg
  <2>2. OrderInv' /\ SkipInv'
    BY <2>1 DEF IInv, OrderInv, SkipInv, Pending, Increasing, Rank, Made, Refuses, Msg
  <2>3. Pending' = Pending /\ RefusedParses' = RefusedParses
    BY <2>1 DEF Pending, RefusedParses
  <2>4. RanInv'
    BY <2>1, <2>3, FewerUnderWay DEF IInv
  <2>5. PreparedInv'
    BY <2>1, <2>3 DEF IInv, PreparedInv, Passed, Msg
  <2> QED
    BY <1>1, <2>2, <2>4, <2>5 DEF IInv
<1> QED
  BY <1>2, <1>3, <1>4, <1>5 DEF Next, Finished

(***************************************************************************)
(* The requests keep their order, what PostgreSQL has prepared and bound   *)
(* belongs to the cycle it is at, and it discards nothing beyond the Sync  *)
(* of the cycle that failed.                                               *)
(***************************************************************************)
THEOREM Invariant == Spec => []IInv
  BY InitInv, InvStep, PTL DEF Spec

(***************************************************************************)
(* PostgreSQL runs only what Guardian let through, although a refused      *)
(* Parse leaves its Bind and Execute behind, and each cycle at most once.  *)
(***************************************************************************)
THEOREM OnlyPassedRuns == Spec => []RunsWhatPassed
<1>1. IInv => RunsWhatPassed
  BY DEF IInv, RanInv
<1> QED
  BY <1>1, Invariant, PTL
-----------------------------------------------------------------------------
(* A client that waits stays in step.                                      *)

\* A message at the end of a queue that nothing ends yet.
LEMMA PutEnds ==
    ASSUME NEW S, NEW s \in Seq(S), NEW e \in S, NEW c
    PROVE  /\ InCycle(s, c) /\ e.cycle = c => InCycle(Append(s, e), c)
           /\ ~HasEnd(s) => EndsLast(Append(s, e))
           /\ ~HasEnd(s) /\ e.type \notin Ends => ~HasEnd(Append(s, e))
<1> DEFINE t == Append(s, e)
<1>1. /\ Len(s) \in Nat /\ Len(t) = Len(s) + 1 /\ t[Len(s) + 1] = e
      /\ \A i \in 1 .. Len(s) : t[i] = s[i]
      /\ 1 .. Len(s) + 1 = 1 .. Len(s) \cup {Len(s) + 1}
  BY Put
<1> HIDE DEF t
<1>2. InCycle(s, c) /\ e.cycle = c => InCycle(t, c)
  BY <1>1 DEF InCycle
<1>3. ~HasEnd(s) => EndsLast(t)
  BY <1>1 DEF HasEnd, EndsLast
<1>4. ~HasEnd(s) /\ e.type \notin Ends => ~HasEnd(t)
  BY <1>1 DEF HasEnd
<1> QED
  BY <1>2, <1>3, <1>4 DEF t

\* The first message of a queue, and what is left.
LEMMA GotEnds ==
    ASSUME NEW S, NEW s \in Seq(S), s # <<>>, NEW c
    PROVE  /\ InCycle(s, c) => InCycle(Tail(s), c) /\ Head(s).cycle = c
           /\ HasEnd(Tail(s)) => HasEnd(s)
           /\ Head(s).type \in Ends => HasEnd(s)
           /\ EndsLast(s) => EndsLast(Tail(s))
           /\ EndsLast(s) /\ Head(s).type \in Ends => Tail(s) = <<>>
<1> DEFINE t == Tail(s)
<1>1. /\ Head(s) = s[1] /\ t \in Seq(S) /\ Len(s) \in Nat \ {0} /\ Len(t) = Len(s) - 1
      /\ \A i \in 1 .. Len(s) - 1 : t[i] = s[i + 1]
  BY Got
<1>2. Len(t) = 0 => t = <<>>
  BY <1>1, EmptySeq
<1> HIDE DEF t
<1>3. 1 \in 1 .. Len(s) /\ \A i \in 1 .. Len(s) - 1 : i + 1 \in 1 .. Len(s) /\ (i + 1 = Len(s) => i = Len(s) - 1)
  BY <1>1
<1>4. InCycle(s, c) => InCycle(t, c) /\ Head(s).cycle = c
  BY <1>1, <1>3 DEF InCycle
<1>5. HasEnd(t) => HasEnd(s)
  BY <1>1, <1>3 DEF HasEnd
<1>6. Head(s).type \in Ends => HasEnd(s)
  BY <1>1, <1>3 DEF HasEnd
<1>7. EndsLast(s) => EndsLast(t)
  BY <1>1, <1>3 DEF EndsLast
<1>8. EndsLast(s) /\ Head(s).type \in Ends => t = <<>>
  <2>1. EndsLast(s) /\ Head(s).type \in Ends => Len(s) = 1
    BY <1>1, <1>3 DEF EndsLast
  <2> QED
    BY <1>1, <1>2, <2>1
<1> QED
  BY <1>4, <1>5, <1>6, <1>7, <1>8 DEF t

\* An empty queue.
LEMMA NoEnds == ASSUME NEW c PROVE ~HasEnd(<<>>) /\ EndsLast(<<>>) /\ InCycle(<<>>, c)
  BY DEF HasEnd, EndsLast, InCycle

\* A waiting client starts a cycle when nothing is under way.
LEMMA WaitingStart ==
    ASSUME TypeInv, OrderInv, InStep, patient, NEW text \in Texts, NEW extended \in BOOLEAN,
           StartCycle(text, extended)
    PROVE  InStep'
<1> DEFINE c == Len(cycles) + 1
<1>1. /\ Len(cycles) \in Nat /\ Len(cycles') = c
      /\ extended => fromClient' = Append(Append(Append(Append(fromClient,
                         Msg("P", c)), Msg("B", c)), Msg("E", c)), Msg("S", c))
      /\ ~extended => fromClient' = Append(fromClient, Msg("Q", c))
  BY CycleStarted
<1>2. ready \in Nat /\ ready = Len(cycles)
  <2>1. InFlight < 1 /\ ready \in Nat /\ (ready # Len(cycles) => ready + 1 = Len(cycles))
    BY DEF TypeInv, InStep, StartCycle
  <2> QED
    BY <1>1, <2>1 DEF InFlight
<1>3. Drained
  BY <1>2 DEF InStep
<1>4. /\ toPg' = <<>> /\ fromPg' = <<>> /\ toClient' = <<>> /\ fromClient = <<>>
      /\ ready' = ready /\ strayed' = strayed
  BY <1>3 DEF StartCycle, Drained
<1>5. c \in Nat
  BY <1>1
<1> HIDE DEF c
<1>6. /\ Msg("P", c) \in Requests /\ Msg("B", c) \in Requests /\ Msg("E", c) \in Requests
      /\ Msg("S", c) \in Requests /\ Msg("Q", c) \in Requests
      /\ \A t : Msg(t, c).type = t /\ Msg(t, c).cycle = c
  BY <1>5, Message DEF RequestTypes
<1>7. InCycle(fromClient', c) /\ EndsLast(fromClient')
  <2>1. CASE extended
    <3> DEFINE s1 == Append(fromClient, Msg("P", c))
               s2 == Append(s1, Msg("B", c))
               s3 == Append(s2, Msg("E", c))
               s4 == Append(s3, Msg("S", c))
    <3>0. fromClient' = s4
      BY <1>1, <2>1
    <3> HIDE DEF s4
    <3>1. fromClient \in Seq(Requests) /\ ~HasEnd(fromClient) /\ InCycle(fromClient, c)
      BY <1>4, NoEnds
    <3>2. s1 \in Seq(Requests) /\ ~HasEnd(s1) /\ InCycle(s1, c)
      BY <1>6, <3>1, Put, PutEnds DEF Ends
    <3> HIDE DEF s1
    <3>3. s2 \in Seq(Requests) /\ ~HasEnd(s2) /\ InCycle(s2, c)
      BY <1>6, <3>2, Put, PutEnds DEF Ends
    <3> HIDE DEF s2
    <3>4. s3 \in Seq(Requests) /\ ~HasEnd(s3) /\ InCycle(s3, c)
      BY <1>6, <3>3, Put, PutEnds DEF Ends
    <3> HIDE DEF s3
    <3>5. EndsLast(s4) /\ InCycle(s4, c)
      BY <1>6, <3>4, PutEnds DEF s4
    <3> QED
      BY <3>0, <3>5
  <2>2. CASE ~extended
    <3>1. fromClient \in Seq(Requests) /\ ~HasEnd(fromClient) /\ InCycle(fromClient, c)
      BY <1>4, NoEnds
    <3>2. fromClient' = Append(fromClient, Msg("Q", c))
      BY <1>1, <2>2
    <3> QED
      BY <1>6, <3>1, <3>2, PutEnds
  <2> QED
    BY <2>1, <2>2
<1>8. ready' # Len(cycles') /\ ready' + 1 = Len(cycles') /\ Len(cycles') = c
  BY <1>1, <1>2, <1>4 DEF c
<1>9. ~strayed'
  BY <1>4 DEF InStep
<1>10. \A s : s = <<>> => EndsLast(s) /\ InCycle(s, c) /\ ~HasEnd(s)
  BY NoEnds
<1> QED
  BY <1>4, <1>7, <1>8, <1>9, <1>10 DEF InStep, EndsLast, InCycle, HasEnd, Drained
\* What the two relays do to the messages on their way to a waiting client.
LEMMA WaitingReceive == ASSUME TypeInv, InStep, Receive PROVE InStep'
<1>1. /\ toClient \in Seq(Replies) /\ toClient # <<>> /\ toClient' = Tail(toClient)
      /\ fromPg' = fromPg /\ toPg' = toPg /\ fromClient' = fromClient /\ cycles' = cycles
      /\ strayed' = (strayed \/ Head(toClient).cycle # ready + 1)
      /\ ready' = IF Head(toClient).type = "ready" THEN ready + 1 ELSE ready
  BY DEF Receive, TypeInv, pg
<1>2. ready # Len(cycles) /\ ready + 1 = Len(cycles) /\ ready \in Nat
  BY <1>1 DEF InStep, Drained, TypeInv
<1>3. EndsLast(toClient) /\ InCycle(toClient, Len(cycles))
  BY DEF InStep
<1>4. /\ InCycle(toClient', Len(cycles)) /\ Head(toClient).cycle = Len(cycles)
      /\ HasEnd(toClient') => HasEnd(toClient)
      /\ Head(toClient).type \in Ends => HasEnd(toClient)
      /\ EndsLast(toClient')
      /\ Head(toClient).type \in Ends => toClient' = <<>>
  BY <1>1, <1>3, GotEnds
<1>5. ~strayed'
  BY <1>1, <1>2, <1>4 DEF InStep
<1>6. CASE Head(toClient).type = "ready"
  <2>1. /\ Head(toClient).type \in Ends /\ ready' = Len(cycles)
    BY <1>1, <1>2, <1>6 DEF Ends
  <2>2. HasEnd(toClient) /\ toClient' = <<>>
    BY <1>4, <2>1
  <2>3. fromPg' = <<>> /\ toPg' = <<>> /\ fromClient' = <<>>
    BY <1>1, <2>2 DEF InStep
  <2>4. \A s : s = <<>> => EndsLast(s) /\ InCycle(s, Len(cycles)) /\ ~HasEnd(s)
    BY NoEnds
  <2> QED
    BY <1>1, <1>5, <2>1, <2>2, <2>3, <2>4 DEF InStep, EndsLast, InCycle, HasEnd, Drained
<1>7. CASE Head(toClient).type # "ready"
  <2>1. ready' = ready
    BY <1>1, <1>7
  <2>2. fromClient' # <<>> /\ Head(fromClient').type = "Q" => FALSE
    BY <1>1 DEF InStep
  <2> QED
    BY <1>1, <1>2, <1>4, <1>5, <2>1, <2>2 DEF InStep, EndsLast, InCycle, HasEnd, Drained
<1> QED
  BY <1>6, <1>7

LEMMA WaitingPass == ASSUME TypeInv, InStep, Pass PROVE InStep'
<1>1. /\ toClient \in Seq(Replies) /\ fromPg \in Seq(Replies) /\ fromPg # <<>>
      /\ toClient' = Append(toClient, Head(fromPg)) /\ fromPg' = Tail(fromPg)
      /\ toPg' = toPg /\ fromClient' = fromClient /\ cycles' = cycles
      /\ ready' = ready /\ strayed' = strayed
  BY DEF Pass, TypeInv, client
<1>2. ready # Len(cycles) /\ ready + 1 = Len(cycles)
  BY <1>1 DEF InStep, Drained
<1>3. EndsLast(fromPg) /\ InCycle(fromPg, Len(cycles)) /\ InCycle(toClient, Len(cycles)) /\ ~HasEnd(toClient)
  BY <1>1 DEF InStep
<1>4. /\ InCycle(fromPg', Len(cycles)) /\ Head(fromPg).cycle = Len(cycles)
      /\ HasEnd(fromPg') => HasEnd(fromPg)
      /\ Head(fromPg).type \in Ends => HasEnd(fromPg)
      /\ EndsLast(fromPg')
      /\ Head(fromPg).type \in Ends => fromPg' = <<>>
  BY <1>1, <1>3, GotEnds
<1>5. Head(fromPg) \in Replies
  BY <1>1, Got
<1>6. /\ InCycle(toClient', Len(cycles)) /\ EndsLast(toClient')
      /\ HasEnd(toClient') => Head(fromPg).type \in Ends
  BY <1>1, <1>3, <1>4, <1>5, PutEnds
<1>7. HasEnd(toClient') => fromPg' = <<>> /\ toPg' = <<>> /\ fromClient' = <<>>
  BY <1>1, <1>4, <1>6 DEF InStep
<1>8. fromClient' # <<>> /\ Head(fromClient').type = "Q" => FALSE
  BY <1>1 DEF InStep
<1> QED
  BY <1>1, <1>2, <1>4, <1>6, <1>7, <1>8 DEF InStep, EndsLast, InCycle, HasEnd, Drained

LEMMA WaitingFilter == ASSUME TypeInv, OrderInv, RefusedParses = {}, InStep, Filter PROVE InStep'
<1> DEFINE m == Head(fromClient)
<1>1. /\ toClient \in Seq(Replies) /\ fromClient \in Seq(Requests) /\ toPg \in Seq(Requests)
      /\ fromClient # <<>> /\ fromClient' = Tail(fromClient)
      /\ toClient' = IF Refuses(m) THEN toClient \o Refusal(m) ELSE toClient
      /\ toPg' = IF Refuses(m) THEN toPg ELSE Append(toPg, m)
      /\ fromPg' = fromPg /\ cycles' = cycles /\ ready' = ready /\ strayed' = strayed
  BY DEF Filter, FilterThen, TypeInv, client
<1>2. ready # Len(cycles) /\ ready + 1 = Len(cycles)
  BY <1>1 DEF InStep, Drained
<1>3. m \in Requests /\ Made(m) /\ fromClient' \in Seq(Requests)
  BY Filtered
<1> HIDE DEF m
<1>4. /\ EndsLast(fromClient) /\ InCycle(fromClient, Len(cycles)) /\ InCycle(toPg, Len(cycles))
      /\ ~HasEnd(toPg) /\ ~HasEnd(toClient) /\ ~HasEnd(fromPg)
  BY <1>1 DEF InStep
<1>5. /\ InCycle(fromClient', Len(cycles)) /\ m.cycle = Len(cycles) /\ EndsLast(fromClient')
      /\ m.type \in Ends => fromClient' = <<>>
  BY <1>1, <1>4, GotEnds DEF m
<1>6. CASE Refuses(m)
  <2>1. m.type = "Q"
    <3>1. m.type = "P" => m.cycle \in RefusedParses
      BY <1>3, <1>6 DEF Made, Refuses, RefusedParses
    <3> QED
      BY <1>6, <3>1 DEF Refuses
  <2>2. fromClient' = <<>> /\ toPg' = <<>> /\ fromPg' = <<>> /\ toClient = <<>>
    BY <1>1, <1>5, <1>6, <2>1 DEF InStep, Ends, m
  <2>3. toClient' = Append(Append(toClient, Msg("error", m.cycle)), Msg("ready", m.cycle))
    BY <1>1, <1>3, <1>6, RefusalSent
  <2>4. /\ Msg("error", m.cycle) \in Replies /\ Msg("ready", m.cycle) \in Replies
        /\ Msg("error", m.cycle).type = "error" /\ Msg("error", m.cycle).cycle = Len(cycles)
        /\ Msg("ready", m.cycle).cycle = Len(cycles)
    BY <1>3, <1>5, Message DEF Requests
  <2> DEFINE s == Append(toClient, Msg("error", m.cycle))
  <2>5. s \in Seq(Replies) /\ ~HasEnd(s) /\ InCycle(s, Len(cycles))
    <3>1. InCycle(toClient, Len(cycles))
      BY DEF InStep
    <3> QED
      BY <1>1, <1>4, <2>4, <3>1, Put, PutEnds DEF Ends
  <2> HIDE DEF s
  <2>6. EndsLast(toClient') /\ InCycle(toClient', Len(cycles))
    BY <2>3, <2>4, <2>5, PutEnds DEF s
  <2>7. \A t : t = <<>> => EndsLast(t) /\ InCycle(t, Len(cycles)) /\ ~HasEnd(t)
    BY NoEnds
  <2> QED
    BY <1>1, <1>2, <2>2, <2>6, <2>7 DEF InStep, EndsLast, InCycle, HasEnd, Drained
<1>7. CASE ~Refuses(m)
  <2>1. toPg' = Append(toPg, m) /\ toClient' = toClient
    BY <1>1, <1>7
  <2>2. /\ InCycle(toPg', Len(cycles)) /\ EndsLast(toPg')
        /\ HasEnd(toPg') => m.type \in Ends
    BY <1>1, <1>3, <1>4, <1>5, <2>1, PutEnds
  <2>3. HasEnd(toPg') => fromClient' = <<>>
    BY <1>5, <2>2
  <2>4. ~(fromClient' # <<>> /\ Head(fromClient').type = "Q")
    <3> SUFFICES ASSUME fromClient' # <<>>, Head(fromClient').type = "Q" PROVE FALSE
      OBVIOUS
    <3> DEFINE n == Head(fromClient')
    <3>1. n \in ToSet(fromClient') /\ n \in Requests
      BY <1>3, Got
    <3>2. n.cycle = Len(cycles)
      BY <1>3, <1>5, GotEnds
    <3>3. Made(n)
      <4>1. ToSet(fromClient') \subseteq ToSet(fromClient)
        BY <1>1, Got
      <4> QED
        BY <3>1, <4>1 DEF OrderInv, Pending
    <3>4. ~cycles[Len(cycles)].extended
      BY <3>2, <3>3 DEF Made
    <3>5. m.type = "Q"
      BY <1>3, <1>5, <3>4 DEF Made
    <3> QED
      BY <1>5, <3>5 DEF Ends
  <2> QED
    BY <1>1, <1>2, <1>4, <1>5, <2>1, <2>2, <2>3, <2>4 DEF InStep, EndsLast, InCycle, HasEnd, Drained
<1> QED
  BY <1>6, <1>7
\* PostgreSQL answers a Query or a Sync with one ReadyForQuery, and nothing else with any.
LEMMA PostgresAnswers ==
    ASSUME TypeInv, OrderInv, NEW m \in ToSet(toPg),
           \/ Discard(m) \/ ExecQuery(m) \/ ExecParse(m) \/ ExecBind(m) \/ ExecExecute(m) \/ ExecSync(m)
    PROVE  \/ skip /\ m.type # "S" /\ fromPg' = fromPg
           \/ m.type \in {"P", "B"} /\ fromPg' = fromPg
           \/ /\ m.type \in {"P", "B", "E"}
              /\ \E a \in {"error", "result"} : fromPg' = Append(fromPg, Msg(a, m.cycle))
           \/ /\ m.type = "Q"
              /\ \E a \in {"error", "result"} :
                    fromPg' = Append(Append(fromPg, Msg(a, m.cycle)), Msg("ready", m.cycle))
           \/ m.type = "S" /\ fromPg' = Append(fromPg, Msg("ready", m.cycle))
<1>0. Take(m)
  BY DEF Discard, ExecQuery, ExecParse, ExecBind, ExecExecute, ExecSync
<1>1. m.cycle \in Nat
  BY <1>0, Taken DEF Requests
<1>2. CASE Discard(m)
  BY <1>2 DEF Discard
<1>3. CASE ExecQuery(m)
  <2>1. PICK a \in {"error", "result"} : Answer(<<a, "ready">>, m.cycle)
    BY <1>3 DEF ExecQuery
  <2>2. m.type = "Q"
    BY <1>3 DEF ExecQuery
  <2>3. fromPg' = Append(Append(fromPg, Msg(a, m.cycle)), Msg("ready", m.cycle))
    BY <1>1, <2>1, Replied
  <2> QED
    BY <2>2, <2>3
<1>4. CASE ExecParse(m)
  <2>1. m.type = "P" /\ (Answer(<<"error">>, m.cycle) \/ fromPg' = fromPg)
    BY <1>4 DEF ExecParse
  <2> QED
    BY <1>1, <2>1, Replied
<1>5. CASE ExecBind(m)
  <2>1. m.type = "B" /\ (Answer(<<"error">>, m.cycle) \/ fromPg' = fromPg)
    BY <1>5 DEF ExecBind
  <2> QED
    BY <1>1, <2>1, Replied
<1>6. CASE ExecExecute(m)
  <2>1. PICK a \in {"error", "result"} : Answer(<<a>>, m.cycle)
    BY <1>6 DEF ExecExecute
  <2>2. m.type = "E"
    BY <1>6 DEF ExecExecute
  <2>3. fromPg' = Append(fromPg, Msg(a, m.cycle))
    BY <1>1, <2>1, Replied
  <2> QED
    BY <2>2, <2>3
<1>7. CASE ExecSync(m)
  <2>1. m.type = "S" /\ Answer(<<"ready">>, m.cycle)
    BY <1>7 DEF ExecSync
  <2> QED
    BY <1>1, <2>1, Replied
<1> QED
  BY <1>2, <1>3, <1>4, <1>5, <1>6, <1>7

LEMMA WaitingPostgres ==
    ASSUME TypeInv, OrderInv, InStep, NEW m \in ToSet(toPg),
           \/ Discard(m) \/ ExecQuery(m) \/ ExecParse(m) \/ ExecBind(m) \/ ExecExecute(m) \/ ExecSync(m)
    PROVE  InStep'
<1>0. Take(m)
  BY DEF Discard, ExecQuery, ExecParse, ExecBind, ExecExecute, ExecSync
<1>1. /\ toPg \in Seq(Requests) /\ fromPg \in Seq(Replies)
      /\ toPg # <<>> /\ toPg' = Tail(toPg) /\ m = Head(toPg)
      /\ toClient' = toClient /\ fromClient' = fromClient /\ cycles' = cycles
      /\ ready' = ready /\ strayed' = strayed
  BY <1>0 DEF Take, TypeInv, client
<1>2. ready # Len(cycles) /\ ready + 1 = Len(cycles)
  BY <1>1 DEF InStep, Drained
<1>3. m \in Requests /\ m.cycle \in Nat
  BY <1>0, Taken DEF Requests
<1>4. /\ EndsLast(toPg) /\ InCycle(toPg, Len(cycles)) /\ InCycle(fromPg, Len(cycles)) /\ EndsLast(fromPg)
      /\ ~HasEnd(toClient) /\ ~HasEnd(fromPg)
  BY <1>1 DEF InStep
<1>5. /\ InCycle(toPg', Len(cycles)) /\ m.cycle = Len(cycles) /\ EndsLast(toPg')
      /\ HasEnd(toPg') => HasEnd(toPg)
      /\ m.type \in Ends => toPg' = <<>> /\ HasEnd(toPg)
  BY <1>1, <1>4, GotEnds
<1>6. \A a \in {"error", "result", "ready"} :
         Msg(a, m.cycle) \in Replies /\ Msg(a, m.cycle).type = a /\ Msg(a, m.cycle).cycle = Len(cycles)
  BY <1>3, <1>5, Message
<1>7. ASSUME NEW a \in {"error", "result"}
      PROVE  LET s == Append(fromPg, Msg(a, m.cycle))
             IN  s \in Seq(Replies) /\ InCycle(s, Len(cycles)) /\ ~HasEnd(s) /\ EndsLast(s)
  <2>1. Msg(a, m.cycle) \in Replies /\ Msg(a, m.cycle).type \notin Ends /\ Msg(a, m.cycle).cycle = Len(cycles)
    BY <1>6 DEF Ends
  <2> QED
    BY <1>1, <1>4, <2>1, Put, PutEnds
<1>8. /\ InCycle(fromPg', Len(cycles)) /\ EndsLast(fromPg')
      /\ HasEnd(fromPg') => m.type \in Ends
  <2>1. CASE fromPg' = fromPg
    BY <1>4, <2>1
  <2>2. CASE \E a \in {"error", "result"} : fromPg' = Append(fromPg, Msg(a, m.cycle))
    BY <1>7, <2>2
  <2>3. CASE /\ m.type = "Q"
             /\ \E a \in {"error", "result"} :
                   fromPg' = Append(Append(fromPg, Msg(a, m.cycle)), Msg("ready", m.cycle))
    <3>1. PICK a \in {"error", "result"} :
              fromPg' = Append(Append(fromPg, Msg(a, m.cycle)), Msg("ready", m.cycle))
      BY <2>3
    <3> DEFINE s == Append(fromPg, Msg(a, m.cycle))
    <3>2. s \in Seq(Replies) /\ InCycle(s, Len(cycles)) /\ ~HasEnd(s)
      BY <1>7
    <3> HIDE DEF s
    <3>3. fromPg' = Append(s, Msg("ready", m.cycle))
      BY <3>1 DEF s
    <3>4. InCycle(fromPg', Len(cycles)) /\ EndsLast(fromPg')
      BY <1>6, <3>2, <3>3, PutEnds
    <3> QED
      BY <2>3, <3>4 DEF Ends
  <2>4. CASE m.type = "S" /\ fromPg' = Append(fromPg, Msg("ready", m.cycle))
    <3>1. InCycle(fromPg', Len(cycles)) /\ EndsLast(fromPg')
      BY <1>1, <1>4, <1>6, <2>4, PutEnds
    <3> QED
      BY <2>4, <3>1 DEF Ends
  <2> QED
    BY <2>1, <2>2, <2>3, <2>4, PostgresAnswers
<1>9. HasEnd(fromPg') => toPg' = <<>> /\ fromClient' = <<>>
  BY <1>1, <1>5, <1>8 DEF InStep
<1>10. HasEnd(toPg') => fromClient' = <<>>
  BY <1>1, <1>5 DEF InStep
<1>11. ~(fromClient' # <<>> /\ Head(fromClient').type = "Q")
  BY <1>1 DEF InStep
<1> QED
  BY <1>1, <1>2, <1>4, <1>5, <1>8, <1>9, <1>10, <1>11 DEF InStep, EndsLast, InCycle, HasEnd, Drained

LEMMA WaitingStep == IInv /\ WaitingInv /\ [Next]_vars => WaitingInv'
<1> SUFFICES ASSUME IInv, WaitingInv, [Next]_vars, patient', RefusedParses' = {} PROVE InStep'
  BY DEF WaitingInv
<1>0. TypeInv /\ OrderInv
  BY DEF IInv
<1>1. patient
  BY DEF Next, StartCycle, Receive, Filter, FilterThen, Pass, Postgres, Discard, ExecQuery, ExecParse,
         ExecBind, ExecExecute, ExecSync, Take, Finished, vars, client
<1>2. RefusedParses = {}
  <2>1. CASE cycles' = cycles
    BY <2>1, SameCycles
  <2>2. ASSUME NEW text \in Texts, NEW extended \in BOOLEAN, StartCycle(text, extended)
        PROVE  RefusedParses = {}
    <3>1. \A d \in DOMAIN cycles : d \in DOMAIN cycles' /\ cycles'[d] = cycles[d]
      BY <1>0, <2>2, CycleStarted
    <3> QED
      BY <3>1 DEF RefusedParses
  <2>3. \/ cycles' = cycles
        \/ \E text \in Texts, extended \in BOOLEAN : StartCycle(text, extended)
    BY DEF Next, Receive, Filter, FilterThen, Pass, Postgres, Discard, ExecQuery, ExecParse,
           ExecBind, ExecExecute, ExecSync, Take, Finished, vars, client
  <2> QED
    BY <2>1, <2>2, <2>3
<1>3. InStep
  BY <1>1, <1>2 DEF WaitingInv
<1>4. ASSUME NEW text \in Texts, NEW extended \in BOOLEAN, StartCycle(text, extended) PROVE InStep'
  BY <1>0, <1>1, <1>3, <1>4, WaitingStart
<1>5. ASSUME Receive PROVE InStep'
  BY <1>0, <1>3, <1>5, WaitingReceive
<1>6. ASSUME Filter PROVE InStep'
  BY <1>0, <1>2, <1>3, <1>6, WaitingFilter
<1>7. ASSUME Pass PROVE InStep'
  BY <1>0, <1>3, <1>7, WaitingPass
<1>8. ASSUME Postgres PROVE InStep'
  BY <1>0, <1>3, <1>8, WaitingPostgres DEF Postgres
<1>9. ASSUME UNCHANGED vars PROVE InStep'
  BY <1>3, <1>9 DEF InStep, EndsLast, InCycle, HasEnd, Drained, vars, client
<1> QED
  BY <1>4, <1>5, <1>6, <1>7, <1>8, <1>9 DEF Next, Finished

(***************************************************************************)
(* A client that waits for each cycle to be over never takes an answer for *)
(* that of another cycle, as long as only simple queries are refused.      *)
(***************************************************************************)
THEOREM WaitingStaysInStep == Spec => []WaitingClientInStep
<1>1. Init => WaitingInv
  <2> SUFFICES ASSUME Init PROVE InStep
    BY DEF WaitingInv
  <2>1. /\ cycles = <<>> /\ Len(cycles) = 0 /\ ready = 0 /\ strayed = FALSE
        /\ toPg = <<>> /\ fromClient = <<>> /\ fromPg = <<>> /\ toClient = <<>>
    BY DEF Init
  <2>2. \A s : s = <<>> => EndsLast(s) /\ InCycle(s, Len(cycles)) /\ ~HasEnd(s)
    BY NoEnds
  <2> QED
    BY <2>1, <2>2 DEF InStep, Drained
<1>2. WaitingInv => WaitingClientInStep
  BY DEF WaitingInv, InStep, WaitingClientInStep
<1> QED
  BY <1>1, <1>2, Invariant, WaitingStep, PTL DEF Spec
-----------------------------------------------------------------------------
(* The count of ReadyForQuery.                                             *)

\* What an interval's subset counts.
LEMMA FinitePart ==
    ASSUME NEW n \in Nat, NEW A, A \subseteq 1 .. n
    PROVE  IsFiniteSet(A) /\ Cardinality(A) \in Nat
<1>1. IsFiniteSet(1 .. n)
  BY FS_Interval
<1>2. IsFiniteSet(A)
  BY <1>1, FS_Subset
<1> QED
  BY <1>2, FS_CardinalityType

LEMMA CountEmpty == ASSUME NEW T PROVE Count(<<>>, T) = 0
<1>1. {i \in 1 .. Len(<<>>) : <<>>[i].type \in T} = {}
  OBVIOUS
<1> QED
  BY <1>1, FS_EmptySet DEF Count

LEMMA CountPut ==
    ASSUME NEW S, NEW s \in Seq(S), NEW e \in S, NEW T
    PROVE  /\ Count(s, T) \in Nat
           /\ e.type \in T => Count(Append(s, e), T) = Count(s, T) + 1
           /\ e.type \notin T => Count(Append(s, e), T) = Count(s, T)
<1> DEFINE t == Append(s, e)
           A == {i \in 1 .. Len(s) : s[i].type \in T}
           B == {i \in 1 .. Len(t) : t[i].type \in T}
<1>1. /\ Len(s) \in Nat /\ Len(t) = Len(s) + 1 /\ t[Len(s) + 1] = e
      /\ \A i \in 1 .. Len(s) : t[i] = s[i]
      /\ 1 .. Len(s) + 1 = 1 .. Len(s) \cup {Len(s) + 1}
  BY Put
<1>2. Count(s, T) = Cardinality(A) /\ Count(t, T) = Cardinality(B)
  BY DEF Count
<1>3. IsFiniteSet(A) /\ Cardinality(A) \in Nat
  BY <1>1, FinitePart
<1> HIDE DEF t
<1>4. Len(s) + 1 \notin A
  BY <1>1
<1>5. e.type \in T => B = A \cup {Len(s) + 1}
  BY <1>1
<1>6. e.type \notin T => B = A
  BY <1>1
<1> HIDE DEF A, B
<1>7. Cardinality(A \cup {Len(s) + 1}) = Cardinality(A) + 1
  BY <1>3, <1>4, FS_AddElement
<1> QED
  BY <1>2, <1>3, <1>5, <1>6, <1>7 DEF t

LEMMA CountGot ==
    ASSUME NEW S, NEW s \in Seq(S), s # <<>>, NEW T
    PROVE  /\ Count(s, T) \in Nat /\ Count(Tail(s), T) \in Nat
           /\ Head(s).type \in T => Count(s, T) = Count(Tail(s), T) + 1
           /\ Head(s).type \notin T => Count(s, T) = Count(Tail(s), T)
<1> DEFINE t == Tail(s)
           A == {i \in 1 .. Len(s) : s[i].type \in T}
           B == {i \in 1 .. Len(t) : t[i].type \in T}
           C == A \ {1}
           f == [i \in B |-> i + 1]
<1>1. /\ Head(s) = s[1] /\ t \in Seq(S) /\ Len(s) \in Nat \ {0} /\ Len(t) = Len(s) - 1 /\ Len(t) \in Nat
      /\ \A i \in 1 .. Len(s) - 1 : t[i] = s[i + 1]
  BY Got
<1>2. Count(s, T) = Cardinality(A) /\ Count(t, T) = Cardinality(B)
  BY DEF Count
<1>3. IsFiniteSet(A) /\ Cardinality(A) \in Nat /\ IsFiniteSet(B) /\ Cardinality(B) \in Nat
  BY <1>1, FinitePart
<1> HIDE DEF t
<1>4. 1 \in A <=> Head(s).type \in T
  BY <1>1
<1>5. \A i \in B : i \in Nat /\ i + 1 \in C
  BY <1>1
<1>6. \A j \in C : j - 1 \in B /\ (j - 1) + 1 = j
  BY <1>1
<1> HIDE DEF A, B, C
<1>7. f \in Bijection(B, C)
  <2>1. f \in [B -> C]
    BY <1>5
  <2>2. \A a, b \in B : f[a] = f[b] => a = b
    BY <1>5
  <2>3. \A j \in C : \E i \in B : f[i] = j
    BY <1>6
  <2> QED
    BY <2>1, <2>2, <2>3, Fun_IsBij
<1>8. Cardinality(C) = Cardinality(B)
  BY <1>3, <1>7, FS_Bijection, Fun_ExistsBij
<1>9. Cardinality(C) = IF 1 \in A THEN Cardinality(A) - 1 ELSE Cardinality(A)
  BY <1>3, FS_RemoveElement DEF C
<1> QED
  BY <1>2, <1>3, <1>4, <1>8, <1>9 DEF t
\* All the counts are natural numbers.
LEMMA Counts ==
    ASSUME TypeInv
    PROVE  /\ ready \in Nat /\ Len(cycles) \in Nat
           /\ Readies(toClient) \in Nat /\ Readies(fromPg) \in Nat
           /\ Closers(toPg) \in Nat /\ Closers(fromClient) \in Nat
           /\ IsFiniteSet(Answered) /\ Cardinality(Answered) \in Nat
<1>1. /\ ready \in Nat /\ Len(cycles) \in Nat /\ Len(toClient) \in Nat /\ Len(fromPg) \in Nat
      /\ Len(toPg) \in Nat /\ Len(fromClient) \in Nat /\ DOMAIN cycles = 1 .. Len(cycles)
  BY DEF TypeInv
<1>2. Answered \subseteq 1 .. Len(cycles)
  BY <1>1 DEF Answered, RefusedParses
<1> QED
  BY <1>1, <1>2, FinitePart DEF Count, Readies, Closers

\* A new cycle is one more to be made ready for, and nothing of it is answered.
LEMMA BalanceStart ==
    ASSUME TypeInv, OrderInv, BalanceInv, NEW text \in Texts, NEW extended \in BOOLEAN,
           StartCycle(text, extended), NEW c, c = Len(cycles) + 1
    PROVE  BalanceInv'
<1>0. /\ ready \in Nat /\ Len(cycles) \in Nat
      /\ Readies(toClient) \in Nat /\ Readies(fromPg) \in Nat
      /\ Closers(toPg) \in Nat /\ Closers(fromClient) \in Nat
      /\ Cardinality(Answered) \in Nat
      /\ ready + Readies(toClient) + Readies(fromPg)
             + Closers(toPg) + Closers(fromClient)
           = Len(cycles) + Cardinality(Answered)
  BY Counts DEF BalanceInv
<1>1. /\ c \in Nat /\ Len(cycles') = Len(cycles) + 1 /\ Len(cycles) \in Nat
      /\ DOMAIN cycles' = DOMAIN cycles \cup {c} /\ c \notin DOMAIN cycles
      /\ \A d \in DOMAIN cycles : cycles'[d] = cycles[d]
      /\ extended => fromClient' = Append(Append(Append(Append(fromClient,
                         Msg("P", c)), Msg("B", c)), Msg("E", c)), Msg("S", c))
      /\ ~extended => fromClient' = Append(fromClient, Msg("Q", c))
  BY CycleStarted
<1>2. cycles'[c].extended = extended
  BY CycleStarted
<1>3. /\ fromClient \in Seq(Requests)
      /\ toClient' = toClient /\ fromPg' = fromPg /\ toPg' = toPg /\ ready' = ready
  BY DEF TypeInv, StartCycle
<1>4. /\ Msg("P", c) \in Requests /\ Msg("B", c) \in Requests /\ Msg("E", c) \in Requests
      /\ Msg("S", c) \in Requests /\ Msg("Q", c) \in Requests
      /\ \A t : Msg(t, c).type = t
  BY <1>1, Message DEF RequestTypes
<1>5. Closers(fromClient') = Closers(fromClient) + 1
  <2>1. CASE extended
    <3> DEFINE s1 == Append(fromClient, Msg("P", c))
               s2 == Append(s1, Msg("B", c))
               s3 == Append(s2, Msg("E", c))
               s4 == Append(s3, Msg("S", c))
    <3>0. fromClient' = s4
      BY <1>1, <2>1
    <3> HIDE DEF s4
    <3>1. s1 \in Seq(Requests) /\ Closers(s1) = Closers(fromClient)
      BY <1>3, <1>4, Put, CountPut DEF Readies, Closers
    <3> HIDE DEF s1
    <3>2. s2 \in Seq(Requests) /\ Closers(s2) = Closers(s1)
      BY <1>4, <3>1, Put, CountPut DEF Readies, Closers
    <3> HIDE DEF s2
    <3>3. s3 \in Seq(Requests) /\ Closers(s3) = Closers(s2)
      BY <1>4, <3>2, Put, CountPut DEF Readies, Closers
    <3> HIDE DEF s3
    <3>4. Closers(s4) = Closers(s3) + 1
      BY <1>4, <3>3, CountPut DEF s4, Readies, Closers
    <3> QED
      BY <3>0, <3>1, <3>2, <3>3, <3>4
  <2>2. CASE ~extended
    <3>1. fromClient' = Append(fromClient, Msg("Q", c))
      BY <1>1, <2>2
    <3> QED
      BY <1>3, <1>4, <3>1, CountPut DEF Readies, Closers
  <2> QED
    BY <2>1, <2>2
<1>6. ToSet(fromClient') = ToSet(fromClient) \cup RequestsOf(extended, c)
  BY RequestsJoin
<1>7. Answered' = Answered
  <2>1. c \notin Answered'
    <3>1. c \in RefusedParses' => extended
      BY <1>2 DEF RefusedParses
    <3>2. extended => Msg("P", c) \in ToSet(fromClient')
      BY <1>6 DEF RequestsOf, TypesOf
    <3> QED
      BY <3>1, <3>2 DEF Answered, Msg
  <2>2. \A d \in DOMAIN cycles : d \in RefusedParses' <=> d \in RefusedParses
    BY <1>1 DEF RefusedParses
  <2>3. \A d \in DOMAIN cycles : Msg("P", d) \in ToSet(fromClient') <=> Msg("P", d) \in ToSet(fromClient)
    BY <1>1, <1>6, Message DEF RequestsOf
  <2>4. Answered \subseteq DOMAIN cycles /\ Answered' \subseteq DOMAIN cycles \cup {c}
    BY <1>1 DEF Answered, RefusedParses
  <2>5. \A d \in DOMAIN cycles : d \in Answered' <=> d \in Answered
    BY <2>2, <2>3 DEF Answered, Msg
  <2> QED
    BY <1>1, <2>1, <2>4, <2>5
<1>8. ready' + Readies(toClient') + Readies(fromPg')
          + Closers(toPg') + Closers(fromClient')
        = Len(cycles') + Cardinality(Answered')
  <2>1. /\ Readies(toClient') = Readies(toClient) /\ Readies(fromPg') = Readies(fromPg)
        /\ Closers(toPg') = Closers(toPg) /\ Cardinality(Answered') = Cardinality(Answered)
        /\ ready' = ready /\ Len(cycles') = Len(cycles) + 1
    BY <1>1, <1>3, <1>7
  <2> QED
    BY <1>0, <1>5, <2>1
<1> QED
  BY <1>8 DEF BalanceInv, Count, Readies, Closers, Answered

\* A ReadyForQuery that is received is counted by the client.
LEMMA BalanceReceive == ASSUME TypeInv, BalanceInv, Receive PROVE BalanceInv'
<1>0. /\ ready \in Nat /\ Len(cycles) \in Nat
      /\ Readies(toClient) \in Nat /\ Readies(fromPg) \in Nat
      /\ Closers(toPg) \in Nat /\ Closers(fromClient) \in Nat
      /\ Cardinality(Answered) \in Nat
      /\ ready + Readies(toClient) + Readies(fromPg)
             + Closers(toPg) + Closers(fromClient)
           = Len(cycles) + Cardinality(Answered)
  BY Counts DEF BalanceInv
<1>1. /\ toClient \in Seq(Replies) /\ toClient # <<>> /\ toClient' = Tail(toClient)
      /\ fromPg' = fromPg /\ toPg' = toPg /\ fromClient' = fromClient /\ cycles' = cycles
      /\ ready' = IF Head(toClient).type = "ready" THEN ready + 1 ELSE ready
  BY DEF Receive, TypeInv, pg
<1>2. /\ Readies(toClient') \in Nat
      /\ Head(toClient).type = "ready" => Readies(toClient) = Readies(toClient') + 1
      /\ Head(toClient).type # "ready" => Readies(toClient) = Readies(toClient')
  BY <1>1, CountGot DEF Readies, Closers
<1>3. Answered' = Answered
  BY <1>1 DEF Answered, RefusedParses, Msg
<1>4. ready' + Readies(toClient') + Readies(fromPg')
          + Closers(toPg') + Closers(fromClient')
        = Len(cycles') + Cardinality(Answered')
  <2>1. /\ Readies(fromPg') = Readies(fromPg) /\ Len(cycles') = Len(cycles)
        /\ Closers(toPg') = Closers(toPg) /\ Closers(fromClient') = Closers(fromClient)
        /\ Cardinality(Answered') = Cardinality(Answered)
    BY <1>1, <1>3
  <2>2. CASE Head(toClient).type = "ready"
    <3>1. ready' = ready + 1 /\ Readies(toClient') = Readies(toClient) - 1
      BY <1>0, <1>1, <1>2, <2>2
    <3> QED
      BY <1>0, <2>1, <3>1
  <2>3. CASE Head(toClient).type # "ready"
    <3>1. ready' = ready /\ Readies(toClient') = Readies(toClient)
      BY <1>1, <1>2, <2>3
    <3> QED
      BY <1>0, <2>1, <3>1
  <2> QED
    BY <2>2, <2>3
<1> QED
  BY <1>4 DEF BalanceInv, Count, Readies, Closers, Answered

\* A relayed answer is on its way still.
LEMMA BalancePass == ASSUME TypeInv, BalanceInv, Pass PROVE BalanceInv'
<1>0. /\ ready \in Nat /\ Len(cycles) \in Nat
      /\ Readies(toClient) \in Nat /\ Readies(fromPg) \in Nat
      /\ Closers(toPg) \in Nat /\ Closers(fromClient) \in Nat
      /\ Cardinality(Answered) \in Nat
      /\ ready + Readies(toClient) + Readies(fromPg)
             + Closers(toPg) + Closers(fromClient)
           = Len(cycles) + Cardinality(Answered)
  BY Counts DEF BalanceInv
<1>1. /\ toClient \in Seq(Replies) /\ fromPg \in Seq(Replies) /\ fromPg # <<>>
      /\ toClient' = Append(toClient, Head(fromPg)) /\ fromPg' = Tail(fromPg)
      /\ toPg' = toPg /\ fromClient' = fromClient /\ cycles' = cycles /\ ready' = ready
  BY DEF Pass, TypeInv, client
<1>2. Head(fromPg) \in Replies
  BY <1>1, Got
<1>3. /\ Readies(fromPg') \in Nat
      /\ Head(fromPg).type = "ready" => Readies(fromPg) = Readies(fromPg') + 1
      /\ Head(fromPg).type # "ready" => Readies(fromPg) = Readies(fromPg')
  BY <1>1, CountGot DEF Readies, Closers
<1>4. /\ Head(fromPg).type = "ready" => Readies(toClient') = Readies(toClient) + 1
      /\ Head(fromPg).type # "ready" => Readies(toClient') = Readies(toClient)
  BY <1>1, <1>2, CountPut DEF Readies, Closers
<1>5. Answered' = Answered
  BY <1>1 DEF Answered, RefusedParses, Msg
<1>6. ready' + Readies(toClient') + Readies(fromPg')
          + Closers(toPg') + Closers(fromClient')
        = Len(cycles') + Cardinality(Answered')
  <2>1. /\ ready' = ready /\ Len(cycles') = Len(cycles)
        /\ Closers(toPg') = Closers(toPg) /\ Closers(fromClient') = Closers(fromClient)
        /\ Cardinality(Answered') = Cardinality(Answered)
    BY <1>1, <1>5
  <2>2. CASE Head(fromPg).type = "ready"
    <3>1. Readies(fromPg') = Readies(fromPg) - 1 /\ Readies(toClient') = Readies(toClient) + 1
      BY <1>0, <1>3, <1>4, <2>2
    <3> QED
      BY <1>0, <2>1, <3>1
  <2>3. CASE Head(fromPg).type # "ready"
    <3>1. Readies(fromPg') = Readies(fromPg) /\ Readies(toClient') = Readies(toClient)
      BY <1>3, <1>4, <2>3
    <3> QED
      BY <1>0, <2>1, <3>1
  <2> QED
    BY <2>2, <2>3
<1> QED
  BY <1>6 DEF BalanceInv, Count, Readies, Closers, Answered

\* A refusal makes up for a Query that goes no further; for a Parse it comes on top.
LEMMA BalanceFilter == ASSUME TypeInv, OrderInv, BalanceInv, Filter PROVE BalanceInv'
<1> DEFINE m == Head(fromClient)
<1>0. /\ ready \in Nat /\ Len(cycles) \in Nat
      /\ Readies(toClient) \in Nat /\ Readies(fromPg) \in Nat
      /\ Closers(toPg) \in Nat /\ Closers(fromClient) \in Nat
      /\ Cardinality(Answered) \in Nat
      /\ ready + Readies(toClient) + Readies(fromPg)
             + Closers(toPg) + Closers(fromClient)
           = Len(cycles) + Cardinality(Answered)
  BY Counts DEF BalanceInv
<1>n. PICK r, a, b, d, e, n, k \in Nat :
          /\ ready = r /\ Readies(toClient) = a /\ Readies(fromPg) = b /\ Closers(toPg) = d
          /\ Closers(fromClient) = e /\ Len(cycles) = n /\ Cardinality(Answered) = k
  BY <1>0
<1>s. r + a + b + d + e = n + k
  BY <1>0, <1>n, Zenon
<1>1. /\ toClient \in Seq(Replies) /\ fromClient \in Seq(Requests) /\ toPg \in Seq(Requests)
      /\ fromClient # <<>> /\ fromClient' = Tail(fromClient)
      /\ toClient' = IF Refuses(m) THEN toClient \o Refusal(m) ELSE toClient
      /\ toPg' = IF Refuses(m) THEN toPg ELSE Append(toPg, m)
      /\ fromPg' = fromPg /\ cycles' = cycles /\ ready' = ready
  BY DEF Filter, FilterThen, TypeInv, client
<1>2. m \in Requests /\ m \in ToSet(fromClient) /\ Made(m) /\ ToSet(fromClient') = ToSet(fromClient) \ {m}
  BY Filtered
<1>3. /\ Closers(fromClient') \in Nat
      /\ m.type \in {"Q", "S"} => Closers(fromClient) = Closers(fromClient') + 1
      /\ m.type \notin {"Q", "S"} => Closers(fromClient) = Closers(fromClient')
  BY <1>1, CountGot DEF Readies, Closers
<1> HIDE DEF m
<1>4. m.type = "P" => m = Msg("P", m.cycle)
  BY <1>2, Message
<1>5. m.type # "P" => \A c : Msg("P", c) # m
  BY Message
<1>6. RefusedParses' = RefusedParses
  BY <1>1, SameCycles
<1>7. CASE Refuses(m)
  <2>1. toPg' = toPg /\ m.type \in {"Q", "P"}
    BY <1>1, <1>7 DEF Refuses
  <2>2. Readies(toClient') = Readies(toClient) + 1
    <3> DEFINE s == Append(toClient, Msg("error", m.cycle))
    <3>1. toClient' = Append(s, Msg("ready", m.cycle)) /\ s \in Seq(Replies)
      BY <1>1, <1>2, <1>7, RefusalSent
    <3>2. /\ Msg("error", m.cycle) \in Replies /\ Msg("ready", m.cycle) \in Replies
          /\ Msg("error", m.cycle).type = "error" /\ Msg("ready", m.cycle).type = "ready"
      BY <1>2, Message DEF Requests
    <3>3. Readies(s) = Readies(toClient)
      BY <1>1, <3>2, CountPut DEF Readies, Closers
    <3> HIDE DEF s
    <3>4. Readies(toClient') = Readies(s) + 1
      BY <3>1, <3>2, CountPut DEF Readies, Closers
    <3> QED
      BY <3>3, <3>4
  <2>3. CASE m.type = "Q"
    <3>1. Answered' = Answered
      BY <1>2, <1>5, <1>6, <2>3 DEF Answered, Msg
    <3>2. ready' + Readies(toClient') + Readies(fromPg')
              + Closers(toPg') + Closers(fromClient')
            = Len(cycles') + Cardinality(Answered')
      <4>1. /\ ready' = ready /\ Len(cycles') = Len(cycles) /\ Readies(fromPg') = Readies(fromPg)
            /\ Closers(toPg') = Closers(toPg) /\ Cardinality(Answered') = Cardinality(Answered)
        BY <1>1, <2>1, <3>1
      <4>2. Closers(fromClient') = Closers(fromClient) - 1
        BY <1>0, <1>3, <2>3
      <4> QED
        <5>1. ready' + Readies(toClient') + Readies(fromPg') + Closers(toPg') + Closers(fromClient')
                = r + (a + 1) + b + d + (e - 1)
          BY <1>n, <2>2, <4>1, <4>2, Zenon
        <5>2. @ = n + k
          BY <1>s
        <5> QED
          BY <1>n, <4>1, <5>1, <5>2, Zenon
    <3> QED
      BY <3>2 DEF BalanceInv, Count, Readies, Closers, Answered
  <2>4. CASE m.type = "P"
    <3>1. m.cycle \in RefusedParses /\ m.cycle \notin Answered
      BY <1>2, <1>4, <1>7, <2>4 DEF Made, Refuses, RefusedParses, Answered
    <3>2. \A c : Msg("P", c) = m <=> c = m.cycle
      BY <1>4, <2>4, Message
    <3>3. Answered' = Answered \cup {m.cycle}
      BY <1>2, <1>6, <3>1, <3>2 DEF Answered, Msg
    <3>4. Cardinality(Answered') = Cardinality(Answered) + 1
      BY <3>1, <3>3, Counts, FS_AddElement
    <3>5. ready' + Readies(toClient') + Readies(fromPg')
              + Closers(toPg') + Closers(fromClient')
            = Len(cycles') + Cardinality(Answered')
      <4>1. /\ ready' = ready /\ Len(cycles') = Len(cycles) /\ Readies(fromPg') = Readies(fromPg)
            /\ Closers(toPg') = Closers(toPg)
        BY <1>1, <2>1
      <4>2. Closers(fromClient') = Closers(fromClient)
        BY <1>3, <2>4
      <4> QED
        <5>1. ready' + Readies(toClient') + Readies(fromPg') + Closers(toPg') + Closers(fromClient')
                = r + (a + 1) + b + d + e
          BY <1>n, <2>2, <4>1, <4>2, Zenon
        <5>2. @ = n + (k + 1)
          BY <1>s
        <5> QED
          BY <1>n, <3>4, <4>1, <5>1, <5>2, Zenon
    <3> QED
      BY <3>5 DEF BalanceInv, Count, Readies, Closers, Answered
  <2> QED
    BY <2>1, <2>3, <2>4
<1>8. CASE ~Refuses(m)
  <2>1. toPg' = Append(toPg, m) /\ toClient' = toClient
    BY <1>1, <1>8
  <2>2. /\ m.type \in {"Q", "S"} => Closers(toPg') = Closers(toPg) + 1
        /\ m.type \notin {"Q", "S"} => Closers(toPg') = Closers(toPg)
    BY <1>1, <1>2, <2>1, CountPut DEF Readies, Closers
  <2>3. \A c \in RefusedParses : Msg("P", c) # m
    BY <1>8, Message DEF Refuses, RefusedParses
  <2>4. Answered' = Answered
    BY <1>2, <1>6, <2>3 DEF Answered, Msg
  <2>5. ready' + Readies(toClient') + Readies(fromPg')
            + Closers(toPg') + Closers(fromClient')
          = Len(cycles') + Cardinality(Answered')
    <3>1. /\ ready' = ready /\ Len(cycles') = Len(cycles) /\ Readies(fromPg') = Readies(fromPg)
          /\ Readies(toClient') = Readies(toClient) /\ Cardinality(Answered') = Cardinality(Answered)
      BY <1>1, <2>1, <2>4
    <3>2. CASE m.type \in {"Q", "S"}
      <4>1. Closers(fromClient') = Closers(fromClient) - 1 /\ Closers(toPg') = Closers(toPg) + 1
        BY <1>0, <1>3, <2>2, <3>2
      <4> QED
        BY <1>0, <3>1, <4>1
    <3>3. CASE m.type \notin {"Q", "S"}
      <4>1. Closers(fromClient') = Closers(fromClient) /\ Closers(toPg') = Closers(toPg)
        BY <1>3, <2>2, <3>3
      <4> QED
        BY <1>0, <3>1, <4>1
    <3> QED
      BY <3>2, <3>3
  <2> QED
    BY <2>5 DEF BalanceInv, Count, Readies, Closers, Answered
<1> QED
  BY <1>7, <1>8
\* A Query or a Sync is answered by one ReadyForQuery, and no Query is discarded.
LEMMA BalancePostgres ==
    ASSUME TypeInv, OrderInv, SkipInv, BalanceInv, NEW m \in ToSet(toPg),
           \/ Discard(m) \/ ExecQuery(m) \/ ExecParse(m) \/ ExecBind(m) \/ ExecExecute(m) \/ ExecSync(m)
    PROVE  BalanceInv'
<1>0. Take(m)
  BY DEF Discard, ExecQuery, ExecParse, ExecBind, ExecExecute, ExecSync
<1>1. /\ toPg \in Seq(Requests) /\ fromPg \in Seq(Replies)
      /\ toPg # <<>> /\ toPg' = Tail(toPg) /\ m = Head(toPg)
      /\ toClient' = toClient /\ fromClient' = fromClient /\ cycles' = cycles /\ ready' = ready
  BY <1>0 DEF Take, TypeInv, client
<1>2. /\ m \in Requests /\ m \in Pending /\ Made(m) /\ m.cycle \in Nat /\ Pending' = Pending \ {m}
      /\ \A n \in Pending' : n \in Requests /\ Rank(m) < Rank(n) /\ m.cycle =< n.cycle
  BY <1>0, Taken DEF Requests
<1>3. /\ Closers(toPg) \in Nat /\ Closers(toPg') \in Nat
      /\ m.type \in {"Q", "S"} => Closers(toPg) = Closers(toPg') + 1
      /\ m.type \notin {"Q", "S"} => Closers(toPg) = Closers(toPg')
  BY <1>1, CountGot DEF Readies, Closers
<1>4. ASSUME skip PROVE m.type # "Q"
  <2>1. PICK c \in DOMAIN cycles :
            cycles[c].extended /\ Msg("S", c) \in Pending /\ \A n \in Pending : c =< n.cycle
    BY <1>4 DEF SkipInv
  <2>2. c \in Nat /\ Msg("S", c).type = "S" /\ Msg("S", c).cycle = c
    BY Message DEF TypeInv
  <2>3. CASE m = Msg("S", c)
    BY <2>2, <2>3
  <2>4. CASE m # Msg("S", c)
    <3>1. m.cycle =< c /\ c =< m.cycle
      BY <1>2, <2>1, <2>2, <2>4
    <3>2. m.cycle = c
      BY <1>2, <2>2, <3>1
    <3> QED
      BY <1>2, <2>1, <3>2 DEF Made
  <2> QED
    BY <2>3, <2>4
<1>5. \A a \in {"error", "result", "ready"} : Msg(a, m.cycle) \in Replies /\ Msg(a, m.cycle).type = a
  BY <1>2, Message
<1>6. \A a \in {"error", "result"} :
         /\ Append(fromPg, Msg(a, m.cycle)) \in Seq(Replies)
         /\ Readies(Append(fromPg, Msg(a, m.cycle))) = Readies(fromPg)
  <2> SUFFICES ASSUME NEW a \in {"error", "result"}
               PROVE  /\ Append(fromPg, Msg(a, m.cycle)) \in Seq(Replies)
                      /\ Readies(Append(fromPg, Msg(a, m.cycle))) = Readies(fromPg)
    OBVIOUS
  <2>1. Msg(a, m.cycle) \in Replies /\ Msg(a, m.cycle).type \notin {"ready"}
    BY <1>5
  <2> QED
    BY <1>1, <2>1, Put, CountPut DEF Readies
<1>7. \A s \in Seq(Replies) : Readies(Append(s, Msg("ready", m.cycle))) = Readies(s) + 1
  <2>1. Msg("ready", m.cycle) \in Replies /\ Msg("ready", m.cycle).type \in {"ready"}
    BY <1>5
  <2> QED
    BY <2>1, CountPut DEF Readies
<1>8. \/ m.type \notin {"Q", "S"} /\ Readies(fromPg') = Readies(fromPg)
      \/ m.type \in {"Q", "S"} /\ Readies(fromPg') = Readies(fromPg) + 1
  <2>1. CASE skip /\ m.type # "S" /\ fromPg' = fromPg
    BY <1>4, <2>1
  <2>2. CASE m.type \in {"P", "B"} /\ fromPg' = fromPg
    BY <2>2
  <2>3. CASE /\ m.type \in {"P", "B", "E"}
             /\ \E a \in {"error", "result"} : fromPg' = Append(fromPg, Msg(a, m.cycle))
    BY <1>6, <2>3
  <2>4. CASE /\ m.type = "Q"
             /\ \E a \in {"error", "result"} :
                   fromPg' = Append(Append(fromPg, Msg(a, m.cycle)), Msg("ready", m.cycle))
    BY <1>6, <1>7, <2>4
  <2>5. CASE m.type = "S" /\ fromPg' = Append(fromPg, Msg("ready", m.cycle))
    BY <1>1, <1>7, <2>5
  <2> QED
    BY <2>1, <2>2, <2>3, <2>4, <2>5, PostgresAnswers
<1>9. PICK r, a, b, d, e, n, k \in Nat :
          /\ ready = r /\ Readies(toClient) = a /\ Readies(fromPg) = b /\ Closers(toPg) = d
          /\ Closers(fromClient) = e /\ Len(cycles) = n /\ Cardinality(Answered) = k
  BY Counts
<1>10. r + a + b + d + e = n + k
  BY <1>9, Zenon DEF BalanceInv
<1>11. /\ ready' = r /\ Readies(toClient') = a /\ Closers(fromClient') = e /\ Len(cycles') = n
       /\ Cardinality(Answered') = k
  <2>1. Answered' = Answered
    BY <1>1 DEF Answered, RefusedParses, Msg
  <2> QED
    BY <1>1, <1>9, <2>1
<1>12. ready' + Readies(toClient') + Readies(fromPg') + Closers(toPg') + Closers(fromClient')
          = Len(cycles') + Cardinality(Answered')
  <2>1. CASE Readies(fromPg') = b /\ Closers(toPg') = d
    BY <1>10, <1>11, <2>1, Zenon
  <2>2. CASE Readies(fromPg') = b + 1 /\ Closers(toPg') = d - 1
    <3>1. r + a + (b + 1) + (d - 1) + e = n + k
      BY <1>10
    <3> QED
      BY <1>11, <2>2, <3>1, Zenon
  <2>3. \/ Readies(fromPg') = b /\ Closers(toPg') = d
        \/ Readies(fromPg') = b + 1 /\ Closers(toPg') = d - 1
    <3>1. CASE m.type \in {"Q", "S"}
      BY <1>3, <1>8, <1>9, <3>1
    <3>2. CASE m.type \notin {"Q", "S"}
      BY <1>3, <1>8, <1>9, <3>2
    <3> QED
      BY <3>1, <3>2
  <2> QED
    BY <2>1, <2>2, <2>3
<1> QED
  BY <1>12 DEF BalanceInv, Count, Readies, Closers, Answered

LEMMA BalanceStep == IInv /\ BalanceInv /\ [Next]_vars => BalanceInv'
<1> SUFFICES ASSUME IInv, BalanceInv, [Next]_vars PROVE BalanceInv'
  OBVIOUS
<1>0. TypeInv /\ OrderInv /\ SkipInv
  BY DEF IInv
<1>1. ASSUME NEW text \in Texts, NEW extended \in BOOLEAN, StartCycle(text, extended) PROVE BalanceInv'
  BY <1>0, <1>1, BalanceStart
<1>2. ASSUME Receive PROVE BalanceInv'
  BY <1>0, <1>2, BalanceReceive
<1>3. ASSUME Filter PROVE BalanceInv'
  BY <1>0, <1>3, BalanceFilter
<1>4. ASSUME Pass PROVE BalanceInv'
  BY <1>0, <1>4, BalancePass
<1>5. ASSUME Postgres PROVE BalanceInv'
  BY <1>0, <1>5, BalancePostgres DEF Postgres
<1>6. ASSUME UNCHANGED vars PROVE BalanceInv'
  BY <1>6 DEF BalanceInv, Count, Readies, Closers, Answered, RefusedParses, Msg, vars, client
<1> QED
  BY <1>1, <1>2, <1>3, <1>4, <1>5, <1>6 DEF Next, Finished

(***************************************************************************)
(* When nothing is under way the client has received one ReadyForQuery for *)
(* each cycle, and one more for each Parse that was refused.               *)
(***************************************************************************)
THEOREM ReadyForQueryBalanced == Spec => []ReadyBalanced
<1>1. Init => BalanceInv
  <2> SUFFICES ASSUME Init PROVE BalanceInv
    OBVIOUS
  <2>1. /\ cycles = <<>> /\ Len(cycles) = 0 /\ DOMAIN cycles = {} /\ ready = 0
        /\ toPg = <<>> /\ fromClient = <<>> /\ fromPg = <<>> /\ toClient = <<>>
    BY DEF Init
  <2>2. Answered = {} /\ Cardinality(Answered) = 0
    BY <2>1, FS_EmptySet DEF Answered, RefusedParses
  <2>3. Readies(toClient) = 0 /\ Readies(fromPg) = 0 /\ Closers(toPg) = 0 /\ Closers(fromClient) = 0
    BY <2>1, CountEmpty DEF Readies, Closers
  <2> QED
    BY <2>1, <2>2, <2>3 DEF BalanceInv
<1>2. IInv /\ BalanceInv => ReadyBalanced
  <2> SUFFICES ASSUME IInv, BalanceInv, Drained PROVE ready = Len(cycles) + Cardinality(RefusedParses)
    BY DEF ReadyBalanced
  <2>1. Readies(toClient) = 0 /\ Readies(fromPg) = 0 /\ Closers(toPg) = 0 /\ Closers(fromClient) = 0
    BY CountEmpty DEF Readies, Closers, Drained
  <2>2. Answered = RefusedParses
    BY DEF Answered, Drained, ToSet
  <2>3. ready \in Nat
    BY DEF IInv, TypeInv
  <2> QED
    BY <2>1, <2>2, <2>3 DEF BalanceInv
<1> QED
  BY <1>1, <1>2, Invariant, BalanceStep, PTL DEF Spec
=============================================================================
