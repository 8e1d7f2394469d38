-------------------------- MODULE RelayRefinement --------------------------
(***************************************************************************)
(* Relay implements Session, for every set of messages, every buffer size  *)
(* and every bound: under the mapping of Relay's Promise, each step of the *)
(* two futures, of the select!, of the peers and of the kernel is a step   *)
(* of Session or changes nothing Session speaks of.                        *)
(***************************************************************************)
EXTENDS RelayProofs, FiniteSetTheorems

-----------------------------------------------------------------------------
(* The inductive invariant, beyond what RelayProofs has.                   *)

\* The messages of the client's stream follow each other.
OrderInv ==
    /\ Len(msgs) =< MaxMsgs
    /\ \A i, j \in 1 .. Len(cs) : i < j =>
          /\ cs[i].msg =< cs[j].msg
          /\ cs[j].part = 0 => cs[i].msg < cs[j].msg

\* The refusal of message n has been written in full.
Answered(n) == \E i \in 1 .. Len(toClient) : toClient[i] = [from |-> "ready", n |-> n]

\* If position k is withheld, its message is answered or nobody is listening.
Dealt(k) == k \in Skipped => Answered(cs[k].msg) \/ ClientBroken

DealtTo(b) == \A k \in 1 .. b : Dealt(k)

\* Every refusal was given for a message that starts before message n.
AnsweredBefore(n) ==
    \A i \in 1 .. Len(toClient) : toClient[i].from = "ready" => toClient[i].n < n

\* Refusals are given in their turn, as long as PostgreSQL takes writes.
TurnInv ==
    /\ rd = 0 => AnsweredBefore(0)
    /\ rd > 0 => AnsweredBefore(cs[rd].msg + 1)
    /\ c2s \in {"header", "readChunk"} => DealtTo(rd)
    /\ c2s = "inspect" => DealtTo(rd - 1) /\ AnsweredBefore(cs[rd].msg)
    /\ c2s \in {"writeBody", "writeChunk"} => DealtTo(rd - 1)
    /\ c2s = "writeHeader" => at =< rd /\ DealtTo(at - 1)
    /\ c2s \in {"lock", "error", "ready"} =>
          /\ rd \in Skipped /\ AnsweredBefore(cs[rd].msg)
          /\ \A k \in 1 .. rd : cs[k].msg < cs[rd].msg => Dealt(k)
    /\ c2s \in {"shutdown", "done"} /\ cEnd # "reset" =>
          \A k \in 1 .. Len(cs) : Dealt(k) \/ CutShort(k)

\* No unit is given to the client before it was read from PostgreSQL.
ReadFirst ==
    \A i \in 1 .. Len(toClient) : toClient[i].from = "server" => toClient[i].n =< srd

\* What the client of a Session may be given.
Items == [from : {"server", "refusal"}, n : Nat]

\* Shown holds what was written to the client, in its order, and nothing else.
ShownInv ==
    /\ \A k \in 1 .. Cardinality(ShownAt) : \E i \in ShownAt : Place(i) = k
    /\ Shown \in Seq(Items)
    /\ \A y \in Items : (\E k \in DOMAIN Shown : Shown[k] = y) <=>
                       (\E i \in ShownAt : AsShown(toClient[i]) = y)

RefInv ==
    /\ TypeInv /\ UpInv /\ LockInv /\ DownInv
    /\ OrderInv /\ ReadFirst /\ ShownInv
    /\ pgEnd # "reset" => TurnInv

-----------------------------------------------------------------------------
(* What the client is shown.                                               *)

\* A member of a set that has one.
LEMMA MemberIn == ASSUME NEW S, S # {} PROVE MemberOf(S) \in S
  BY DEF MemberOf

\* The places are natural numbers up to the number of things shown.
LEMMA Places ==
    ASSUME TypeOK
    PROVE  /\ ShownAt \subseteq 1 .. Len(toClient) /\ Len(toClient) \in Nat
           /\ IsFiniteSet(ShownAt) /\ Cardinality(ShownAt) \in Nat
           /\ \A i \in Nat : Place(i) \in Nat /\ Place(i) =< Cardinality(ShownAt)
  <1>1. Len(toClient) \in Nat /\ ShownAt \subseteq 1 .. Len(toClient)
    BY Elements DEF ShownAt
  <1>2. IsFiniteSet(1 .. Len(toClient))
    BY <1>1, FS_Interval
  <1>3. IsFiniteSet(ShownAt) /\ Cardinality(ShownAt) \in Nat
    BY <1>1, <1>2, FS_Subset, FS_CardinalityType
  <1>4. ASSUME NEW i \in Nat PROVE Place(i) \in Nat /\ Place(i) =< Cardinality(ShownAt)
    <2> DEFINE P == {j \in ShownAt : j =< i}
    <2>1. P \subseteq ShownAt
      OBVIOUS
    <2>2. IsFiniteSet(P) /\ Cardinality(P) =< Cardinality(ShownAt)
      BY <1>3, <2>1, FS_Subset
    <2>3. Cardinality(P) \in Nat
      BY <2>2, FS_CardinalityType
    <2> QED
      BY <2>2, <2>3 DEF Place
  <1> QED
    BY <1>1, <1>3, <1>4

\* What stands at the places taken so far.
LEMMA AtPlace ==
    ASSUME TypeOK, ShownInv, NEW k \in 1 .. Cardinality(ShownAt)
    PROVE  MemberOf({i \in ShownAt : Place(i) = k}) \in ShownAt
  <1>1. {i \in ShownAt : Place(i) = k} # {}
    BY DEF ShownInv
  <1> QED
    BY <1>1, MemberIn

\* An ErrorResponse is not shown.
LEMMA ShownError ==
    ASSUME TypeOK, ShownInv, NEW x \in Sent, x.from = "error", toClient' = Append(toClient, x)
    PROVE  ShownInv' /\ Shown' = Shown
  <1>1. /\ Len(toClient) \in Nat /\ Len(toClient') = Len(toClient) + 1
        /\ \A i \in 1 .. Len(toClient) : toClient'[i] = toClient[i]
        /\ toClient'[Len(toClient) + 1] = x
    BY AppendProperties, LenProperties DEF TypeOK
  <1>2. ShownAt' = ShownAt
    BY <1>1 DEF ShownAt
  <1>3. \A i : Place(i)' = Place(i)
    BY <1>2 DEF Place
  <1>4. ShownAt \subseteq 1 .. Len(toClient)
    BY Places
  <1>5. ASSUME NEW k \in 1 .. Cardinality(ShownAt)
        PROVE  Shown'[k] = Shown[k]
    <2> DEFINE P == {i \in ShownAt : Place(i) = k}
    <2>1. MemberOf(P) \in ShownAt
      BY AtPlace
    <2>2. P' = P
      BY <1>2, <1>3
    <2>3. MemberOf(P') = MemberOf(P)
      BY <2>2
    <2>4. toClient'[MemberOf(P')] = toClient[MemberOf(P)]
      BY <1>1, <1>4, <2>1, <2>3
    <2>5. Shown[k] = AsShown(toClient[MemberOf(P)])
      BY DEF Shown
    <2>6. Shown'[k] = AsShown(toClient'[MemberOf(P')])
      BY <1>2 DEF Shown
    <2> QED
      BY <2>4, <2>5, <2>6
  <1>6. Shown' = Shown
    BY <1>2, <1>5 DEF Shown
  <1>7. \A i \in ShownAt : toClient'[i] = toClient[i]
    BY <1>1, <1>4
  <1>8. (\A k \in 1 .. Cardinality(ShownAt) : \E i \in ShownAt : Place(i) = k)'
    BY <1>2, <1>3 DEF ShownInv
  <1>9. ASSUME NEW y \in Items
        PROVE  (\E k \in DOMAIN Shown' : Shown'[k] = y) <=>
               (\E i \in ShownAt' : AsShown(toClient'[i]) = y)
    <2>1. (\E i \in ShownAt' : AsShown(toClient'[i]) = y) <=>
          (\E i \in ShownAt : AsShown(toClient[i]) = y)
      BY <1>2, <1>7
    <2> QED
      BY <1>6, <2>1 DEF ShownInv
  <1>10. Shown' \in Seq(Items)
    BY <1>6 DEF ShownInv
  <1> QED
    BY <1>6, <1>8, <1>9, <1>10 DEF ShownInv
\* Anything else is shown last.
LEMMA ShownMore ==
    ASSUME TypeOK, ShownInv, NEW x \in Sent, x.from # "error", toClient' = Append(toClient, x)
    PROVE  /\ ShownInv' /\ Shown' = Append(Shown, AsShown(x))
           /\ AsShown(x) \in Items
  <1>0. Len(toClient) \in Nat /\ Cardinality(ShownAt) \in Nat
    BY Places
  <1> PICK L \in Nat : L = Len(toClient)
    BY <1>0
  <1> PICK C \in Nat : C = Cardinality(ShownAt)
    BY <1>0
  <1> DEFINE P(k) == {i \in ShownAt : Place(i) = k}
             y == AsShown(x)
  <1>1. /\ L \in Nat /\ Len(toClient') = L + 1
        /\ \A i \in 1 .. L : toClient'[i] = toClient[i]
        /\ toClient'[L + 1] = x
    BY AppendProperties, LenProperties DEF TypeOK
  <1>2. /\ ShownAt \subseteq 1 .. L /\ IsFiniteSet(ShownAt) /\ C \in Nat
        /\ \A i \in Nat : Place(i) \in Nat /\ Place(i) =< C
    BY Places
  <1>3. ShownAt' = ShownAt \cup {L + 1}
    BY <1>1 DEF ShownAt
  <1>4. Cardinality(ShownAt') = C + 1 /\ L + 1 \notin ShownAt
    <2>1. L + 1 \notin ShownAt
      BY <1>1, <1>2
    <2> QED
      BY <1>2, <1>3, <2>1, FS_AddElement
  <1>5. ASSUME NEW i \in ShownAt PROVE Place(i)' = Place(i)
    <2>0. ~(L + 1 =< i)
      <3>1. i \in 1 .. L
        BY <1>2
      <3> QED
        BY <3>1
    <2>1. {j \in ShownAt \cup {L + 1} : j =< i} = {j \in ShownAt : j =< i}
      BY <2>0
    <2> QED
      BY <1>3, <2>1 DEF Place
  <1>6. Place(L + 1)' = C + 1
    <2>0. \A j \in ShownAt' : j =< L + 1
      <3>1. \A j \in 1 .. L : j =< L + 1
        OBVIOUS
      <3>2. L + 1 =< L + 1
        OBVIOUS
      <3> QED
        BY <1>2, <1>3, <3>1, <3>2
    <2>1. {j \in ShownAt' : j =< L + 1} = ShownAt'
      BY <2>0
    <2> QED
      BY <1>4, <2>1 DEF Place
  <1>7. ASSUME NEW k \in 1 .. C PROVE P(k)' = P(k)
    <2>1. k # C + 1
      BY <1>2
    <2>2. \A i \in ShownAt' : Place(i)' = k <=> i \in ShownAt /\ Place(i) = k
      BY <1>3, <1>5, <1>6, <2>1
    <2> QED
      BY <1>3, <2>2
  <1>8. P(C + 1)' = {L + 1}
    <2>1. \A i \in ShownAt : Place(i) # C + 1
      BY <1>1, <1>2
    <2> QED
      BY <1>3, <1>5, <1>6, <2>1
  <1>9. y \in Items
    BY DEF AsShown, Sent, Items
  <1> HIDE DEF y
  <1>10. /\ Append(Shown, y) \in Seq(Items) /\ Len(Append(Shown, y)) = C + 1
         /\ \A k \in 1 .. C : Append(Shown, y)[k] = Shown[k]
         /\ Append(Shown, y)[C + 1] = y
         /\ DOMAIN Shown = 1 .. C
    <2>1. Shown \in Seq(Items)
      BY DEF ShownInv
    <2>2. DOMAIN Shown = 1 .. C
      BY DEF Shown
    <2>3. Len(Shown) = C
      BY <1>2, <2>1, <2>2, LenProperties
    <2> QED
      BY <1>9, <2>1, <2>2, <2>3, AppendProperties
  <1>11. ASSUME NEW k \in 1 .. C PROVE Shown'[k] = Shown[k]
    <2>0. k \in 1 .. Cardinality(ShownAt')
      BY <1>2, <1>4
    <2>1. MemberOf(P(k)) \in 1 .. L
      BY <1>2, AtPlace
    <2>2. toClient'[MemberOf(P(k)')] = toClient[MemberOf(P(k))]
      BY <1>1, <1>7, <2>1
    <2>3. Shown[k] = AsShown(toClient[MemberOf(P(k))])
      BY DEF Shown
    <2>4. Shown'[k] = AsShown(toClient'[MemberOf(P(k)')])
      BY <2>0 DEF Shown
    <2> QED
      BY <2>2, <2>3, <2>4
  <1>12. Shown'[C + 1] = y
    <2>0. C + 1 \in 1 .. Cardinality(ShownAt')
      <3>1. C + 1 \in 1 .. C + 1
        OBVIOUS
      <3> QED
        BY <1>4, <3>1
    <2>1. MemberOf(P(C + 1)') = L + 1
      BY <1>8, MemberIn
    <2>2. Shown'[C + 1] = AsShown(toClient'[MemberOf(P(C + 1)')])
      BY <2>0 DEF Shown
    <2> QED
      BY <1>1, <2>1, <2>2 DEF y
  <1>13. Shown' = Append(Shown, y)
    <2>1. Shown' = [k \in 1 .. C + 1 |-> Shown'[k]]
      BY <1>4 DEF Shown
    <2>2. Append(Shown, y) = [k \in 1 .. C + 1 |-> Append(Shown, y)[k]]
      BY <1>2, <1>10, LenProperties
    <2>3. \A k \in 1 .. C + 1 : Shown'[k] = Append(Shown, y)[k]
      <3>1. 1 .. C + 1 = (1 .. C) \cup {C + 1}
        OBVIOUS
      <3> QED
        BY <1>10, <1>11, <1>12, <3>1
    <2> QED
      BY <2>1, <2>2, <2>3
  <1>14. ASSUME NEW k \in 1 .. Cardinality(ShownAt') PROVE \E i \in ShownAt' : Place(i)' = k
    <2>1. CASE k = C + 1
      BY <1>3, <1>6, <2>1
    <2>2. CASE k \in 1 .. C
      BY <1>3, <1>5, <2>2 DEF ShownInv
    <2>3. k \in 1 .. C + 1
      BY <1>4
    <2> QED
      BY <2>1, <2>2, <2>3
  <1>15. ASSUME NEW z \in Items
         PROVE  (\E k \in DOMAIN Shown' : Shown'[k] = z) <=>
                (\E i \in ShownAt' : AsShown(toClient'[i]) = z)
    <2>1. (\E k \in DOMAIN Shown' : Shown'[k] = z) <=> (\E k \in DOMAIN Shown : Shown[k] = z) \/ z = y
      <3>1. DOMAIN Shown' = 1 .. C + 1
        BY <1>4 DEF Shown
      <3>2. 1 .. C + 1 = (1 .. C) \cup {C + 1}
        OBVIOUS
      <3> QED
        BY <1>10, <1>11, <1>12, <3>1, <3>2
    <2>2. (\E i \in ShownAt' : AsShown(toClient'[i]) = z) <=>
          (\E i \in ShownAt : AsShown(toClient[i]) = z) \/ z = y
      <3>1. \A i \in ShownAt : toClient'[i] = toClient[i]
        BY <1>1, <1>2
      <3> QED
        BY <1>1, <1>3, <3>1 DEF y
    <2> QED
      BY <2>1, <2>2 DEF ShownInv
  <1> QED
    BY <1>9, <1>10, <1>13, <1>14, <1>15 DEF ShownInv, y
-----------------------------------------------------------------------------
(* The order of the messages and of the refusals.                          *)

\* Adding a unit behind all others keeps the messages in order.
LEMMA OrderGrows ==
    ASSUME TypeInv, OrderInv, Len(cs') = Len(cs) + 1, Len(msgs') =< MaxMsgs,
           \A i \in 1 .. Len(cs) : cs'[i] = cs[i],
           \A i \in 1 .. Len(cs) : /\ cs[i].msg =< cs'[Len(cs) + 1].msg
                                   /\ cs'[Len(cs) + 1].part = 0 => cs[i].msg < cs'[Len(cs) + 1].msg
    PROVE  OrderInv'
  <1>1. Len(cs) \in Nat
    BY Elements DEF TypeInv
  <1>2. ASSUME NEW i \in 1 .. Len(cs'), NEW j \in 1 .. Len(cs'), i < j
        PROVE  cs'[i].msg =< cs'[j].msg /\ (cs'[j].part = 0 => cs'[i].msg < cs'[j].msg)
    <2>1. i \in 1 .. Len(cs) /\ (j \in 1 .. Len(cs) \/ j = Len(cs) + 1)
      BY <1>1, <1>2
    <2>2. CASE j \in 1 .. Len(cs)
      BY <1>2, <2>1, <2>2 DEF OrderInv
    <2>3. CASE j = Len(cs) + 1
      BY <2>1, <2>3
    <2> QED
      BY <2>1, <2>2, <2>3
  <1> QED
    BY <1>2 DEF OrderInv

\* Every step keeps the messages in order.
LEMMA OrderNext == TypeInv /\ OrderInv /\ [Next]_vars => OrderInv'
  <1> SUFFICES ASSUME TypeInv, OrderInv, [Next]_vars PROVE OrderInv'
    OBVIOUS
  <1>0. /\ TypeOK /\ Len(cs) \in Nat /\ Len(msgs) \in Nat /\ MaxMsgs \in Nat
        /\ \A k \in 1 .. Len(cs) : cs[k].msg \in 1 .. Len(msgs)
    BY Elements, RelayAssumption DEF TypeInv, StreamInv
  <1>1. ASSUME NEW m \in Shapes, ClientStarts(m) PROVE OrderInv'
    <2>1. /\ Len(cs') = Len(cs) + 1 /\ Len(msgs') = Len(msgs) + 1
          /\ \A i \in 1 .. Len(cs) : cs'[i] = cs[i]
          /\ cs'[Len(cs) + 1].msg = Len(msgs) + 1
      BY <1>0, <1>1, StartGrows
    <2>2. Len(msgs') =< MaxMsgs
      BY <1>0, <1>1, <2>1 DEF ClientStarts
    <2>3. \A i \in 1 .. Len(cs) : cs[i].msg < Len(msgs) + 1 /\ cs[i].msg =< Len(msgs) + 1
      BY <1>0
    <2> QED
      BY <2>1, <2>2, <2>3, OrderGrows
  <1>2. CASE ClientContinues
    <2>1. /\ Len(cs') = Len(cs) + 1 /\ msgs' = msgs
          /\ \A i \in 1 .. Len(cs) : cs'[i] = cs[i]
          /\ cs'[Len(cs) + 1].msg = Len(msgs) /\ cs'[Len(cs) + 1].part = cs[Len(cs)].part + 1
          /\ Len(cs) > 0
      BY <1>2, ContinueGrows
    <2>2. cs'[Len(cs) + 1].part # 0
      <3>1. cs[Len(cs)].part \in Nat
        BY <1>0, <2>1, Elements
      <3> QED
        BY <2>1, <3>1
    <2>3. Len(msgs') =< MaxMsgs
      BY <2>1 DEF OrderInv
    <2>4. \A i \in 1 .. Len(cs) : cs[i].msg =< Len(msgs)
      BY <1>0
    <2> QED
      BY <2>1, <2>2, <2>3, <2>4, OrderGrows
  <1>3. ASSUME Len(cs') \in Nat, Len(cs') =< Len(cs), msgs' = msgs,
               \A i \in 1 .. Len(cs') : cs'[i] = cs[i]
        PROVE  OrderInv'
    <2>1. \A i \in 1 .. Len(cs') : i \in 1 .. Len(cs)
      BY <1>0, <1>3
    <2> QED
      BY <1>3, <2>1 DEF OrderInv
  <1>4. CASE (\E how \in {"eof", "reset", "lost"} : ClientEnds(how)) \/ KeepaliveFails
    <2>1. msgs' = msgs
      BY <1>4 DEF ClientEnds, KeepaliveFails
    <2> QED
      BY <1>3, <1>4, <2>1, EndKeeps
  <1>5. ASSUME cs' = cs, msgs' = msgs PROVE OrderInv'
    BY <1>5 DEF OrderInv
  <1>6. CASE Pg \/ Select \/ ServerToClient \/ ClientReads \/ UNCHANGED vars
    BY <1>5, <1>6 DEF Pg, PgSends, PgEnds, PgReads, Select, SelectClientDone, SelectClientDoneTo,
          SelectServerDone, SessionEnds, DrainTimeout, DrainEnds, ServerToClient, ReadServer,
          ReadServerEnds, LockForRelay, WriteClient, WriteClientFails, LockForShutdown, ShutdownClient, ClientReads,
          vars, clientVars
  <1>7. CASE ClientToServer
    BY <1>5, <1>7 DEF ClientToServer, ReadHeader, ReadHeaderFails, InspectBody, InspectBodyFails,
          LockForRefusal, WriteError, WriteErrorThen, WriteErrorFails, WriteReady, WriteReadyThen,
          WriteHeader, WriteBody, WriteMessageFails, ReadChunk, WriteChunk, WriteChunkCounting,
          ChunkFails, ShutdownPg, ShutdownPgTo, clientVars
  <1> QED
    BY <1>1, <1>2, <1>4, <1>6, <1>7 DEF Next, Client, Terminated
\* Steps that answer no message and leave client_to_server where it was, or
\* inside its refusal.
LEMMA TurnFrame ==
    ASSUME TypeInv, TurnInv, rd' = rd, at' = at, Len(cs') \in Nat, rd =< Len(cs'),
           c2s' = c2s \/ (c2s \in {"lock", "error", "ready"} /\ c2s' \in {"lock", "error", "ready"}),
           \A k \in 1 .. rd : cs'[k] = cs[k] /\ msgs'[cs[k].msg] = msgs[cs[k].msg],
           \A n : Answered(n) => Answered(n)',
           \A n : AnsweredBefore(n) => AnsweredBefore(n)',
           ClientBroken => ClientBroken',
           cEnd' # "reset" /\ c2s \in {"shutdown", "done"} => cEnd # "reset" /\ cs' = cs /\ msgs' = msgs
    PROVE  TurnInv'
  <1>1. rd \in Nat /\ at \in Nat /\ Len(cs) \in Nat /\ rd =< Len(cs)
    BY Elements DEF TypeInv, TypeOK, CursorInv
  <1>2. \A k \in 1 .. rd : k \in 1 .. Len(cs) /\ k \in 1 .. Len(cs')
    BY <1>1
  <1>3. \A k \in 1 .. rd : k \in Skipped' <=> k \in Skipped
    BY <1>2 DEF Skipped, Withheld
  <1>4. \A k \in 1 .. rd : Dealt(k) => Dealt(k)'
    BY <1>3 DEF Dealt
  <1>5. (rd = 0 => AnsweredBefore(0))'
    BY DEF TurnInv
  <1>6. (rd > 0 => AnsweredBefore(cs[rd].msg + 1))'
    <2>1. rd > 0 => cs'[rd] = cs[rd]
      BY <1>1
    <2> QED
      BY <2>1 DEF TurnInv
  <1>8. CASE c2s \in {"header", "readChunk"}
    <2>1. DealtTo(rd)'
      <3>1. DealtTo(rd)
        BY <1>8 DEF TurnInv
      <3>2. \A k \in 1 .. rd : Dealt(k)'
        BY <1>4, <3>1 DEF DealtTo
      <3> QED
        BY <3>2 DEF DealtTo
    <2> QED
      BY <1>5, <1>6, <1>8, <2>1 DEF TurnInv
  <1>9. CASE c2s \in {"inspect", "writeBody", "writeChunk"}
    <2>1. DealtTo(rd - 1)'
      <3>1. DealtTo(rd - 1)
        BY <1>9 DEF TurnInv
      <3>2. \A k \in 1 .. rd - 1 : k \in 1 .. rd
        BY <1>1
      <3>3. \A k \in 1 .. rd - 1 : Dealt(k)'
        BY <1>4, <3>1, <3>2 DEF DealtTo
      <3> QED
        BY <3>3 DEF DealtTo
    <2>2. c2s = "inspect" => AnsweredBefore(cs[rd].msg)'
      <3>1. c2s = "inspect" => cs'[rd] = cs[rd]
        BY <1>1 DEF TypeInv, CursorInv
      <3> QED
        BY <3>1 DEF TurnInv
    <2> QED
      BY <1>5, <1>6, <1>9, <2>1, <2>2 DEF TurnInv
  <1>10. CASE c2s = "writeHeader"
    <2>1. DealtTo(at - 1)' /\ at =< rd
      <3>1. DealtTo(at - 1) /\ at =< rd
        BY <1>10 DEF TurnInv
      <3>2. \A k \in 1 .. at - 1 : k \in 1 .. rd
        BY <1>1, <3>1
      <3>3. \A k \in 1 .. at - 1 : Dealt(k)'
        BY <1>4, <3>1, <3>2 DEF DealtTo
      <3> QED
        BY <3>1, <3>3 DEF DealtTo
    <2> QED
      BY <1>5, <1>6, <1>10, <2>1 DEF TurnInv
  <1>11. CASE c2s \in {"lock", "error", "ready"}
    <2>1. rd \in 1 .. rd
      BY <1>1, <1>11 DEF TypeInv, CursorInv
    <2>2. /\ rd \in Skipped /\ AnsweredBefore(cs[rd].msg)
          /\ \A k \in 1 .. rd : cs[k].msg < cs[rd].msg => Dealt(k)
      BY <1>11 DEF TurnInv
    <2>3. rd \in Skipped' /\ cs'[rd] = cs[rd]
      BY <1>3, <2>1, <2>2
    <2>4. \A k \in 1 .. rd : cs'[k].msg < cs'[rd].msg => Dealt(k)'
      BY <1>4, <2>2, <2>3
    <2>5. AnsweredBefore(cs[rd].msg)'
      BY <2>2, <2>3
    <2> QED
      BY <1>5, <1>6, <1>11, <2>3, <2>4, <2>5 DEF TurnInv
  <1>12. CASE c2s \in {"shutdown", "done"}
    <2>1. SUFFICES ASSUME cEnd' # "reset" PROVE (\A k \in 1 .. Len(cs) : Dealt(k) \/ CutShort(k))'
      BY <1>5, <1>6, <1>12 DEF TurnInv
    <2>2. cEnd # "reset" /\ cs' = cs /\ msgs' = msgs
      BY <1>12, <2>1
    <2>3. \A k \in 1 .. Len(cs) : Dealt(k) \/ CutShort(k)
      BY <1>12, <2>2 DEF TurnInv
    <2>4. Skipped' = Skipped
      BY <2>2 DEF Skipped, Withheld
    <2>5. \A k \in 1 .. Len(cs) : Dealt(k) => Dealt(k)'
      BY <2>2, <2>4 DEF Dealt
    <2>6. \A k \in 1 .. Len(cs) : CutShort(k) => CutShort(k)'
      BY <2>2 DEF CutShort
    <2> QED
      BY <2>2, <2>3, <2>5, <2>6
  <1> QED
    BY <1>8, <1>9, <1>10, <1>11, <1>12 DEF TypeInv, TypeOK, C2sPoints
\* What one more thing written to the client answers.
LEMMA AnsweredGrows ==
    ASSUME TypeOK, NEW x \in Sent, toClient' = Append(toClient, x)
    PROVE  /\ \A n : Answered(n) => Answered(n)'
           /\ x.from = "ready" => Answered(x.n)'
           /\ x.from # "ready" => \A n : AnsweredBefore(n) => AnsweredBefore(n)'
           /\ \A n : AnsweredBefore(n) /\ x.n < n => AnsweredBefore(n)'
           /\ ReadFirst /\ srd' = srd /\ (x.from = "server" => x.n =< srd) => ReadFirst'
  <1>1. /\ Len(toClient) \in Nat /\ Len(toClient') = Len(toClient) + 1
        /\ \A i \in 1 .. Len(toClient) : toClient'[i] = toClient[i]
        /\ toClient'[Len(toClient) + 1] = x
    BY AppendProperties, LenProperties DEF TypeOK
  <1>2. 1 .. Len(toClient') = (1 .. Len(toClient)) \cup {Len(toClient) + 1}
    BY <1>1
  <1>3. x = [from |-> x.from, n |-> x.n]
    BY DEF Sent
  <1>4. \A n : Answered(n) => Answered(n)'
    BY <1>1, <1>2 DEF Answered
  <1>5. x.from = "ready" => Answered(x.n)'
    BY <1>1, <1>2, <1>3 DEF Answered
  <1>6. x.from # "ready" => \A n : AnsweredBefore(n) => AnsweredBefore(n)'
    BY <1>1, <1>2 DEF AnsweredBefore
  <1>7. \A n : AnsweredBefore(n) /\ x.n < n => AnsweredBefore(n)'
    BY <1>1, <1>2 DEF AnsweredBefore
  <1>8. ReadFirst /\ srd' = srd /\ (x.from = "server" => x.n =< srd) => ReadFirst'
    BY <1>1, <1>2 DEF ReadFirst
  <1> QED
    BY <1>4, <1>5, <1>6, <1>7, <1>8

\* The steps of client_to_server that read or write upstream, while PostgreSQL
\* takes writes.
LEMMA TurnMoves ==
    ASSUME TypeInv, C2sInv, OrderInv, TurnInv, pgEnd # "reset",
           \/ ReadHeader \/ ReadHeaderFails \/ InspectBody \/ InspectBodyFails
           \/ WriteHeader \/ WriteBody \/ WriteMessageFails
           \/ ReadChunk \/ WriteChunk \/ ChunkFails \/ ShutdownPg
    PROVE  TurnInv'
  <1>1. /\ rd \in Nat /\ at \in Nat /\ left \in Nat /\ Len(cs) \in Nat /\ rd =< Len(cs)
        /\ \A i \in 1 .. Len(cs) : cs[i].msg \in Nat /\ cs[i].part \in Nat
    BY Elements DEF TypeInv, TypeOK, CursorInv
  <1>2. UNCHANGED <<msgs, cs, cEnd, toClient, clientFin>>
    BY DEF ReadHeader, ReadHeaderFails, InspectBody, InspectBodyFails, WriteHeader, WriteBody,
           WriteMessageFails, ReadChunk, WriteChunk, WriteChunkCounting, ChunkFails, ShutdownPg,
           ShutdownPgTo, clientVars, downVars
  <1>3. Skipped' = Skipped
    BY <1>2 DEF Skipped, Withheld
  <1>4. \A k : (Dealt(k)' <=> Dealt(k)) /\ (CutShort(k)' <=> CutShort(k))
    BY <1>2, <1>3 DEF Dealt, Answered, ClientBroken, CutShort
  <1>5. \A n : AnsweredBefore(n)' <=> AnsweredBefore(n)
    BY <1>2 DEF AnsweredBefore
  <1>6. ASSUME NEW b \in Int, DealtTo(b - 1), Dealt(b) PROVE DealtTo(b)
    <2>1. \A k \in 1 .. b : k \in 1 .. b - 1 \/ k = b
      OBVIOUS
    <2> QED
      BY <1>6, <2>1 DEF DealtTo
  <1>7. ASSUME NEW i \in 1 .. Len(cs), rd =< i, rd' = i PROVE (rd > 0 => AnsweredBefore(cs[rd].msg + 1))'
    <2>1. AnsweredBefore(cs[i].msg + 1)
      <3>1. CASE rd = 0
        <4>1. \A j \in 1 .. Len(toClient) : toClient[j].from # "ready"
          BY <3>1, Elements DEF TurnInv, AnsweredBefore, TypeInv
        <4> QED
          BY <4>1 DEF AnsweredBefore
      <3>2. CASE rd > 0
        <4>1. cs[rd].msg =< cs[i].msg /\ cs[rd].msg \in Nat /\ cs[i].msg \in Nat
          BY <1>1, <1>7, <3>2 DEF OrderInv
        <4>2. AnsweredBefore(cs[rd].msg + 1)
          BY <3>2 DEF TurnInv
        <4>3. \A j \in 1 .. Len(toClient) : toClient[j].n \in Nat
          BY Elements DEF TypeInv
        <4>4. ASSUME NEW j \in 1 .. Len(toClient), toClient[j].from = "ready"
              PROVE  toClient[j].n < cs[i].msg + 1
          <5>1. toClient[j].n < cs[rd].msg + 1 /\ toClient[j].n \in Nat
            BY <4>2, <4>3, <4>4 DEF AnsweredBefore
          <5>2. \A a, b, c \in Nat : a < b + 1 /\ b =< c => a < c + 1
            OBVIOUS
          <5> QED
            BY <4>1, <5>1, <5>2
        <4> QED
          BY <4>4 DEF AnsweredBefore
      <3> QED
        BY <1>1, <3>1, <3>2
    <2> QED
      BY <1>2, <1>5, <1>7, <2>1
  <1>8. rd' = rd => /\ (rd = 0 => AnsweredBefore(0))'
                    /\ (rd > 0 => AnsweredBefore(cs[rd].msg + 1))'
    BY <1>2, <1>5 DEF TurnInv
  <1>9. CASE ReadHeader
    <2>1. /\ c2s = "header" /\ rd' = rd + 1 /\ at' = rd + 1 /\ rd + 1 \in 1 .. Len(cs)
          /\ c2s' \in {"inspect", "writeHeader"}
      BY <1>1, <1>9 DEF ReadHeader, Readable
    <2>2. DealtTo(rd) /\ Boundary(rd)
      BY <1>1, <2>1 DEF C2sInv, TurnInv
    <2>3. cs[rd + 1].part = 0
      BY <1>1, <2>1, <2>2, NextIsHeader
    <2>4. AnsweredBefore(cs[rd + 1].msg)
      <3>1. CASE rd = 0
        <4>1. \A j \in 1 .. Len(toClient) : toClient[j].from # "ready"
          BY <3>1, Elements DEF TurnInv, AnsweredBefore, TypeInv
        <4> QED
          BY <4>1 DEF AnsweredBefore
      <3>2. CASE rd > 0
        <4>1. cs[rd].msg < cs[rd + 1].msg /\ cs[rd].msg \in Nat /\ cs[rd + 1].msg \in Nat
          BY <1>1, <2>1, <2>3, <3>2 DEF OrderInv
        <4>2. AnsweredBefore(cs[rd].msg + 1)
          BY <3>2 DEF TurnInv
        <4>3. \A j \in 1 .. Len(toClient) : toClient[j].n \in Nat
          BY Elements DEF TypeInv
        <4> QED
          BY <4>1, <4>2, <4>3 DEF AnsweredBefore
      <3> QED
        BY <1>1, <3>1, <3>2
    <2>5. rd' # 0 /\ rd' - 1 = rd /\ at' - 1 = rd /\ at' =< rd'
      BY <1>1, <2>1
    <2>6. DealtTo(rd - 1)' /\ DealtTo(at - 1)'
      BY <1>4, <2>2, <2>5 DEF DealtTo
    <2>7. AnsweredBefore(cs[rd].msg)'
      BY <1>2, <1>5, <2>1, <2>4
    <2>8. (rd > 0 => AnsweredBefore(cs[rd].msg + 1))'
      BY <1>1, <1>7, <2>1
    <2> QED
      BY <2>1, <2>5, <2>6, <2>7, <2>8 DEF TurnInv
  <1>10. CASE ReadHeaderFails
    <2>1. /\ c2s = "header" /\ c2s' = "shutdown" /\ rd' = rd
          /\ cEnd # "reset" => rd = Len(cs)
      BY <1>1, <1>10 DEF ReadHeaderFails, ReadFails
    <2>2. DealtTo(rd)
      BY <2>1 DEF TurnInv
    <2> QED
      BY <1>2, <1>4, <1>8, <2>1, <2>2 DEF TurnInv, DealtTo
  <1>11. CASE InspectBody
    <2>1. /\ c2s = "inspect" /\ rd' = rd + left /\ at' = at
          /\ rd + left =< Len(cs)
          /\ c2s' = IF cur.forbidden THEN "lock" ELSE "writeHeader"
      BY <1>11 DEF InspectBody, Readable
    <2>2. /\ Current(rd) /\ at = rd /\ Inspected(cur) /\ left = Chunks(cur)
      BY <2>1 DEF C2sInv
    <2>3. rd \in 1 .. Len(cs) /\ cs[rd].part = 0 /\ cur = msgs[cs[rd].msg]
      BY <1>1, <2>2 DEF Current
    <2>4. left \in {0, 1} /\ (rd \in Skipped <=> cur.forbidden)
      BY <1>1, <2>2, <2>3, SkippedFacts, ChunksFacts
    <2>5. /\ cs[rd + left].msg = cs[rd].msg
          /\ rd + left \in Skipped <=> rd \in Skipped
      <3>1. CASE left = 0
        BY <1>1, <3>1
      <3>2. CASE left = 1
        BY <1>1, <2>1, <2>2, <2>3, <3>2, NextIsPiece
      <3> QED
        BY <2>4, <3>1, <3>2
    <2>6. DealtTo(rd - 1) /\ AnsweredBefore(cs[rd].msg)
      BY <2>1 DEF TurnInv
    <2>7. rd + left \in 1 .. Len(cs) /\ rd =< rd + left
      BY <1>1, <2>1, <2>3
    <2>8. (rd > 0 => AnsweredBefore(cs[rd].msg + 1))' /\ rd' # 0
      BY <1>1, <1>7, <2>1, <2>7
    <2>9. CASE cur.forbidden
      <3>1. rd' \in Skipped' /\ AnsweredBefore(cs[rd].msg)'
        BY <1>2, <1>3, <1>5, <2>1, <2>4, <2>5, <2>6, <2>9
      <3>2. ASSUME NEW k \in 1 .. rd + left, cs[k].msg < cs[rd].msg PROVE Dealt(k)
        <4>1. cs[rd].msg \in Nat
          BY <1>1, <2>3
        <4>2. k # rd /\ k # rd + left
          BY <2>5, <3>2, <4>1
        <4>3. k \in 1 .. rd - 1
          BY <1>1, <2>4, <4>2
        <4> QED
          BY <2>6, <4>3 DEF DealtTo
      <3>3. \A k \in 1 .. rd' : cs'[k].msg < cs'[rd'].msg => Dealt(k)'
        BY <1>2, <1>4, <2>1, <2>5, <3>2
      <3> QED
        BY <2>1, <2>8, <2>9, <3>1, <3>3 DEF TurnInv
    <2>10. CASE ~cur.forbidden
      <3>1. DealtTo(at - 1)' /\ at' =< rd'
        BY <1>1, <1>4, <2>1, <2>2, <2>6 DEF DealtTo
      <3> QED
        BY <2>1, <2>8, <2>10, <3>1 DEF TurnInv
    <2> QED
      BY <2>9, <2>10
  <1>12. CASE InspectBodyFails
    <2>1. c2s = "inspect" /\ c2s' = "shutdown" /\ rd' = rd
      BY <1>12 DEF InspectBodyFails
    <2>2. DealtTo(rd - 1)
      BY <2>1 DEF TurnInv
    <2>3. cEnd # "reset" => rd = Len(cs) /\ CutShort(rd)
      BY <1>12, InspectCut
    <2>4. cEnd # "reset" => \A k \in 1 .. Len(cs) : Dealt(k) \/ CutShort(k)
      BY <1>1, <2>2, <2>3 DEF DealtTo
    <2> QED
      BY <1>2, <1>4, <1>8, <2>1, <2>4 DEF TurnInv
  <1>13. CASE WriteHeader
    <2>1. /\ c2s = "writeHeader" /\ rd' = rd /\ at' = at + 1
          /\ c2s' = IF rd > at THEN "writeBody" ELSE IF left > 0 THEN "readChunk" ELSE "header"
      BY <1>13 DEF WriteHeader
    <2>2. /\ at \notin Skipped /\ (rd = at \/ rd = at + 1) /\ DealtTo(at - 1)
      <3>1. /\ at \notin Skipped /\ Current(at)
            /\ \/ left = 0 /\ Chunks(cur) =< 1 /\ rd = at + Chunks(cur)
               \/ left = Chunks(cur) /\ rd = at
        BY <2>1 DEF C2sInv
      <3>2. Chunks(cur) \in Nat
        BY ChunksFacts DEF TypeInv, TypeOK
      <3>3. DealtTo(at - 1)
        BY <2>1 DEF TurnInv
      <3> QED
        BY <1>1, <3>1, <3>2, <3>3
    <2>3. DealtTo(at)
      BY <1>1, <1>6, <2>2 DEF Dealt
    <2>4. CASE rd = at
      <3>1. c2s' \in {"readChunk", "header"} /\ DealtTo(rd)'
        BY <1>1, <1>4, <2>1, <2>3, <2>4 DEF DealtTo
      <3> QED
        BY <1>8, <2>1, <3>1 DEF TurnInv
    <2>5. CASE rd = at + 1
      <3>1. c2s' = "writeBody" /\ rd - 1 = at
        BY <1>1, <2>1, <2>5
      <3>2. DealtTo(rd - 1)'
        BY <1>4, <2>1, <2>3, <3>1 DEF DealtTo
      <3> QED
        BY <1>8, <2>1, <3>1, <3>2 DEF TurnInv
    <2> QED
      BY <2>2, <2>4, <2>5
  <1>14. CASE WriteBody \/ WriteChunk
    <2>1. /\ c2s \in {"writeBody", "writeChunk"} /\ rd' = rd /\ c2s' \in {"header", "readChunk"}
      BY <1>14 DEF WriteBody, WriteChunk, WriteChunkCounting
    <2>2. DealtTo(rd - 1) /\ rd \notin Skipped
      BY <2>1 DEF TurnInv, C2sInv
    <2>3. DealtTo(rd)
      BY <1>1, <1>6, <2>2 DEF Dealt
    <2>4. DealtTo(rd)'
      BY <1>4, <2>1, <2>3 DEF DealtTo
    <2> QED
      BY <1>8, <2>1, <2>4 DEF TurnInv
  <1>15. CASE WriteMessageFails
    BY <1>15 DEF WriteMessageFails, PgBroken
  <1>16. CASE ReadChunk
    <2>1. /\ c2s = "readChunk" /\ rd' = rd + 1 /\ c2s' = "writeChunk" /\ rd + 1 \in 1 .. Len(cs)
      BY <1>1, <1>16 DEF ReadChunk, Readable
    <2>2. rd' - 1 = rd /\ rd' # 0
      BY <1>1, <2>1
    <2>3. DealtTo(rd - 1)'
      BY <1>4, <2>1, <2>2 DEF TurnInv, DealtTo
    <2>4. (rd > 0 => AnsweredBefore(cs[rd].msg + 1))'
      BY <1>1, <1>7, <2>1
    <2> QED
      BY <2>1, <2>2, <2>3, <2>4 DEF TurnInv
  <1>17. CASE ChunkFails \/ ShutdownPg
    <2>1. /\ rd' = rd
          /\ \/ c2s = "readChunk" /\ c2s' = "header"
             \/ c2s = "shutdown" /\ c2s' = "done"
      BY <1>17 DEF ChunkFails, ShutdownPg, ShutdownPgTo, PgBroken
    <2> QED
      BY <1>2, <1>4, <1>8, <2>1 DEF TurnInv, DealtTo
  <1> QED
    BY <1>9, <1>10, <1>11, <1>12, <1>13, <1>14, <1>15, <1>16, <1>17
\* The end of a refusal, while PostgreSQL takes writes.
LEMMA TurnAnswers ==
    ASSUME TypeInv, LockInv, OrderInv, TurnInv, WriteErrorFails \/ WriteReady
    PROVE  TurnInv'
  <1>1. /\ rd \in Nat /\ Len(cs) \in Nat /\ rd \in 1 .. Len(cs)
        /\ \A i \in 1 .. Len(cs) : cs[i].msg \in Nat
    <2>1. c2s \in {"error", "ready"}
      BY DEF WriteErrorFails, WriteReady, WriteReadyThen
    <2>2. rd \in Nat /\ rd >= 1 /\ rd =< Len(cs)
      BY <2>1 DEF TypeInv, TypeOK, CursorInv
    <2>3. TypeOK
      BY DEF TypeInv
    <2> QED
      BY <2>2, <2>3, Elements
  <1>2. /\ c2s \in {"error", "ready"} /\ c2s' = "header" /\ rd' = rd
        /\ UNCHANGED <<msgs, cs, cEnd, clientFin>>
    BY DEF WriteErrorFails, WriteReady, WriteReadyThen, clientVars, downVars
  <1>3. /\ rd \in Skipped /\ AnsweredBefore(cs[rd].msg) /\ AnsweredBefore(cs[rd].msg + 1)
        /\ \A k \in 1 .. rd : cs[k].msg < cs[rd].msg => Dealt(k)
    BY <1>1, <1>2 DEF TurnInv
  <1>4. Skipped' = Skipped
    BY <1>2 DEF Skipped, Withheld
  <1>5. CASE ClientBroken /\ toClient' = toClient
    <2>1. ClientBroken'
      BY <1>2, <1>5 DEF ClientBroken
    <2>2. DealtTo(rd)'
      BY <2>1 DEF DealtTo, Dealt
    <2>3. AnsweredBefore(cs[rd].msg + 1)'
      BY <1>2, <1>3, <1>5 DEF AnsweredBefore
    <2> QED
      BY <1>1, <1>2, <2>2, <2>3 DEF TurnInv
  <1>6. CASE toClient' = Append(toClient, [from |-> "ready", n |-> cs[rd].msg])
    <2>0. [from |-> "ready", n |-> cs[rd].msg] \in Sent
      BY <1>1 DEF Sent
    <2> PICK x \in Sent : x = [from |-> "ready", n |-> cs[rd].msg]
      BY <2>0
    <2>1. x.from = "ready" /\ x.n = cs[rd].msg
      OBVIOUS
    <2>2. /\ \A n : Answered(n) => Answered(n)'
          /\ Answered(x.n)'
          /\ \A n : AnsweredBefore(n) /\ x.n < n => AnsweredBefore(n)'
      <3>1. TypeOK /\ toClient' = Append(toClient, x)
        BY <1>6 DEF TypeInv
      <3> QED
        BY <2>1, <3>1, AnsweredGrows
    <2>3. AnsweredBefore(cs[rd].msg + 1)'
      <3>1. x.n < cs[rd].msg + 1
        BY <1>1, <2>1
      <3>2. \E n : n = cs[rd].msg + 1 /\ AnsweredBefore(n)'
        BY <1>3, <2>2, <3>1
      <3> QED
        BY <1>2, <3>2
    <2>4. ASSUME NEW k \in 1 .. rd, k \in Skipped PROVE Answered(cs[k].msg)' \/ ClientBroken'
      <3>1. CASE cs[k].msg = cs[rd].msg
        <4>1. cs'[k].msg = x.n
          BY <1>2, <2>1, <3>1
        <4> QED
          BY <2>2, <4>1
      <3>2. CASE cs[k].msg < cs[rd].msg
        <4>1. Answered(cs[k].msg) \/ ClientBroken
          BY <1>3, <2>4, <3>2 DEF Dealt
        <4> QED
          BY <1>2, <2>2, <4>1 DEF ClientBroken
      <3>3. cs[k].msg =< cs[rd].msg /\ cs[k].msg \in Nat /\ cs[rd].msg \in Nat
        <4>1. k \in 1 .. Len(cs) /\ (k < rd \/ k = rd)
          BY <1>1
        <4> QED
          BY <1>1, <4>1 DEF OrderInv
      <3> QED
        BY <3>1, <3>2, <3>3
    <2>5. DealtTo(rd)'
      BY <1>2, <1>4, <2>4 DEF DealtTo, Dealt
    <2> QED
      BY <1>1, <1>2, <2>3, <2>5 DEF TurnInv
  <1> QED
    BY <1>5, <1>6 DEF WriteErrorFails, WriteReady, WriteReadyThen, downVars

\* Every step keeps the refusals in their turn.
LEMMA TurnNext ==
    ASSUME TypeInv, UpInv, LockInv, OrderInv, ReadFirst, DownInv, pgEnd # "reset" => TurnInv, [Next]_vars
    PROVE  ReadFirst' /\ (pgEnd' # "reset" => TurnInv')
  <1>0. /\ TypeOK /\ Len(cs) \in Nat /\ rd \in Nat /\ rd =< Len(cs) /\ srd \in Nat
        /\ \A k \in 1 .. Len(cs) : cs[k].msg \in 1 .. Len(msgs)
    BY Elements DEF TypeInv, TypeOK, StreamInv, CursorInv
  <1>1. ASSUME toClient' = toClient
        PROVE  /\ \A n : Answered(n) => Answered(n)'
               /\ \A n : AnsweredBefore(n) => AnsweredBefore(n)'
    BY <1>1 DEF Answered, AnsweredBefore
  <1>2. ASSUME toClient' = toClient, srd' \in Nat, srd =< srd' PROVE ReadFirst'
    <2>1. \A i \in 1 .. Len(toClient) : toClient[i].n \in Nat
      BY Elements DEF TypeInv
    <2> QED
      BY <1>0, <1>2, <2>1 DEF ReadFirst
  <1>3. CASE Client \/ KeepaliveFails
    <2> DEFINE Stays == /\ Len(cs') \in Nat /\ rd =< Len(cs')
                        /\ \A k \in 1 .. rd : cs'[k] = cs[k] /\ msgs'[cs[k].msg] = msgs[cs[k].msg]
    <2>1. ASSUME NEW m \in Shapes, ClientStarts(m) PROVE Stays
      <3>1. /\ Len(cs') = Len(cs) + 1
            /\ \A k \in 1 .. Len(cs) : cs'[k] = cs[k]
            /\ \A k \in 1 .. Len(msgs) : msgs'[k] = msgs[k]
        BY <1>0, <2>1, StartGrows
      <3> QED
        BY <1>0, <3>1
    <2>2. ASSUME ClientContinues PROVE Stays
      BY <1>0, <2>2, ContinueGrows
    <2>3. ASSUME (\E how \in {"eof", "reset", "lost"} : ClientEnds(how)) \/ KeepaliveFails
          PROVE  Stays
      <3>1. msgs' = msgs
        BY <2>3 DEF ClientEnds, KeepaliveFails
      <3>2. /\ Len(cs') \in Nat /\ rd =< Len(cs')
            /\ \A k \in 1 .. Len(cs') : cs'[k] = cs[k]
        BY <2>3, EndKeeps
      <3>3. \A k \in 1 .. rd : k \in 1 .. Len(cs')
        BY <1>0, <3>2
      <3> QED
        BY <3>1, <3>2, <3>3
    <2>4. ASSUME ClientReads PROVE Stays
      BY <1>0, <2>4 DEF ClientReads
    <2>5. Stays
      BY <1>3, <2>1, <2>2, <2>3, <2>4 DEF Client
    <2> HIDE DEF Stays
    <2>6. /\ UNCHANGED <<c2sVars, s2cVars, downVars>>
          /\ cEnd = "reset" => cEnd' = "reset"
          /\ pgEnd = "reset" => pgEnd' = "reset"
          /\ cEnd' # "reset" => (cs' = cs /\ msgs' = msgs) \/ cEnd = "open"
      <3>1. cEnd' # "reset" /\ (KeepaliveFails \/ \E how \in {"eof", "reset", "lost"} : ClientEnds(how)) => cs' = cs
        BY EndKeeps
      <3> QED
        BY <1>3, <3>1 DEF Client, ClientStarts, ClientContinues, ClientEnds, ClientReads,
                          KeepaliveFails, pgVars
    <2>7. ReadFirst'
      BY <1>0, <1>2, <2>6 DEF s2cVars, downVars
    <2>8. ASSUME pgEnd' # "reset" PROVE TurnInv'
      <3>1. TurnInv /\ C2sInv
        BY <2>6, <2>8 DEF UpInv
      <3>2. c2s \in {"shutdown", "done"} => cEnd \in {"reset", "eof"}
        BY <3>1 DEF C2sInv
      <3>3. /\ rd' = rd /\ at' = at /\ c2s' = c2s /\ toClient' = toClient
            /\ ClientBroken => ClientBroken'
        BY <2>6 DEF c2sVars, downVars, ClientBroken
      <3>4. cEnd' # "reset" /\ c2s \in {"shutdown", "done"} => cEnd # "reset" /\ cs' = cs /\ msgs' = msgs
        BY <2>6, <3>2
      <3> QED
        BY <1>1, <2>5, <3>1, <3>3, <3>4, TurnFrame DEF Stays
    <2> QED
      BY <2>7, <2>8
  <1>4. ASSUME UNCHANGED <<msgs, cs, cEnd, rd, at>>,
               pgEnd = "reset" => pgEnd' = "reset",
               c2s' = c2s \/ (c2s \in {"lock", "error"} /\ c2s' \in {"lock", "error", "ready"}),
               \A n : Answered(n) => Answered(n)',
               \A n : AnsweredBefore(n) => AnsweredBefore(n)',
               ClientBroken => ClientBroken',
               pgEnd' # "reset"
        PROVE  TurnInv'
    <2>1. TurnInv
      BY <1>4
    <2> QED
      BY <1>0, <1>4, <2>1, TurnFrame
  <1>5. CASE Pg \/ Select \/ UNCHANGED vars
    <2>1. /\ UNCHANGED <<msgs, cs, cEnd, rd, at, c2s, toClient, srd, clientFin>>
          /\ pgEnd = "reset" => pgEnd' = "reset"
      BY <1>5 DEF Pg, PgSends, PgEnds, PgReads, Select, SelectClientDone, SelectClientDoneTo, SelectServerDone,
                  SessionEnds, DrainTimeout, DrainEnds, vars, clientVars, c2sVars, pgVars, s2cVars, downVars
    <2>2. ClientBroken => ClientBroken'
      BY <2>1 DEF ClientBroken
    <2> QED
      BY <1>0, <1>1, <1>2, <1>4, <2>1, <2>2
  <1>6. CASE ReadServer \/ ReadServerEnds \/ LockForRelay \/ WriteClientFails \/ LockForShutdown \/ ShutdownClient
    <2>1. /\ UNCHANGED <<msgs, cs, cEnd, rd, at, c2s, toClient, pgEnd>>
          /\ srd' \in {srd, srd + 1}
          /\ clientFin => clientFin'
      BY <1>6 DEF ReadServer, ReadServerEnds, LockForRelay, WriteClientFails, LockForShutdown, ShutdownClient,
                  clientVars, c2sVars, pgVars, downVars
    <2>2. ClientBroken => ClientBroken'
      BY <2>1 DEF ClientBroken
    <2>3. srd' \in Nat /\ srd =< srd'
      BY <1>0, <2>1
    <2> QED
      BY <1>1, <1>2, <1>4, <2>1, <2>2, <2>3
  <1>7. CASE WriteClient \/ WriteError
    <2>0. [from |-> "server", n |-> srd] \in Sent /\ (WriteError => [from |-> "error", n |-> cs[rd].msg] \in Sent)
      BY <1>7, Writes
    <2>1. PICK x \in Sent : /\ toClient' = Append(toClient, x)
                            /\ x.from # "ready" /\ (x.from = "server" => x.n =< srd)
      <3>1. CASE WriteClient
        BY <1>0, <2>0, <3>1 DEF WriteClient
      <3>2. CASE WriteError
        BY <2>0, <3>2 DEF WriteError, WriteErrorThen
      <3> QED
        BY <1>7, <3>1, <3>2
    <2>2. /\ UNCHANGED <<msgs, cs, cEnd, rd, at, srd, clientFin, pgEnd>>
          /\ c2s' = c2s \/ (c2s = "error" /\ c2s' = "ready")
      BY <1>7 DEF WriteClient, WriteError, WriteErrorThen, clientVars, c2sVars, pgVars, s2cVars
    <2>3. /\ \A n : Answered(n) => Answered(n)'
          /\ \A n : AnsweredBefore(n) => AnsweredBefore(n)'
          /\ ReadFirst'
      BY <1>0, <2>1, <2>2, AnsweredGrows
    <2>4. ClientBroken => ClientBroken'
      BY <2>2 DEF ClientBroken
    <2> QED
      BY <1>4, <2>2, <2>3, <2>4
  <1>8. CASE LockForRefusal
    <2>1. /\ UNCHANGED <<msgs, cs, cEnd, rd, at, toClient, srd, clientFin, pgEnd>>
          /\ c2s = "lock" /\ c2s' = "error"
      BY <1>8 DEF LockForRefusal, clientVars, pgVars, s2cVars, downVars
    <2>2. ClientBroken => ClientBroken'
      BY <2>1 DEF ClientBroken
    <2> QED
      BY <1>0, <1>1, <1>2, <1>4, <2>1, <2>2
  <1>9. CASE WriteErrorFails \/ WriteReady
    <2>1. pgEnd' = pgEnd /\ srd' = srd
      BY <1>9 DEF WriteErrorFails, WriteReady, WriteReadyThen, pgVars, s2cVars
    <2>2. pgEnd' # "reset" => TurnInv'
      BY <1>9, <2>1, TurnAnswers
    <2>3. ReadFirst'
      <3>1. CASE toClient' = toClient
        BY <1>0, <1>2, <2>1, <3>1
      <3>2. CASE WriteReady /\ toClient' = Append(toClient, [from |-> "ready", n |-> cs[rd].msg])
        <4>1. [from |-> "ready", n |-> cs[rd].msg] \in Sent
          BY <3>2, Writes
        <4>2. PICK x \in Sent : x.from = "ready" /\ toClient' = Append(toClient, x)
          BY <3>2, <4>1
        <4> QED
          BY <1>0, <2>1, <4>2, AnsweredGrows
      <3> QED
        BY <1>9, <3>1, <3>2 DEF WriteErrorFails, WriteReady, WriteReadyThen, downVars
    <2> QED
      BY <2>2, <2>3
  <1>10. CASE \/ ReadHeader \/ ReadHeaderFails \/ InspectBody \/ InspectBodyFails
              \/ WriteHeader \/ WriteBody \/ WriteMessageFails
              \/ ReadChunk \/ WriteChunk \/ ChunkFails \/ ShutdownPg
    <2>1. pgEnd' = pgEnd /\ srd' = srd /\ toClient' = toClient
      BY <1>10 DEF ReadHeader, ReadHeaderFails, InspectBody, InspectBodyFails, WriteHeader, WriteBody,
           WriteMessageFails, ReadChunk, WriteChunk, WriteChunkCounting, ChunkFails, ShutdownPg,
           ShutdownPgTo, pgVars, s2cVars, downVars
    <2>2. pgEnd # "reset" => TurnInv'
      BY <1>10, TurnMoves DEF UpInv
    <2> QED
      BY <1>0, <1>2, <2>1, <2>2
  <1> QED
    BY <1>3, <1>5, <1>6, <1>7, <1>8, <1>9, <1>10 DEF Next, ClientToServer, ServerToClient, Terminated
-----------------------------------------------------------------------------
(* The refinement mapping.                                                 *)

\* The first n natural numbers.
LEMMA UpTo == ASSUME NEW n \in Nat PROVE IsFiniteSet(1 .. n) /\ Cardinality(1 .. n) = n
  <1>1. /\ IsFiniteSet(1 .. n)
        /\ Cardinality(1 .. n) = IF 1 > n THEN 0 ELSE n - 1 + 1
    BY FS_Interval
  <1>2. (IF 1 > n THEN 0 ELSE n - 1 + 1) = n
    OBVIOUS
  <1> QED
    BY <1>1, <1>2

\* A function on them is a sequence.
LEMMA IsSequence ==
    ASSUME NEW n \in Nat, NEW S, NEW f \in [1 .. n -> S]
    PROVE  f \in Seq(S) /\ Len(f) = n
  <1>1. f \in Seq(S)
    BY SeqDef
  <1>2. Len(f) \in Nat /\ DOMAIN f = 1 .. Len(f)
    BY <1>1, LenProperties
  <1>3. \A m \in Nat : 1 .. m = 1 .. n => m = n
    OBVIOUS
  <1> QED
    BY <1>1, <1>2, <1>3

\* The mapped client's stream has the length and the units of the client's.
Asked ==
    /\ AskedUnits \in Seq([msg : 1 .. MaxMsgs, withheld : BOOLEAN])
    /\ Len(cs) \in Nat /\ Len(AskedUnits) = Len(cs) /\ DOMAIN AskedUnits = 1 .. Len(cs)
    /\ \A k \in 1 .. Len(cs) : /\ AskedUnits[k].msg = cs[k].msg
                               /\ AskedUnits[k].withheld <=> k \in Skipped

\* The invariant makes it so...
LEMMA AskedNow == TypeInv /\ OrderInv => Asked
  <1> SUFFICES ASSUME TypeInv, OrderInv PROVE Asked
    OBVIOUS
  <1>1. /\ Len(cs) \in Nat /\ Len(msgs) \in Nat /\ MaxMsgs \in Nat /\ Len(msgs) =< MaxMsgs
        /\ \A k \in 1 .. Len(cs) : cs[k].msg \in 1 .. Len(msgs)
    BY Elements, RelayAssumption DEF TypeInv, StreamInv, OrderInv
  <1>2. ASSUME NEW k \in 1 .. Len(cs)
        PROVE  /\ [msg |-> cs[k].msg, withheld |-> Withheld(k)] \in [msg : 1 .. MaxMsgs, withheld : BOOLEAN]
               /\ AskedUnits[k].msg = cs[k].msg
               /\ AskedUnits[k].withheld <=> k \in Skipped
    <2>1. cs[k].msg \in 1 .. MaxMsgs
      BY <1>1
    <2>2. Withheld(k) \in BOOLEAN
      BY DEF Withheld, Refusable
    <2>3. AskedUnits[k] = [msg |-> cs[k].msg, withheld |-> Withheld(k)]
      BY DEF AskedUnits
    <2>4. AskedUnits[k].withheld = Withheld(k) /\ AskedUnits[k].msg = cs[k].msg
      BY <2>3
    <2> QED
      BY <2>1, <2>2, <2>4 DEF Skipped
  <1>3. AskedUnits \in Seq([msg : 1 .. MaxMsgs, withheld : BOOLEAN])
    <2>1. AskedUnits \in [1 .. Len(cs) -> [msg : 1 .. MaxMsgs, withheld : BOOLEAN]]
      BY <1>2 DEF AskedUnits
    <2> QED
      BY <1>1, <2>1, IsSequence
  <1>4. DOMAIN AskedUnits = 1 .. Len(cs)
    BY DEF AskedUnits
  <1>5. Len(AskedUnits) = Len(cs)
    BY <1>1, <1>3, <1>4, LenProperties
  <1> QED
    BY <1>1, <1>2, <1>3, <1>4, <1>5 DEF Asked

\* ... in the next state too.
LEMMA AskedAfter == (TypeInv /\ OrderInv)' => Asked'
  BY AskedNow, PTL

\* What is owed is at most what was asked.
LEMMA OwedBound ==
    ASSUME TypeInv
    PROVE  Cardinality(Unbroken) \in 0 .. Len(cs)
  <1>1. Len(cs) \in Nat
    BY Elements DEF TypeInv
  <1>2. IsFiniteSet(1 .. Len(cs)) /\ Cardinality(1 .. Len(cs)) = Len(cs)
    BY <1>1, UpTo
  <1>3. Unbroken \subseteq 1 .. Len(cs)
    BY DEF Unbroken
  <1>4. IsFiniteSet(Unbroken) /\ Cardinality(Unbroken) =< Len(cs)
    BY <1>2, <1>3, FS_Subset
  <1>5. Cardinality(Unbroken) \in Nat
    BY <1>4, FS_CardinalityType
  <1> QED
    BY <1>1, <1>4, <1>5

\* Only the header of the last message can belong to a statement cut short.
LEMMA OwedPrefix ==
    ASSUME TypeInv, OrderInv, cEnd # "reset"
    PROVE  /\ Unbroken = 1 .. Cardinality(Unbroken)
           /\ \/ Cardinality(Unbroken) = Len(cs)
              \/ Len(cs) > 0 /\ Cardinality(Unbroken) = Len(cs) - 1 /\ cs[Len(cs)].part = 0
  <1>1. Len(cs) \in Nat /\ \A i \in 1 .. Len(cs) : cs[i].part \in Nat /\ cs[i].msg \in Nat
    BY Elements DEF TypeInv
  <1>2. CASE \A k \in 1 .. Len(cs) : ~CutShort(k)
    <2>1. Unbroken = 1 .. Len(cs)
      BY <1>2 DEF Unbroken
    <2>2. Cardinality(1 .. Len(cs)) = Len(cs)
      BY <1>1, UpTo
    <2> QED
      BY <2>1, <2>2
  <1>3. ASSUME NEW k \in 1 .. Len(cs), CutShort(k) PROVE k = Len(cs) /\ cs[Len(cs)].part = 0
    <2>1. Len(cs) \in 1 .. Len(cs) /\ cs # <<>>
      BY <1>1, EmptySeq DEF TypeInv, TypeOK
    <2>2. /\ cs[k].msg = Len(msgs) /\ Inspected(msgs[cs[k].msg])
          /\ cs[Len(cs)].part < Chunks(msgs[Len(msgs)])
      BY <1>3 DEF CutShort
    <2>3. cs[Len(cs)].msg = Len(msgs)
      BY <2>1 DEF TypeInv, StreamInv
    <2>4. Chunks(msgs[Len(msgs)]) \in Nat /\ Chunks(msgs[Len(msgs)]) =< 1
      <3>1. msgs[Len(msgs)] \in Shapes /\ Inspected(msgs[Len(msgs)])
        BY <2>2, SkippedFacts
      <3> QED
        BY <3>1, ChunksFacts
    <2>5. cs[Len(cs)].part = 0
      BY <1>1, <2>1, <2>2, <2>4
    <2>6. k < Len(cs) => cs[k].msg < cs[Len(cs)].msg
      BY <2>1, <2>5 DEF OrderInv
    <2>7. ~(k < Len(cs))
      BY <1>1, <2>2, <2>3, <2>6
    <2> QED
      BY <1>1, <2>5, <2>7
  <1>4. CASE \E k \in 1 .. Len(cs) : CutShort(k)
    <2>1. CutShort(Len(cs)) /\ Len(cs) > 0 /\ cs[Len(cs)].part = 0
      BY <1>1, <1>3, <1>4
    <2>2. Unbroken = 1 .. Len(cs) - 1
      <3>1. \A k \in 1 .. Len(cs) : ~CutShort(k) <=> k # Len(cs)
        BY <1>3, <2>1
      <3> QED
        BY <1>1, <3>1 DEF Unbroken
    <2>3. Cardinality(1 .. Len(cs) - 1) = Len(cs) - 1
      BY <1>1, <2>1, UpTo
    <2> QED
      BY <2>1, <2>2, <2>3
  <1> QED
    BY <1>2, <1>4

\* What the abstract session says of the streams, in Relay's terms.
LEMMA GivenFacts ==
    ASSUME TypeInv, ShownInv
    PROVE  /\ \A n \in Nat : Promise!Given(Shown, Promise!Refusal(n)) <=> Answered(n)
           /\ \A n \in Nat : Promise!Given(Shown, Promise!Reply(n)) <=> Delivered(n)
           /\ \A k : Promise!Given(toPg, k) <=> Forwarded(k)
  <1>1. /\ toClient \in Seq(Sent) /\ Len(toClient) \in Nat
        /\ \A i \in 1 .. Len(toClient) : toClient[i] \in Sent
    BY Elements, ElementOfSeq DEF TypeInv, TypeOK
  <1>2. ASSUME NEW n \in Nat PROVE Promise!Given(Shown, Promise!Refusal(n)) <=> Answered(n)
    <2> DEFINE y == [from |-> "refusal", n |-> n]
    <2>1. y \in Items
      BY DEF Items
    <2>2. (\E k \in DOMAIN Shown : Shown[k] = y) <=> (\E i \in ShownAt : AsShown(toClient[i]) = y)
      BY <2>1 DEF ShownInv
    <2>3. ASSUME NEW z \in Sent, z.from # "error"
          PROVE  AsShown(z) = y <=> z = [from |-> "ready", n |-> n]
      <3>1. CASE z.from = "ready"
        <4>1. AsShown(z) = [from |-> "refusal", n |-> z.n]
          BY <3>1 DEF AsShown
        <4>2. AsShown(z) = y <=> z.n = n
          BY <4>1
        <4> QED
          BY <3>1, <4>2 DEF Sent
      <3>2. CASE z.from = "server"
        BY <3>2 DEF AsShown, Sent
      <3> QED
        BY <2>3, <3>1, <3>2 DEF Sent
    <2>4. (\E i \in ShownAt : AsShown(toClient[i]) = y) <=> Answered(n)
      BY <1>1, <2>3 DEF ShownAt, Answered
    <2> QED
      BY <2>2, <2>4 DEF Promise!Given, Promise!Refusal
  <1>3. ASSUME NEW n \in Nat PROVE Promise!Given(Shown, Promise!Reply(n)) <=> Delivered(n)
    <2> DEFINE y == [from |-> "server", n |-> n]
    <2>1. y \in Items
      BY DEF Items
    <2>2. (\E k \in DOMAIN Shown : Shown[k] = y) <=> (\E i \in ShownAt : AsShown(toClient[i]) = y)
      BY <2>1 DEF ShownInv
    <2>3. ASSUME NEW z \in Sent, z.from # "error"
          PROVE  AsShown(z) = y <=> z = y
      BY <2>3 DEF AsShown, Sent
    <2>4. (\E i \in ShownAt : AsShown(toClient[i]) = y) <=> Delivered(n)
      BY <1>1, <2>3 DEF ShownAt, Delivered
    <2> QED
      BY <2>2, <2>4 DEF Promise!Given, Promise!Reply
  <1>4. ASSUME NEW k PROVE Promise!Given(toPg, k) <=> Forwarded(k)
    <2>1. DOMAIN toPg = 1 .. Len(toPg)
      BY LenProperties DEF TypeInv, TypeOK
    <2> QED
      BY <2>1 DEF Promise!Given, Forwarded
  <1> QED
    BY <1>2, <1>3, <1>4
\* What is owed, in one formula, for the state a step leads to as well.
Owed ==
    /\ Cardinality(Unbroken) \in 0 .. Len(cs)
    /\ cEnd # "reset" => \/ Cardinality(Unbroken) = Len(cs)
                         \/ Len(cs) > 0 /\ Cardinality(Unbroken) = Len(cs) - 1

\* Owed follows from the invariant...
LEMMA OwedNow == TypeInv /\ OrderInv => Owed
  BY OwedBound, OwedPrefix DEF Owed

\* ... in the next state too.
LEMMA OwedAfter == (TypeInv /\ OrderInv)' => Owed'
  BY OwedNow, PTL
-----------------------------------------------------------------------------
(* The steps.                                                              *)

\* A step that does not touch a stream does not touch its image.
LEMMA Same ==
    /\ cs' = cs /\ msgs' = msgs => AskedUnits' = AskedUnits /\ Cardinality(Unbroken)' = Cardinality(Unbroken)
    /\ toClient' = toClient => Shown' = Shown /\ (ShownInv => ShownInv')
  <1>1. ASSUME cs' = cs, msgs' = msgs
        PROVE  AskedUnits' = AskedUnits /\ Cardinality(Unbroken)' = Cardinality(Unbroken)
    <2>1. Unbroken' = Unbroken
      BY <1>1 DEF Unbroken, CutShort
    <2> QED
      BY <1>1, <2>1 DEF AskedUnits, Withheld
  <1>2. ASSUME toClient' = toClient PROVE Shown' = Shown /\ (ShownInv => ShownInv')
    <2>1. ShownAt' = ShownAt
      BY <1>2 DEF ShownAt
    <2>2. \A i : Place(i)' = Place(i)
      BY <2>1 DEF Place
    <2>3. Shown' = Shown
      BY <1>2, <2>1, <2>2 DEF Shown
    <2> QED
      BY <1>2, <2>1, <2>2, <2>3 DEF ShownInv
  <1> QED
    BY <1>1, <1>2

\* One more unit of the client's stream.
LEMMA StepSends ==
    ASSUME RefInv, RefInv', (\E m \in Shapes : ClientStarts(m)) \/ ClientContinues
    PROVE  Promise!ClientSends
  <1>1. /\ TypeInv /\ OrderInv /\ TypeInv' /\ OrderInv' /\ TypeOK
    BY DEF RefInv, TypeInv
  <1>2. /\ Len(cs) \in Nat /\ Len(cs') = Len(cs) + 1
        /\ \A i \in 1 .. Len(cs) : cs'[i] = cs[i] /\ msgs'[cs[i].msg] = msgs[cs[i].msg]
    <2>0. Len(cs) \in Nat /\ \A i \in 1 .. Len(cs) : cs[i].msg \in 1 .. Len(msgs)
      BY <1>1, Elements DEF TypeInv, StreamInv
    <2>1. (\E m \in Shapes : ClientStarts(m)) =>
              /\ Len(cs') = Len(cs) + 1
              /\ \A i \in 1 .. Len(cs) : cs'[i] = cs[i]
              /\ \A i \in 1 .. Len(msgs) : msgs'[i] = msgs[i]
      BY <1>1, StartGrows
    <2>2. ClientContinues =>
              /\ Len(cs') = Len(cs) + 1 /\ msgs' = msgs
              /\ \A i \in 1 .. Len(cs) : cs'[i] = cs[i]
      BY <1>1, ContinueGrows
    <2> QED
      BY <2>0, <2>1, <2>2
  <1>3. /\ phase # "closed" /\ cEnd = "open"
        /\ UNCHANGED <<cEnd, ss, pgEnd, toPg, pgFin, toClient, clientFin, phase>>
    BY DEF ClientStarts, ClientContinues, pgVars, upVars, downVars
  <1>4. Asked /\ Asked' /\ Owed'
    BY <1>1, AskedNow, AskedAfter, OwedAfter
  <1> DEFINE U == [msg : 1 .. MaxMsgs, withheld : BOOLEAN]
  <1>5. /\ AskedUnits \in Seq(U) /\ AskedUnits' \in Seq(U)
        /\ Len(AskedUnits) = Len(cs) /\ Len(AskedUnits') = Len(cs) + 1
    BY <1>2, <1>4 DEF Asked
  <1>6. ASSUME NEW k \in 1 .. Len(cs) PROVE AskedUnits'[k] = AskedUnits[k]
    <2>1. k \in 1 .. Len(cs')
      BY <1>2
    <2> QED
      BY <1>2, <2>1 DEF AskedUnits, Withheld
  <1> HIDE DEF U
  <1>7. PICK u \in U : AskedUnits' = Append(AskedUnits, u)
    <2>1. Len(cs) + 1 \in 1 .. Len(AskedUnits')
      BY <1>2, <1>5
    <2>2. PICK u \in U : u = AskedUnits'[Len(cs) + 1]
      BY <1>5, <2>1, ElementOfSeq
    <2>3. /\ Append(AskedUnits, u) \in Seq(U) /\ Len(Append(AskedUnits, u)) = Len(cs) + 1
          /\ \A k \in 1 .. Len(cs) : Append(AskedUnits, u)[k] = AskedUnits[k]
          /\ Append(AskedUnits, u)[Len(cs) + 1] = u
      BY <1>5, AppendProperties
    <2>4. \A k \in 1 .. Len(cs) + 1 : k \in 1 .. Len(cs) \/ k = Len(cs) + 1
      BY <1>2
    <2>5. \A k \in 1 .. Len(AskedUnits') : AskedUnits'[k] = Append(AskedUnits, u)[k]
      BY <1>5, <1>6, <2>2, <2>3, <2>4
    <2>6. AskedUnits' = Append(AskedUnits, u)
      BY <1>5, <2>3, <2>5, SeqEqual
    <2> QED
      BY <2>6
  <1>8. Cardinality(Unbroken)' \in {Len(AskedUnits), Len(AskedUnits) + 1}
    BY <1>2, <1>3, <1>4, <1>5 DEF Owed
  <1>9. Shown' = Shown
    BY <1>3, Same
  <1> QED
    BY <1>3, <1>7, <1>8, <1>9
       DEF U, Promise!ClientSends, Promise!results, Promise!up, Promise!down

\* A client that ends its connection or is found dead.
LEMMA StepLeaves ==
    ASSUME RefInv, RefInv',
           \/ \E how \in {"eof", "reset", "lost"} : ClientEnds(how)
           \/ KeepaliveFails /\ cEnd = "lost" /\ cEnd' = "reset" /\ UNCHANGED <<pgEnd, ss>>
    PROVE  \E how \in {"eof", "lost", "reset"} : Promise!ClientLeaves(how)
  <1>1. /\ TypeInv /\ OrderInv /\ TypeInv' /\ OrderInv' /\ TypeOK /\ UpInv
    BY DEF RefInv, TypeInv
  <1>2. /\ Len(cs') \in Nat /\ rd =< Len(cs') /\ Len(cs') =< Len(cs)
        /\ \A i \in 1 .. Len(cs') : cs'[i] = cs[i]
        /\ cs' = cs \/ cEnd' = "reset"
    BY <1>1, EndKeeps
  <1>3. /\ phase # "closed" /\ UNCHANGED <<msgs, ss, pgEnd, toPg, pgFin, toClient, clientFin, phase>>
    BY DEF ClientEnds, KeepaliveFails, pgVars, upVars, downVars
  <1>4. cEnd' \in {"eof", "lost", "reset"} /\ Promise!MayEnd(cEnd, cEnd')
    BY DEF ClientEnds, Promise!MayEnd
  <1>5. Asked /\ Asked' /\ Owed'
    BY <1>1, AskedNow, AskedAfter, OwedAfter
  <1>6. \A i \in DOMAIN toPg : toPg[i] =< Len(cs')
    <2>1. \A i \in 1 .. Len(toPg) : toPg[i] \in 1 .. rd
      BY <1>1 DEF UpInv, Below, Ordered
    <2>2. DOMAIN toPg = 1 .. Len(toPg) /\ rd \in Nat
      BY <1>1, LenProperties DEF TypeOK
    <2> QED
      BY <1>2, <2>1, <2>2
  <1> DEFINE U == [msg : 1 .. MaxMsgs, withheld : BOOLEAN]
             n == Len(cs')
  <1>7. AskedUnits' = SubSeq(AskedUnits, 1, n)
    <2>1. /\ AskedUnits \in Seq(U) /\ AskedUnits' \in Seq(U)
          /\ Len(AskedUnits) = Len(cs) /\ Len(AskedUnits') = n
      BY <1>5 DEF Asked
    <2>2. ASSUME NEW k \in 1 .. n PROVE AskedUnits'[k] = AskedUnits[k]
      <3>1. k \in 1 .. Len(cs)
        BY <1>2, <1>5 DEF Asked
      <3> QED
        BY <1>2, <1>3, <3>1 DEF AskedUnits, Withheld
    <2> HIDE DEF U
    <2>3. /\ SubSeq(AskedUnits, 1, n) \in Seq(U) /\ Len(SubSeq(AskedUnits, 1, n)) = n
          /\ \A k \in 1 .. n : SubSeq(AskedUnits, 1, n)[k] = AskedUnits[k]
      <3>1. n \in Nat /\ n =< Len(AskedUnits) /\ Len(AskedUnits) \in Nat
        BY <1>2, <1>5, <2>1 DEF Asked
      <3> HIDE DEF n
      <3> QED
        BY <2>1, <3>1
    <2>4. \A k \in 1 .. Len(AskedUnits') : AskedUnits'[k] = SubSeq(AskedUnits, 1, n)[k]
      BY <2>1, <2>2, <2>3
    <2> QED
      BY <2>1, <2>3, <2>4, SeqEqual
  <1>8. /\ n \in 0 .. Len(AskedUnits) /\ (cEnd' # "reset" => n = Len(AskedUnits))
        /\ Cardinality(Unbroken)' \in 0 .. n
    <2>1. Len(AskedUnits) = Len(cs) /\ Len(cs) \in Nat
      BY <1>5 DEF Asked
    <2>2. Cardinality(Unbroken)' \in 0 .. n
      BY <1>5 DEF Owed
    <2>3. cEnd' # "reset" => n = Len(AskedUnits)
      BY <1>2, <2>1
    <2>4. n \in Nat /\ n =< Len(AskedUnits)
      BY <1>2, <2>1
    <2> HIDE DEF n
    <2> QED
      BY <2>1, <2>2, <2>3, <2>4
  <1>9. Shown' = Shown
    BY <1>3, Same
  <1> HIDE DEF n
  <1>10. Promise!ClientLeaves(cEnd')
    BY <1>3, <1>4, <1>6, <1>7, <1>8, <1>9
       DEF Promise!ClientLeaves, Promise!results, Promise!up, Promise!down, n
  <1> QED
    BY <1>4, <1>10
\* One more unit of PostgreSQL's stream.
LEMMA StepReplies ==
    ASSUME RefInv, NEW last \in Cuts, PgSends(last)
    PROVE  Promise!PgReplies
  <1>1. /\ UNCHANGED <<msgs, cs, cEnd, pgEnd, toPg, pgFin, toClient, clientFin, phase>>
        /\ phase # "closed" /\ pgEnd = "open" /\ ss' = Append(ss, last)
    BY DEF PgSends, clientVars, upVars, downVars
  <1>2. ss \in Seq(BOOLEAN) /\ last \in BOOLEAN
    BY RelayAssumption DEF RefInv, TypeInv, TypeOK
  <1>3. Len(ss') = Len(ss) + 1
    BY <1>1, <1>2, AppendProperties
  <1> QED
    BY <1>1, <1>3, Same DEF Promise!PgReplies, Promise!requests, Promise!up, Promise!down

\* PostgreSQL closes, crashes, disappears or is found dead.
LEMMA StepPgLeaves ==
    ASSUME RefInv,
           \/ \E how \in {"eof", "reset", "lost"} : PgEnds(how)
           \/ KeepaliveFails /\ pgEnd = "lost" /\ pgEnd' = "reset" /\ ss' \in Kept(ss, srd) /\ UNCHANGED <<cEnd, cs>>
    PROVE  \E how \in {"eof", "lost", "reset"} : Promise!PgLeaves(how)
  <1>1. /\ UNCHANGED <<msgs, cs, cEnd, toPg, pgFin, toClient, clientFin, phase>> /\ phase # "closed"
        /\ pgEnd' \in {"eof", "lost", "reset"} /\ Promise!MayEnd(pgEnd, pgEnd')
        /\ (ss' \in Kept(ss, srd) /\ pgEnd' = "reset") \/ ss' = ss
    BY DEF PgEnds, KeepaliveFails, clientVars, upVars, downVars, Promise!MayEnd
  <1>2. /\ ss \in Seq(BOOLEAN) /\ srd \in Nat /\ srd =< Len(ss) /\ TypeInv /\ ShownInv /\ ReadFirst
    BY DEF RefInv, TypeInv, TypeOK, DownInv
  <1>3. Len(ss) \in Nat /\ Len(ss') \in Nat /\ Len(ss') =< Len(ss) /\ srd =< Len(ss')
    <2>1. CASE ss' = ss
      BY <1>2, <2>1, LenProperties
    <2>2. CASE ss' \in Kept(ss, srd)
      BY <1>2, <2>2, KeptFacts, LenProperties
    <2> QED
      BY <1>1, <2>1, <2>2
  <1>4. ASSUME NEW n \in Len(ss') + 1 .. Len(ss) PROVE ~Promise!Given(Shown, Promise!Reply(n))
    <2>1. n \in Nat /\ n > srd
      BY <1>2, <1>3
    <2>2. ~Delivered(n)
      <3>1. ASSUME NEW i \in 1 .. Len(toClient), toClient[i] = [from |-> "server", n |-> n] PROVE FALSE
        <4>1. toClient[i].from = "server" /\ toClient[i].n = n
          BY <3>1
        <4>2. n =< srd
          BY <1>2, <4>1 DEF ReadFirst
        <4> QED
          BY <1>2, <2>1, <4>2
      <3> QED
        BY <3>1 DEF Delivered
    <2> QED
      BY <1>2, <2>1, <2>2, GivenFacts
  <1>5. Len(ss') \in IF pgEnd' = "reset" THEN 0 .. Len(ss) ELSE {Len(ss)}
    BY <1>1, <1>3
  <1>6. Promise!PgLeaves(pgEnd')
    BY <1>1, <1>4, <1>5, Same DEF Promise!PgLeaves, Promise!requests, Promise!up, Promise!down
  <1> QED
    BY <1>1, <1>6

\* The abstract session's Settled, in Relay's terms.
LEMMA SettledFacts ==
    ASSUME RefInv, NEW k \in 1 .. Len(cs)
    PROVE  /\ k \in Skipped => (Promise!Settled(k) <=> Answered(cs[k].msg) \/ ClientBroken)
           /\ k \notin Skipped => (Promise!Settled(k) <=> Forwarded(k))
  <1>1. TypeInv /\ ShownInv /\ Asked
    BY AskedNow DEF RefInv
  <1>2. cs[k].msg \in Nat
    BY <1>1, Elements DEF TypeInv
  <1>3. AskedUnits[k].msg = cs[k].msg /\ (AskedUnits[k].withheld <=> k \in Skipped)
    BY <1>1 DEF Asked
  <1>4. Promise!ClientGone <=> ClientBroken
    BY DEF Promise!ClientGone, ClientBroken
  <1>5. /\ Promise!Given(Shown, Promise!Refusal(cs[k].msg)) <=> Answered(cs[k].msg)
        /\ Promise!Given(toPg, k) <=> Forwarded(k)
    BY <1>1, <1>2, GivenFacts
  <1> QED
    BY <1>3, <1>4, <1>5 DEF Promise!Settled

\* A unit goes to PostgreSQL.
LEMMA StepForward ==
    ASSUME RefInv, WriteHeader \/ WriteBody \/ WriteChunk
    PROVE  Promise!Forward
  <1>1. /\ UNCHANGED <<msgs, cs, cEnd, ss, pgEnd, pgFin, toClient, clientFin, phase>>
        /\ phase # "closed" /\ toPg' = Append(toPg, at) /\ pgEnd # "reset" /\ c2s # "done"
        /\ c2s \in {"writeHeader", "writeBody", "writeChunk"}
    BY DEF WriteHeader, WriteBody, WriteChunk, WriteChunkCounting, clientVars, pgVars, downVars,
           PgWritable, PgBroken, C2sRuns
  <1>2. /\ TypeInv /\ ShownInv /\ Asked /\ C2sInv /\ TurnInv /\ ~pgFin /\ TypeOK
    BY <1>1, AskedNow DEF RefInv, UpInv, TypeInv
  <1>3. rd \in Nat /\ Len(cs) \in Nat /\ rd =< Len(cs) /\ at \in Nat
    BY <1>2, Elements DEF TypeInv, TypeOK, CursorInv
  <1>4. /\ at \in 1 .. rd /\ Covered(at - 1) /\ Below(at - 1) /\ at \notin Skipped /\ DealtTo(at - 1)
    BY <1>1, <1>2, <1>3 DEF C2sInv, Current, TurnInv
  <1>5. at \in 1 .. Len(cs)
    BY <1>3, <1>4
  <1>6. ~Forwarded(at)
    <2>1. \A j \in 1 .. Len(toPg) : toPg[j] \in 1 .. at - 1
      BY <1>4 DEF Below, Ordered
    <2> QED
      BY <1>3, <2>1 DEF Forwarded
  <1>7. ASSUME NEW j \in 1 .. at - 1 PROVE Promise!Settled(j)
    <2>1. j \in 1 .. Len(cs)
      BY <1>3, <1>4
    <2>2. Dealt(j) /\ (j \in Skipped \/ Forwarded(j))
      BY <1>4 DEF DealtTo, Covered, Covers, Forwarded
    <2> QED
      BY <2>1, <2>2, SettledFacts DEF Dealt
  <1>8. at \in DOMAIN AskedUnits /\ ~AskedUnits[at].withheld /\ ~Promise!Given(toPg, at)
    BY <1>2, <1>4, <1>5, <1>6, GivenFacts DEF Asked
  <1> QED
    BY <1>1, <1>2, <1>7, <1>8, Same
       DEF Promise!Forward, Promise!requests, Promise!results, Promise!down

\* The end of a refusal.
LEMMA StepRefuse ==
    ASSUME RefInv, WriteReady, ClientWritable, toClient' = Append(toClient, [from |-> "ready", n |-> cs[rd].msg])
    PROVE  Promise!Refuse
  <1>1. /\ UNCHANGED <<msgs, cs, cEnd, ss, pgEnd, toPg, pgFin, clientFin, phase>>
        /\ phase # "closed" /\ c2s = "ready" /\ ~ClientBroken
    BY DEF WriteReady, WriteReadyThen, clientVars, upVars, pgVars, C2sRuns, ClientWritable
  <1>2. /\ TypeInv /\ LockInv /\ ShownInv /\ Asked /\ TypeOK /\ UpInv
        /\ pgEnd # "reset" => TurnInv /\ C2sInv
    BY AskedNow DEF RefInv, UpInv, TypeInv
  <1>3. /\ rd \in 1 .. Len(cs) /\ [from |-> "ready", n |-> cs[rd].msg] \in Sent /\ cs[rd].msg \in Nat
    BY <1>2, Writes, Elements
  <1>4. Shown' = Append(Shown, [from |-> "refusal", n |-> cs[rd].msg])
    <2>1. PICK x \in Sent : x = [from |-> "ready", n |-> cs[rd].msg]
      BY <1>3
    <2>2. Shown' = Append(Shown, AsShown(x))
      BY <1>2, <2>1, ShownMore
    <2>3. AsShown(x) = [from |-> "refusal", n |-> cs[rd].msg]
      BY <2>1 DEF AsShown
    <2> QED
      BY <2>2, <2>3
  <1>5. rd \in DOMAIN AskedUnits /\ AskedUnits[rd].msg = cs[rd].msg
    BY <1>2, <1>3 DEF Asked
  <1>6. ASSUME pgEnd # "reset"
        PROVE  /\ AskedUnits[rd].withheld /\ ~Promise!Given(Shown, Promise!Refusal(AskedUnits[rd].msg))
               /\ \A j \in 1 .. rd : AskedUnits[j].msg < AskedUnits[rd].msg => Promise!Settled(j)
    <2>1. /\ rd \in Skipped /\ AnsweredBefore(cs[rd].msg) /\ Covered(rd)
          /\ \A k \in 1 .. rd : cs[k].msg < cs[rd].msg => Dealt(k)
      BY <1>1, <1>2, <1>6 DEF TurnInv, C2sInv
    <2>2. ~Answered(cs[rd].msg)
      <3>1. ASSUME NEW i \in 1 .. Len(toClient), toClient[i] = [from |-> "ready", n |-> cs[rd].msg] PROVE FALSE
        <4>1. toClient[i].from = "ready" /\ toClient[i].n = cs[rd].msg
          BY <3>1
        <4>2. cs[rd].msg < cs[rd].msg
          BY <2>1, <4>1 DEF AnsweredBefore
        <4> QED
          BY <1>3, <4>2
      <3> QED
        BY <3>1 DEF Answered
    <2>3. ~Promise!Given(Shown, Promise!Refusal(AskedUnits[rd].msg))
      BY <1>2, <1>3, <1>5, <2>2, GivenFacts
    <2>4. ASSUME NEW j \in 1 .. rd, AskedUnits[j].msg < AskedUnits[rd].msg PROVE Promise!Settled(j)
      <3>1. j \in 1 .. Len(cs)
        BY <1>3
      <3>2. cs[j].msg < cs[rd].msg
        BY <1>2, <1>5, <2>4, <3>1 DEF Asked
      <3>3. Dealt(j) /\ (j \in Skipped \/ Forwarded(j))
        BY <2>1, <3>2 DEF Covered, Covers, Forwarded
      <3> QED
        BY <3>1, <3>3, SettledFacts DEF Dealt
    <2>5. AskedUnits[rd].withheld
      BY <1>2, <1>3, <2>1 DEF Asked
    <2> QED
      BY <2>3, <2>4, <2>5
  <1>7. ~Promise!ClientGone
    BY <1>1 DEF Promise!ClientGone, ClientBroken
  <1>8. Shown' = Append(Shown, Promise!Refusal(AskedUnits[rd].msg))
    BY <1>4, <1>5 DEF Promise!Refusal
  <1> QED
    BY <1>1, <1>5, <1>6, <1>7, <1>8, Same
       DEF Promise!Refuse, Promise!requests, Promise!results, Promise!up
\* A unit goes to the client.
LEMMA StepDeliver ==
    ASSUME RefInv, WriteClient
    PROVE  Promise!Deliver
  <1>1. /\ UNCHANGED <<msgs, cs, cEnd, ss, pgEnd, toPg, pgFin, clientFin, phase>>
        /\ phase # "closed" /\ s2c = "write" /\ ~ClientBroken
        /\ toClient' = Append(toClient, [from |-> "server", n |-> srd])
    BY DEF WriteClient, clientVars, upVars, pgVars, S2cRuns, ClientWritable
  <1>2. /\ TypeInv /\ LockInv /\ ShownInv /\ TypeOK /\ srd \in Nat
        /\ srd > 0 /\ srd =< Len(ss) /\ Given(toClient, srd - 1)
    BY <1>1 DEF RefInv, TypeInv, TypeOK, DownInv
  <1>3. Shown' = Append(Shown, [from |-> "server", n |-> srd])
    <2>1. PICK x \in Sent : x = [from |-> "server", n |-> srd]
      BY <1>2, Writes
    <2>2. Shown' = Append(Shown, AsShown(x))
      BY <1>1, <1>2, <2>1, ShownMore
    <2>3. AsShown(x) = x
      BY <2>1 DEF AsShown
    <2> QED
      BY <2>1, <2>2, <2>3
  <1>4. ~Delivered(srd)
    <2>1. ASSUME NEW i \in 1 .. Len(toClient), toClient[i] = [from |-> "server", n |-> srd] PROVE FALSE
      <3>1. toClient[i].from = "server" /\ toClient[i].n = srd
        BY <2>1
      <3>2. srd =< srd - 1
        BY <1>2, <3>1 DEF Given
      <3> QED
        BY <1>2, <3>2
    <2> QED
      BY <2>1 DEF Delivered
  <1>5. \A m \in 1 .. srd - 1 : Delivered(m)
    BY <1>2 DEF Given, Delivered
  <1>6. /\ ~Promise!Given(Shown, Promise!Reply(srd))
        /\ \A m \in 1 .. srd - 1 : Promise!Given(Shown, Promise!Reply(m))
    <2>1. \A m \in 1 .. srd - 1 : m \in Nat
      BY <1>2
    <2> QED
      BY <1>2, <1>4, <1>5, <2>1, GivenFacts
  <1>7. srd \in 1 .. Len(ss)
    <2>1. Len(ss) \in Nat
      BY <1>2, LenProperties DEF TypeOK
    <2> QED
      BY <1>2, <2>1
  <1>8. ~Promise!ClientGone /\ Shown' = Append(Shown, Promise!Reply(srd))
    BY <1>1, <1>3 DEF Promise!ClientGone, ClientBroken, Promise!Reply
  <1> QED
    BY <1>1, <1>6, <1>7, <1>8, Same
       DEF Promise!Deliver, Promise!requests, Promise!results, Promise!up

\* client_to_server shuts the connection to PostgreSQL down.
LEMMA StepEndRequests ==
    ASSUME RefInv, ShutdownPg
    PROVE  Promise!EndRequests
  <1>1. /\ UNCHANGED <<msgs, cs, cEnd, ss, pgEnd, toPg, toClient, clientFin, phase>>
        /\ phase # "closed" /\ c2s = "shutdown" /\ pgFin' = TRUE
    BY DEF ShutdownPg, ShutdownPgTo, clientVars, pgVars, downVars, C2sRuns
  <1>2. /\ TypeInv /\ OrderInv /\ ~pgFin
        /\ pgEnd # "reset" => TurnInv /\ C2sInv
    BY <1>1 DEF RefInv, UpInv
  <1>3. ASSUME pgEnd # "reset", cEnd # "reset"
        PROVE  cEnd = "eof" /\ \A k \in 1 .. Cardinality(Unbroken) : Promise!Settled(k)
    <2>1. /\ cEnd = "eof"
          /\ \A k \in 1 .. Len(cs) : k \in Skipped \/ Forwarded(k) \/ CutShort(k)
          /\ \A k \in 1 .. Len(cs) : Dealt(k) \/ CutShort(k)
      BY <1>1, <1>2, <1>3 DEF C2sInv, TurnInv
    <2>2. ASSUME NEW k \in 1 .. Cardinality(Unbroken) PROVE Promise!Settled(k)
      <3>1. k \in 1 .. Len(cs) /\ ~CutShort(k)
        <4>1. k \in Unbroken
          BY <1>2, <1>3, OwedPrefix
        <4> QED
          BY <4>1 DEF Unbroken
      <3> QED
        BY <2>1, <3>1, SettledFacts DEF Dealt
    <2> QED
      BY <2>1, <2>2
  <1> QED
    BY <1>1, <1>2, <1>3, Same
       DEF Promise!EndRequests, Promise!requests, Promise!results, Promise!down

\* server_to_client shuts the connection to the client down.
LEMMA StepEndResults ==
    ASSUME RefInv, ShutdownClient
    PROVE  Promise!EndResults
  <1>1. /\ UNCHANGED <<msgs, cs, cEnd, ss, pgEnd, toPg, pgFin, toClient, phase>>
        /\ phase # "closed" /\ s2c = "close" /\ clientFin' = TRUE
    BY DEF ShutdownClient, clientVars, upVars, pgVars, S2cRuns
  <1>2. /\ TypeInv /\ ShownInv /\ ~clientFin
        /\ \/ pgEnd \in {"eof", "reset"} /\ srd = Len(ss) /\ Given(toClient, srd)
           \/ cEnd = "reset"
    BY <1>1 DEF RefInv, LockInv, DownInv
  <1>3. cEnd # "reset" => /\ pgEnd \in {"eof", "reset"}
                          /\ \A n \in 1 .. Len(ss) : Promise!Given(Shown, Promise!Reply(n))
    <2>1. \A n \in 1 .. Len(ss) : n \in Nat
      BY <1>2, LenProperties DEF TypeInv, TypeOK
    <2>2. cEnd # "reset" => \A n \in 1 .. Len(ss) : Delivered(n)
      BY <1>2 DEF Given, Delivered
    <2> QED
      BY <1>2, <2>1, <2>2, GivenFacts
  <1> QED
    BY <1>1, <1>2, <1>3, Same
       DEF Promise!EndResults, Promise!requests, Promise!results, Promise!up

\* The session ends.
LEMMA StepClose ==
    ASSUME RefInv, SessionEnds \/ DrainTimeout
    PROVE  Promise!Close
  <1>1. /\ UNCHANGED <<msgs, cs, cEnd, ss, pgEnd, toPg, pgFin, toClient, clientFin>>
        /\ phase # "closed" /\ phase' = "closed"
        /\ phase = "drain" \/ s2c = "done"
    BY DEF SessionEnds, DrainTimeout, DrainEnds, clientVars, upVars, pgVars, downVars
  <1>2. clientFin
    BY <1>1 DEF RefInv, LockInv, TypeInv, TypeOK
  <1> QED
    BY <1>1, <1>2, Same
       DEF Promise!Close, Promise!requests, Promise!results, Promise!up, Promise!down

\* Every step keeps the image of the client's stream.
LEMMA ShownNext == TypeInv /\ LockInv /\ ShownInv /\ [Next]_vars => ShownInv'
  <1> SUFFICES ASSUME TypeInv, LockInv, ShownInv, [Next]_vars PROVE ShownInv'
    OBVIOUS
  <1>0. TypeOK
    BY DEF TypeInv
  <1>1. CASE toClient' = toClient
    BY <1>1, Same
  <1>2. CASE WriteClient \/ WriteError \/ WriteReady
    <2>1. /\ [from |-> "server", n |-> srd] \in Sent
          /\ WriteError \/ WriteReady => /\ [from |-> "error", n |-> cs[rd].msg] \in Sent
                                         /\ [from |-> "ready", n |-> cs[rd].msg] \in Sent
      BY <1>2, Writes
    <2>2. toClient' = toClient \/ \E x \in Sent : toClient' = Append(toClient, x)
      BY <1>2, <2>1 DEF WriteClient, WriteError, WriteErrorThen, WriteReady, WriteReadyThen
    <2>3. ASSUME NEW x \in Sent, toClient' = Append(toClient, x) PROVE ShownInv'
      BY <1>0, <2>3, ShownError, ShownMore
    <2> QED
      BY <1>1, <2>2, <2>3
  <1>3. CASE Client \/ Pg \/ KeepaliveFails \/ Select \/ UNCHANGED vars
    BY <1>1, <1>3 DEF Client, ClientStarts, ClientContinues, ClientEnds, ClientReads, Pg, PgSends,
          PgEnds, PgReads, KeepaliveFails, Select, SelectClientDone, SelectClientDoneTo, SelectServerDone,
          SessionEnds, DrainTimeout, DrainEnds, vars, downVars
  <1>4. CASE \/ ReadServer \/ ReadServerEnds \/ LockForRelay \/ WriteClientFails \/ LockForShutdown \/ ShutdownClient
             \/ LockForRefusal \/ WriteErrorFails
    BY <1>1, <1>4 DEF ReadServer, ReadServerEnds, LockForRelay, WriteClientFails, LockForShutdown, ShutdownClient,
          LockForRefusal, WriteErrorFails, downVars
  <1>5. CASE \/ ReadHeader \/ ReadHeaderFails \/ InspectBody \/ InspectBodyFails
             \/ WriteHeader \/ WriteBody \/ WriteMessageFails
             \/ ReadChunk \/ WriteChunk \/ ChunkFails \/ ShutdownPg
    BY <1>1, <1>5 DEF ReadHeader, ReadHeaderFails, InspectBody, InspectBodyFails, WriteHeader, WriteBody,
          WriteMessageFails, ReadChunk, WriteChunk, WriteChunkCounting, ChunkFails, ShutdownPg,
          ShutdownPgTo, downVars
  <1> QED
    BY <1>2, <1>3, <1>4, <1>5 DEF Next, ClientToServer, ServerToClient, Terminated

\* Every step is a step of Session or none.
LEMMA StepImplements ==
    ASSUME RefInv, RefInv', [Next]_vars
    PROVE  [Promise!Next]_(Promise!vars)
  <1>1. ASSUME UNCHANGED <<msgs, cs, cEnd, ss, pgEnd, toPg, pgFin, clientFin>>, Shown' = Shown,
               phase' = phase \/ (phase # "closed" /\ phase' # "closed")
        PROVE  UNCHANGED Promise!vars
    <2>1. AskedUnits' = AskedUnits /\ Cardinality(Unbroken)' = Cardinality(Unbroken)
      BY <1>1, Same
    <2> QED
      BY <1>1, <2>1 DEF Promise!vars, Promise!requests, Promise!results, Promise!up, Promise!down
  <1>2. ASSUME UNCHANGED <<msgs, cs, cEnd, ss, pgEnd, toPg, pgFin, clientFin, toClient>>,
               phase' = phase \/ (phase # "closed" /\ phase' # "closed")
        PROVE  UNCHANGED Promise!vars
    BY <1>1, <1>2, Same
  <1>3. CASE (\E m \in Shapes : ClientStarts(m)) \/ ClientContinues
    BY <1>3, StepSends DEF Promise!Next
  <1>4. CASE \E how \in {"eof", "reset", "lost"} : ClientEnds(how)
    BY <1>4, StepLeaves DEF Promise!Next
  <1>5. CASE KeepaliveFails
    <2>1. CASE cEnd = "lost" /\ cEnd' = "reset" /\ UNCHANGED <<pgEnd, ss>>
      BY <1>5, <2>1, StepLeaves DEF Promise!Next
    <2>2. CASE pgEnd = "lost" /\ pgEnd' = "reset" /\ ss' \in Kept(ss, srd) /\ UNCHANGED <<cEnd, cs>>
      BY <1>5, <2>2, StepPgLeaves DEF Promise!Next
    <2> QED
      BY <1>5, <2>1, <2>2 DEF KeepaliveFails
  <1>6. CASE \/ \E last \in Cuts : PgSends(last)
             \/ \E how \in {"eof", "reset", "lost"} : PgEnds(how)
    BY <1>6, StepReplies, StepPgLeaves DEF Promise!Next
  <1>7. CASE ClientReads \/ PgReads \/ UNCHANGED vars \/ SelectClientDone \/ SelectServerDone
    BY <1>2, <1>7 DEF ClientReads, PgReads, vars, SelectClientDone, SelectClientDoneTo, SelectServerDone,
          clientVars, pgVars, upVars, downVars
  <1>8. CASE \/ ReadHeader \/ ReadHeaderFails \/ InspectBody \/ InspectBodyFails
             \/ WriteMessageFails \/ ReadChunk \/ ChunkFails
             \/ LockForRefusal \/ WriteErrorFails \/ (WriteReady /\ toClient' = toClient)
    BY <1>2, <1>8 DEF ReadHeader, ReadHeaderFails, InspectBody, InspectBodyFails, WriteMessageFails,
          ReadChunk, ChunkFails, LockForRefusal, WriteErrorFails, WriteReady, WriteReadyThen,
          clientVars, pgVars, upVars, downVars
  <1>9. CASE ReadServer \/ ReadServerEnds \/ LockForRelay \/ WriteClientFails \/ LockForShutdown
    BY <1>2, <1>9 DEF ReadServer, ReadServerEnds, LockForRelay, WriteClientFails, LockForShutdown,
          clientVars, pgVars, upVars, downVars
  <1>10. CASE WriteHeader \/ WriteBody \/ WriteChunk
    BY <1>10, StepForward DEF Promise!Next
  <1>11. CASE WriteError
    <2>1. /\ UNCHANGED <<msgs, cs, cEnd, ss, pgEnd, toPg, pgFin, clientFin, phase>>
          /\ toClient' = Append(toClient, [from |-> "error", n |-> cs[rd].msg])
      BY <1>11 DEF WriteError, WriteErrorThen, clientVars, pgVars, upVars
    <2>2. PICK x \in Sent : x = [from |-> "error", n |-> cs[rd].msg]
      BY <1>11, Writes DEF RefInv
    <2>3. Shown' = Shown
      BY <2>1, <2>2, ShownError DEF RefInv, TypeInv
    <2> QED
      BY <1>1, <2>1, <2>3
  <1>12. CASE WriteReady /\ toClient' # toClient
    BY <1>12, StepRefuse DEF WriteReady, WriteReadyThen, Promise!Next
  <1>13. CASE WriteClient
    BY <1>13, StepDeliver DEF Promise!Next
  <1>14. CASE ShutdownPg
    BY <1>14, StepEndRequests DEF Promise!Next
  <1>15. CASE ShutdownClient
    BY <1>15, StepEndResults DEF Promise!Next
  <1>16. CASE SessionEnds \/ DrainTimeout
    BY <1>16, StepClose DEF Promise!Next
  <1> QED
    BY <1>3, <1>4, <1>5, <1>6, <1>7, <1>8, <1>9, <1>10, <1>11, <1>12, <1>13, <1>14, <1>15, <1>16
       DEF Next, Client, Pg, ClientToServer, ServerToClient, Select, Terminated

\* The invariant holds at first...
LEMMA RefInit == Init => RefInv
  <1> SUFFICES ASSUME Init PROVE RefInv
    OBVIOUS
  <1>1. TypeInv /\ UpInv /\ LockInv /\ DownInv
    BY TypeInit, UpInit, LockInit, DownInit
  <1>2. /\ msgs = <<>> /\ cs = <<>> /\ toClient = <<>> /\ rd = 0 /\ c2s = "header"
        /\ Len(<<>>) = 0
    BY DEF Init
  <1>3. OrderInv /\ ReadFirst
    BY <1>2, RelayAssumption DEF OrderInv, ReadFirst
  <1>4. TurnInv
    BY <1>2 DEF TurnInv, AnsweredBefore, DealtTo
  <1>5. ShownAt = {}
    BY <1>2 DEF ShownAt
  <1>6. Shown = <<>> /\ Cardinality(ShownAt) = 0
    <2>1. Cardinality(ShownAt) = 0
      BY <1>5, FS_EmptySet
    <2>2. DOMAIN Shown = 1 .. 0
      BY <2>1 DEF Shown
    <2> QED
      BY <2>1, <2>2 DEF Shown
  <1>7. ShownInv
    BY <1>5, <1>6 DEF ShownInv
  <1> QED
    BY <1>1, <1>3, <1>4, <1>7 DEF RefInv

\* ... and every step keeps it.
LEMMA RefNext == RefInv /\ [Next]_vars => RefInv'
  BY TypeNext, UpNext, LockNext, DownNext, OrderNext, TurnNext, ShownNext DEF RefInv

(***************************************************************************)
(* The two futures behind their mutex, with the select! that ends them,    *)
(* implement Session: whatever the messages, the buffer sizes, the order   *)
(* of the awaits and the failures, PostgreSQL and the client see what a    *)
(* relay of whole streams that refuses in turn would have shown them.      *)
(***************************************************************************)
THEOREM Refinement == Spec => ImplementsSession
  <1>1. Init => Promise!Init
    <2> SUFFICES ASSUME Init PROVE Promise!Init
      OBVIOUS
    <2>1. /\ cs = <<>> /\ Len(<<>>) = 0 /\ ss = <<>> /\ toClient = <<>>
      BY DEF Init
    <2>2. AskedUnits = <<>> /\ Unbroken = {} /\ ShownAt = {}
      BY <2>1 DEF AskedUnits, Unbroken, ShownAt
    <2>3. Cardinality(Unbroken) = 0 /\ Cardinality(ShownAt) = 0
      BY <2>2, FS_EmptySet
    <2>4. Shown = <<>>
      BY <2>3 DEF Shown
    <2> QED
      BY <2>1, <2>2, <2>3, <2>4 DEF Init, Promise!Init
  <1>2. RefInv /\ RefInv' /\ [Next]_vars => [Promise!Next]_(Promise!vars)
    BY StepImplements
  <1> QED
    BY <1>1, <1>2, RefInit, RefNext, PTL DEF Spec, ImplementsSession, Promise!Spec
=============================================================================
