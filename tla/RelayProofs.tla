---------------------------- MODULE RelayProofs ----------------------------
(***************************************************************************)
(* Proofs about Relay for every set of messages, every buffer size and     *)
(* every bound.                                                            *)
(***************************************************************************)
EXTENDS Relay, SequenceTheorems, TLAPS

-----------------------------------------------------------------------------
(* The inductive invariant.                                                *)

\* The client's stream is a sequence of messages, the last one unfinished;
\* a reset may have cut it short.
StreamInv ==
    /\ \A i \in 1 .. Len(cs) :
          /\ cs[i].msg \in 1 .. Len(msgs)
          /\ cs[i].part =< Chunks(msgs[cs[i].msg])
          /\ cs[i].part # 0 => /\ i > 1
                              /\ cs[i - 1].msg = cs[i].msg
                              /\ cs[i - 1].part = cs[i].part - 1
    /\ \A i \in 1 .. Len(cs) - 1 : cs[i].part < Chunks(msgs[cs[i].msg]) =>
          cs[i + 1].msg = cs[i].msg /\ cs[i + 1].part = cs[i].part + 1
    /\ cEnd # "reset" =>
          /\ cs # <<>> => cs[Len(cs)].msg = Len(msgs)
          /\ cs = <<>> => msgs = <<>>

\* Position i of the client's stream ends a message.
Boundary(i) == i = 0 \/ cs[i].part = Chunks(msgs[cs[i].msg])

\* The positions of the client's stream that Guardian withholds.
Skipped == {k \in 1 .. Len(cs) : Withheld(k)}

\* With w withheld and q forwarded, every position up to b is accounted for.
Covers(w, q, b) == \A k \in 1 .. b : k \in w \/ \E j \in 1 .. Len(q) : q[j] = k

\* q lists increasing positions up to b, none in w, each after all before it.
Ordered(w, q, b) ==
    /\ \A i, j \in 1 .. Len(q) : i < j => q[i] < q[j]
    /\ \A i \in 1 .. Len(q) : q[i] \in 1 .. b /\ q[i] \notin w /\ Covers(w, q, q[i])

Covered(b) == Covers(Skipped, toPg, b)
Below(b) == Ordered(Skipped, toPg, b)

\* The header at position i was taken for the message it starts.
Current(i) == i \in 1 .. rd /\ cs[i].part = 0 /\ cur = msgs[cs[i].msg]

\* Where client_to_server stands, as long as PostgreSQL takes its writes.
C2sInv ==
    /\ c2s = "header" =>
          /\ Covered(rd)
          /\ Boundary(rd) \/ (cEnd \in {"reset", "eof"} /\ rd = Len(cs))
    /\ c2s = "inspect" =>
          /\ Current(rd) /\ at = rd /\ Covered(rd - 1) /\ Below(rd - 1)
          /\ Inspected(cur) /\ left = Chunks(cur)
    /\ c2s \in {"lock", "error", "ready"} => Covered(rd) /\ Boundary(rd)
    /\ c2s = "writeHeader" =>
          /\ Current(at) /\ Covered(at - 1) /\ Below(at - 1) /\ at \notin Skipped
          /\ \/ left = 0 /\ Chunks(cur) =< 1 /\ rd = at + Chunks(cur)
             \/ left = Chunks(cur) /\ rd = at
    /\ c2s = "writeBody" =>
          /\ rd >= 1 /\ at = rd /\ Covered(rd - 1) /\ Below(rd - 1) /\ rd \notin Skipped
          /\ Boundary(rd)
    /\ c2s = "readChunk" =>
          /\ rd >= 1 /\ at = rd + 1 /\ Covered(rd) /\ rd \notin Skipped
          /\ cs[rd].part + left = Chunks(msgs[cs[rd].msg])
    /\ c2s = "writeChunk" =>
          /\ rd >= 1 /\ at = rd /\ Covered(rd - 1) /\ Below(rd - 1) /\ rd \notin Skipped
          /\ cs[rd].part + (left - 1) = Chunks(msgs[cs[rd].msg])
    /\ c2s \in {"shutdown", "done"} /\ cEnd # "reset" =>
          /\ cEnd = "eof"
          /\ \A k \in 1 .. Len(cs) : k \in Skipped \/ Forwarded(k) \/ CutShort(k)

\* The cursors of client_to_server.
CursorInv ==
    /\ rd =< Len(cs)
    /\ c2s \in {"readChunk", "writeChunk"} => left > 0
    /\ c2s \in {"inspect", "lock", "error", "ready"} => rd >= 1

UpInv ==
    /\ Below(rd)
    /\ pgFin => c2s = "done"
    /\ pgEnd # "reset" => C2sInv

\* Who may write to the client, and which future is still running.
LockInv ==
    /\ lock = "s2c" <=> s2c \in {"write", "close"}
    /\ lock = "c2s" => c2s \in {"error", "ready"}
    /\ c2s \in {"error", "ready"} /\ phase # "closed" => lock = "c2s"
    /\ phase = "awaitServer" => c2s = "done"
    /\ phase \in {"drain", "closed"} => s2c = "done"
    /\ clientFin <=> s2c = "done"

\* Every answer in q is whole, but perhaps for a last ErrorResponse.
Whole(q) ==
    /\ \A i \in 1 .. Len(q) - 1 : q[i].from = "error" => q[i + 1] = [from |-> "ready", n |-> q[i].n]
    /\ \A i \in 1 .. Len(q) : q[i].from = "ready" =>
          i > 1 /\ q[i - 1] = [from |-> "error", n |-> q[i].n]

\* An ErrorResponse stands last only while its ReadyForQuery is being written
\* or because nothing can be written any more.
AnswerInv ==
    /\ Whole(toClient)
    /\ c2s = "ready" =>
          Len(toClient) > 0 /\ toClient[Len(toClient)] = [from |-> "error", n |-> cs[rd].msg]
    /\ Len(toClient) > 0 /\ toClient[Len(toClient)].from = "error" =>
          c2s = "ready" \/ ClientBroken

\* PostgreSQL's units in q are exactly 1 .. b, in order.
Given(q, b) ==
    /\ \A i, j \in 1 .. Len(q) :
          i < j /\ q[i].from = "server" /\ q[j].from = "server" => q[i].n < q[j].n
    /\ \A i \in 1 .. Len(q) : q[i].from = "server" => q[i].n =< b
    /\ \A k \in 1 .. b : \E i \in 1 .. Len(q) : q[i] = [from |-> "server", n |-> k]

\* Where server_to_client stands.
DownInv ==
    /\ srd =< Len(ss)
    /\ s2c = "read" => Given(toClient, srd)
    /\ s2c \in {"lock", "write"} => srd > 0 /\ Given(toClient, srd - 1)
    /\ s2c \in {"shutdown", "close", "done"} =>
          \/ pgEnd \in {"eof", "reset"} /\ srd = Len(ss) /\ Given(toClient, srd)
          \/ cEnd = "reset" /\ \E b \in Nat : Given(toClient, b)

TypeInv == TypeOK /\ StreamInv /\ CursorInv

-----------------------------------------------------------------------------
(* The operators on messages.                                              *)

\* A payload takes a natural number of chunks; one that Guardian inspects
\* fits in a single one.
LEMMA ChunksFacts ==
    ASSUME NEW m \in Shapes
    PROVE  /\ Chunks(m) \in Nat
           /\ Inspected(m) => Chunks(m) =< 1
  BY RelayAssumption DEF Chunks, PayloadLen, Inspected

\* The code's test (inspect, then consult the lists) refuses what README.md
\* says is refused.
LEMMA RefusedIsRefusable ==
    ASSUME NEW m \in Shapes
    PROVE  Refusable(m) <=> Inspected(m) /\ m.forbidden
  BY RelayAssumption DEF Refusable, Inspected, PayloadLen

\* What the types say about the elements of the streams.
LEMMA Elements ==
    ASSUME TypeOK
    PROVE  /\ Len(cs) \in Nat /\ Len(msgs) \in Nat /\ Len(toPg) \in Nat /\ Len(toClient) \in Nat
           /\ \A i \in 1 .. Len(cs) : cs[i].msg \in Nat /\ cs[i].part \in Nat
           /\ \A i \in 1 .. Len(msgs) : msgs[i] \in Shapes
           /\ \A i \in 1 .. Len(toPg) : toPg[i] \in Nat
           /\ \A i \in 1 .. Len(toClient) : toClient[i].n \in Nat
  <1>1. /\ cs \in Seq([msg : Nat, part : Nat]) /\ msgs \in Seq(Shapes)
        /\ toPg \in Seq(Nat) /\ toClient \in Seq(Sent)
    BY DEF TypeOK
  <1>2. Len(cs) \in Nat /\ Len(msgs) \in Nat /\ Len(toPg) \in Nat /\ Len(toClient) \in Nat
    BY <1>1, LenProperties
  <1>3. ASSUME NEW i \in 1 .. Len(cs) PROVE cs[i].msg \in Nat /\ cs[i].part \in Nat
    <2>1. cs[i] \in [msg : Nat, part : Nat]
      BY <1>1, ElementOfSeq
    <2> QED
      BY <2>1
  <1>4. ASSUME NEW i \in 1 .. Len(msgs) PROVE msgs[i] \in Shapes
    BY <1>1, ElementOfSeq
  <1>5. ASSUME NEW i \in 1 .. Len(toPg) PROVE toPg[i] \in Nat
    BY <1>1, ElementOfSeq
  <1>6. ASSUME NEW i \in 1 .. Len(toClient) PROVE toClient[i].n \in Nat
    <2>1. toClient[i] \in Sent
      BY <1>1, ElementOfSeq
    <2> QED
      BY <2>1 DEF Sent
  <1> QED
    BY <1>2, <1>3, <1>4, <1>5, <1>6

\* A reset keeps what was read and changes nothing that it keeps.
LEMMA KeptFacts ==
    ASSUME NEW S, NEW s \in Seq(S), NEW n \in Nat, NEW t \in Kept(s, n)
    PROVE  /\ t \in Seq(S) /\ Len(t) \in Nat /\ n =< Len(t) /\ Len(t) =< Len(s)
           /\ \A i \in 1 .. Len(t) : t[i] = s[i]
  <1>1. PICK k \in n .. Len(s) : t = SubSeq(s, 1, k)
    BY DEF Kept
  <1>2. Len(s) \in Nat /\ k \in Nat
    BY <1>1, LenProperties
  <1>3. /\ SubSeq(s, 1, k) \in Seq(S)
        /\ Len(SubSeq(s, 1, k)) = k
        /\ \A i \in 1 .. k : SubSeq(s, 1, k)[i] = s[i]
    BY <1>1, <1>2
  <1> QED
    BY <1>1, <1>2, <1>3

-----------------------------------------------------------------------------
(* Types, the client's stream and the cursors.                             *)

\* The initial states satisfy the type invariant.
LEMMA TypeInit == Init => TypeInv
  <1> SUFFICES ASSUME Init PROVE TypeInv
    OBVIOUS
  <1>1. cur \in Shapes
    BY RelayAssumption DEF Init
  <1>2. TypeOK
    <2>1. msgs \in Seq(Shapes) /\ cs \in Seq([msg : Nat, part : Nat])
      BY DEF Init
    <2>2. toPg \in Seq(Nat) /\ ss \in Seq(BOOLEAN) /\ toClient \in Seq(Sent)
      BY DEF Init
    <2>3. pgFin \in BOOLEAN /\ clientFin \in BOOLEAN
      BY DEF Init
    <2>4. /\ cEnd \in Ends /\ pgEnd \in Ends
          /\ cRead \in Nat /\ rd \in Nat /\ at \in Nat /\ left \in Nat /\ srd \in Nat /\ pgRead \in Nat
      BY DEF Init, Ends
    <2>5. /\ c2s \in C2sPoints /\ s2c \in S2cPoints /\ phase \in Phases
          /\ lock \in {"free", "c2s", "s2c"}
      BY DEF Init, C2sPoints, S2cPoints, Phases
    <2> QED
      BY <1>1, <2>1, <2>2, <2>3, <2>4, <2>5 DEF TypeOK
  <1>3. StreamInv
    BY DEF Init, StreamInv
  <1>4. CursorInv
    BY DEF Init, CursorInv
  <1> QED
    BY <1>2, <1>3, <1>4 DEF TypeInv

\* A new message adds its header to the client's stream.
LEMMA StartGrows ==
    ASSUME TypeOK, NEW m \in Shapes, ClientStarts(m)
    PROVE  /\ cs' \in Seq([msg : Nat, part : Nat]) /\ msgs' \in Seq(Shapes)
           /\ Len(cs') = Len(cs) + 1 /\ Len(msgs') = Len(msgs) + 1
           /\ cs' # <<>>
           /\ \A i \in 1 .. Len(cs) : cs'[i] = cs[i]
           /\ \A i \in 1 .. Len(msgs) : msgs'[i] = msgs[i]
           /\ cs'[Len(cs) + 1].msg = Len(msgs) + 1 /\ cs'[Len(cs) + 1].part = 0
           /\ msgs'[Len(msgs) + 1] = m
  <1> DEFINE u == [msg |-> Len(msgs) + 1, part |-> 0]
  <1>1. u \in [msg : Nat, part : Nat]
    BY Elements
  <1>2. cs' = Append(cs, u) /\ msgs' = Append(msgs, m)
    BY DEF ClientStarts
  <1>3. cs \in Seq([msg : Nat, part : Nat]) /\ msgs \in Seq(Shapes)
    BY DEF TypeOK
  <1>4. u.msg = Len(msgs) + 1 /\ u.part = 0
    OBVIOUS
  <1> HIDE DEF u
  <1>5. /\ Append(cs, u) \in Seq([msg : Nat, part : Nat]) /\ Len(Append(cs, u)) = Len(cs) + 1
        /\ Append(cs, u) # <<>>
        /\ \A i \in 1 .. Len(cs) : Append(cs, u)[i] = cs[i]
        /\ Append(cs, u)[Len(cs) + 1] = u
    BY <1>1, <1>3, AppendProperties
  <1>6. /\ Append(msgs, m) \in Seq(Shapes) /\ Len(Append(msgs, m)) = Len(msgs) + 1
        /\ \A i \in 1 .. Len(msgs) : Append(msgs, m)[i] = msgs[i]
        /\ Append(msgs, m)[Len(msgs) + 1] = m
    BY <1>3, AppendProperties
  <1> QED
    BY <1>2, <1>4, <1>5, <1>6

\* The rest of a message adds its next piece.
LEMMA ContinueGrows ==
    ASSUME TypeInv, ClientContinues
    PROVE  /\ cs' \in Seq([msg : Nat, part : Nat])
           /\ Len(cs) > 0 /\ cs[Len(cs)].msg = Len(msgs)
           /\ cs[Len(cs)].part < Chunks(msgs[Len(msgs)])
           /\ Len(cs') = Len(cs) + 1 /\ msgs' = msgs
           /\ cs' # <<>>
           /\ \A i \in 1 .. Len(cs) : cs'[i] = cs[i]
           /\ cs'[Len(cs) + 1].msg = Len(msgs) /\ cs'[Len(cs) + 1].part = cs[Len(cs)].part + 1
  <1> DEFINE u == [msg |-> Len(msgs), part |-> cs[Len(cs)].part + 1]
  <1>0. TypeOK /\ StreamInv
    BY DEF TypeInv
  <1>1. cs \in Seq([msg : Nat, part : Nat]) /\ Len(cs) \in Nat /\ cs # <<>>
    BY <1>0, Elements DEF TypeOK, ClientContinues, AtBoundary
  <1>2. Len(cs) > 0
    BY <1>1, EmptySeq
  <1>3. cs[Len(cs)].msg = Len(msgs) /\ cs[Len(cs)].part < Chunks(msgs[Len(msgs)])
    <2>1. Len(cs) \in 1 .. Len(cs)
      BY <1>1, <1>2
    <2>2. /\ cs[Len(cs)].msg = Len(msgs) /\ msgs[Len(msgs)] \in Shapes
          /\ cs[Len(cs)].part \in Nat
          /\ cs[Len(cs)].part =< Chunks(msgs[Len(msgs)])
      <3>1. cEnd # "reset"
        BY DEF ClientContinues
      <3> QED
        BY <1>0, <1>1, <2>1, <3>1, Elements DEF StreamInv
    <2>3. cs[Len(cs)].part # Chunks(msgs[Len(msgs)])
      BY DEF ClientContinues, AtBoundary
    <2> QED
      BY <2>2, <2>3, ChunksFacts
  <1>4. u \in [msg : Nat, part : Nat]
    BY <1>0, <1>1, <1>2, Elements
  <1>5. cs' = Append(cs, u) /\ msgs' = msgs
    BY DEF ClientContinues
  <1>6. u.msg = Len(msgs) /\ u.part = cs[Len(cs)].part + 1
    OBVIOUS
  <1> HIDE DEF u
  <1> QED
    BY <1>1, <1>2, <1>3, <1>4, <1>5, <1>6, AppendProperties

\* A client that ends its connection, or is found dead: what is left of its
\* stream is still a sequence of messages.
LEMMA EndKeeps ==
    ASSUME TypeInv,
           \/ \E how \in {"eof", "reset", "lost"} : ClientEnds(how)
           \/ KeepaliveFails
    PROVE  /\ StreamInv' /\ CursorInv'
           /\ cs' \in Seq([msg : Nat, part : Nat])
           /\ Len(cs') \in Nat /\ rd =< Len(cs') /\ Len(cs') =< Len(cs)
           /\ \A i \in 1 .. Len(cs') : cs'[i] = cs[i]
           /\ cs' = cs \/ cEnd' = "reset"
  <1>1. /\ cs \in Seq([msg : Nat, part : Nat]) /\ Len(cs) \in Nat /\ rd \in Nat /\ rd =< Len(cs)
    BY Elements DEF TypeInv, TypeOK, CursorInv
  <1>2. /\ cs' = cs \/ (cs' \in Kept(cs, rd) /\ cEnd' = "reset")
        /\ msgs' = msgs /\ rd' = rd /\ left' = left /\ c2s' = c2s
        /\ cEnd = "reset" => cEnd' = "reset"
    BY DEF ClientEnds, KeepaliveFails, c2sVars
  <1>3. /\ cs' \in Seq([msg : Nat, part : Nat])
        /\ Len(cs') \in Nat /\ rd =< Len(cs') /\ Len(cs') =< Len(cs)
        /\ \A i \in 1 .. Len(cs') : cs'[i] = cs[i]
    <2>1. CASE cs' = cs
      BY <1>1, <2>1
    <2>2. CASE cs' \in Kept(cs, rd)
      BY <1>1, <2>2, KeptFacts
    <2> QED
      BY <1>2, <2>1, <2>2
  <1>4. StreamInv'
    <2>1. CASE cs' = cs
      BY <1>2, <2>1 DEF TypeInv, StreamInv
    <2>2. CASE cEnd' = "reset"
      <3>1. ASSUME NEW i \in 1 .. Len(cs')
            PROVE  /\ cs'[i].msg \in 1 .. Len(msgs)
                   /\ cs'[i].part =< Chunks(msgs[cs'[i].msg])
                   /\ cs'[i].part # 0 => /\ i > 1
                                        /\ cs'[i - 1].msg = cs'[i].msg
                                        /\ cs'[i - 1].part = cs'[i].part - 1
        <4>1. i \in 1 .. Len(cs) /\ cs'[i] = cs[i]
          BY <1>1, <1>3
        <4>2. i > 1 => i - 1 \in 1 .. Len(cs')
          BY <1>3
        <4>3. i > 1 => cs'[i - 1] = cs[i - 1]
          BY <1>3, <4>2
        <4>4. /\ cs[i].msg \in 1 .. Len(msgs)
              /\ cs[i].part =< Chunks(msgs[cs[i].msg])
              /\ cs[i].part # 0 => /\ i > 1
                                  /\ cs[i - 1].msg = cs[i].msg
                                  /\ cs[i - 1].part = cs[i].part - 1
          BY <4>1 DEF TypeInv, StreamInv
        <4>5. cs[i].part # 0 => cs'[i - 1].msg = cs[i].msg /\ cs'[i - 1].part = cs[i].part - 1
          BY <4>3, <4>4
        <4> HIDE DEF TypeInv
        <4> QED
          BY <4>1, <4>4, <4>5, Zenon
      <3>2. ASSUME NEW i \in 1 .. Len(cs') - 1, cs'[i].part < Chunks(msgs[cs'[i].msg])
            PROVE  cs'[i + 1].msg = cs'[i].msg /\ cs'[i + 1].part = cs'[i].part + 1
        <4>l. Len(cs) \in Nat /\ Len(cs') \in Nat /\ Len(cs') =< Len(cs)
          BY <1>1, <1>3
        <4> HIDE DEF TypeInv
        <4>1. i \in 1 .. Len(cs) - 1 /\ i \in 1 .. Len(cs') /\ i + 1 \in 1 .. Len(cs')
          BY <4>l
        <4>2. cs'[i] = cs[i] /\ cs'[i + 1] = cs[i + 1]
          BY <1>3, <4>1
        <4>3. cs[i].part < Chunks(msgs[cs[i].msg]) =>
                  cs[i + 1].msg = cs[i].msg /\ cs[i + 1].part = cs[i].part + 1
          BY <4>1 DEF TypeInv, StreamInv
        <4> QED
          BY <3>2, <4>2, <4>3
      <3> QED
        BY <1>2, <2>2, <3>1, <3>2 DEF StreamInv
    <2> QED
      BY <1>2, <2>1, <2>2
  <1>5. CursorInv'
    BY <1>2, <1>3 DEF TypeInv, CursorInv
  <1> QED
    BY <1>2, <1>3, <1>4, <1>5

\* Every step keeps the types, the shape of the client's stream and the cursors.
LEMMA TypeNext == TypeInv /\ [Next]_vars => TypeInv'
  <1> SUFFICES ASSUME TypeInv, [Next]_vars PROVE TypeInv'
    OBVIOUS
  <1> USE DEF TypeInv, TypeOK, Ends, C2sPoints, S2cPoints, Phases,
              clientVars, c2sVars, upVars, pgVars, s2cVars, downVars
  <1>0. \A m \in Shapes : Chunks(m) \in Nat /\ (Inspected(m) => Chunks(m) =< 1)
    BY ChunksFacts
  <1>s. ASSUME UNCHANGED <<msgs, cs, cEnd>> PROVE StreamInv'
    BY <1>s DEF StreamInv
  <1>c. ASSUME UNCHANGED <<cs, rd, left, c2s>> PROVE CursorInv'
    BY <1>c DEF CursorInv
  <1>1. ASSUME NEW m \in Shapes, ClientStarts(m) PROVE TypeInv'
    <2>1. TypeOK'
      BY <1>1, StartGrows DEF ClientStarts
    <2>2. StreamInv'
      <3>1. /\ Len(cs') = Len(cs) + 1 /\ Len(msgs') = Len(msgs) + 1
            /\ cs' # <<>>
            /\ \A i \in 1 .. Len(cs) : cs'[i] = cs[i]
            /\ \A i \in 1 .. Len(msgs) : msgs'[i] = msgs[i]
            /\ cs'[Len(cs) + 1].msg = Len(msgs) + 1 /\ cs'[Len(cs) + 1].part = 0
            /\ msgs'[Len(msgs) + 1] = m
        BY <1>1, StartGrows
      <3>2. /\ Len(cs) \in Nat /\ Len(msgs) \in Nat
            /\ \A i \in 1 .. Len(cs) : cs[i].msg \in Nat /\ cs[i].part \in Nat
            /\ \A i \in 1 .. Len(msgs) : msgs[i] \in Shapes
        BY Elements
      <3> HIDE DEF TypeOK
      <3>5. Len(cs) > 0 => cs[Len(cs)].part = Chunks(msgs[cs[Len(cs)].msg])
        <4>1. Len(cs) > 0 => cs # <<>>
          BY EmptySeq
        <4>2. cs # <<>> => cs[Len(cs)].part = Chunks(msgs[Len(msgs)])
          BY <1>1 DEF ClientStarts, AtBoundary
        <4>3. cs # <<>> => cs[Len(cs)].msg = Len(msgs)
          BY <1>1 DEF ClientStarts, StreamInv
        <4> QED
          BY <4>1, <4>2, <4>3
      <3>3. ASSUME NEW i \in 1 .. Len(cs')
            PROVE  /\ cs'[i].msg \in 1 .. Len(msgs')
                   /\ cs'[i].part =< Chunks(msgs'[cs'[i].msg])
                   /\ cs'[i].part # 0 => /\ i > 1
                                        /\ cs'[i - 1].msg = cs'[i].msg
                                        /\ cs'[i - 1].part = cs'[i].part - 1
        <4>1. CASE i \in 1 .. Len(cs)
          <5>1. /\ cs[i].msg \in 1 .. Len(msgs)
                /\ cs[i].part =< Chunks(msgs[cs[i].msg])
                /\ cs[i].part # 0 => /\ i > 1
                                    /\ cs[i - 1].msg = cs[i].msg
                                    /\ cs[i - 1].part = cs[i].part - 1
            BY <4>1 DEF StreamInv
          <5>2. cs'[i] = cs[i] /\ msgs'[cs[i].msg] = msgs[cs[i].msg]
            BY <4>1, <5>1, <3>1
          <5>3. i > 1 => cs'[i - 1] = cs[i - 1]
            BY <4>1, <3>1, <3>2
          <5> QED
            BY <5>1, <5>2, <5>3, <3>1, <3>2
        <4>2. CASE i = Len(cs) + 1
          BY <4>2, <1>0, <3>1, <3>2 DEF StreamInv
        <4> QED
          BY <4>1, <4>2, <3>1, <3>2
      <3>4. ASSUME NEW i \in 1 .. Len(cs') - 1, cs'[i].part < Chunks(msgs'[cs'[i].msg])
            PROVE  cs'[i + 1].msg = cs'[i].msg /\ cs'[i + 1].part = cs'[i].part + 1
        <4>1. CASE i \in 1 .. Len(cs) - 1
          <5>1. i \in 1 .. Len(cs) /\ i + 1 \in 1 .. Len(cs)
            BY <4>1, <3>2
          <5>2. /\ cs[i].msg \in 1 .. Len(msgs)
                /\ cs[i].part < Chunks(msgs[cs[i].msg]) =>
                      cs[i + 1].msg = cs[i].msg /\ cs[i + 1].part = cs[i].part + 1
            BY <4>1, <5>1 DEF StreamInv
          <5> QED
            BY <3>1, <3>4, <5>1, <5>2
        <4>2. CASE i = Len(cs)
          BY <4>2, <3>1, <3>2, <3>4, <3>5 DEF StreamInv
        <4> QED
          BY <4>1, <4>2, <3>1, <3>2
      <3> QED
        BY <3>1, <3>2, <3>3, <3>4 DEF StreamInv
    <2>3. CursorInv'
      BY <1>1, StartGrows DEF ClientStarts, CursorInv
    <2> QED
      BY <2>1, <2>2, <2>3
  <1>2. CASE ClientContinues
    <2>1. TypeOK'
      BY <1>2, ContinueGrows DEF ClientContinues
    <2>2. StreamInv'
      <3>1. /\ Len(cs) > 0 /\ cs[Len(cs)].msg = Len(msgs)
            /\ cs[Len(cs)].part < Chunks(msgs[Len(msgs)])
            /\ Len(cs') = Len(cs) + 1 /\ msgs' = msgs
            /\ cs' # <<>>
            /\ \A i \in 1 .. Len(cs) : cs'[i] = cs[i]
            /\ cs'[Len(cs) + 1].msg = Len(msgs) /\ cs'[Len(cs) + 1].part = cs[Len(cs)].part + 1
        BY <1>2, ContinueGrows
      <3>2. /\ Len(cs) \in Nat /\ Len(msgs) \in Nat
            /\ \A i \in 1 .. Len(cs) : cs[i].msg \in Nat /\ cs[i].part \in Nat
            /\ \A i \in 1 .. Len(msgs) : msgs[i] \in Shapes
        BY Elements
      <3> HIDE DEF TypeOK
      <3>3. ASSUME NEW i \in 1 .. Len(cs')
            PROVE  /\ cs'[i].msg \in 1 .. Len(msgs')
                   /\ cs'[i].part =< Chunks(msgs'[cs'[i].msg])
                   /\ cs'[i].part # 0 => /\ i > 1
                                        /\ cs'[i - 1].msg = cs'[i].msg
                                        /\ cs'[i - 1].part = cs'[i].part - 1
        <4>1. CASE i \in 1 .. Len(cs)
          <5>1. /\ cs[i].msg \in 1 .. Len(msgs)
                /\ cs[i].part =< Chunks(msgs[cs[i].msg])
                /\ cs[i].part # 0 => /\ i > 1
                                    /\ cs[i - 1].msg = cs[i].msg
                                    /\ cs[i - 1].part = cs[i].part - 1
            BY <4>1 DEF StreamInv
          <5>2. cs'[i] = cs[i] /\ msgs'[cs[i].msg] = msgs[cs[i].msg]
            BY <4>1, <5>1, <3>1
          <5>3. i > 1 => cs'[i - 1] = cs[i - 1]
            BY <4>1, <3>1, <3>2
          <5> QED
            BY <5>1, <5>2, <5>3, <3>1, <3>2
        <4>2. CASE i = Len(cs) + 1
          BY <4>2, <1>0, <3>1, <3>2 DEF StreamInv
        <4> QED
          BY <4>1, <4>2, <3>1, <3>2
      <3>4. ASSUME NEW i \in 1 .. Len(cs') - 1, cs'[i].part < Chunks(msgs'[cs'[i].msg])
            PROVE  cs'[i + 1].msg = cs'[i].msg /\ cs'[i + 1].part = cs'[i].part + 1
        <4>1. CASE i \in 1 .. Len(cs) - 1
          <5>1. i \in 1 .. Len(cs) /\ i + 1 \in 1 .. Len(cs)
            BY <4>1, <3>2
          <5>2. /\ cs[i].msg \in 1 .. Len(msgs)
                /\ cs[i].part < Chunks(msgs[cs[i].msg]) =>
                      cs[i + 1].msg = cs[i].msg /\ cs[i + 1].part = cs[i].part + 1
            BY <4>1, <5>1 DEF StreamInv
          <5> QED
            BY <3>1, <3>4, <5>1, <5>2
        <4>2. CASE i = Len(cs)
          BY <4>2, <3>1, <3>2, <3>4 DEF StreamInv
        <4> QED
          BY <4>1, <4>2, <3>1, <3>2
      <3> QED
        BY <3>1, <3>2, <3>3, <3>4 DEF StreamInv
    <2>3. CursorInv'
      BY <1>2, ContinueGrows DEF ClientContinues, CursorInv
    <2> QED
      BY <2>1, <2>2, <2>3
  <1>3. ASSUME NEW how \in {"eof", "reset", "lost"}, ClientEnds(how) PROVE TypeInv'
    BY <1>3, EndKeeps DEF ClientEnds
  <1>18. ASSUME NEW how \in {"eof", "reset", "lost"}, PgEnds(how) PROVE TypeInv'
    <2>1. ss' \in Seq(BOOLEAN)
      BY <1>18, KeptFacts DEF PgEnds
    <2> QED
      BY <1>18, <1>s, <1>c, <2>1 DEF PgEnds
  <1>4. CASE ClientReads \/ PgReads
    <2>1. CASE ClientReads
      BY <2>1, <1>s, <1>c DEF ClientReads
    <2>2. CASE PgReads
      <3>1. /\ pgRead' \in Nat
            /\ UNCHANGED <<clientVars, c2sVars, upVars, ss, pgEnd, s2cVars, lock, downVars, phase>>
        BY <2>2 DEF PgReads
      <3> QED
        BY <3>1, <1>s, <1>c
    <2> QED
      BY <1>4, <2>1, <2>2
  <1>5. ASSUME NEW last \in Cuts, PgSends(last) PROVE TypeInv'
    BY <1>5, <1>s, <1>c, RelayAssumption DEF PgSends
  <1>6. CASE KeepaliveFails
    <2>1. ss' \in Seq(BOOLEAN)
      BY <1>6, KeptFacts DEF KeepaliveFails
    <2> QED
      BY <1>6, <2>1, EndKeeps DEF KeepaliveFails
  <1>7. CASE ReadHeader
    <2>1. rd' = rd + 1 /\ rd' \in 1 .. Len(cs)
      BY <1>7, Elements DEF ReadHeader, Readable
    <2>2. cur' \in Shapes /\ left' \in Nat
      <3>1. cs[rd'].msg \in 1 .. Len(msgs)
        BY <2>1 DEF StreamInv
      <3> QED
        BY <1>0, <1>7, <2>1, <3>1, Elements DEF ReadHeader
    <2>3. /\ c2s' \in {"inspect", "writeHeader"}
          /\ UNCHANGED <<clientVars, upVars, pgVars, s2cVars, lock, downVars, phase>>
      BY <1>7 DEF ReadHeader
    <2>4. at' \in Nat
      BY <1>7 DEF ReadHeader
    <2>5. StreamInv' /\ CursorInv'
      BY <1>s, <2>1, <2>3 DEF CursorInv
    <2> QED
      BY <2>1, <2>2, <2>3, <2>4, <2>5
  <1>8. CASE InspectBody
    BY <1>0, <1>8, <1>s DEF InspectBody, Readable, CursorInv
  <1>9. CASE ReadHeaderFails \/ InspectBodyFails \/ WriteMessageFails \/ ChunkFails \/ ShutdownPg
    <2>1. CASE ReadHeaderFails \/ InspectBodyFails
      BY <2>1, <1>s DEF ReadHeaderFails, InspectBodyFails, CursorInv
    <2>2. CASE WriteMessageFails \/ ChunkFails
      BY <2>2, <1>s DEF WriteMessageFails, ChunkFails, CursorInv
    <2>3. CASE ShutdownPg
      BY <2>3, <1>s DEF ShutdownPg, ShutdownPgTo, CursorInv
    <2> QED
      BY <1>9, <2>1, <2>2, <2>3
  <1>10. CASE LockForRefusal \/ WriteErrorFails
    BY <1>10, <1>s DEF LockForRefusal, WriteErrorFails, CursorInv
  <1>11. CASE WriteError \/ WriteReady
    <2>1. StreamInv' /\ CursorInv'
      BY <1>11, <1>s DEF WriteError, WriteErrorThen, WriteReady, WriteReadyThen, CursorInv
    <2>2. /\ [from |-> "error", n |-> cs[rd].msg] \in Sent
          /\ [from |-> "ready", n |-> cs[rd].msg] \in Sent
      <3>1. rd \in 1 .. Len(cs)
        BY <1>11 DEF WriteError, WriteErrorThen, WriteReady, WriteReadyThen, CursorInv
      <3>2. cs[rd].msg \in Nat
        BY <3>1, Elements
      <3> QED
        BY <3>2 DEF Sent
    <2>3. toClient' \in Seq(Sent)
      <3>1. CASE WriteError
        BY <3>1, <2>2 DEF WriteError, WriteErrorThen
      <3>2. CASE WriteReady
        <4> DEFINE r == [from |-> "ready", n |-> cs[rd].msg]
        <4>1. toClient' = toClient \/ toClient' = Append(toClient, r)
          BY <3>2 DEF WriteReady, WriteReadyThen
        <4>2. toClient \in Seq(Sent) /\ r \in Sent
          BY <2>2
        <4> HIDE DEF r
        <4>3. Append(toClient, r) \in Seq(Sent)
          BY <4>2, AppendProperties
        <4> QED
          BY <4>1, <4>2, <4>3
      <3> QED
        BY <1>11, <3>1, <3>2
    <2>4. TypeOK'
      BY <1>11, <2>3 DEF WriteError, WriteErrorThen, WriteReady, WriteReadyThen
    <2> QED
      BY <2>1, <2>4
  <1>12. CASE WriteHeader \/ WriteBody \/ ReadChunk \/ WriteChunk
    <2>1. StreamInv' /\ CursorInv'
      <3>1. CASE WriteHeader \/ WriteBody
        BY <3>1, <1>s DEF WriteHeader, WriteBody, CursorInv
      <3>2. CASE ReadChunk
        BY <3>2, <1>s DEF ReadChunk, Readable, CursorInv
      <3>3. CASE WriteChunk
        BY <3>3, <1>s DEF WriteChunk, WriteChunkCounting, CursorInv
      <3> QED
        BY <1>12, <3>1, <3>2, <3>3
    <2>2. toPg' \in Seq(Nat) /\ rd' \in Nat /\ at' \in Nat
      <3>1. CASE ReadChunk
        BY <3>1 DEF ReadChunk
      <3>2. CASE WriteHeader \/ WriteBody \/ WriteChunk
        <4>1. /\ toPg' = Append(toPg, at) /\ at' = at + 1 /\ rd' = rd
          BY <3>2 DEF WriteHeader, WriteBody, WriteChunk, WriteChunkCounting
        <4> QED
          BY <4>1
      <3> QED
        BY <1>12, <3>1, <3>2
    <2>3. left' \in Nat /\ c2s' \in C2sPoints
      <3>1. CASE WriteHeader \/ WriteBody
        BY <3>1 DEF WriteHeader, WriteBody
      <3>2. CASE ReadChunk
        BY <3>2 DEF ReadChunk
      <3>3. CASE WriteChunk
        BY <3>3 DEF WriteChunk, WriteChunkCounting, CursorInv
      <3> QED
        BY <1>12, <3>1, <3>2, <3>3
    <2>4. UNCHANGED <<clientVars, cur, pgFin, pgVars, s2cVars, lock, downVars, phase>>
      BY <1>12 DEF WriteHeader, WriteBody, ReadChunk, WriteChunk, WriteChunkCounting
    <2> QED
      BY <2>1, <2>2, <2>3, <2>4
  <1>13. CASE ReadServer \/ ReadServerEnds \/ LockForRelay
    <2>1. UNCHANGED <<clientVars, c2sVars, upVars, pgVars, downVars, phase>>
      BY <1>13 DEF ReadServer, ReadServerEnds, LockForRelay
    <2>2. srd' \in Nat /\ s2c' \in S2cPoints /\ lock' \in {"free", "c2s", "s2c"}
      BY <1>13 DEF ReadServer, ReadServerEnds, LockForRelay
    <2>3. StreamInv' /\ CursorInv'
      BY <1>s, <1>c, <2>1
    <2> QED
      BY <2>1, <2>2, <2>3
  <1>14. CASE WriteClientFails \/ LockForShutdown \/ ShutdownClient
    BY <1>14, <1>s, <1>c DEF WriteClientFails, LockForShutdown, ShutdownClient
  <1>15. CASE WriteClient
    BY <1>15, <1>s, <1>c DEF WriteClient, Sent
  <1>16. CASE Select
    BY <1>16, <1>s, <1>c DEF Select, SelectClientDone, SelectClientDoneTo, SelectServerDone, SessionEnds, DrainTimeout, DrainEnds
  <1>17. CASE UNCHANGED vars
    BY <1>17, <1>s, <1>c DEF vars
  <1> QED
    BY <1>1, <1>2, <1>3, <1>4, <1>5, <1>6, <1>7, <1>8, <1>9, <1>10, <1>11, <1>12, <1>13, <1>14,
       <1>15, <1>16, <1>17, <1>18
       DEF Next, Client, Pg, ClientToServer, ServerToClient, Terminated

(***************************************************************************)
(* Every variable keeps its type: among other things the cursors never     *)
(* leave their streams and the count of chunks left never goes below zero. *)
(***************************************************************************)
THEOREM TypeCorrect == Spec => []TypeOK
  <1>1. TypeInv => TypeOK
    BY DEF TypeInv
  <1> QED
    BY <1>1, TypeInit, TypeNext, PTL DEF Spec

-----------------------------------------------------------------------------
(* The stream to PostgreSQL.                                               *)

\* Forwarding the next position that is not withheld keeps the order.
LEMMA Extend ==
    ASSUME NEW w, NEW q \in Seq(Nat), NEW a \in Nat \ {0},
           Ordered(w, q, a - 1), Covers(w, q, a - 1), a \notin w
    PROVE  Ordered(w, Append(q, a), a) /\ Covers(w, Append(q, a), a)
  <1> DEFINE r == Append(q, a)
  <1>1. /\ r \in Seq(Nat) /\ Len(q) \in Nat /\ Len(r) = Len(q) + 1
        /\ \A i \in 1 .. Len(q) : r[i] = q[i]
        /\ r[Len(q) + 1] = a
    BY AppendProperties, LenProperties
  <1> HIDE DEF r
  <1>2. ASSUME NEW b \in Nat, Covers(w, q, b) PROVE Covers(w, r, b)
    BY <1>1, <1>2 DEF Covers
  <1>3. Covers(w, r, a)
    <2> SUFFICES ASSUME NEW k \in 1 .. a, k \notin w PROVE \E j \in 1 .. Len(r) : r[j] = k
      BY DEF Covers
    <2>1. CASE k = a
      <3>1. Len(q) + 1 \in 1 .. Len(r) /\ r[Len(q) + 1] = k
        BY <1>1, <2>1
      <3> QED
        BY <3>1, Zenon
    <2>2. CASE k \in 1 .. a - 1
      <3>1. PICK j \in 1 .. Len(q) : q[j] = k
        BY <2>2 DEF Covers
      <3> QED
        BY <1>1, <3>1
    <2> QED
      BY <2>1, <2>2
  <1>4. ASSUME NEW i \in 1 .. Len(r), NEW j \in 1 .. Len(r), i < j PROVE r[i] < r[j]
    <2>1. i \in 1 .. Len(q) /\ r[i] = q[i] /\ q[i] \in 1 .. a - 1
      BY <1>1, <1>4 DEF Ordered
    <2>2. CASE j \in 1 .. Len(q)
      BY <1>1, <1>4, <2>1, <2>2 DEF Ordered
    <2>3. CASE j = Len(q) + 1
      BY <1>1, <2>1, <2>3
    <2> QED
      BY <1>1, <2>2, <2>3
  <1>5. ASSUME NEW i \in 1 .. Len(r) PROVE r[i] \in 1 .. a /\ r[i] \notin w /\ Covers(w, r, r[i])
    <2>1. CASE i \in 1 .. Len(q)
      <3>1. q[i] \in 1 .. a - 1 /\ q[i] \notin w /\ Covers(w, q, q[i])
        BY <2>1 DEF Ordered
      <3> QED
        BY <1>1, <1>2, <2>1, <3>1
    <2>2. CASE i = Len(q) + 1
      BY <1>1, <1>3, <2>2
    <2> QED
      BY <1>1, <2>1, <2>2
  <1> QED
    BY <1>3, <1>4, <1>5 DEF Ordered, r

\* Reading on, and messages the client adds, change nothing that was in order.
LEMMA Widen ==
    ASSUME NEW w, NEW v, NEW q, NEW b \in Nat, NEW c \in Nat, b =< c,
           \A k \in 1 .. b : k \in w <=> k \in v
    PROVE  /\ Ordered(w, q, b) => Ordered(v, q, c)
           /\ Covers(w, q, b) => Covers(v, q, b)
  BY DEF Ordered, Covers

\* A withheld position is accounted for.
LEMMA CoverSkip ==
    ASSUME NEW w, NEW q, NEW b \in Nat, Covers(w, q, b), b + 1 \in w
    PROVE  Covers(w, q, b + 1)
  BY DEF Covers

\* The units of a message are withheld together.
LEMMA SkippedFacts ==
    ASSUME TypeInv, NEW k \in 1 .. Len(cs)
    PROVE  /\ msgs[cs[k].msg] \in Shapes
           /\ k \in Skipped <=> (Inspected(msgs[cs[k].msg]) /\ msgs[cs[k].msg].forbidden)
  <1>1. msgs[cs[k].msg] \in Shapes
    BY Elements DEF TypeInv, StreamInv
  <1> QED
    BY <1>1, RefusedIsRefusable DEF Skipped, Withheld

\* Between two messages the next unit is a header.
LEMMA NextIsHeader ==
    ASSUME TypeInv, rd < Len(cs), Boundary(rd)
    PROVE  cs[rd + 1].part = 0
  <1>1. rd \in Nat /\ Len(cs) \in Nat /\ rd + 1 \in 1 .. Len(cs)
    BY Elements DEF TypeInv, TypeOK
  <1>2. cs[rd + 1].part \in Nat
    BY <1>1, Elements DEF TypeInv
  <1>3. SUFFICES ASSUME cs[rd + 1].part # 0 PROVE FALSE
    OBVIOUS
  <1>4. /\ cs[rd + 1].part =< Chunks(msgs[cs[rd + 1].msg])
        /\ rd + 1 > 1
        /\ cs[(rd + 1) - 1].msg = cs[rd + 1].msg
        /\ cs[(rd + 1) - 1].part = cs[rd + 1].part - 1
    BY <1>1, <1>3 DEF TypeInv, StreamInv
  <1>5. cs[rd].part = Chunks(msgs[cs[rd].msg]) /\ (rd + 1) - 1 = rd
    BY <1>1, <1>4 DEF Boundary
  <1>6. Chunks(msgs[cs[rd + 1].msg]) \in Nat
    BY <1>1, SkippedFacts, ChunksFacts
  <1> QED
    BY <1>2, <1>4, <1>5, <1>6

\* Inside a message the next unit is its next piece.
LEMMA NextIsPiece ==
    ASSUME TypeInv, NEW i \in 1 .. Len(cs) - 1, cs[i].part < Chunks(msgs[cs[i].msg])
    PROVE  /\ cs[i + 1].msg = cs[i].msg /\ cs[i + 1].part = cs[i].part + 1
           /\ i + 1 \in Skipped <=> i \in Skipped
  <1>0. Len(cs) \in Nat /\ i \in 1 .. Len(cs) /\ i + 1 \in 1 .. Len(cs)
    BY Elements DEF TypeInv
  <1>1. cs[i + 1].msg = cs[i].msg /\ cs[i + 1].part = cs[i].part + 1
    BY DEF TypeInv, StreamInv
  <1> QED
    BY <1>0, <1>1, SkippedFacts

\* Steps that touch neither client_to_server nor what it wrote.
LEMMA UpFrame ==
    ASSUME TypeInv, UpInv, UNCHANGED <<c2sVars, upVars>>,
           Len(cs') \in Nat, rd =< Len(cs'),
           \A k \in 1 .. rd : cs'[k] = cs[k] /\ msgs'[cs[k].msg] = msgs[cs[k].msg],
           pgEnd = "reset" => pgEnd' = "reset",
           cEnd = "reset" => cEnd' = "reset",
           cEnd = "eof" => cEnd' \in {"eof", "reset"},
           cEnd \in {"reset", "eof"} => Len(cs') =< Len(cs),
           cEnd' = "eof" /\ cEnd = "eof" => cs' = cs /\ msgs' = msgs
    PROVE  UpInv'
  <1>1. /\ rd \in Nat /\ at \in Nat /\ Len(cs) \in Nat /\ rd =< Len(cs)
        /\ rd' = rd /\ at' = at /\ left' = left /\ c2s' = c2s /\ cur' = cur
        /\ toPg' = toPg /\ pgFin' = pgFin
    BY Elements DEF TypeInv, TypeOK, CursorInv, c2sVars, upVars
  <1>2. \A k \in 1 .. rd : k \in Skipped <=> k \in Skipped'
    BY <1>1 DEF Skipped, Withheld
  <1>3. ASSUME NEW b \in 0 .. rd
        PROVE  /\ Ordered(Skipped, toPg, b) => Ordered(Skipped', toPg', b)
               /\ Covers(Skipped, toPg, b) => Covers(Skipped', toPg', b)
    <2>1. \A k \in 1 .. b : k \in Skipped <=> k \in Skipped'
      BY <1>1, <1>2
    <2>2. b \in Nat /\ b =< b
      BY <1>1
    <2>3. /\ Ordered(Skipped, toPg, b) => Ordered(Skipped', toPg, b)
          /\ Covers(Skipped, toPg, b) => Covers(Skipped', toPg, b)
      BY <2>1, <2>2, Widen
    <2> QED
      BY <1>1, <2>3
  <1>4. Ordered(Skipped', toPg', rd')
    BY <1>1, <1>3 DEF UpInv, Below
  <1>5. pgFin' => c2s' = "done"
    BY <1>1 DEF UpInv
  <1>6. ASSUME pgEnd' # "reset" PROVE C2sInv'
    <2>0. C2sInv
      BY <1>6 DEF UpInv
    <2>1. CASE c2s = "header"
      BY <1>1, <1>3, <2>0, <2>1 DEF C2sInv, Covered, Boundary
    <2>2. CASE c2s = "inspect"
      BY <1>1, <1>3, <2>0, <2>2 DEF C2sInv, Covered, Below, Current
    <2>3. CASE c2s \in {"lock", "error", "ready"}
      BY <1>1, <1>3, <2>0, <2>3 DEF C2sInv, Covered, Boundary
    <2>4. CASE c2s = "writeHeader"
      BY <1>1, <1>2, <1>3, <2>0, <2>4 DEF C2sInv, Covered, Below, Current
    <2>5. CASE c2s = "writeBody"
      BY <1>1, <1>2, <1>3, <2>0, <2>5 DEF C2sInv, Covered, Below, Boundary
    <2>6. CASE c2s = "readChunk"
      BY <1>1, <1>2, <1>3, <2>0, <2>6 DEF C2sInv, Covered
    <2>7. CASE c2s = "writeChunk"
      BY <1>1, <1>2, <1>3, <2>0, <2>7 DEF C2sInv, Covered, Below
    <2>8. CASE c2s \in {"shutdown", "done"}
      <3>1. SUFFICES ASSUME cEnd' # "reset"
                     PROVE  /\ cEnd' = "eof"
                            /\ (\A k \in 1 .. Len(cs) : k \in Skipped \/ Forwarded(k) \/ CutShort(k))'
        BY <1>1, <2>8 DEF C2sInv
      <3>2. cEnd = "eof" /\ \A k \in 1 .. Len(cs) : k \in Skipped \/ Forwarded(k) \/ CutShort(k)
        BY <2>0, <2>8, <3>1 DEF C2sInv
      <3>3. cs' = cs /\ msgs' = msgs /\ cEnd' = "eof"
        BY <3>1, <3>2
      <3>4. Skipped' = Skipped
        BY <3>3 DEF Skipped, Withheld
      <3> QED
        BY <1>1, <3>2, <3>3, <3>4 DEF Forwarded, CutShort
    <2> QED
      BY <2>1, <2>2, <2>3, <2>4, <2>5, <2>6, <2>7, <2>8 DEF TypeInv, TypeOK, C2sPoints
  <1> QED
    BY <1>4, <1>5, <1>6 DEF UpInv, Below

\* A statement whose payload never comes was cut short by the client.
LEMMA InspectCut ==
    ASSUME TypeInv, C2sInv, InspectBodyFails, cEnd # "reset"
    PROVE  cEnd = "eof" /\ rd \in 1 .. Len(cs) /\ rd = Len(cs) /\ CutShort(rd)
  <1>1. rd \in Nat /\ left \in Nat /\ Len(cs) \in Nat /\ rd =< Len(cs)
    BY Elements DEF TypeInv, TypeOK, CursorInv
  <1>2. Current(rd) /\ Inspected(cur) /\ left = Chunks(cur)
    BY DEF InspectBodyFails, C2sInv
  <1>3. rd \in 1 .. Len(cs) /\ cs[rd].part = 0 /\ cur = msgs[cs[rd].msg]
    BY <1>1, <1>2 DEF Current
  <1>4. left =< 1
    BY <1>2, <1>3, SkippedFacts, ChunksFacts
  <1>5. cEnd = "eof" /\ rd = Len(cs) /\ left = 1
    BY <1>1, <1>3, <1>4 DEF InspectBodyFails, ReadFails
  <1>6. cs[rd].msg = Len(msgs)
    BY <1>1, <1>3, <1>5 DEF TypeInv, StreamInv
  <1>7. CutShort(rd)
    BY <1>2, <1>3, <1>5, <1>6 DEF CutShort
  <1> QED
    BY <1>3, <1>5, <1>7

\* The steps of client_to_server that read.
LEMMA UpReads ==
    ASSUME TypeInv, UpInv,
           ReadHeader \/ ReadHeaderFails \/ InspectBody \/ InspectBodyFails \/ ReadChunk
    PROVE  UpInv'
  <1>1. /\ rd \in Nat /\ at \in Nat /\ left \in Nat /\ Len(cs) \in Nat /\ rd =< Len(cs)
        /\ \A i \in 1 .. Len(cs) : cs[i].msg \in Nat /\ cs[i].part \in Nat
    BY Elements DEF TypeInv, TypeOK, CursorInv
  <1>2. /\ cs' = cs /\ msgs' = msgs /\ cEnd' = cEnd /\ toPg' = toPg /\ pgFin' = pgFin
        /\ pgEnd' = pgEnd /\ rd' \in Nat /\ rd =< rd' /\ c2s # "done"
    BY <1>1 DEF ReadHeader, ReadHeaderFails, InspectBody, InspectBodyFails, ReadChunk,
                clientVars, upVars, pgVars
  <1>3. Skipped' = Skipped
    BY <1>2 DEF Skipped, Withheld
  <1>4. Ordered(Skipped', toPg', rd')
    BY <1>1, <1>2, <1>3, Widen DEF UpInv, Below
  <1>5. pgFin' => c2s' = "done"
    BY <1>2 DEF UpInv
  <1>6. ASSUME pgEnd # "reset" PROVE C2sInv'
    <2>0. C2sInv /\ Below(rd)
      BY <1>6 DEF UpInv
    <2>1. CASE ReadHeader
      <3>1. /\ c2s = "header" /\ rd' = rd + 1 /\ at' = rd + 1 /\ rd + 1 \in 1 .. Len(cs)
        BY <1>1, <2>1 DEF ReadHeader, Readable
      <3>2. Covered(rd) /\ Boundary(rd)
        BY <1>1, <2>0, <3>1 DEF C2sInv
      <3>3. cs[rd + 1].part = 0
        BY <1>1, <3>1, <3>2, NextIsHeader
      <3>4. /\ cur' = msgs[cs[rd + 1].msg] /\ left' = Chunks(cur')
            /\ c2s' = IF Inspected(cur') THEN "inspect" ELSE "writeHeader"
        BY <2>1, <3>3 DEF ReadHeader
      <3>5. ~Inspected(cur') => rd + 1 \notin Skipped
        BY <3>1, <3>4, SkippedFacts
      <3>6. Current(rd)'
        BY <1>1, <1>2, <3>1, <3>3, <3>4 DEF Current
      <3>7. Current(at)'
        BY <1>1, <1>2, <3>1, <3>3, <3>4 DEF Current
      <3>8. rd' - 1 = rd /\ at' - 1 = rd /\ at' = rd'
        BY <1>1, <3>1
      <3> QED
        BY <1>2, <1>3, <2>0, <3>1, <3>2, <3>4, <3>5, <3>6, <3>7, <3>8 DEF C2sInv, Covered, Below
    <2>2. CASE ReadHeaderFails
      <3>1. c2s = "header" /\ c2s' = "shutdown" /\ Covered(rd)
        BY <2>0, <2>2 DEF ReadHeaderFails, C2sInv
      <3>2. cEnd # "reset" => cEnd = "eof" /\ rd = Len(cs)
        BY <1>1, <2>2 DEF ReadHeaderFails, ReadFails
      <3> QED
        BY <1>2, <1>3, <3>1, <3>2 DEF C2sInv, Covered, Covers, Forwarded
    <2>3. CASE InspectBody
      <3>1. /\ c2s = "inspect" /\ rd' = rd + left /\ left' = 0 /\ at' = at /\ cur' = cur
            /\ rd + left =< Len(cs)
            /\ c2s' = IF cur.forbidden THEN "lock" ELSE "writeHeader"
        BY <2>3 DEF InspectBody, Readable
      <3>2. /\ Current(rd) /\ at = rd /\ Covered(rd - 1) /\ Below(rd - 1)
            /\ Inspected(cur) /\ left = Chunks(cur)
        BY <2>0, <3>1 DEF C2sInv
      <3>3. rd \in 1 .. Len(cs) /\ cs[rd].part = 0 /\ cur = msgs[cs[rd].msg]
        BY <1>1, <3>2 DEF Current
      <3>4. left =< 1 /\ (rd \in Skipped <=> cur.forbidden)
        BY <3>2, <3>3, SkippedFacts, ChunksFacts
      <3>5. left = 1 => /\ cs[rd + 1].msg = cs[rd].msg /\ cs[rd + 1].part = 1
                        /\ rd + 1 \in Skipped <=> rd \in Skipped
        BY <1>1, <3>1, <3>2, <3>3, NextIsPiece
      <3>6. CASE cur.forbidden
        <4>1. Covers(Skipped, toPg, rd)
          <5>1. (rd - 1) + 1 = rd /\ rd - 1 \in Nat
            BY <1>1, <3>3
          <5> QED
            BY <3>2, <3>4, <3>6, <5>1, CoverSkip DEF Covered
        <4>2. Covers(Skipped, toPg, rd + left)
          <5>1. CASE left = 0
            BY <1>1, <4>1, <5>1
          <5>2. CASE left = 1
            BY <1>1, <3>4, <3>5, <3>6, <4>1, <5>2, CoverSkip
          <5> QED
            BY <1>1, <3>4, <5>1, <5>2
        <4>3. cs[rd + left].part = Chunks(msgs[cs[rd + left].msg])
          <5>1. CASE left = 0
            BY <1>1, <3>2, <3>3, <5>1
          <5>2. CASE left = 1
            BY <1>1, <3>2, <3>3, <3>5, <5>2
          <5> QED
            BY <1>1, <3>4, <5>1, <5>2
        <4>4. Covered(rd)' /\ Boundary(rd)'
          BY <1>2, <1>3, <3>1, <4>2, <4>3 DEF Covered, Boundary
        <4> QED
          BY <3>1, <3>6, <4>4 DEF C2sInv
      <3>7. CASE ~cur.forbidden
        <4>1. Current(at)'
          BY <1>1, <1>2, <3>1, <3>2, <3>3 DEF Current
        <4>2. (Covered(at - 1) /\ Below(at - 1) /\ at \notin Skipped)'
          BY <1>2, <1>3, <3>1, <3>2, <3>4, <3>7 DEF Covered, Below
        <4>3. left' = 0 /\ Chunks(cur') =< 1 /\ rd' = at' + Chunks(cur') /\ c2s' = "writeHeader"
          BY <3>1, <3>2, <3>4, <3>7
        <4> QED
          BY <4>1, <4>2, <4>3 DEF C2sInv
      <3> QED
        BY <3>6, <3>7
    <2>4. CASE InspectBodyFails
      <3>1. c2s = "inspect" /\ c2s' = "shutdown"
        BY <2>4 DEF InspectBodyFails
      <3>2. Covered(rd - 1)
        BY <2>0, <3>1 DEF C2sInv
      <3>3. cEnd # "reset" => cEnd = "eof" /\ rd = Len(cs) /\ CutShort(rd)
        BY <2>0, <2>4, InspectCut
      <3>4. cEnd # "reset" => \A k \in 1 .. Len(cs) : k \in Skipped \/ Forwarded(k) \/ CutShort(k)
        BY <1>1, <3>2, <3>3 DEF Covered, Covers, Forwarded
      <3> QED
        BY <1>2, <1>3, <3>1, <3>3, <3>4 DEF C2sInv, Forwarded, CutShort
    <2>5. CASE ReadChunk
      <3>1. /\ c2s = "readChunk" /\ c2s' = "writeChunk" /\ rd' = rd + 1 /\ at' = at /\ left' = left
            /\ rd + 1 =< Len(cs)
        BY <2>5 DEF ReadChunk, Readable
      <3>2. /\ rd >= 1 /\ at = rd + 1 /\ Covered(rd) /\ rd \notin Skipped
            /\ cs[rd].part + left = Chunks(msgs[cs[rd].msg])
        BY <2>0, <3>1 DEF C2sInv
      <3>3. left > 0
        BY <3>1 DEF TypeInv, CursorInv
      <3>4. /\ cs[rd + 1].msg = cs[rd].msg /\ cs[rd + 1].part = cs[rd].part + 1
            /\ rd + 1 \notin Skipped
        BY <1>1, <3>1, <3>2, <3>3, NextIsPiece
      <3>5. (cs[rd].part + (left - 1) = Chunks(msgs[cs[rd].msg]))'
        <4>1. cs[rd].part \in Nat
          BY <1>1, <3>2
        <4>2. /\ cs'[rd'].part = cs[rd].part + 1 /\ left' = left
              /\ msgs'[cs'[rd'].msg] = msgs[cs[rd].msg]
          BY <1>2, <3>1, <3>4
        <4>3. (cs[rd].part + 1) + (left - 1) = cs[rd].part + left
          BY <1>1, <4>1
        <4> QED
          BY <3>2, <4>2, <4>3
      <3>6. rd' >= 1 /\ at' = rd' /\ rd' - 1 = rd
        BY <1>1, <3>1, <3>2
      <3> QED
        BY <1>2, <1>3, <2>0, <3>1, <3>2, <3>4, <3>5, <3>6 DEF C2sInv, Covered, Below
    <2> QED
      BY <2>1, <2>2, <2>3, <2>4, <2>5
  <1> QED
    BY <1>2, <1>4, <1>5, <1>6 DEF UpInv, Below

\* The steps of client_to_server that write to PostgreSQL.
LEMMA UpWrites ==
    ASSUME TypeInv, UpInv, WriteHeader \/ WriteBody \/ WriteChunk
    PROVE  UpInv'
  <1>1. /\ rd \in Nat /\ at \in Nat /\ left \in Nat /\ Len(cs) \in Nat /\ rd =< Len(cs)
        /\ toPg \in Seq(Nat)
        /\ \A i \in 1 .. Len(cs) : cs[i].msg \in Nat /\ cs[i].part \in Nat
    BY Elements DEF TypeInv, TypeOK, CursorInv
  <1>2. /\ cs' = cs /\ msgs' = msgs /\ cEnd' = cEnd /\ pgFin' = pgFin /\ pgEnd' = pgEnd
        /\ rd' = rd /\ cur' = cur /\ c2s # "done" /\ at' = at + 1
        /\ toPg' = Append(toPg, at)
        /\ pgEnd # "reset"
    BY DEF WriteHeader, WriteBody, WriteChunk, WriteChunkCounting, PgWritable, PgBroken, clientVars, pgVars
  <1>3. Skipped' = Skipped
    BY <1>2 DEF Skipped, Withheld
  <1>4. pgFin' => c2s' = "done"
    BY <1>2 DEF UpInv
  <1>5. C2sInv
    BY <1>2 DEF UpInv
  <1>6. at \in 1 .. rd /\ Covered(at - 1) /\ Below(at - 1) /\ at \notin Skipped
    BY <1>1, <1>5 DEF WriteHeader, WriteBody, WriteChunk, WriteChunkCounting, C2sInv, Current
  <1>7. Ordered(Skipped, toPg', at) /\ Covers(Skipped, toPg', at)
    <2>1. at \in Nat \ {0} /\ at \notin Skipped
      BY <1>1, <1>6
    <2>2. Ordered(Skipped, toPg, at - 1) /\ Covers(Skipped, toPg, at - 1)
      BY <1>6 DEF Covered, Below
    <2>3. Ordered(Skipped, Append(toPg, at), at) /\ Covers(Skipped, Append(toPg, at), at)
      BY <1>1, <2>1, <2>2, Extend
    <2> QED
      BY <1>2, <2>3
  <1>8. Ordered(Skipped', toPg', rd')
    BY <1>1, <1>2, <1>3, <1>6, <1>7, Widen
  <1>9. C2sInv'
    <2>1. CASE WriteHeader
      <3>1. /\ c2s = "writeHeader" /\ left' = left
            /\ c2s' = IF rd > at THEN "writeBody" ELSE IF left > 0 THEN "readChunk" ELSE "header"
        BY <2>1 DEF WriteHeader
      <3>2. /\ cs[at].part = 0 /\ cur = msgs[cs[at].msg]
            /\ \/ left = 0 /\ Chunks(cur) =< 1 /\ rd = at + Chunks(cur)
               \/ left = Chunks(cur) /\ rd = at
        BY <1>5, <3>1 DEF C2sInv, Current
      <3>3. Chunks(cur) \in Nat
        BY <1>1, <1>6, <3>2, SkippedFacts, ChunksFacts
      <3>4. CASE rd > at
        <4>1. rd = at + 1 /\ Chunks(cur) = 1
          BY <1>1, <3>2, <3>3, <3>4
        <4>2. cs[at + 1].msg = cs[at].msg /\ cs[at + 1].part = cs[at].part + 1 /\ at + 1 \notin Skipped
          BY <1>1, <1>6, <3>2, <4>1, NextIsPiece
        <4>3. rd \notin Skipped /\ cs[rd].part = Chunks(msgs[cs[rd].msg])
          BY <3>2, <4>1, <4>2
        <4>4. rd >= 1 /\ rd - 1 = at /\ at' = rd
          BY <1>1, <1>2, <4>1
        <4> QED
          BY <1>2, <1>3, <1>7, <3>1, <3>4, <4>3, <4>4 DEF C2sInv, Covered, Below, Boundary
      <3>5. CASE ~(rd > at)
        <4>1. rd = at
          BY <1>1, <1>6, <3>5
        <4>2. left = Chunks(cur)
          BY <1>1, <3>2, <3>3, <4>1
        <4>3. CASE left > 0
          BY <1>1, <1>2, <1>3, <1>6, <1>7, <3>1, <3>2, <3>5, <4>1, <4>2, <4>3 DEF C2sInv, Covered
        <4>4. CASE ~(left > 0)
          <5>1. left = 0 /\ c2s' = "header"
            BY <1>1, <3>1, <3>5, <4>4
          <5> QED
            BY <1>2, <1>3, <1>7, <3>2, <4>1, <4>2, <5>1 DEF C2sInv, Covered, Boundary
        <4> QED
          BY <4>3, <4>4
      <3> QED
        BY <3>4, <3>5
    <2>2. CASE WriteBody
      <3>1. c2s = "writeBody" /\ c2s' = "header"
        BY <2>2 DEF WriteBody
      <3>2. at = rd /\ Boundary(rd)
        BY <1>5, <3>1 DEF C2sInv
      <3> QED
        BY <1>2, <1>3, <1>7, <3>1, <3>2 DEF C2sInv, Covered, Boundary
    <2>3. CASE WriteChunk
      <3>1. /\ c2s = "writeChunk" /\ left' = left - 1
            /\ c2s' = IF left > 1 THEN "readChunk" ELSE "header"
        BY <2>3 DEF WriteChunk, WriteChunkCounting
      <3>2. at = rd /\ rd >= 1 /\ cs[rd].part + (left - 1) = Chunks(msgs[cs[rd].msg])
        BY <1>5, <3>1 DEF C2sInv
      <3>3. left > 0 /\ cs[rd].part \in Nat
        BY <1>1, <3>1, <3>2 DEF TypeInv, CursorInv
      <3>4. CASE left > 1
        BY <1>2, <1>3, <1>6, <1>7, <3>1, <3>2, <3>4 DEF C2sInv, Covered
      <3>5. CASE ~(left > 1)
        <4>1. left = 1 /\ c2s' = "header" /\ cs[rd].part = Chunks(msgs[cs[rd].msg])
          BY <1>1, <3>1, <3>2, <3>3, <3>5
        <4> QED
          BY <1>2, <1>3, <1>7, <3>2, <4>1 DEF C2sInv, Covered, Boundary
      <3> QED
        BY <3>4, <3>5
    <2> QED
      BY <2>1, <2>2, <2>3
  <1> QED
    BY <1>4, <1>8, <1>9 DEF UpInv, Below

\* The other steps of client_to_server: answers to the client, and failures.
LEMMA UpOthers ==
    ASSUME TypeInv, UpInv,
           \/ LockForRefusal \/ WriteError \/ WriteErrorFails \/ WriteReady
           \/ WriteMessageFails \/ ChunkFails \/ ShutdownPg
    PROVE  UpInv'
  <1>1. rd \in Nat /\ Len(cs) \in Nat /\ rd =< Len(cs)
    BY Elements DEF TypeInv, TypeOK, CursorInv
  <1>2. /\ cs' = cs /\ msgs' = msgs /\ cEnd' = cEnd /\ pgEnd' = pgEnd
        /\ rd' = rd /\ at' = at /\ left' = left /\ cur' = cur /\ toPg' = toPg
        /\ c2s # "done" /\ (c2s' # "done" => pgFin' = pgFin)
    BY DEF LockForRefusal, WriteError, WriteErrorThen, WriteErrorFails, WriteReady, WriteReadyThen, WriteMessageFails, ChunkFails,
           ShutdownPg, ShutdownPgTo, clientVars, upVars, pgVars
  <1>3. Skipped' = Skipped
    BY <1>2 DEF Skipped, Withheld
  <1>4. Ordered(Skipped', toPg', rd') /\ (pgFin' => c2s' = "done")
    BY <1>2, <1>3 DEF UpInv, Below
  <1>5. ASSUME pgEnd # "reset" PROVE C2sInv'
    <2>0. C2sInv
      BY <1>5 DEF UpInv
    <2>1. CASE LockForRefusal \/ WriteError \/ WriteErrorFails \/ WriteReady
      <3>1. c2s \in {"lock", "error", "ready"} /\ c2s' \in {"error", "ready", "header"}
        BY <2>1 DEF LockForRefusal, WriteError, WriteErrorThen, WriteErrorFails, WriteReady, WriteReadyThen
      <3> QED
        BY <1>2, <1>3, <2>0, <3>1 DEF C2sInv, Covered, Boundary
    <2>2. CASE WriteMessageFails
      BY <1>5, <2>2 DEF WriteMessageFails, PgBroken
    <2>3. CASE ChunkFails
      <3>1. c2s = "readChunk" /\ c2s' = "header" /\ cEnd \in {"reset", "eof"} /\ rd = Len(cs)
        BY <1>1, <1>5, <2>3 DEF ChunkFails, ReadFails, PgBroken
      <3> QED
        BY <1>2, <1>3, <2>0, <3>1 DEF C2sInv, Covered
    <2>4. CASE ShutdownPg
      <3>1. c2s = "shutdown" /\ c2s' = "done"
        BY <2>4 DEF ShutdownPg, ShutdownPgTo
      <3> QED
        BY <1>2, <1>3, <2>0, <3>1 DEF C2sInv, Forwarded, CutShort
    <2> QED
      BY <2>1, <2>2, <2>3, <2>4
  <1> QED
    BY <1>2, <1>4, <1>5 DEF UpInv, Below

\* Every step keeps the stream to PostgreSQL in order.
LEMMA UpNext == TypeInv /\ UpInv /\ [Next]_vars => UpInv'
  <1> SUFFICES ASSUME TypeInv, UpInv, [Next]_vars PROVE UpInv'
    OBVIOUS
  <1>0. /\ TypeOK /\ Len(cs) \in Nat /\ rd \in Nat /\ rd =< Len(cs)
        /\ \A k \in 1 .. Len(cs) : cs[k].msg \in 1 .. Len(msgs)
    BY Elements DEF TypeInv, TypeOK, StreamInv, CursorInv
  <1>1. ASSUME NEW m \in Shapes, ClientStarts(m) PROVE UpInv'
    <2>1. /\ UNCHANGED <<c2sVars, upVars>> /\ pgEnd' = pgEnd /\ cEnd' = cEnd /\ cEnd = "open"
      BY <1>1 DEF ClientStarts, pgVars
    <2>2. /\ Len(cs') \in Nat /\ rd =< Len(cs')
          /\ \A k \in 1 .. rd : cs'[k] = cs[k] /\ msgs'[cs[k].msg] = msgs[cs[k].msg]
      <3>1. /\ Len(cs') = Len(cs) + 1
            /\ \A k \in 1 .. Len(cs) : cs'[k] = cs[k]
            /\ \A k \in 1 .. Len(msgs) : msgs'[k] = msgs[k]
        BY <1>0, <1>1, StartGrows
      <3> QED
        BY <1>0, <3>1
    <2> QED
      BY <2>1, <2>2, UpFrame
  <1>2. CASE ClientContinues
    <2>1. /\ UNCHANGED <<c2sVars, upVars>> /\ pgEnd' = pgEnd /\ cEnd' = cEnd /\ cEnd = "open"
      BY <1>2 DEF ClientContinues, pgVars
    <2>2. /\ Len(cs') \in Nat /\ rd =< Len(cs')
          /\ \A k \in 1 .. rd : cs'[k] = cs[k] /\ msgs'[cs[k].msg] = msgs[cs[k].msg]
      BY <1>0, <1>2, ContinueGrows
    <2> QED
      BY <2>1, <2>2, UpFrame
  <1>3. ASSUME UNCHANGED <<c2sVars, upVars>>, cs' = cs, msgs' = msgs,
               pgEnd = "reset" => pgEnd' = "reset",
               cEnd = "reset" => cEnd' = "reset",
               cEnd = "eof" => cEnd' \in {"eof", "reset"}
        PROVE  UpInv'
    BY <1>0, <1>3, UpFrame
  <1>12. ASSUME UNCHANGED <<c2sVars, upVars>>, msgs' = msgs,
                Len(cs') \in Nat, rd =< Len(cs'), Len(cs') =< Len(cs),
                \A i \in 1 .. Len(cs') : cs'[i] = cs[i],
                cs' = cs \/ cEnd' = "reset",
                pgEnd = "reset" => pgEnd' = "reset",
                cEnd = "reset" => cEnd' = "reset",
                cEnd = "eof" => cEnd' \in {"eof", "reset"}
        PROVE  UpInv'
    BY <1>0, <1>12, UpFrame
  <1>4. ASSUME NEW how \in {"eof", "reset", "lost"}, ClientEnds(how) PROVE UpInv'
    <2>1. /\ UNCHANGED <<c2sVars, upVars>> /\ msgs' = msgs /\ pgEnd' = pgEnd
          /\ cEnd = "reset" => cEnd' = "reset"
          /\ cEnd = "eof" => cEnd' \in {"eof", "reset"}
      BY <1>4 DEF ClientEnds, pgVars
    <2> QED
      BY <1>4, <1>12, <2>1, EndKeeps
  <1>5. ASSUME NEW how \in {"eof", "reset", "lost"}, PgEnds(how) PROVE UpInv'
    BY <1>3, <1>5 DEF PgEnds, clientVars
  <1>6. CASE ClientReads \/ PgReads
    BY <1>3, <1>6 DEF ClientReads, PgReads, clientVars, pgVars
  <1>7. ASSUME NEW last \in Cuts, PgSends(last) PROVE UpInv'
    BY <1>3, <1>7 DEF PgSends, clientVars
  <1>8. CASE KeepaliveFails
    <2>1. /\ UNCHANGED <<c2sVars, upVars>> /\ msgs' = msgs
          /\ pgEnd = "reset" => pgEnd' = "reset"
          /\ cEnd = "reset" => cEnd' = "reset"
          /\ cEnd = "eof" => cEnd' \in {"eof", "reset"}
      BY <1>8 DEF KeepaliveFails
    <2> QED
      BY <1>8, <1>12, <2>1, EndKeeps
  <1>9. CASE ServerToClient
    BY <1>3, <1>9 DEF ServerToClient, ReadServer, ReadServerEnds, LockForRelay, WriteClient,
                      WriteClientFails, LockForShutdown, ShutdownClient, clientVars, pgVars
  <1>10. CASE Select
    BY <1>3, <1>10 DEF Select, SelectClientDone, SelectClientDoneTo, SelectServerDone, SessionEnds, DrainTimeout, DrainEnds,
                       clientVars, pgVars
  <1>11. CASE UNCHANGED vars
    BY <1>3, <1>11 DEF vars, clientVars, pgVars
  <1> QED
    BY <1>1, <1>2, <1>4, <1>5, <1>6, <1>7, <1>8, <1>9, <1>10, <1>11, UpReads, UpWrites, UpOthers
       DEF Next, Client, Pg, ClientToServer, Terminated

\* Nothing has been forwarded at first.
LEMMA UpInit == Init => UpInv
  <1> SUFFICES ASSUME Init PROVE UpInv
    OBVIOUS
  <1>1. toPg = <<>> /\ rd = 0 /\ c2s = "header" /\ pgFin = FALSE /\ Len(<<>>) = 0
    BY DEF Init
  <1>2. Ordered(Skipped, <<>>, 0) /\ Covers(Skipped, <<>>, 0)
    BY DEF Ordered, Covers
  <1> QED
    BY <1>1, <1>2 DEF UpInv, C2sInv, Below, Covered, Boundary

(***************************************************************************)
(* PostgreSQL gets the client's stream in order, without what Guardian     *)
(* refuses and without any other gap, for every mix of messages, every     *)
(* buffer size and every failure of either connection.                     *)
(***************************************************************************)
THEOREM PgStream == Spec => []PgStreamFaithful
  <1>1. TypeInv /\ UpInv => PgStreamFaithful
    <2> SUFFICES ASSUME TypeInv, UpInv PROVE PgStreamFaithful
      OBVIOUS
    <2>1. rd \in Nat /\ Len(cs) \in Nat /\ rd =< Len(cs)
      BY Elements DEF TypeInv, TypeOK, CursorInv
    <2>2. \A k \in 1 .. rd : k \in Skipped <=> Withheld(k)
      BY <2>1 DEF Skipped
    <2>3. Ordered(Skipped, toPg, rd)
      BY DEF UpInv, Below
    <2> QED
      BY <2>1, <2>2, <2>3 DEF PgStreamFaithful, Ordered, Covers, Forwarded
  <1> QED
    BY <1>1, TypeInit, TypeNext, UpInit, UpNext, PTL DEF Spec

(***************************************************************************)
(* While both connections work, PostgreSQL is told that its input ended    *)
(* only after it was given all of it that is not withheld.                 *)
(***************************************************************************)
THEOREM FinComesLast == Spec => []FinAfterData
  <1>1. TypeInv /\ UpInv => FinAfterData
    BY DEF UpInv, C2sInv, FinAfterData, Skipped
  <1> QED
    BY <1>1, TypeInit, TypeNext, UpInit, UpNext, PTL DEF Spec

-----------------------------------------------------------------------------
(* The client's write half.                                                *)

\* Every step keeps the exclusion between the two futures.
LEMMA LockNext == TypeInv /\ LockInv /\ [Next]_vars => LockInv'
  <1> SUFFICES ASSUME TypeInv, LockInv, [Next]_vars PROVE LockInv'
    OBVIOUS
  <1> USE DEF LockInv, clientVars, c2sVars, upVars, pgVars, s2cVars, downVars
  <1>1. CASE UNCHANGED <<c2s, s2c, lock, phase, clientFin>>
    BY <1>1
  <1>2. CASE Client \/ Pg \/ KeepaliveFails \/ UNCHANGED vars
    BY <1>1, <1>2 DEF Client, ClientStarts, ClientContinues, ClientEnds, ClientReads,
                      Pg, PgSends, PgEnds, PgReads, KeepaliveFails, vars
  <1>3. CASE LockForRefusal \/ WriteError \/ WriteErrorFails \/ WriteReady
    BY <1>3 DEF LockForRefusal, WriteError, WriteErrorThen, WriteErrorFails, WriteReady, WriteReadyThen, C2sRuns
  <1>4. ASSUME C2sRuns, UNCHANGED <<s2c, lock, phase, clientFin>>,
               c2s \notin {"error", "ready", "done"}, c2s' \notin {"error", "ready"}
        PROVE  LockInv'
    BY <1>4 DEF C2sRuns
  <1>5. CASE ReadHeader \/ InspectBody
    BY <1>4, <1>5 DEF ReadHeader, InspectBody
  <1>6. CASE ReadHeaderFails \/ InspectBodyFails \/ WriteMessageFails \/ ChunkFails \/ ShutdownPg
    BY <1>4, <1>6 DEF ReadHeaderFails, InspectBodyFails, WriteMessageFails, ChunkFails, ShutdownPg, ShutdownPgTo
  <1>7. CASE WriteHeader \/ WriteBody \/ ReadChunk \/ WriteChunk
    BY <1>4, <1>7 DEF WriteHeader, WriteBody, ReadChunk, WriteChunk, WriteChunkCounting
  <1>8. CASE ServerToClient
    BY <1>8 DEF ServerToClient, ReadServer, ReadServerEnds, LockForRelay, WriteClient,
                WriteClientFails, LockForShutdown, ShutdownClient, S2cRuns
  <1>9. CASE Select
    BY <1>9 DEF Select, SelectClientDone, SelectClientDoneTo, SelectServerDone, SessionEnds, DrainTimeout, DrainEnds
  <1> QED
    BY <1>2, <1>3, <1>5, <1>6, <1>7, <1>8, <1>9 DEF Next, ClientToServer, Terminated

\* Both futures start without the lock.
LEMMA LockInit == Init => LockInv
  BY DEF Init, LockInv

-----------------------------------------------------------------------------
(* The stream to the client.                                               *)

\* Appending to a stream of whole answers.
LEMMA WholeAppend ==
    ASSUME NEW q \in Seq(Sent), NEW e \in Sent, Whole(q),
           e.from = "ready" =>
               Len(q) > 0 /\ q[Len(q)] = [from |-> "error", n |-> e.n],
           Len(q) > 0 /\ q[Len(q)].from = "error" =>
               e = [from |-> "ready", n |-> q[Len(q)].n]
    PROVE  Whole(Append(q, e))
  <1> DEFINE r == Append(q, e)
  <1>1. /\ Len(q) \in Nat /\ Len(r) = Len(q) + 1
        /\ \A i \in 1 .. Len(q) : r[i] = q[i]
        /\ r[Len(q) + 1] = e
    BY AppendProperties, LenProperties
  <1> HIDE DEF r
  <1>2. ASSUME NEW i \in 1 .. Len(r) - 1, r[i].from = "error"
        PROVE  r[i + 1] = [from |-> "ready", n |-> r[i].n]
    <2>1. i \in 1 .. Len(q) /\ r[i] = q[i]
      BY <1>1
    <2>2. CASE i = Len(q)
      BY <1>1, <1>2, <2>1, <2>2
    <2>3. CASE i \in 1 .. Len(q) - 1
      <3>1. r[i + 1] = q[i + 1]
        BY <1>1, <2>3
      <3>2. q[i + 1] = [from |-> "ready", n |-> q[i].n]
        BY <1>2, <2>1, <2>3 DEF Whole
      <3> QED
        BY <2>1, <3>1, <3>2
    <2> QED
      BY <1>1, <2>1, <2>2, <2>3
  <1>3. ASSUME NEW i \in 1 .. Len(r), r[i].from = "ready"
        PROVE  i > 1 /\ r[i - 1] = [from |-> "error", n |-> r[i].n]
    <2>1. CASE i \in 1 .. Len(q)
      <3>1. i > 1 /\ q[i - 1] = [from |-> "error", n |-> q[i].n]
        BY <1>1, <1>3, <2>1 DEF Whole
      <3>2. i - 1 \in 1 .. Len(q)
        BY <1>1, <2>1, <3>1
      <3> QED
        BY <1>1, <2>1, <3>1, <3>2
    <2>2. CASE i = Len(q) + 1
      <3>1. r[i] = e /\ i - 1 = Len(q)
        BY <1>1, <2>2
      <3>2. Len(q) > 0 /\ q[Len(q)] = [from |-> "error", n |-> e.n]
        BY <1>3, <3>1
      <3>3. r[Len(q)] = q[Len(q)]
        BY <1>1, <3>2
      <3> QED
        BY <1>1, <2>2, <3>1, <3>2, <3>3
    <2> QED
      BY <1>1, <2>1, <2>2
  <1>4. Whole(r)
    BY <1>2, <1>3 DEF Whole
  <1> QED
    BY <1>4 DEF r

\* An answer of Guardian's leaves PostgreSQL's units as they are.
LEMMA GivenAnswer ==
    ASSUME NEW q \in Seq(Sent), NEW e \in Sent, e.from # "server", NEW b \in Nat, Given(q, b)
    PROVE  Given(Append(q, e), b)
  <1> DEFINE r == Append(q, e)
  <1>1. /\ Len(q) \in Nat /\ Len(r) = Len(q) + 1
        /\ \A i \in 1 .. Len(q) : r[i] = q[i]
        /\ r[Len(q) + 1] = e
    BY AppendProperties, LenProperties
  <1> HIDE DEF r
  <1>2. \A i \in 1 .. Len(r) : r[i].from = "server" => i \in 1 .. Len(q)
    BY <1>1
  <1>3. Given(r, b)
    BY <1>1, <1>2 DEF Given
  <1> QED
    BY <1>3 DEF r

\* PostgreSQL's next unit extends them by one.
LEMMA GivenNext ==
    ASSUME NEW q \in Seq(Sent), NEW b \in Nat, Given(q, b)
    PROVE  Given(Append(q, [from |-> "server", n |-> b + 1]), b + 1)
  <1> DEFINE e == [from |-> "server", n |-> b + 1]
  <1> DEFINE r == Append(q, e)
  <1>0. e \in Sent /\ e.from = "server" /\ e.n = b + 1
    BY DEF Sent
  <1> HIDE DEF e
  <1>1. /\ Len(q) \in Nat /\ Len(r) = Len(q) + 1
        /\ \A i \in 1 .. Len(q) : r[i] = q[i]
        /\ r[Len(q) + 1] = e
    BY <1>0, AppendProperties, LenProperties
  <1> HIDE DEF r
  <1>2. ASSUME NEW i \in 1 .. Len(q) PROVE q[i].n \in Nat
    <2>1. q[i] \in Sent
      BY ElementOfSeq
    <2> QED
      BY <2>1 DEF Sent
  <1>3. ASSUME NEW i \in 1 .. Len(r), NEW j \in 1 .. Len(r),
               i < j, r[i].from = "server", r[j].from = "server"
        PROVE  r[i].n < r[j].n
    <2>1. i \in 1 .. Len(q) /\ r[i] = q[i] /\ q[i].n =< b /\ q[i].n \in Nat
      BY <1>1, <1>2, <1>3 DEF Given
    <2>2. CASE j \in 1 .. Len(q)
      BY <1>1, <1>3, <2>1, <2>2 DEF Given
    <2>3. CASE j = Len(q) + 1
      BY <1>0, <1>1, <2>1, <2>3
    <2> QED
      BY <1>1, <2>2, <2>3
  <1>4. ASSUME NEW i \in 1 .. Len(r), r[i].from = "server" PROVE r[i].n =< b + 1
    <2>1. CASE i \in 1 .. Len(q)
      <3>1. r[i] = q[i] /\ q[i].n \in Nat
        BY <1>1, <1>2, <2>1
      <3>2. q[i].n =< b
        BY <1>4, <2>1, <3>1 DEF Given
      <3> QED
        BY <3>1, <3>2
    <2>2. CASE i = Len(q) + 1
      BY <1>0, <1>1, <2>2
    <2> QED
      BY <1>1, <2>1, <2>2
  <1>5. ASSUME NEW k \in 1 .. b + 1
        PROVE  \E i \in 1 .. Len(r) : r[i] = [from |-> "server", n |-> k]
    <2>1. CASE k \in 1 .. b
      <3>1. PICK i \in 1 .. Len(q) : q[i] = [from |-> "server", n |-> k]
        BY <2>1 DEF Given
      <3> QED
        BY <1>1, <3>1
    <2>2. CASE k = b + 1
      <3>1. r[Len(q) + 1] = [from |-> "server", n |-> k] /\ Len(q) + 1 \in 1 .. Len(r)
        BY <1>1, <2>2 DEF e
      <3> QED
        BY <3>1
    <2> QED
      BY <2>1, <2>2
  <1>6. Given(r, b + 1)
    BY <1>3, <1>4, <1>5 DEF Given
  <1> QED
    BY <1>6 DEF r, e

\* The steps that write to the client, and what they write.
LEMMA Writes ==
    ASSUME TypeInv, LockInv, WriteError \/ WriteReady \/ WriteClient
    PROVE  /\ toClient \in Seq(Sent)
           /\ WriteError \/ WriteReady =>
                 rd \in 1 .. Len(cs) /\ [from |-> "error", n |-> cs[rd].msg] \in Sent
                                     /\ [from |-> "ready", n |-> cs[rd].msg] \in Sent
           /\ [from |-> "server", n |-> srd] \in Sent
           /\ WriteClient => c2s \notin {"error", "ready"}
  <1>1. toClient \in Seq(Sent) /\ srd \in Nat /\ Len(cs) \in Nat
    BY Elements DEF TypeInv, TypeOK
  <1>2. [from |-> "server", n |-> srd] \in Sent
    BY <1>1 DEF Sent
  <1>3. ASSUME WriteError \/ WriteReady
        PROVE  rd \in 1 .. Len(cs) /\ [from |-> "error", n |-> cs[rd].msg] \in Sent
                                   /\ [from |-> "ready", n |-> cs[rd].msg] \in Sent
    <2>1. rd \in 1 .. Len(cs)
      BY <1>3 DEF WriteError, WriteErrorThen, WriteReady, WriteReadyThen, TypeInv, TypeOK, CursorInv
    <2>2. cs[rd].msg \in Nat
      BY <2>1, Elements DEF TypeInv
    <2> QED
      BY <2>1, <2>2 DEF Sent
  <1>4. WriteClient => c2s \notin {"error", "ready"}
    BY DEF WriteClient, S2cRuns, LockInv
  <1> QED
    BY <1>1, <1>2, <1>3, <1>4

\* What the message of the header read last is called does not change while
\* client_to_server stands still.
LEMMA SameHeader ==
    ASSUME TypeInv, Client \/ KeepaliveFails, rd >= 1
    PROVE  cs'[rd] = cs[rd]
  <1>1. rd \in 1 .. Len(cs) /\ rd \in Nat /\ TypeOK
    BY Elements DEF TypeInv, TypeOK, CursorInv
  <1>2. ASSUME NEW m \in Shapes, ClientStarts(m) PROVE cs'[rd] = cs[rd]
    BY <1>1, <1>2, StartGrows
  <1>3. CASE ClientContinues
    BY <1>1, <1>3, ContinueGrows
  <1>4. CASE (\E how \in {"eof", "reset", "lost"} : ClientEnds(how)) \/ KeepaliveFails
    BY <1>1, <1>4, EndKeeps
  <1>5. CASE ClientReads
    BY <1>5 DEF ClientReads
  <1> QED
    BY <1>2, <1>3, <1>4, <1>5 DEF Client

\* Every step keeps Guardian's answers whole.
LEMMA AnswerNext == TypeInv /\ LockInv /\ AnswerInv /\ [Next]_vars => AnswerInv'
  <1> SUFFICES ASSUME TypeInv, LockInv, AnswerInv, [Next]_vars PROVE AnswerInv'
    OBVIOUS
  <1> USE DEF clientVars, c2sVars, upVars, pgVars, s2cVars, downVars
  <1>0. rd \in Nat /\ (c2s = "ready" => rd >= 1)
    BY DEF TypeInv, TypeOK, CursorInv
  <1>1. ASSUME toClient' = toClient, ClientBroken => ClientBroken',
               c2s' = c2s \/ (c2s # "ready" /\ c2s' # "ready"),
               c2s' = "ready" => cs'[rd'] = cs[rd]
        PROVE  AnswerInv'
    BY <1>1 DEF AnswerInv
  <1>2. CASE Client \/ KeepaliveFails
    <2>1. toClient' = toClient /\ c2s' = c2s /\ rd' = rd /\ (ClientBroken => ClientBroken')
      BY <1>2 DEF Client, ClientStarts, ClientContinues, ClientEnds, ClientReads, KeepaliveFails,
                  ClientBroken
    <2> QED
      BY <1>0, <1>1, <1>2, <2>1, SameHeader
  <1>3. CASE Pg \/ UNCHANGED vars \/ Select
    BY <1>1, <1>3 DEF Pg, PgSends, PgEnds, PgReads, vars, Select, SelectClientDone, SelectClientDoneTo, SelectServerDone,
                      SessionEnds, DrainTimeout, DrainEnds, ClientBroken
  <1>4. CASE ReadServer \/ ReadServerEnds \/ LockForRelay \/ WriteClientFails \/ LockForShutdown \/ ShutdownClient
    BY <1>1, <1>4 DEF ReadServer, ReadServerEnds, LockForRelay, WriteClientFails, LockForShutdown, ShutdownClient,
                      ClientBroken
  <1>5. CASE ReadHeader \/ ReadHeaderFails \/ InspectBody \/ InspectBodyFails
    BY <1>1, <1>5 DEF ReadHeader, ReadHeaderFails, InspectBody, InspectBodyFails, ClientBroken
  <1>6. CASE LockForRefusal \/ WriteErrorFails \/ WriteMessageFails \/ ChunkFails \/ ShutdownPg
    BY <1>1, <1>6 DEF LockForRefusal, WriteErrorFails, WriteMessageFails, ChunkFails, ShutdownPg, ShutdownPgTo,
                      ClientBroken
  <1>7. CASE WriteHeader \/ WriteBody \/ ReadChunk \/ WriteChunk
    BY <1>1, <1>7 DEF WriteHeader, WriteBody, ReadChunk, WriteChunk, WriteChunkCounting, ClientBroken
  <1>8. ASSUME NEW e \in Sent, toClient' = Append(toClient, e), toClient \in Seq(Sent)
        PROVE  Len(toClient') > 0 /\ toClient'[Len(toClient')] = e
    BY <1>8, AppendProperties, LenProperties
  <1>9. CASE WriteError
    <2> DEFINE e == [from |-> "error", n |-> cs[rd].msg]
    <2>1. e \in Sent /\ toClient \in Seq(Sent)
      BY <1>9, Writes
    <2>2. /\ toClient' = Append(toClient, e) /\ c2s' = "ready" /\ c2s # "ready" /\ ~ClientBroken
          /\ cs' = cs /\ rd' = rd
      BY <1>9 DEF WriteError, WriteErrorThen, ClientWritable
    <2>3. e.from = "error" /\ e = [from |-> "error", n |-> cs'[rd'].msg]
      BY <2>2
    <2> HIDE DEF e
    <2>4. Whole(toClient')
      BY <2>1, <2>2, <2>3, WholeAppend DEF AnswerInv
    <2>5. Len(toClient') > 0 /\ toClient'[Len(toClient')] = e
      BY <1>8, <2>1, <2>2
    <2> QED
      BY <2>2, <2>3, <2>4, <2>5 DEF AnswerInv
  <1>10. CASE WriteReady
    <2> DEFINE e == [from |-> "ready", n |-> cs[rd].msg]
    <2>1. e \in Sent /\ toClient \in Seq(Sent)
      BY <1>10, Writes
    <2>2. c2s = "ready" /\ c2s' = "header" /\ cEnd' = cEnd /\ clientFin' = clientFin
      BY <1>10 DEF WriteReady, WriteReadyThen
    <2>3. Len(toClient) > 0 /\ toClient[Len(toClient)] = [from |-> "error", n |-> cs[rd].msg]
      BY <2>2 DEF AnswerInv
    <2>4. e.from = "ready" /\ e.n = cs[rd].msg
      OBVIOUS
    <2>5. CASE toClient' = Append(toClient, e)
      <3>1. e = [from |-> "ready", n |-> toClient[Len(toClient)].n]
        BY <2>3
      <3>2. toClient[Len(toClient)] = [from |-> "error", n |-> e.n]
        BY <2>3, <2>4
      <3> HIDE DEF e
      <3>3. Whole(toClient')
        BY <2>1, <2>3, <2>5, <3>1, <3>2, WholeAppend DEF AnswerInv
      <3>4. toClient'[Len(toClient')] = e
        BY <1>8, <2>1, <2>5
      <3> QED
        BY <2>2, <2>4, <3>3, <3>4 DEF AnswerInv
    <2>6. CASE ClientBroken /\ UNCHANGED toClient
      BY <2>2, <2>6 DEF AnswerInv, ClientBroken
    <2> QED
      BY <1>10, <2>5, <2>6 DEF WriteReady, WriteReadyThen
  <1>11. CASE WriteClient
    <2> DEFINE e == [from |-> "server", n |-> srd]
    <2>1. e \in Sent /\ toClient \in Seq(Sent) /\ c2s \notin {"error", "ready"}
      BY <1>11, Writes
    <2>2. toClient' = Append(toClient, e) /\ c2s' = c2s /\ ~ClientBroken
      BY <1>11 DEF WriteClient, ClientWritable
    <2>3. e.from = "server"
      OBVIOUS
    <2> HIDE DEF e
    <2>4. Whole(toClient')
      BY <2>1, <2>2, <2>3, WholeAppend DEF AnswerInv
    <2>5. toClient'[Len(toClient')] = e
      BY <1>8, <2>1, <2>2
    <2> QED
      BY <2>1, <2>2, <2>3, <2>4, <2>5 DEF AnswerInv
  <1> QED
    BY <1>2, <1>3, <1>4, <1>5, <1>6, <1>7, <1>9, <1>10, <1>11
       DEF Next, ClientToServer, ServerToClient, Terminated

\* Every step keeps PostgreSQL's stream to the client without a gap.
LEMMA DownNext == TypeInv /\ LockInv /\ DownInv /\ [Next]_vars => DownInv'
  <1> SUFFICES ASSUME TypeInv, LockInv, DownInv, [Next]_vars PROVE DownInv'
    OBVIOUS
  <1> USE DEF clientVars, c2sVars, upVars, pgVars, s2cVars, downVars
  <1>0. srd \in Nat /\ ss \in Seq(BOOLEAN) /\ Len(ss) \in Nat /\ srd =< Len(ss)
    BY LenProperties DEF TypeInv, TypeOK, DownInv
  <1>1. ASSUME UNCHANGED <<s2cVars, toClient>>, Len(ss') \in Nat, srd =< Len(ss'),
               cEnd = "reset" => cEnd' = "reset",
               pgEnd \in {"eof", "reset"} => pgEnd' \in {"eof", "reset"} /\ Len(ss') =< Len(ss)
        PROVE  DownInv'
    BY <1>0, <1>1 DEF DownInv
  <1>2. CASE Client
    BY <1>0, <1>1, <1>2 DEF Client, ClientStarts, ClientContinues, ClientEnds, ClientReads
  <1>3. ASSUME NEW last \in Cuts, PgSends(last) PROVE DownInv'
    <2>1. Len(ss') = Len(ss) + 1
      BY <1>0, <1>3 DEF PgSends
    <2> QED
      BY <1>0, <1>1, <1>3, <2>1 DEF PgSends
  <1>4. ASSUME ss' = ss \/ ss' \in Kept(ss, srd)
        PROVE  Len(ss') \in Nat /\ srd =< Len(ss') /\ Len(ss') =< Len(ss)
    BY <1>0, <1>4, KeptFacts
  <1>5. ASSUME NEW how \in {"eof", "reset", "lost"}, PgEnds(how) PROVE DownInv'
    <2>1. /\ UNCHANGED <<s2cVars, toClient, cEnd>> /\ (ss' = ss \/ ss' \in Kept(ss, srd))
          /\ pgEnd \in {"eof", "reset"} => pgEnd' \in {"eof", "reset"}
      BY <1>5 DEF PgEnds
    <2> QED
      BY <1>1, <1>4, <2>1
  <1>6. CASE KeepaliveFails
    <2>1. /\ UNCHANGED <<s2cVars, toClient>> /\ (ss' = ss \/ ss' \in Kept(ss, srd))
          /\ pgEnd \in {"eof", "reset"} => pgEnd' \in {"eof", "reset"}
          /\ cEnd = "reset" => cEnd' = "reset"
      BY <1>6 DEF KeepaliveFails
    <2> QED
      BY <1>1, <1>4, <2>1
  <1>7. CASE Select \/ UNCHANGED vars
    BY <1>0, <1>1, <1>7 DEF vars, Select, SelectClientDone, SelectClientDoneTo, SelectServerDone, SessionEnds,
                            DrainTimeout, DrainEnds
  <1>8. CASE ReadHeader \/ ReadHeaderFails \/ InspectBody \/ InspectBodyFails
    BY <1>0, <1>1, <1>8 DEF ReadHeader, ReadHeaderFails, InspectBody, InspectBodyFails
  <1>9. CASE LockForRefusal \/ WriteErrorFails \/ WriteMessageFails \/ ChunkFails \/ ShutdownPg
    BY <1>0, <1>1, <1>9 DEF LockForRefusal, WriteErrorFails, WriteMessageFails, ChunkFails,
                            ShutdownPg, ShutdownPgTo
  <1>10. CASE WriteHeader \/ WriteBody \/ ReadChunk \/ WriteChunk
    BY <1>0, <1>1, <1>10 DEF WriteHeader, WriteBody, ReadChunk, WriteChunk, WriteChunkCounting
  <1>11. CASE WriteError \/ WriteReady
    <2>1. UNCHANGED <<s2cVars, ss, pgEnd, cEnd>>
      BY <1>11 DEF WriteError, WriteErrorThen, WriteReady, WriteReadyThen
    <2>2. PICK e \in Sent : /\ e.from # "server"
                            /\ toClient' = toClient \/ toClient' = Append(toClient, e)
      BY <1>11, Writes DEF WriteError, WriteErrorThen, WriteReady, WriteReadyThen
    <2>3. toClient \in Seq(Sent)
      BY DEF TypeInv, TypeOK
    <2>4. ASSUME NEW b \in Nat, Given(toClient, b) PROVE Given(toClient', b)
      BY <2>2, <2>3, <2>4, GivenAnswer
    <2>5. srd > 0 => srd - 1 \in Nat
      BY <1>0
    <2> QED
      BY <1>0, <2>1, <2>4, <2>5 DEF DownInv
  <1>12. CASE ReadServer
    <2>1. /\ s2c = "read" /\ s2c' = "lock" /\ srd' = srd + 1 /\ srd < Len(ss)
          /\ ss' = ss /\ toClient' = toClient
      BY <1>12 DEF ReadServer
    <2>2. srd' > 0 /\ srd' - 1 = srd /\ srd' =< Len(ss)
      BY <1>0, <2>1
    <2> QED
      BY <2>1, <2>2 DEF DownInv
  <1>13. CASE ReadServerEnds
    <2>1. /\ s2c = "read" /\ s2c' = "shutdown" /\ srd' = srd /\ ss' = ss /\ toClient' = toClient
          /\ srd = Len(ss) /\ pgEnd' = pgEnd /\ pgEnd \in {"eof", "reset"}
      BY <1>13 DEF ReadServerEnds
    <2> QED
      BY <1>0, <2>1 DEF DownInv
  <1>14. CASE LockForRelay
    BY <1>0, <1>14 DEF LockForRelay, DownInv
  <1>15. CASE WriteClient
    <2>1. /\ s2c = "write" /\ s2c' = "read" /\ srd' = srd /\ ss' = ss
          /\ toClient' = Append(toClient, [from |-> "server", n |-> srd])
      BY <1>15 DEF WriteClient
    <2>2. srd > 0 /\ Given(toClient, srd - 1) /\ srd - 1 \in Nat /\ (srd - 1) + 1 = srd
      BY <1>0, <2>1 DEF DownInv
    <2>3. toClient \in Seq(Sent)
      BY DEF TypeInv, TypeOK
    <2>4. Given(Append(toClient, [from |-> "server", n |-> (srd - 1) + 1]), (srd - 1) + 1)
      BY <2>2, <2>3, GivenNext
    <2>5. Given(toClient', srd)
      BY <2>1, <2>2, <2>4
    <2> QED
      BY <1>0, <2>1, <2>5 DEF DownInv
  <1>16. CASE WriteClientFails
    <2>1. /\ s2c = "write" /\ s2c' = "shutdown" /\ srd' = srd /\ ss' = ss /\ toClient' = toClient
          /\ cEnd' = cEnd /\ cEnd = "reset"
      BY <1>16 DEF WriteClientFails, ClientBroken, LockInv
    <2>2. Given(toClient, srd - 1) /\ srd - 1 \in Nat
      BY <1>0, <2>1 DEF DownInv
    <2> QED
      BY <1>0, <2>1, <2>2 DEF DownInv
  <1>17. CASE LockForShutdown \/ ShutdownClient \/ PgReads
    BY <1>0, <1>17 DEF LockForShutdown, ShutdownClient, PgReads, DownInv
  <1> QED
    BY <1>2, <1>3, <1>5, <1>6, <1>7, <1>8, <1>9, <1>10, <1>11, <1>12, <1>13, <1>14, <1>15, <1>16,
       <1>17 DEF Next, Pg, ClientToServer, ServerToClient, Terminated

\* Nothing has been sent to the client at first.
LEMMA DownInit == Init => AnswerInv /\ DownInv
  <1> SUFFICES ASSUME Init PROVE AnswerInv /\ DownInv
    OBVIOUS
  <1>1. /\ toClient = <<>> /\ ss = <<>> /\ srd = 0 /\ s2c = "read" /\ c2s = "header"
        /\ Len(<<>>) = 0
    BY DEF Init
  <1>2. Whole(<<>>) /\ Given(<<>>, 0)
    BY DEF Whole, Given
  <1> QED
    BY <1>1, <1>2 DEF AnswerInv, DownInv

(***************************************************************************)
(* No chunk of PostgreSQL's ever lands between Guardian's ErrorResponse    *)
(* and its ReadyForQuery: the mutex guard is held across both writes.      *)
(***************************************************************************)
THEOREM AnswersAreWhole == Spec => []RefusalWhole
  <1>1. AnswerInv => RefusalWhole
    BY DEF AnswerInv, Whole, RefusalWhole
  <1>2. Init => TypeInv /\ LockInv /\ AnswerInv
    BY TypeInit, LockInit, DownInit
  <1>3. TypeInv /\ LockInv /\ AnswerInv /\ [Next]_vars => (TypeInv /\ LockInv /\ AnswerInv)'
    BY TypeNext, LockNext, AnswerNext
  <1> QED
    BY <1>1, <1>2, <1>3, PTL DEF Spec

\* The invariant behind both facts about PostgreSQL's stream.
LEMMA DownInvariant == Spec => [](TypeInv /\ LockInv /\ DownInv)
  <1>1. Init => TypeInv /\ LockInv /\ DownInv
    BY TypeInit, LockInit, DownInit
  <1>2. TypeInv /\ LockInv /\ DownInv /\ [Next]_vars => (TypeInv /\ LockInv /\ DownInv)'
    BY TypeNext, LockNext, DownNext
  <1> QED
    BY <1>1, <1>2, PTL DEF Spec

(***************************************************************************)
(* PostgreSQL's chunks reach the client in order and without a gap.        *)
(***************************************************************************)
THEOREM ServerStream == Spec => []ServerStreamInOrder
  <1>1. ASSUME TypeInv, LockInv, DownInv PROVE ServerStreamInOrder
    <2>1. PICK b \in Nat : Given(toClient, b)
      BY <1>1 DEF TypeInv, TypeOK, DownInv, S2cPoints
    <2>2. Len(toClient) \in Nat /\ \A i \in 1 .. Len(toClient) : toClient[i].n \in Nat
      BY <1>1, Elements DEF TypeInv
    <2> QED
      BY <2>1, <2>2 DEF Given, ServerStreamInOrder, Delivered
  <1>2. TypeInv /\ LockInv /\ DownInv => ServerStreamInOrder
    BY <1>1
  <1> QED
    BY <1>2, DownInvariant, PTL

(***************************************************************************)
(* The proxy ends the stream of a connected client only after it has       *)
(* passed on all that PostgreSQL sent: the select! at the end never cuts   *)
(* results short.                                                          *)
(***************************************************************************)
THEOREM EofComesLast == Spec => []EofAfterResults
  <1>1. ASSUME TypeInv, LockInv, DownInv PROVE EofAfterResults
    <2>1. SUFFICES ASSUME clientFin \/ phase = "closed", cEnd # "reset"
                   PROVE  pgEnd \in {"eof", "reset"} /\ \A k \in 1 .. Len(ss) : Delivered(k)
      BY DEF EofAfterResults
    <2>2. s2c = "done"
      BY <1>1, <2>1 DEF LockInv
    <2>3. pgEnd \in {"eof", "reset"} /\ srd = Len(ss) /\ Given(toClient, srd)
      BY <1>1, <2>1, <2>2 DEF DownInv
    <2> QED
      BY <2>3 DEF Given, Delivered
  <1>2. TypeInv /\ LockInv /\ DownInv => EofAfterResults
    BY <1>1
  <1> QED
    BY <1>2, DownInvariant, PTL
=============================================================================
