-------------------------- MODULE HandshakeProofs --------------------------
(***************************************************************************)
(* Proofs about Handshake for every menu of units and any number of them.  *)
(***************************************************************************)
EXTENDS Handshake, SequenceTheorems, FiniteSetTheorems, TLAPS

-----------------------------------------------------------------------------
(* The inductive invariant.                                                *)

Early == InHandshake \cup {"accepted"}
InSession == {"version", "guardian", "connect", "sendStartup", "relay"}

\* What is known of the packet read last, and of the backend, at each point.
PathInv ==
    /\ pc \in Early => up = "none" /\ pkt.kind \in {"none", "ssl", "gss"}
    /\ pc \in {"cancelConnect", "cancelWrite"} => pkt.kind = "cancel" /\ ~pkt.tls
    /\ pc = "version" => pkt.kind \in Packets \ {"badLen"}
    /\ pc \in {"guardian", "connect", "sendStartup", "relay"} => pkt.kind \in Supported
    /\ pc \in {"connect", "sendStartup", "relay"} => verdict \in {"ALLOW", "INSPECT"}
    /\ pc \in {"cancelWrite", "sendStartup", "relay"} => up = "open"
    /\ up # "none" =>
          /\ pc \in {"cancelWrite", "sendStartup", "relay", "closed"}
          /\ \/ pkt.kind = "cancel" /\ ~pkt.tls
             \/ pkt.kind \in Supported /\ verdict \in {"ALLOW", "INSPECT"}
    /\ backend # <<>> => pc \in {"relay", "closed"} /\ up # "none"

\* An untrusted peer gets no further than the first step.
PeerInv == ~trusted => pc \in {"accepted", "closed"} /\ UntrustedPeerIgnored

\* The client was told to start TLS.
ToldS == \E i \in 1 .. Len(answers) : answers[i] = "S"

\* The stream is the TLS stream exactly from the ClientHello on.
TlsInv ==
    /\ pc \in Early \ {"tlsHello", "tlsStartup"} => ~secure /\ ~ToldS
    /\ pc = "tlsHello" => ~secure /\ ToldS
    /\ pc = "tlsStartup" => secure /\ ToldS
    /\ pc \in InSession => pkt.tls = secure /\ (secure <=> ToldS)

\* Requests that are answered by one byte, and all that a client waits on.
Asks == {"ssl", "gss"}
Awaited == Asks \cup Startups \cup {"cancel"}

\* Where they can be among the units under way.
HasAsk(s) == \E i \in 1 .. Len(s) : s[i].kind \in Asks
HasAwaited(s) == \E i \in 1 .. Len(s) : s[i].kind \in Awaited
AwaitedLast(s) == \A i \in 1 .. Len(s) : s[i].kind \in Awaited => i = Len(s)

\* A request is on its way, or read and not answered yet.
Answering == {"refuseTls", "acceptTls"}
Pending == HasAsk(buf) \/ HasAsk(wire) \/ pc \in Answering

\* What a client that waits for each answer has under way: nothing follows a
\* request, and the answers and the request under way are all it asked for.
WaitsInv ==
    /\ AwaitedLast(buf) /\ AwaitedLast(wire)
    /\ HasAwaited(buf) => wire = <<>>
    /\ pc \in Answering => buf = <<>> /\ wire = <<>>
    /\ pc = "tlsHello" => buf = <<>>
    /\ cEnd # "reset" =>
          /\ wire # <<>> => sent # <<>> /\ wire[Len(wire)] = sent[Len(sent)]
          /\ wire = <<>> /\ buf # <<>> => sent # <<>> /\ buf[Len(buf)] = sent[Len(sent)]
          /\ Pending => Cardinality(Negotiations) = Len(answers) + 1
          /\ ~Pending => Cardinality(Negotiations) = Len(answers)

PoliteInv == polite => lost = {} /\ (pc \in Early => WaitsInv)

IInv ==
    /\ TypeOK /\ PathInv /\ PeerInv /\ TlsInv
    /\ RefusedStartupDiagnosed /\ OnePacketPerBackendConnection

-----------------------------------------------------------------------------
(* Sequences.                                                              *)

\* A written answer or packet keeps the type of what was written.
LEMMA AppendIn == ASSUME NEW S, NEW s \in Seq(S), NEW e \in S PROVE Append(s, e) \in Seq(S)
  OBVIOUS

\* What taking a sequence apart gives.
LEMMA TakenApart ==
    ASSUME NEW S, NEW s \in Seq(S), s # <<>>
    PROVE  /\ Head(s) \in S /\ Tail(s) \in Seq(S)
           /\ Range(Tail(s)) \subseteq S
<1>1. Head(s) \in S /\ Tail(s) \in Seq(S)
  OBVIOUS
<1>2. \A i \in DOMAIN Tail(s) : Tail(s)[i] \in S
  BY <1>1
<1> QED
  BY <1>1, <1>2, Zenon DEF Range

\* A read takes a prefix and leaves the rest; a reset may leave a prefix.
LEMMA Pieces ==
    ASSUME NEW S, NEW s \in Seq(S), NEW n \in 0 .. Len(s)
    PROVE  SubSeq(s, 1, n) \in Seq(S) /\ SubSeq(s, n + 1, Len(s)) \in Seq(S)
<1>1. \A i \in 1 .. Len(s) : s[i] \in S
  OBVIOUS
<1>2. Len(s) \in Nat
  OBVIOUS
<1>3. /\ \A i \in 1 .. n : s[i] \in S
      /\ \A i \in n + 1 .. Len(s) : s[i] \in S
  BY <1>1, <1>2
<1>4. 1 \in Int /\ n \in Int /\ n + 1 \in Int /\ Len(s) \in Int
  BY <1>2
<1>5. SubSeq(s, 1, n) \in Seq(S)
  BY <1>3, <1>4
<1>6. SubSeq(s, n + 1, Len(s)) \in Seq(S)
  BY <1>3, <1>4
<1> QED
  BY <1>5, <1>6

-----------------------------------------------------------------------------
(* Types.                                                                  *)

\* A connection that was just accepted satisfies the whole invariant.
LEMMA InitInv == Init => IInv
<1> SUFFICES ASSUME Init PROVE IInv
  OBVIOUS
<1>1. TypeOK
  <2>1. trusted \in BOOLEAN /\ acceptor \in BOOLEAN /\ polite \in BOOLEAN /\ secure \in BOOLEAN
    BY Zenon DEF Init
  <2> QED
    BY <2>1 DEF Init, TypeOK, Points, NoUnit
<1>2. PathInv /\ OnePacketPerBackendConnection
  BY DEF Init, PathInv, NoUnit, OnePacketPerBackendConnection
<1>3. PeerInv
  BY DEF Init, PeerInv, UntrustedPeerIgnored
<1>4. TlsInv /\ RefusedStartupDiagnosed
  BY DEF Init, TlsInv, ToldS, RefusedStartupDiagnosed, InSession
<1> QED
  BY <1>1, <1>2, <1>3, <1>4 DEF IInv

\* Every step keeps the types; what reaches the backend is a packet because
\* of the path that leads there.
LEMMA TypeStep == ASSUME TypeOK, PathInv, [Next]_vars PROVE TypeOK'
<1> USE HandshakeAssumption
<1>0. /\ \A u \in Menu : u \in Units
      /\ Supported \subseteq Packets /\ "cancel" \in Packets
  BY DEF Supported, Startups, Packets
<1>t. /\ sent \in Seq(Units) /\ wire \in Seq(Units) /\ buf \in Seq(Units)
      /\ answers \in Seq(Answers)
      /\ backend \in Seq([packet : Packets, form : {"verbatim", "rewritten"}])
      /\ lost \subseteq Units
  BY DEF TypeOK
<1>a. \A a \in {"S", "N"} \cup Errors : Append(answers, a) \in Seq(Answers)
  BY <1>t DEF Answers
<1>b. buf # <<>> => /\ Head(buf) \in Units /\ Tail(buf) \in Seq(Units)
                    /\ lost \cup Range(Tail(buf)) \subseteq Units
  <2> SUFFICES ASSUME buf # <<>>
               PROVE  /\ Head(buf) \in Units /\ Tail(buf) \in Seq(Units)
                      /\ Range(Tail(buf)) \subseteq Units
    BY <1>t
  <2> QED
    BY <1>t, TakenApart
<1>1. ASSUME NEW u \in Menu, ClientSends(u) PROVE TypeOK'
  <2>1. sent' \in Seq(Units) /\ wire' \in Seq(Units)
    BY <1>0, <1>t, <1>1 DEF ClientSends
  <2> QED
    BY <1>1, <2>1 DEF ClientSends, TypeOK, config, upVars
<1>2. ASSUME NEW how \in {"eof", "reset"}, ClientEnds(how) PROVE TypeOK'
  <2>1. wire' \in Seq(Units)
    <3>1. CASE how = "reset"
      <4>1. PICK n \in 0 .. Len(wire) : wire' = SubSeq(wire, 1, n)
        BY <1>2, <3>1 DEF ClientEnds
      <4> QED
        BY <1>t, <4>1, Pieces
    <3>2. CASE how # "reset"
      BY <1>t, <1>2, <3>2 DEF ClientEnds
    <3> QED
      BY <3>1, <3>2
  <2> QED
    BY <1>2, <2>1 DEF ClientEnds, TypeOK, config, upVars
<1>3. CASE CheckPeer
  BY <1>3 DEF CheckPeer, Goto, Close, TypeOK, config, clientVars, upVars, Points, InHandshake
<1>4. CASE Fill
  <2>1. PICK n \in 1 .. Len(wire) : buf' = SubSeq(wire, 1, n) /\ wire' = SubSeq(wire, n + 1, Len(wire))
    BY <1>4 DEF Fill
  <2>2. n \in 0 .. Len(wire)
    BY <1>t
  <2>3. buf' \in Seq(Units) /\ wire' \in Seq(Units)
    BY <1>t, <2>1, <2>2, Pieces
  <2> QED
    BY <1>4, <2>3 DEF Fill, TypeOK, config, upVars
<1>5. CASE ReadProxyHeader
  BY <1>b, <1>5
  DEF ReadProxyHeader, Goto, Close, TypeOK, config, clientVars, upVars, Points, InHandshake
<1>6. CASE ReadPacket
  <2>1. /\ pkt' \in Units /\ buf' \in Seq(Units) /\ lost' \subseteq Units
    <3>1. /\ Head(buf) \in Units /\ Tail(buf) \in Seq(Units) /\ pkt' = Head(buf)
          /\ lost \cup Range(Tail(buf)) \subseteq Units
      BY <1>b, <1>6 DEF ReadPacket
    <3>2. \/ buf' = Tail(buf) /\ lost' = lost
          \/ buf' = <<>> /\ lost' = lost \cup Range(Tail(buf))
      BY <1>6 DEF ReadPacket, IntoInner
    <3>3. <<>> \in Seq(Units)
      OBVIOUS
    <3> QED
      BY <1>t, <3>1, <3>2, <3>3, Zenon
  <2>2. pc' \in Points /\ why' \in {why, "protocol"}
    BY <1>6 DEF ReadPacket, Goto, Close, Points, InHandshake
  <2>3. UNCHANGED <<config, clientVars, secure, verdict, answers, upVars>>
    BY <1>6 DEF ReadPacket, Goto, Close
  <2> QED
    BY <2>1, <2>2, <2>3 DEF TypeOK, config, clientVars, upVars
<1>7. CASE RefuseTls \/ AcceptTls
  <2>1. answers' \in Seq(Answers)
    BY <1>a, <1>7 DEF RefuseTls, AcceptTls
  <2> QED
    BY <1>7, <2>1
    DEF RefuseTls, AcceptTls, Goto, TypeOK, config, clientVars, upVars, Points, InHandshake
<1>8. CASE TlsHandshake
  <2>1. wire' \in Seq(Units)
    BY <1>t, <1>8 DEF TlsHandshake
  <2> QED
    <3>1. secure' \in BOOLEAN
      BY <1>8, Zenon DEF TlsHandshake, TypeOK
    <3> QED
      BY <1>8, <2>1, <3>1 DEF TlsHandshake, TypeOK, config, upVars, Points, InHandshake
<1>9. CASE ReadTlsPacket
  <2>1. /\ pkt' \in Units /\ buf' \in Seq(Units) /\ lost' \subseteq Units
    <3>1. /\ Head(buf) \in Units /\ Tail(buf) \in Seq(Units) /\ pkt' = Head(buf)
          /\ lost \cup Range(Tail(buf)) \subseteq Units
      BY <1>b, <1>9 DEF ReadTlsPacket
    <3>2. \/ buf' = Tail(buf) /\ lost' = lost
          \/ buf' = <<>> /\ lost' = lost \cup Range(Tail(buf))
      BY <1>9 DEF ReadTlsPacket, IntoInner
    <3>3. <<>> \in Seq(Units)
      OBVIOUS
    <3> QED
      BY <1>t, <3>1, <3>2, <3>3, Zenon
  <2> QED
    BY <1>9, <2>1
    DEF ReadTlsPacket, Goto, Close, TypeOK, config, clientVars, upVars, Points
<1>10. CASE HandshakeIoFails \/ HandshakeTimeout
  BY <1>10 DEF HandshakeIoFails, HandshakeTimeout, Close, TypeOK, config, clientVars, upVars, Points
<1>11. CASE CancelConnects \/ CancelConnectFails \/ Connects
  BY <1>11 DEF CancelConnects, CancelConnectFails, Connects, Goto, Close, TypeOK, config,
               clientVars, upVars, Points
<1>12. CASE CancelRelayed
  <2>1. backend' \in Seq([packet : Packets, form : {"verbatim", "rewritten"}])
    <3> DEFINE relayed == [packet |-> pkt.kind, form |-> "verbatim"]
    <3>1. relayed \in [packet : Packets, form : {"verbatim", "rewritten"}]
      BY <1>0, <1>12 DEF CancelRelayed, PathInv
    <3>2. backend' = backend \/ backend' = Append(backend, relayed)
      BY <1>12 DEF CancelRelayed
    <3> HIDE DEF relayed
    <3>3. backend \in Seq([packet : Packets, form : {"verbatim", "rewritten"}])
      BY <1>t
    <3>4. Append(backend, relayed) \in Seq([packet : Packets, form : {"verbatim", "rewritten"}])
      BY <3>1, <3>3, AppendIn
    <3> QED
      BY <3>2, <3>3, <3>4, Zenon
  <2> QED
    BY <1>12, <2>1 DEF CancelRelayed, Close, TypeOK, config, clientVars, Points
<1>13. CASE CheckVersion
  <2>1. answers' \in Seq(Answers)
    BY <1>a, <1>t, <1>13 DEF CheckVersion, Diagnose, Errors
  <2> QED
    BY <1>13, <2>1 DEF CheckVersion, Diagnose, Goto, Close, TypeOK, config, clientVars, upVars, Points
<1>14. ASSUME NEW action \in {"ALLOW", "INSPECT", "DENY"}, CheckConnection(action) PROVE TypeOK'
  <2>1. answers' \in Seq(Answers)
    BY <1>a, <1>t, <1>14 DEF CheckConnection, Diagnose, Errors
  <2> QED
    BY <1>14, <2>1 DEF CheckConnection, Diagnose, Goto, Close, TypeOK, config, clientVars, upVars, Points
<1>15. CASE ConnectFails
  BY <1>a, <1>15
  DEF ConnectFails, Diagnose, Errors, Close, TypeOK, config, clientVars, upVars, Points
<1>16. CASE SendStartup
  <2>1. backend' \in Seq([packet : Packets, form : {"verbatim", "rewritten"}])
    <3> DEFINE rewritten == [packet |-> pkt.kind, form |-> "rewritten"]
    <3>1. rewritten \in [packet : Packets, form : {"verbatim", "rewritten"}]
      BY <1>0, <1>16 DEF SendStartup, PathInv
    <3>2. backend' = backend \/ backend' = Append(backend, rewritten)
      BY <1>16 DEF SendStartup
    <3> HIDE DEF rewritten
    <3>3. backend \in Seq([packet : Packets, form : {"verbatim", "rewritten"}])
      BY <1>t
    <3>4. Append(backend, rewritten) \in Seq([packet : Packets, form : {"verbatim", "rewritten"}])
      BY <3>1, <3>3, AppendIn
    <3> QED
      BY <3>2, <3>3, <3>4, Zenon
  <2> QED
    BY <1>16, <2>1 DEF SendStartup, Goto, Close, TypeOK, config, clientVars, Points
<1>17. CASE UNCHANGED vars
  BY <1>17 DEF vars, TypeOK, config, clientVars, upVars
<1> QED
  BY <1>1, <1>2, <1>3, <1>4, <1>5, <1>6, <1>7, <1>8, <1>9, <1>10, <1>11, <1>12, <1>13, <1>14,
     <1>15, <1>16, <1>17
  DEF Next, Client, HandleClient, PerformHandshake, Terminated
-----------------------------------------------------------------------------
(* The way to the backend.                                                 *)

\* A step moves along the path: each point is entered with a packet that
\* belongs there, and the backend is contacted at the two points that may.
LEMMA PathStep == ASSUME TypeOK, PathInv, TlsInv, [Next]_vars PROVE PathInv'
<1> USE DEF Early, InHandshake
<1>t. buf # <<>> => Head(buf) \in Units
  BY TakenApart DEF TypeOK
<1>1. ASSUME NEW u \in Menu, ClientSends(u) PROVE PathInv'
  BY <1>1 DEF ClientSends, PathInv, upVars
<1>2. ASSUME NEW how \in {"eof", "reset"}, ClientEnds(how) PROVE PathInv'
  BY <1>2 DEF ClientEnds, PathInv, upVars
<1>3. CASE CheckPeer
  BY <1>3 DEF CheckPeer, Goto, Close, PathInv, upVars
<1>4. CASE Fill
  BY <1>4 DEF Fill, PathInv, upVars
<1>5. CASE ReadProxyHeader
  BY <1>5 DEF ReadProxyHeader, Goto, Close, PathInv, upVars
<1>6. CASE ReadPacket
  <2>1. up = "none" /\ backend = <<>> /\ UNCHANGED <<up, backend>> /\ pkt' = Head(buf)
    BY <1>6 DEF ReadPacket, PathInv, upVars
  <2>2. WellFormed(Head(buf)) => ~Head(buf).tls /\ Head(buf).kind \in Packets \ {"badLen"}
    BY <1>6 DEF WellFormed, ReadPacket, TlsInv
  <2> QED
    BY <1>6, <1>t, <2>1, <2>2 DEF ReadPacket, Goto, Close, PathInv
<1>7. CASE RefuseTls \/ AcceptTls
  BY <1>7 DEF RefuseTls, AcceptTls, Goto, PathInv, upVars
<1>8. CASE TlsHandshake
  BY <1>8 DEF TlsHandshake, PathInv, upVars
<1>9. CASE ReadTlsPacket
  <2>1. up = "none" /\ backend = <<>> /\ UNCHANGED <<up, backend>> /\ pkt' = Head(buf)
    BY <1>9 DEF ReadTlsPacket, PathInv, upVars
  <2> QED
    BY <1>9, <1>t, <2>1 DEF ReadTlsPacket, Goto, Close, PathInv, WellFormed
<1>10. CASE HandshakeIoFails \/ HandshakeTimeout
  BY <1>10 DEF HandshakeIoFails, HandshakeTimeout, Reading, Close, PathInv, upVars
<1>11. CASE CancelConnects \/ CancelConnectFails \/ CancelRelayed
  BY <1>11 DEF CancelConnects, CancelConnectFails, CancelRelayed, Goto, Close, PathInv, upVars
<1>12. CASE CheckVersion
  BY <1>12 DEF CheckVersion, Diagnose, Goto, Close, PathInv, upVars
<1>13. ASSUME NEW action \in {"ALLOW", "INSPECT", "DENY"}, CheckConnection(action) PROVE PathInv'
  BY <1>13 DEF CheckConnection, Diagnose, Goto, Close, PathInv, upVars
<1>14. CASE Connects \/ ConnectFails
  BY <1>14 DEF Connects, ConnectFails, Diagnose, Goto, Close, PathInv, upVars
<1>15. CASE SendStartup
  BY <1>15 DEF SendStartup, Goto, Close, PathInv
<1>16. CASE UNCHANGED vars
  BY <1>16 DEF vars, PathInv, upVars
<1> QED
  BY <1>1, <1>2, <1>3, <1>4, <1>5, <1>6, <1>7, <1>8, <1>9, <1>10, <1>11, <1>12, <1>13, <1>14,
     <1>15, <1>16
  DEF Next, Client, HandleClient, PerformHandshake, Terminated

\* A peer that is not trusted meets CheckPeer and nothing else.
LEMMA PeerStep == ASSUME TypeOK, PeerInv, [Next]_vars PROVE PeerInv'
<1> SUFFICES ASSUME ~trusted' PROVE PeerInv'
  BY DEF PeerInv
<1>c. trusted' = trusted
  BY DEF Next, Client, HandleClient, PerformHandshake, Terminated, vars, config, clientVars,
         ClientSends, ClientEnds, CheckPeer, Fill, ReadProxyHeader, ReadPacket, RefuseTls,
         AcceptTls, TlsHandshake, ReadTlsPacket, HandshakeIoFails, HandshakeTimeout,
         CancelConnects, CancelConnectFails, CancelRelayed, CheckVersion, CheckConnection,
         Connects, ConnectFails, SendStartup, Diagnose, Goto, Close
<1>0. /\ ~trusted /\ pc \in {"accepted", "closed"}
      /\ wire = sent \/ cEnd = "reset"
      /\ buf = <<>> /\ pkt = NoUnit /\ answers = <<>> /\ up = "none"
  BY <1>c DEF PeerInv, UntrustedPeerIgnored
<1>1. ASSUME NEW u \in Menu, ClientSends(u) PROVE PeerInv'
  BY <1>0, <1>1 DEF ClientSends, PeerInv, UntrustedPeerIgnored, upVars
<1>2. ASSUME NEW how \in {"eof", "reset"}, ClientEnds(how) PROVE PeerInv'
  BY <1>0, <1>2 DEF ClientEnds, PeerInv, UntrustedPeerIgnored, upVars
<1>3. CASE CheckPeer
  BY <1>0, <1>3 DEF CheckPeer, Goto, Close, PeerInv, UntrustedPeerIgnored, upVars, clientVars
<1>4. CASE UNCHANGED vars
  BY <1>0, <1>4 DEF PeerInv, UntrustedPeerIgnored, vars, upVars, clientVars
<1>5. ~(PerformHandshake \/ HandshakeTimeout)
  BY <1>0 DEF PerformHandshake, Fill, Reading, ReadProxyHeader, ReadPacket, RefuseTls,
              AcceptTls, TlsHandshake, ReadTlsPacket, HandshakeIoFails, HandshakeTimeout,
              InHandshake
<1>6. /\ ~(CancelConnects \/ CancelConnectFails \/ CancelRelayed)
      /\ ~(CheckVersion \/ Connects \/ ConnectFails \/ SendStartup)
      /\ \A action : ~CheckConnection(action)
  BY <1>0 DEF CancelConnects, CancelConnectFails, CancelRelayed, CheckVersion, CheckConnection,
              Connects, ConnectFails, SendStartup
<1> QED
  BY <1>1, <1>2, <1>3, <1>4, <1>5, <1>6 DEF Next, Client, HandleClient, Terminated
-----------------------------------------------------------------------------
(* TLS and the answers.                                                    *)

\* One more answer: what was told before stays told.
LEMMA OneMoreAnswer ==
    ASSUME TypeOK, NEW a \in Answers, answers' = Append(answers, a)
    PROVE  /\ ToldS' <=> ToldS \/ a = "S"
           /\ Len(answers') = Len(answers) + 1 /\ Len(answers) \in Nat
           /\ answers'[Len(answers) + 1] = a
           /\ \A i \in 1 .. Len(answers) : answers'[i] = answers[i]
<1>1. answers \in Seq(Answers)
  BY DEF TypeOK
<1>2. /\ Len(answers') = Len(answers) + 1 /\ Len(answers) \in Nat
      /\ answers'[Len(answers) + 1] = a
      /\ \A i \in 1 .. Len(answers) : answers'[i] = answers[i]
  BY <1>1
<1>3. 1 .. Len(answers) + 1 = 1 .. Len(answers) \cup {Len(answers) + 1}
  BY <1>2
<1>4. ToldS' <=> ToldS \/ a = "S"
  BY <1>2, <1>3, Zenon DEF ToldS
<1> QED
  BY <1>2, <1>4

\* A diagnosis is no S.
LEMMA DiagnosisIsNoS ==
    ASSUME TypeOK, NEW code \in Errors, NEW reason, Diagnose(code, reason)
    PROVE  (ToldS' <=> ToldS) /\ pc' = "closed"
<1>1. CASE cEnd = "reset"
  BY <1>1 DEF Diagnose, ToldS, Close
<1>2. CASE cEnd # "reset"
  BY <1>2, OneMoreAnswer DEF Diagnose, Close, Answers, Errors
<1> QED
  BY <1>1, <1>2

\* The stream changes where S was answered and nowhere else.
LEMMA TlsStep == ASSUME TypeOK, TlsInv, [Next]_vars PROVE TlsInv'
<1> USE DEF Early, InHandshake, InSession
<1>s. answers' = answers => (ToldS' <=> ToldS)
  BY DEF ToldS
<1>1. ASSUME NEW u \in Menu, ClientSends(u) PROVE TlsInv'
  BY <1>s, <1>1 DEF TlsInv, ClientSends
<1>2. ASSUME NEW how \in {"eof", "reset"}, ClientEnds(how) PROVE TlsInv'
  BY <1>s, <1>2 DEF TlsInv, ClientEnds
<1>3. CASE CheckPeer \/ Fill \/ ReadProxyHeader
  BY <1>s, <1>3 DEF TlsInv, CheckPeer, Fill, ReadProxyHeader, Goto, Close
<1>4. CASE ReadPacket
  BY <1>s, <1>4 DEF TlsInv, ReadPacket, WellFormed, Goto, Close
<1>5. CASE RefuseTls
  BY <1>5, OneMoreAnswer DEF TlsInv, RefuseTls, Goto, Answers
<1>6. CASE AcceptTls
  BY <1>6, OneMoreAnswer DEF TlsInv, AcceptTls, Goto, Answers
<1>7. CASE TlsHandshake
  BY <1>s, <1>7 DEF TlsInv, TlsHandshake
<1>8. CASE ReadTlsPacket
  BY <1>s, <1>8 DEF TlsInv, ReadTlsPacket, WellFormed, Goto, Close
<1>9. CASE HandshakeIoFails \/ HandshakeTimeout \/ CancelConnectFails \/ CancelRelayed
  BY <1>9 DEF TlsInv, HandshakeIoFails, HandshakeTimeout, CancelConnectFails, CancelRelayed, Close
<1>10. CASE CancelConnects \/ Connects \/ SendStartup
  BY <1>s, <1>10 DEF TlsInv, CancelConnects, Connects, SendStartup, Goto, Close
<1>11. CASE CheckVersion
  BY <1>s, <1>11, DiagnosisIsNoS DEF TlsInv, CheckVersion, Errors, Goto
<1>12. ASSUME NEW action \in {"ALLOW", "INSPECT", "DENY"}, CheckConnection(action) PROVE TlsInv'
  BY <1>s, <1>12, DiagnosisIsNoS DEF TlsInv, CheckConnection, Errors, Goto
<1>13. CASE ConnectFails
  BY <1>13, DiagnosisIsNoS DEF TlsInv, ConnectFails, Errors
<1>14. CASE UNCHANGED vars
  BY <1>s, <1>14 DEF TlsInv, vars
<1> QED
  BY <1>1, <1>2, <1>3, <1>4, <1>5, <1>6, <1>7, <1>8, <1>9, <1>10, <1>11, <1>12, <1>13, <1>14
  DEF TlsInv, Next, Client, HandleClient, PerformHandshake, Terminated
\* No step but a diagnosis puts an error among the answers, and a diagnosis is
\* the last thing a connection does.
LEMMA AnswerStep ==
    ASSUME TypeOK, PathInv, TlsInv, RefusedStartupDiagnosed, [Next]_vars
    PROVE  RefusedStartupDiagnosed'
<1> USE DEF Early, InHandshake
<1> DEFINE OnlyLast == \A i \in 1 .. Len(answers) : answers[i] \in Errors => i = Len(answers) /\ pc = "closed"
           Told == pc = "closed" /\ pkt.kind \in Startups /\ pkt.tls = secure /\ up = "none" /\ cEnd # "reset"
                      => answers # <<>> /\ answers[Len(answers)] \in Errors
<1>0. OnlyLast /\ Told
  BY DEF RefusedStartupDiagnosed
<1>t. buf # <<>> => Head(buf) \in Units
  BY TakenApart DEF TypeOK
<1>q. SUFFICES OnlyLast' /\ Told'
  BY DEF RefusedStartupDiagnosed
<1>k. pc # "closed" => \A i \in 1 .. Len(answers) : answers[i] \notin Errors
  BY <1>0
<1>s. answers' = answers /\ (pc' = "closed" \/ pc' = pc \/ pc # "closed") => OnlyLast'
  BY <1>0
<1>d. ASSUME NEW code \in Errors, NEW reason, Diagnose(code, reason), pc # "closed"
      PROVE  OnlyLast' /\ Told'
  <2>1. CASE cEnd = "reset"
    BY <1>d, <1>s, <2>1 DEF Diagnose, Close, clientVars
  <2>2. CASE cEnd # "reset"
    <3>1. answers' = Append(answers, code) /\ pc' = "closed" /\ code \in Answers
      BY <1>d, <2>2 DEF Diagnose, Close, Answers
    <3>2. /\ Len(answers') = Len(answers) + 1 /\ Len(answers) \in Nat
          /\ answers'[Len(answers) + 1] = code
          /\ \A i \in 1 .. Len(answers) : answers'[i] = answers[i]
      BY <3>1, OneMoreAnswer
    <3>3. 1 .. Len(answers) + 1 = 1 .. Len(answers) \cup {Len(answers) + 1}
      BY <3>2
    <3>4. OnlyLast'
      BY <1>d, <1>k, <3>1, <3>2, <3>3
    <3>5. answers' # <<>>
      BY <3>2
    <3> QED
      BY <1>d, <3>2, <3>4, <3>5
  <2> QED
    BY <2>1, <2>2
<1>1. ASSUME NEW u \in Menu, ClientSends(u) PROVE OnlyLast' /\ Told'
  BY <1>0, <1>s, <1>1 DEF ClientSends, Settled
<1>2. ASSUME NEW how \in {"eof", "reset"}, ClientEnds(how) PROVE OnlyLast' /\ Told'
  BY <1>0, <1>s, <1>2 DEF ClientEnds, Settled
<1>3. ASSUME CheckPeer \/ ReadProxyHeader \/ HandshakeIoFails \/ HandshakeTimeout
      PROVE  OnlyLast' /\ Told'
  <2>1. pc \in Early /\ answers' = answers /\ pkt' = pkt
    BY <1>3 DEF CheckPeer, ReadProxyHeader, HandshakeIoFails, Reading, HandshakeTimeout
  <2>2. pkt'.kind \notin Startups
    BY <2>1 DEF PathInv, Startups, Supported
  <2> QED
    BY <1>s, <2>1, <2>2
<1>4. ASSUME Fill \/ TlsHandshake PROVE OnlyLast' /\ Told'
  <2>1. pc \in Early /\ answers' = answers /\ pkt' = pkt
    BY <1>4 DEF Fill, TlsHandshake, Reading
  <2>2. pkt'.kind \notin Startups
    BY <2>1 DEF PathInv, Startups, Supported
  <2> QED
    BY <1>s, <2>1, <2>2
<1>5. ASSUME ReadPacket \/ ReadTlsPacket PROVE OnlyLast' /\ Told'
  <2>1. pc # "closed" /\ answers' = answers /\ pkt' = Head(buf) /\ secure' = secure
    BY <1>5 DEF ReadPacket, ReadTlsPacket
  <2>2. pc' = "closed" => (~Head(buf).tls /\ secure) \/ ~WellFormed(Head(buf))
    <3>1. CASE ReadPacket
      BY <3>1 DEF ReadPacket, Goto
    <3>2. CASE ReadTlsPacket
      BY <3>2 DEF ReadTlsPacket, Goto, TlsInv
    <3> QED
      BY <1>5, <3>1, <3>2
  <2>3. pkt'.kind \in Startups /\ pkt'.tls = secure' => WellFormed(Head(buf))
    BY <2>1 DEF WellFormed, Packets, Startups, Supported
  <2> QED
    BY <1>s, <2>1, <2>2, <2>3
<1>6. ASSUME RefuseTls \/ AcceptTls PROVE OnlyLast' /\ Told'
  <2>1. PICK a \in {"S", "N"} : answers' = Append(answers, a)
    BY <1>6 DEF RefuseTls, AcceptTls
  <2>2. a \in Answers /\ a \notin Errors
    BY DEF Answers, Errors
  <2>3. /\ Len(answers') = Len(answers) + 1 /\ Len(answers) \in Nat
        /\ answers'[Len(answers) + 1] = a
        /\ \A i \in 1 .. Len(answers) : answers'[i] = answers[i]
    BY <2>1, <2>2, OneMoreAnswer
  <2>4. 1 .. Len(answers) + 1 = 1 .. Len(answers) \cup {Len(answers) + 1}
    BY <2>3
  <2>5. pc # "closed" /\ pc' # "closed"
    BY <1>6 DEF RefuseTls, AcceptTls, Goto
  <2> QED
    BY <1>k, <2>2, <2>3, <2>4, <2>5
<1>7. ASSUME CancelConnects \/ CancelConnectFails \/ CancelRelayed PROVE OnlyLast' /\ Told'
  <2>1. pkt' = pkt /\ pkt.kind = "cancel" /\ answers' = answers /\ pc # "closed"
    BY <1>7 DEF CancelConnects, CancelConnectFails, CancelRelayed, PathInv
  <2>2. pkt'.kind \notin Startups
    BY <2>1 DEF Startups, Supported
  <2> QED
    BY <1>s, <2>1, <2>2
<1>8. ASSUME CheckVersion PROVE OnlyLast' /\ Told'
  <2>1. CASE pkt.kind \in Supported
    BY <1>8, <1>s, <2>1 DEF CheckVersion, Goto
  <2>2. CASE pkt.kind \notin Supported
    BY <1>8, <1>d, <2>2 DEF CheckVersion, Errors
  <2> QED
    BY <2>1, <2>2
<1>9. ASSUME NEW action \in {"ALLOW", "INSPECT", "DENY"}, CheckConnection(action)
      PROVE  OnlyLast' /\ Told'
  <2>1. CASE action = "DENY"
    BY <1>9, <1>d, <2>1 DEF CheckConnection, Errors
  <2>2. CASE action # "DENY"
    BY <1>9, <1>s, <2>2 DEF CheckConnection, Goto
  <2> QED
    BY <2>1, <2>2
<1>10. ASSUME ConnectFails PROVE OnlyLast' /\ Told'
  BY <1>10, <1>d DEF ConnectFails, Errors
<1>11. ASSUME Connects \/ SendStartup PROVE OnlyLast' /\ Told'
  BY <1>11, <1>s DEF Connects, SendStartup, Goto, Close
<1>12. ASSUME UNCHANGED vars PROVE OnlyLast' /\ Told'
  BY <1>0, <1>12 DEF vars, clientVars, upVars
<1> QED
  BY <1>1, <1>2, <1>3, <1>4, <1>5, <1>6, <1>7, <1>8, <1>9, <1>10, <1>11, <1>12
  DEF Next, Client, HandleClient, PerformHandshake, Terminated

\* The backend hears one packet, written by the last step of either path.
LEMMA BackendStep ==
    ASSUME TypeOK, PathInv, RefusedStartupDiagnosed, OnePacketPerBackendConnection, [Next]_vars
    PROVE  OnePacketPerBackendConnection'
<1>1. ASSUME CancelRelayed PROVE OnePacketPerBackendConnection'
  <2>1. backend = <<>> /\ pc = "cancelWrite" /\ pkt.kind = "cancel"
    BY <1>1 DEF CancelRelayed, PathInv
  <2>2. \A i \in DOMAIN answers : answers[i] \notin Errors
    <3>1. DOMAIN answers = 1 .. Len(answers)
      BY DEF TypeOK
    <3> QED
      BY <2>1, <3>1 DEF RefusedStartupDiagnosed
  <2>3. up' = "shut" /\ answers' = answers
    BY <1>1 DEF CancelRelayed
  <2>4. backend' \in {<<>>, <<[packet |-> "cancel", form |-> "verbatim"]>>}
    BY <1>1, <2>1 DEF CancelRelayed
  <2> QED
    BY <2>2, <2>3, <2>4 DEF OnePacketPerBackendConnection
<1>2. ASSUME SendStartup PROVE OnePacketPerBackendConnection'
  <2>1. backend = <<>> /\ pkt.kind \in Supported
    BY <1>2 DEF SendStartup, PathInv
  <2>2. backend' \in {<<>>, <<[packet |-> pkt.kind, form |-> "rewritten"]>>}
    BY <1>2, <2>1 DEF SendStartup
  <2> QED
    BY <2>1, <2>2 DEF OnePacketPerBackendConnection
<1>3. ASSUME backend' = backend, backend = <<>> PROVE OnePacketPerBackendConnection'
  BY <1>3 DEF OnePacketPerBackendConnection
<1>4. ASSUME backend # <<>>, ~SendStartup, ~CancelRelayed PROVE OnePacketPerBackendConnection'
  <2>1. pc \in {"relay", "closed"}
    BY <1>4 DEF PathInv
  <2>2. UNCHANGED vars
    BY <1>4, <2>1
    DEF Next, Client, HandleClient, PerformHandshake, Terminated, Settled, ClientSends, ClientEnds,
        CheckPeer, Fill, Reading, ReadProxyHeader, ReadPacket, RefuseTls, AcceptTls, TlsHandshake,
        ReadTlsPacket, HandshakeIoFails, HandshakeTimeout, InHandshake, CancelConnects,
        CancelConnectFails, CheckVersion, CheckConnection, Connects, ConnectFails
  <2> QED
    BY <2>2 DEF vars, upVars, OnePacketPerBackendConnection
<1>5. ~SendStartup /\ ~CancelRelayed => backend' = backend
  BY DEF Next, Client, HandleClient, PerformHandshake, Terminated, vars, upVars,
         ClientSends, ClientEnds, CheckPeer, Fill, ReadProxyHeader, ReadPacket, RefuseTls,
         AcceptTls, TlsHandshake, ReadTlsPacket, HandshakeIoFails, HandshakeTimeout,
         CancelConnects, CancelConnectFails, CheckVersion, CheckConnection, Connects, ConnectFails
<1> QED
  BY <1>1, <1>2, <1>3, <1>4, <1>5

\* The invariant holds after every step.
LEMMA InvStep == ASSUME IInv, [Next]_vars PROVE IInv'
  BY TypeStep, PathStep, PeerStep, TlsStep, AnswerStep, BackendStep DEF IInv

\* So it holds throughout.
THEOREM Invariant == Spec => []IInv
  BY InitInv, InvStep, PTL DEF Spec
-----------------------------------------------------------------------------
(* What the invariant says of a connection.                                *)

\* Every variable of a connection keeps its type, for any menu.
THEOREM TypeCorrect == Spec => []TypeOK
<1>1. IInv => TypeOK
  BY DEF IInv
<1> QED
  BY Invariant, <1>1, PTL

\* A peer outside TRUSTED_PROXIES is neither read, answered nor forwarded.
THEOREM UntrustedIgnored == Spec => []UntrustedPeerIgnored
<1>1. IInv => UntrustedPeerIgnored
  BY DEF IInv, PeerInv, UntrustedPeerIgnored
<1> QED
  BY Invariant, <1>1, PTL

\* handle_client contacts the backend for a CancelRequest in the clear or for
\* a session that Guardian let through, whatever the client sends.
THEOREM VerdictFirst == Spec => []BackendNeedsVerdict
<1>1. IInv => BackendNeedsVerdict
  BY DEF IInv, PathInv, BackendNeedsVerdict
<1> QED
  BY Invariant, <1>1, PTL

\* A backend connection carries one packet, in the form its kind asks for.
THEOREM OnePacket == Spec => []OnePacketPerBackendConnection
<1>1. IInv => OnePacketPerBackendConnection
  BY DEF IInv
<1> QED
  BY Invariant, <1>1, PTL

\* A startup that is turned away is answered by one error, the last thing
\* the client hears.
THEOREM RefusalsDiagnosed == Spec => []RefusedStartupDiagnosed
<1>1. IInv => RefusedStartupDiagnosed
  BY DEF IInv
<1> QED
  BY Invariant, <1>1, PTL

\* After S only a packet from inside TLS starts a session.
THEOREM TlsNotBypassed == Spec => []NoPlaintextAfterTls
<1>1. IInv => NoPlaintextAfterTls
  <2> SUFFICES ASSUME IInv, pc \in InSession PROVE pkt.tls <=> ToldS
    BY DEF NoPlaintextAfterTls, InSession, ToldS
  <2> QED
    BY DEF IInv, TlsInv
<1> QED
  BY Invariant, <1>1, PTL
-----------------------------------------------------------------------------
(* A client that waits for each answer.                                    *)

\* One more unit on the wire.
LEMMA WhenAppended ==
    ASSUME NEW s \in Seq(Units), NEW u \in Units, NEW t, t = Append(s, u)
    PROVE  /\ t # <<>> /\ t[Len(t)] = u
           /\ HasAsk(t) <=> HasAsk(s) \/ u.kind \in Asks
           /\ ~HasAwaited(s) => AwaitedLast(t)
<1>1. /\ Len(s) \in Nat /\ Len(t) = Len(s) + 1 /\ t[Len(s) + 1] = u
      /\ \A i \in 1 .. Len(s) : t[i] = s[i]
  OBVIOUS
<1>2. 1 .. Len(t) = 1 .. Len(s) \cup {Len(s) + 1}
  BY <1>1
<1>3. t # <<>>
  BY <1>1
<1>4. HasAsk(t) <=> HasAsk(s) \/ u.kind \in Asks
  BY <1>1, <1>2, Zenon DEF HasAsk
<1>5. ~HasAwaited(s) => AwaitedLast(t)
  BY <1>1, <1>2, Zenon DEF HasAwaited, AwaitedLast
<1> QED
  BY <1>1, <1>3, <1>4, <1>5

\* The first unit is taken.
LEMMA WhenTaken ==
    ASSUME NEW s \in Seq(Units), s # <<>>, NEW t, t = Tail(s)
    PROVE  /\ t \in Seq(Units) /\ Head(s) \in Units
           /\ HasAsk(s) <=> HasAsk(t) \/ Head(s).kind \in Asks
           /\ HasAwaited(s) <=> HasAwaited(t) \/ Head(s).kind \in Awaited
           /\ AwaitedLast(s) => AwaitedLast(t)
           /\ AwaitedLast(s) /\ Head(s).kind \in Awaited => t = <<>>
           /\ t # <<>> => t[Len(t)] = s[Len(s)]
<1>1. /\ Len(s) \in Nat \ {0} /\ Len(t) = Len(s) - 1 /\ t \in Seq(Units)
      /\ Head(s) = s[1] /\ Head(s) \in Units
      /\ \A i \in 1 .. Len(t) : t[i] = s[i + 1]
  OBVIOUS
<1>2. \A i \in 1 .. Len(s) : i = 1 \/ (i - 1 \in 1 .. Len(t) /\ t[i - 1] = s[i])
  BY <1>1
<1>3. \A i \in 1 .. Len(t) : i + 1 \in 1 .. Len(s)
  BY <1>1
<1>4. 1 \in 1 .. Len(s)
  BY <1>1
<1>5. HasAsk(s) <=> HasAsk(t) \/ Head(s).kind \in Asks
  BY <1>1, <1>2, <1>3, <1>4, Zenon DEF HasAsk
<1>6. HasAwaited(s) <=> HasAwaited(t) \/ Head(s).kind \in Awaited
  BY <1>1, <1>2, <1>3, <1>4, Zenon DEF HasAwaited
<1>7. ASSUME AwaitedLast(s), NEW i \in 1 .. Len(t), t[i].kind \in Awaited PROVE i = Len(t)
  <2>1. i + 1 \in 1 .. Len(s) /\ s[i + 1].kind \in Awaited
    BY <1>1, <1>3, <1>7
  <2>2. i + 1 = Len(s)
    BY <1>7, <2>1 DEF AwaitedLast
  <2>3. \A l, m \in Nat : m = l - 1 /\ i + 1 = l => i = m
    OBVIOUS
  <2>4. Len(s) \in Nat /\ Len(t) \in Nat /\ Len(t) = Len(s) - 1
    BY <1>1
  <2> QED
    BY <2>2, <2>3, <2>4
<1>8. ASSUME AwaitedLast(s), Head(s).kind \in Awaited PROVE t = <<>>
  <2>1. 1 = Len(s)
    BY <1>1, <1>4, <1>8 DEF AwaitedLast
  <2> QED
    BY <1>1, <2>1
<1>9. t # <<>> => t[Len(t)] = s[Len(s)]
  BY <1>1
<1> QED
  BY <1>1, <1>5, <1>6, <1>7, <1>8, <1>9 DEF AwaitedLast

\* A read of the socket cuts the units in two.
LEMMA WhenCut ==
    ASSUME NEW s \in Seq(Units), NEW n \in 0 .. Len(s),
           AwaitedLast(s)
    PROVE  LET p == SubSeq(s, 1, n)
               q == SubSeq(s, n + 1, Len(s))
           IN
           /\ AwaitedLast(p) /\ AwaitedLast(q)
           /\ HasAsk(s) <=> HasAsk(p) \/ HasAsk(q)
           /\ HasAwaited(p) => q = <<>>
           /\ q # <<>> => s # <<>> /\ q[Len(q)] = s[Len(s)]
           /\ q = <<>> /\ p # <<>> => s # <<>> /\ p[Len(p)] = s[Len(s)]
           /\ s = <<>> => p = <<>>
<1> DEFINE p == SubSeq(s, 1, n)
           q == SubSeq(s, n + 1, Len(s))
<1>1. /\ Len(s) \in Nat /\ Len(p) = n /\ Len(q) = Len(s) - n
      /\ p \in Seq(Units) /\ q \in Seq(Units)
      /\ \A i \in 1 .. n : p[i] = s[i]
      /\ \A i \in 1 .. Len(s) - n : q[i] = s[n + i]
  <2>1. p \in Seq(Units) /\ q \in Seq(Units) /\ Len(s) \in Nat /\ n \in Nat /\ n =< Len(s)
    BY Pieces
  <2>2. Len(p) = n /\ \A i \in 1 .. n : p[i] = s[i]
    BY <2>1
  <2>3. Len(q) = Len(s) - n /\ \A i \in 1 .. Len(s) - n : q[i] = s[n + i]
    BY <2>1
  <2> QED
    BY <2>1, <2>2, <2>3
<1> HIDE DEF p, q
<1>2. \A i \in 1 .. Len(s) : i \in 1 .. n \/ (i - n \in 1 .. Len(s) - n /\ q[i - n] = s[i])
  <2> SUFFICES ASSUME NEW i \in 1 .. Len(s), i \notin 1 .. n
               PROVE  i - n \in 1 .. Len(s) - n /\ q[i - n] = s[i]
    OBVIOUS
  <2>1. i - n \in 1 .. Len(s) - n /\ n + (i - n) = i
    BY <1>1
  <2>2. q[i - n] = s[n + (i - n)]
    BY <1>1, <2>1
  <2> QED
    BY <2>1, <2>2
<1>3. /\ \A i \in 1 .. n : i \in 1 .. Len(s)
      /\ \A i \in 1 .. Len(s) - n : n + i \in 1 .. Len(s)
  BY <1>1
<1>4. AwaitedLast(p) /\ (HasAwaited(p) => q = <<>>)
  <2>1. ASSUME NEW i \in 1 .. n, p[i].kind \in Awaited PROVE i = n /\ Len(q) = 0
    <3>1. i = Len(s)
      BY <1>1, <1>3, <2>1 DEF AwaitedLast
    <3> QED
      BY <1>1, <3>1
  <2>2. Len(q) = 0 => q = <<>>
    BY <1>1, EmptySeq
  <2> QED
    BY <1>1, <2>1, <2>2, Zenon DEF AwaitedLast, HasAwaited
<1>5. AwaitedLast(q)
  <2> SUFFICES ASSUME NEW i \in 1 .. Len(q), q[i].kind \in Awaited PROVE i = Len(q)
    BY DEF AwaitedLast
  <2>1. n + i = Len(s)
    <3>1. n + i \in 1 .. Len(s) /\ s[n + i].kind \in Awaited
      BY <1>1, <1>3
    <3> QED
      BY <3>1 DEF AwaitedLast
  <2> QED
    BY <1>1, <2>1
<1>6. HasAsk(s) <=> HasAsk(p) \/ HasAsk(q)
  <2>1. HasAsk(s) => HasAsk(p) \/ HasAsk(q)
    BY <1>1, <1>2, Zenon DEF HasAsk
  <2>2. HasAsk(p) \/ HasAsk(q) => HasAsk(s)
    BY <1>1, <1>3, Zenon DEF HasAsk
  <2> QED
    BY <2>1, <2>2
<1>7. /\ q # <<>> => s # <<>> /\ q[Len(q)] = s[Len(s)]
      /\ q = <<>> /\ p # <<>> => s # <<>> /\ p[Len(p)] = s[Len(s)]
      /\ s = <<>> => p = <<>>
  <2>1. ASSUME q # <<>> PROVE s # <<>> /\ q[Len(q)] = s[Len(s)]
    <3>1. Len(q) \in 1 .. Len(s) - n /\ n + Len(q) = Len(s) /\ Len(s) # 0
      BY <1>1, <2>1
    <3> QED
      BY <1>1, <3>1
  <2>2. ASSUME q = <<>>, p # <<>> PROVE s # <<>> /\ p[Len(p)] = s[Len(s)]
    <3>1. n = Len(s) /\ n \in 1 .. n /\ Len(s) # 0
      <4>1. Len(q) = 0 /\ Len(p) # 0 /\ Len(p) \in Nat
        BY <1>1, <2>2, EmptySeq
      <4> QED
        BY <1>1, <4>1
    <3> QED
      BY <1>1, <3>1
  <2>3. s = <<>> => p = <<>>
    BY <1>1
  <2> QED
    BY <2>1, <2>2, <2>3
<1> QED
  BY <1>4, <1>5, <1>6, <1>7 DEF p, q

\* The requests a client has made are finitely many, and sending one more unit
\* adds one to them or none.
LEMMA OneMoreRequest ==
    ASSUME TypeOK, NEW u \in Units, sent' = Append(sent, u)
    PROVE  /\ Cardinality(Negotiations) \in Nat
           /\ u.kind \in Asks => Cardinality(Negotiations') = Cardinality(Negotiations) + 1
           /\ u.kind \notin Asks => Cardinality(Negotiations') = Cardinality(Negotiations)
<1>1. sent \in Seq(Units) /\ Len(sent) \in Nat /\ DOMAIN sent = 1 .. Len(sent)
  BY DEF TypeOK
<1>2. /\ DOMAIN sent' = 1 .. Len(sent) + 1 /\ sent'[Len(sent) + 1] = u
      /\ \A i \in 1 .. Len(sent) : sent'[i] = sent[i]
  BY <1>1
<1>3. 1 .. Len(sent) + 1 = 1 .. Len(sent) \cup {Len(sent) + 1} /\ Len(sent) + 1 \notin 1 .. Len(sent)
  BY <1>1
<1>4. IsFiniteSet(Negotiations)
  <2>1. IsFiniteSet(1 .. Len(sent))
    BY <1>1, FS_Interval
  <2>2. Negotiations \in SUBSET (1 .. Len(sent))
    BY <1>1 DEF Negotiations
  <2> QED
    BY <2>1, <2>2, FS_Subset
<1>5. Cardinality(Negotiations) \in Nat
  BY <1>4, FS_CardinalityType
<1>6. Len(sent) + 1 \notin Negotiations
  BY <1>1, <1>3, Zenon DEF Negotiations
<1>7. ASSUME u.kind \in Asks PROVE Cardinality(Negotiations') = Cardinality(Negotiations) + 1
  <2>1. Negotiations' = Negotiations \cup {Len(sent) + 1}
    BY <1>1, <1>2, <1>3, <1>7, Zenon DEF Negotiations, Asks
  <2> QED
    BY <1>4, <1>6, <2>1, FS_AddElement
<1>8. ASSUME u.kind \notin Asks PROVE Negotiations' = Negotiations
  BY <1>1, <1>2, <1>3, <1>8, Zenon DEF Negotiations, Asks
<1> QED
  BY <1>5, <1>7, <1>8
\* No step of the proxy before the session writes to the client, but the two
\* that answer a request.
LEMMA PoliteInit == Init => PoliteInv
<1> SUFFICES ASSUME Init PROVE PoliteInv
  OBVIOUS
<1>1. Negotiations = {}
  BY DEF Init, Negotiations
<1>2. Cardinality(Negotiations) = 0
  BY <1>1, FS_EmptySet
<1>3. ~Pending
  BY DEF Init, Pending, HasAsk, Answering
<1>4. AwaitedLast(buf) /\ AwaitedLast(wire) /\ ~HasAwaited(buf)
  BY DEF Init, AwaitedLast, HasAwaited
<1> QED
  BY <1>2, <1>3, <1>4 DEF Init, PoliteInv, WaitsInv, Answering

\* A polite client sends when nothing of its is under way.
LEMMA PoliteSends ==
    ASSUME TypeOK, polite, WaitsInv, NEW u \in Units, ClientSends(u)
    PROVE  WaitsInv'
<1>0. /\ sent \in Seq(Units) /\ wire \in Seq(Units) /\ buf \in Seq(Units)
      /\ answers \in Seq(Answers) /\ Len(answers) \in Nat /\ cEnd = "open"
  BY DEF TypeOK, ClientSends
<1>1. /\ Cardinality(Negotiations) = Len(answers)
      /\ sent # <<>> => sent[Len(sent)].kind \notin Startups \cup {"cancel"}
  BY DEF ClientSends, MaySend
<1>2. UNCHANGED <<buf, pc, answers, cEnd>>
  BY DEF ClientSends
<1>3. ~Pending
  BY <1>0, <1>1 DEF WaitsInv
<1>4. ~HasAwaited(wire)
  <2> SUFFICES ASSUME NEW i \in 1 .. Len(wire), wire[i].kind \in Awaited PROVE FALSE
    BY DEF HasAwaited
  <2>1. i = Len(wire) /\ wire # <<>>
    BY <1>0 DEF WaitsInv, AwaitedLast
  <2>2. sent # <<>> /\ wire[i] = sent[Len(sent)]
    BY <1>0, <2>1 DEF WaitsInv
  <2>3. wire[i].kind \in Asks
    BY <1>1, <2>2 DEF Awaited
  <2> QED
    BY <1>3, <2>3 DEF Pending, HasAsk
<1>5. ~HasAwaited(buf)
  <2> SUFFICES ASSUME NEW i \in 1 .. Len(buf), buf[i].kind \in Awaited PROVE FALSE
    BY DEF HasAwaited
  <2>1. i = Len(buf) /\ buf # <<>> /\ wire = <<>>
    BY <1>0 DEF WaitsInv, AwaitedLast, HasAwaited
  <2>2. sent # <<>> /\ buf[i] = sent[Len(sent)]
    BY <1>0, <2>1 DEF WaitsInv
  <2>3. buf[i].kind \in Asks
    BY <1>1, <2>2 DEF Awaited
  <2> QED
    BY <1>3, <2>3 DEF Pending, HasAsk
<1>6. wire' = Append(wire, u) /\ sent' = Append(sent, u)
  BY DEF ClientSends
<1>7. /\ wire' # <<>> /\ wire'[Len(wire')] = u /\ AwaitedLast(wire')
      /\ HasAsk(wire') <=> HasAsk(wire) \/ u.kind \in Asks
  BY <1>0, <1>4, <1>6, WhenAppended
<1>8. sent' # <<>> /\ sent'[Len(sent')] = u
  BY <1>0, <1>6, WhenAppended
<1>9. Pending' <=> u.kind \in Asks
  BY <1>2, <1>3, <1>7 DEF Pending, HasAsk
<1>10. /\ u.kind \in Asks => Cardinality(Negotiations') = Cardinality(Negotiations) + 1
       /\ u.kind \notin Asks => Cardinality(Negotiations') = Cardinality(Negotiations)
  BY <1>6, OneMoreRequest
<1>11. AwaitedLast(buf') /\ ~HasAwaited(buf')
  BY <1>2, <1>5 DEF WaitsInv, AwaitedLast, HasAwaited
<1>12. pc' \notin Answering /\ (pc' = "tlsHello" => buf' = <<>>)
  BY <1>2, <1>3 DEF Pending, WaitsInv
<1> QED
  BY <1>1, <1>2, <1>7, <1>8, <1>9, <1>10, <1>11, <1>12 DEF WaitsInv

\* A reset may take some of what is on the wire, from its end.
LEMMA PoliteEnds ==
    ASSUME TypeOK, WaitsInv, NEW how \in {"eof", "reset"}, ClientEnds(how)
    PROVE  WaitsInv'
<1>0. wire \in Seq(Units) /\ UNCHANGED <<buf, pc, answers, sent>> /\ cEnd' = how
  BY DEF TypeOK, ClientEnds
<1>1. AwaitedLast(buf') /\ (HasAwaited(buf') <=> HasAwaited(buf)) /\ (HasAsk(buf') <=> HasAsk(buf))
  BY <1>0 DEF WaitsInv, AwaitedLast, HasAwaited, HasAsk
<1>2. CASE how = "reset"
  <2>1. PICK n \in 0 .. Len(wire) : wire' = SubSeq(wire, 1, n)
    BY <1>2 DEF ClientEnds
  <2>2. AwaitedLast(wire') /\ (wire = <<>> => wire' = <<>>)
    <3>1. AwaitedLast(wire) /\ wire \in Seq(Units)
      BY <1>0 DEF WaitsInv
    <3>2. AwaitedLast(SubSeq(wire, 1, n)) /\ (wire = <<>> => SubSeq(wire, 1, n) = <<>>)
      BY <3>1, WhenCut
    <3> QED
      BY <2>1, <3>2, Zenon
  <2> QED
    BY <1>0, <1>1, <1>2, <2>2 DEF WaitsInv
<1>3. CASE how = "eof"
  <2>1. wire' = wire /\ cEnd # "reset"
    BY <1>3 DEF ClientEnds
  <2>2. AwaitedLast(wire') /\ (Pending' <=> Pending)
    BY <1>0, <1>1, <2>1 DEF WaitsInv, AwaitedLast, Pending, HasAsk
  <2>3. Negotiations' = Negotiations
    BY <1>0 DEF Negotiations
  <2> QED
    BY <1>0, <1>1, <1>3, <2>1, <2>2, <2>3 DEF WaitsInv
<1> QED
  BY <1>2, <1>3

\* A read moves units from the socket to the BufReader, in order.
LEMMA PoliteFills == ASSUME TypeOK, WaitsInv, Fill PROVE WaitsInv'
<1>0. /\ wire \in Seq(Units) /\ buf = <<>> /\ UNCHANGED <<pc, answers, sent, cEnd>>
      /\ pc \notin Answering /\ pc # "tlsHello"
  BY DEF TypeOK, Fill, Reading, Answering
<1>1. PICK n \in 1 .. Len(wire) : buf' = SubSeq(wire, 1, n) /\ wire' = SubSeq(wire, n + 1, Len(wire))
  BY DEF Fill
<1>2. n \in 0 .. Len(wire) /\ wire # <<>>
  BY <1>0
<1>3. /\ AwaitedLast(buf') /\ AwaitedLast(wire')
      /\ HasAsk(wire) <=> HasAsk(buf') \/ HasAsk(wire')
      /\ HasAwaited(buf') => wire' = <<>>
      /\ wire' # <<>> => wire'[Len(wire')] = wire[Len(wire)]
      /\ wire' = <<>> /\ buf' # <<>> => buf'[Len(buf')] = wire[Len(wire)]
  <2>1. AwaitedLast(wire) /\ wire \in Seq(Units)
    BY <1>0 DEF WaitsInv
  <2> QED
    <3> DEFINE p == SubSeq(wire, 1, n)
               q == SubSeq(wire, n + 1, Len(wire))
    <3>1. /\ AwaitedLast(p) /\ AwaitedLast(q)
          /\ HasAsk(wire) <=> HasAsk(p) \/ HasAsk(q)
          /\ HasAwaited(p) => q = <<>>
          /\ q # <<>> => q[Len(q)] = wire[Len(wire)]
          /\ q = <<>> /\ p # <<>> => p[Len(p)] = wire[Len(wire)]
      BY <1>2, <2>1, WhenCut
    <3> HIDE DEF p, q
    <3>2. buf' = p /\ wire' = q
      BY <1>1 DEF p, q
    <3> QED
      BY <3>1, <3>2
<1>4. Pending' <=> Pending
  BY <1>0, <1>3 DEF Pending, HasAsk
<1>5. Negotiations' = Negotiations
  BY <1>0 DEF Negotiations
<1> QED
  BY <1>0, <1>2, <1>3, <1>4, <1>5 DEF WaitsInv

\* The PROXY header is no request: the rest stays in the BufReader.
LEMMA PoliteHeader ==
    ASSUME TypeOK, WaitsInv, ReadProxyHeader, pc' = "startup"
    PROVE  WaitsInv'
<1>0. /\ buf \in Seq(Units) /\ buf # <<>> /\ buf' = Tail(buf) /\ Head(buf).kind = "proxy"
      /\ UNCHANGED <<wire, answers, sent, cEnd>> /\ pc = "proxy"
  BY DEF TypeOK, ReadProxyHeader, Goto, Close, clientVars
<1>1. Head(buf).kind \notin Awaited /\ Head(buf).kind \notin Asks
  BY <1>0 DEF Awaited, Asks, Startups, Supported
<1>2. /\ AwaitedLast(buf') /\ (HasAsk(buf) <=> HasAsk(buf')) /\ (HasAwaited(buf) <=> HasAwaited(buf'))
      /\ buf' # <<>> => buf'[Len(buf')] = buf[Len(buf)]
  BY <1>0, <1>1, WhenTaken DEF WaitsInv
<1>3. AwaitedLast(wire') /\ (HasAsk(wire') <=> HasAsk(wire)) /\ Negotiations' = Negotiations
  BY <1>0 DEF WaitsInv, AwaitedLast, HasAsk, Negotiations
<1>4. Pending' <=> Pending
  BY <1>0, <1>2, <1>3 DEF Pending, Answering
<1> QED
  BY <1>0, <1>2, <1>3, <1>4 DEF WaitsInv, Answering

\* A request that is read is the last thing the client sent.
LEMMA PoliteAsks ==
    ASSUME TypeOK, WaitsInv, ReadPacket, pc' \in Answering
    PROVE  WaitsInv' /\ Tail(buf) = <<>>
<1>0. /\ buf \in Seq(Units) /\ buf # <<>> /\ buf' = <<>> /\ Head(buf).kind \in Asks
      /\ UNCHANGED <<wire, answers, sent, cEnd>> /\ pc = "startup"
  BY DEF TypeOK, ReadPacket, Goto, Close, clientVars, IntoInner, Answering, Asks
<1>1. Head(buf).kind \in Awaited
  BY <1>0 DEF Awaited
<1>2. Tail(buf) = <<>> /\ HasAsk(buf) /\ HasAwaited(buf)
  BY <1>0, <1>1, WhenTaken DEF WaitsInv
<1>3. wire = <<>> /\ Pending /\ Pending'
  BY <1>2 DEF WaitsInv, Pending
<1>4. AwaitedLast(wire') /\ AwaitedLast(buf') /\ ~HasAwaited(buf') /\ Negotiations' = Negotiations
  BY <1>0, <1>3 DEF AwaitedLast, HasAwaited, Negotiations
<1>5. pc' # "tlsHello"
  BY DEF Answering
<1> QED
  BY <1>0, <1>2, <1>3, <1>4, <1>5 DEF WaitsInv

\* An answer settles the request under way.
LEMMA PoliteAnswered == ASSUME TypeOK, WaitsInv, RefuseTls \/ AcceptTls PROVE WaitsInv'
<1>0. /\ pc \in Answering /\ pc' \in {"startup", "tlsHello"} /\ UNCHANGED <<buf, wire, sent, cEnd>>
      /\ answers \in Seq(Answers) /\ Len(answers) \in Nat
  BY DEF TypeOK, RefuseTls, AcceptTls, Answering, Goto, clientVars
<1>1. buf = <<>> /\ wire = <<>> /\ Pending
  BY <1>0 DEF WaitsInv, Pending
<1>2. PICK a \in {"S", "N"} : answers' = Append(answers, a)
  BY DEF RefuseTls, AcceptTls
<1>3. Len(answers') = Len(answers) + 1
  BY <1>0, <1>2
<1>4. ~Pending' /\ Negotiations' = Negotiations
  BY <1>0, <1>1 DEF Pending, HasAsk, Answering, Negotiations
<1>5. AwaitedLast(wire') /\ AwaitedLast(buf') /\ ~HasAwaited(buf')
  BY <1>0, <1>1 DEF AwaitedLast, HasAwaited
<1> QED
  BY <1>0, <1>1, <1>3, <1>4, <1>5 DEF WaitsInv, Answering

\* The ClientHello is no request either.
LEMMA PoliteHello ==
    ASSUME TypeOK, WaitsInv, TlsHandshake, pc' = "tlsStartup"
    PROVE  WaitsInv'
<1>0. /\ wire \in Seq(Units) /\ wire # <<>> /\ wire' = Tail(wire) /\ Head(wire).kind = "hello"
      /\ UNCHANGED <<buf, answers, sent, cEnd>> /\ pc = "tlsHello" /\ buf = <<>>
  BY DEF TypeOK, TlsHandshake, WaitsInv
<1>1. Head(wire).kind \notin Awaited /\ Head(wire).kind \notin Asks
  BY <1>0 DEF Awaited, Asks, Startups, Supported
<1>2. /\ AwaitedLast(wire') /\ (HasAsk(wire) <=> HasAsk(wire'))
      /\ wire' # <<>> => wire'[Len(wire')] = wire[Len(wire)]
  BY <1>0, <1>1, WhenTaken DEF WaitsInv
<1>3. AwaitedLast(buf') /\ ~HasAwaited(buf') /\ ~HasAsk(buf') /\ ~HasAsk(buf) /\ Negotiations' = Negotiations
  BY <1>0 DEF AwaitedLast, HasAsk, HasAwaited, Negotiations
<1>4. Pending' <=> Pending
  BY <1>0, <1>2, <1>3 DEF Pending, Answering
<1> QED
  BY <1>0, <1>2, <1>3, <1>4 DEF WaitsInv, Answering
\* No step loses a byte of a polite client, and none leaves it with more under
\* way than one request.
LEMMA PoliteStep ==
    ASSUME TypeOK, TypeOK', PoliteInv, [Next]_vars
    PROVE  PoliteInv'
<1> SUFFICES ASSUME polite' PROVE (lost = {} /\ (pc \in Early => WaitsInv))'
  BY DEF PoliteInv
<1> USE DEF Early, InHandshake
<1>c. polite' = polite
  BY DEF Next, Client, HandleClient, PerformHandshake, Terminated, vars, config, clientVars,
         ClientSends, ClientEnds, CheckPeer, Fill, ReadProxyHeader, ReadPacket, RefuseTls,
         AcceptTls, TlsHandshake, ReadTlsPacket, HandshakeIoFails, HandshakeTimeout,
         CancelConnects, CancelConnectFails, CancelRelayed, CheckVersion, CheckConnection,
         Connects, ConnectFails, SendStartup, Diagnose, Goto, Close
<1>0. polite /\ lost = {} /\ (pc \in Early => WaitsInv)
  BY <1>c DEF PoliteInv
<1>m. \A u \in Menu : u \in Units
  BY HandshakeAssumption
<1>e. \A s : s = <<>> => Range(s) = {}
  BY DEF Range
<1>s. ASSUME UNCHANGED <<sent, wire, buf, cEnd, answers>>, WaitsInv,
             pc \notin Answering, pc' \notin Answering, pc' # "tlsHello"
      PROVE  WaitsInv'
  <2>1. /\ AwaitedLast(buf') <=> AwaitedLast(buf)
        /\ AwaitedLast(wire') <=> AwaitedLast(wire)
        /\ HasAwaited(buf') <=> HasAwaited(buf)
        /\ Negotiations' = Negotiations
        /\ Pending' <=> Pending
    BY <1>s DEF AwaitedLast, HasAwaited, Negotiations, Pending, HasAsk
  <2> QED
    BY <1>s, <2>1 DEF WaitsInv
<1>1. ASSUME NEW u \in Menu, ClientSends(u) PROVE (lost = {} /\ (pc \in Early => WaitsInv))'
  BY <1>0, <1>1, <1>m, PoliteSends DEF ClientSends
<1>2. ASSUME NEW how \in {"eof", "reset"}, ClientEnds(how)
      PROVE  (lost = {} /\ (pc \in Early => WaitsInv))'
  BY <1>0, <1>2, PoliteEnds DEF ClientEnds
<1>3. CASE CheckPeer
  <2>1. /\ pc = "accepted" /\ pc' \in {"proxy", "closed"} /\ lost' = lost
        /\ UNCHANGED <<sent, wire, buf, cEnd, answers>>
    BY <1>3 DEF CheckPeer, Goto, Close, clientVars
  <2> QED
    BY <1>0, <1>s, <2>1 DEF Answering
<1>4. CASE Fill
  BY <1>0, <1>4, PoliteFills DEF Fill, Reading
<1>5. CASE ReadProxyHeader
  BY <1>0, <1>5, PoliteHeader DEF ReadProxyHeader, Goto, Close
<1>6. CASE ReadPacket
  <2>1. pc' \in Answering \cup {"cancelConnect", "version", "closed"} /\ WaitsInv
    BY <1>0, <1>6 DEF ReadPacket, Goto, Close, Answering
  <2>2. lost' = lost \/ (lost' = lost \cup Range(Tail(buf)) /\ Head(buf).kind \in Awaited)
    BY <1>6 DEF ReadPacket, IntoInner, WellFormed, Packets, Awaited, Asks
  <2>3. Head(buf).kind \in Awaited => Tail(buf) = <<>>
    BY <1>6, <2>1, WhenTaken DEF ReadPacket, TypeOK, WaitsInv
  <2>4. lost' = {}
    BY <1>0, <1>e, <2>2, <2>3
  <2>5. pc' \in Early => pc' \in Answering
    BY <2>1
  <2> QED
    BY <1>6, <2>1, <2>4, <2>5, PoliteAsks
<1>7. CASE RefuseTls \/ AcceptTls
  BY <1>0, <1>7, PoliteAnswered DEF RefuseTls, AcceptTls
<1>8. CASE TlsHandshake
  BY <1>0, <1>8, PoliteHello DEF TlsHandshake
<1>9. CASE ReadTlsPacket
  <2>1. pc' \notin Early /\ WaitsInv /\ buf # <<>> /\ buf \in Seq(Units)
    BY <1>0, <1>9 DEF ReadTlsPacket, Goto, Close, TypeOK
  <2>2. lost' = lost \/ (lost' = lost \cup Range(Tail(buf)) /\ Head(buf).kind \in Awaited)
    BY <1>9 DEF ReadTlsPacket, IntoInner, WellFormed, Packets, Awaited, Asks
  <2>3. Head(buf).kind \in Awaited => Tail(buf) = <<>>
    BY <2>1, WhenTaken DEF WaitsInv
  <2>4. lost' = {}
    BY <1>0, <1>e, <2>2, <2>3
  <2> QED
    BY <2>1, <2>4
<1>10. CASE HandshakeIoFails \/ HandshakeTimeout
  BY <1>0, <1>10 DEF HandshakeIoFails, HandshakeTimeout, Close
<1>11. CASE CancelConnects \/ CancelConnectFails \/ CancelRelayed
  BY <1>0, <1>11 DEF CancelConnects, CancelConnectFails, CancelRelayed, Goto, Close
<1>12. CASE CheckVersion \/ Connects \/ ConnectFails \/ SendStartup
  BY <1>0, <1>12 DEF CheckVersion, Connects, ConnectFails, SendStartup, Diagnose, Goto, Close
<1>13. ASSUME NEW action \in {"ALLOW", "INSPECT", "DENY"}, CheckConnection(action)
       PROVE  (lost = {} /\ (pc \in Early => WaitsInv))'
  BY <1>0, <1>13 DEF CheckConnection, Diagnose, Goto, Close
<1>14. CASE UNCHANGED vars
  <2>1. /\ WaitsInv' <=> WaitsInv
        /\ pc' = pc /\ lost' = lost
    BY <1>14 DEF vars, clientVars, WaitsInv, AwaitedLast, HasAwaited, Negotiations, Pending, HasAsk
  <2> QED
    BY <1>0, <2>1
<1> QED
  BY <1>1, <1>2, <1>3, <1>4, <1>5, <1>6, <1>7, <1>8, <1>9, <1>10, <1>11, <1>12, <1>13, <1>14
  DEF Next, Client, HandleClient, PerformHandshake, Terminated

\* A client that waits for each answer loses nothing to into_inner(), however
\* its bytes are cut into reads and however much it negotiates.
THEOREM PoliteClientSafe == Spec => []PoliteLosesNothing
<1>1. ASSUME IInv /\ IInv' /\ PoliteInv, [Next]_vars PROVE PoliteInv'
  BY <1>1, PoliteStep DEF IInv
<1>2. PoliteInv => PoliteLosesNothing
  BY DEF PoliteInv, PoliteLosesNothing
<1> QED
  BY PoliteInit, Invariant, <1>1, <1>2, PTL DEF Spec
=============================================================================
