----------------------------- MODULE Handshake -----------------------------
(***************************************************************************)
(* One connection of PG-Prism from accept() to the point where forwarding  *)
(* starts (proxy.rs, handle_client up to the split of the sockets, and     *)
(* perform_handshake): the trust check, the PROXY header, SSL and GSSENC   *)
(* negotiation, the startup message, CancelRequest, Guardian's verdict and *)
(* the upstream connection.                                                *)
(*                                                                         *)
(* The client's bytes are cut into units, each a PROXY header, a startup-  *)
(* phase packet, a TLS ClientHello or session data.  A read of the socket  *)
(* moves any number of units into the BufReader; into_inner() drops what   *)
(* is still in it.                                                         *)
(***************************************************************************)
EXTENDS Naturals, Sequences, FiniteSets, Functions

CONSTANTS
    Menu,       \* what the client may send
    MaxUnits    \* bound: units the client sends

(***************************************************************************)
(* "proxy" and "badProxy": a line the header reader accepts or refuses.    *)
(* "startup30" announces protocol 3.0, "startup32" 3.2, "startup2" 2.0.    *)
(* "badLen" declares a length outside 8 .. max_startup_len.                *)
(***************************************************************************)
Headers == {"proxy", "badProxy"}
Supported == {"startup30", "startup32"}
Startups == Supported \cup {"startup2"}
Packets == Startups \cup {"ssl", "gss", "cancel", "badLen"}
Kinds == Headers \cup Packets \cup {"hello", "data"}

\* A unit is sent in the clear or inside a TLS session.
Units == [kind : Kinds, tls : BOOLEAN]

ASSUME HandshakeAssumption == Menu \subseteq Units /\ MaxUnits \in Nat

NoUnit == [kind |-> "none", tls |-> FALSE]

\* What the client can be answered: a negotiation byte or a SQLSTATE.
Errors == {"08P01", "28000", "08006"}
Answers == {"S", "N"} \cup Errors

\* Mutant: the deadline stops at the TLS handshake.
InPlainHandshake == {"proxy", "startup", "refuseTls", "acceptTls"}

\* Where handle_client is.
InHandshake == {"proxy", "startup", "refuseTls", "acceptTls", "tlsHello", "tlsStartup"}
Points ==
    InHandshake \cup {"accepted", "cancelConnect", "cancelWrite", "version", "guardian",
                       "connect", "sendStartup", "relay", "closed"}

VARIABLES
    trusted,    \* the peer is in TRUSTED_PROXIES
    acceptor,   \* cfg.tls_acceptor is Some
    polite,     \* the client waits for each answer before it goes on
    sent,       \* units the client has sent, ever
    wire,       \* in the kernel's receive buffer
    buf,        \* in the BufReader
    cEnd,       \* "open", "eof" or "reset"
    pc,
    secure,     \* the stream is the TLS stream
    pkt,        \* payload: the startup-phase packet read last
    verdict,    \* guardian_context.action
    answers,    \* written to the client, in order
    up,         \* the upstream connection: "none", "open" or "shut"
    backend,    \* written to it, in order: a packet, verbatim or rewritten
    lost,       \* units that into_inner() dropped
    why         \* how a connection that was closed ended

clientVars == <<sent, wire, cEnd>>
config == <<trusted, acceptor, polite>>
upVars == <<up, backend>>
vars == <<config, clientVars, buf, pc, secure, pkt, verdict, answers, upVars, lost, why>>

Init ==
    /\ trusted \in BOOLEAN /\ acceptor \in BOOLEAN /\ polite \in BOOLEAN
    /\ sent = <<>> /\ wire = <<>> /\ cEnd = "open"
    /\ buf = <<>> /\ pc = "accepted" /\ secure = FALSE /\ pkt = NoUnit
    /\ verdict = "none" /\ answers = <<>>
    /\ up = "none" /\ backend = <<>> /\ lost = {} /\ why = "none"

\* Forwarding takes over, or the connection is gone.
Settled == pc \in {"relay", "closed"}

-----------------------------------------------------------------------------
(* The client, behind a load balancer that prepends the PROXY header.      *)

Negotiations == {u \in DOMAIN sent : sent[u].kind \in {"ssl", "gss"}}

\* A well-behaved client sends a packet when the last one has been answered,
\* speaks TLS once it was told to and sends no data before the session exists.
MaySend(u) == polite =>
    /\ u.kind # "data"
    /\ Cardinality(Negotiations) = Len(answers)
    /\ sent # <<>> => sent[Len(sent)].kind \notin Startups \cup {"cancel"}
    /\ sent = <<>> <=> u.kind \in Headers
    /\ u.kind = "hello" <=> answers # <<>> /\ answers[Len(answers)] = "S" /\ sent[Len(sent)].kind = "ssl"
    /\ u.tls <=> \E i \in DOMAIN sent : sent[i].kind = "hello"

ClientSends(u) ==
    /\ ~Settled /\ cEnd = "open" /\ Len(sent) < MaxUnits /\ MaySend(u)
    /\ sent' = Append(sent, u)
    /\ wire' = Append(wire, u)
    /\ UNCHANGED <<config, cEnd, buf, pc, secure, pkt, verdict, answers, upVars, lost, why>>

\* A reset may destroy what is still in the kernel's buffer.
ClientEnds(how) ==
    /\ ~Settled
    /\ cEnd = "open" \/ (cEnd = "eof" /\ how = "reset")
    /\ cEnd' = how
    /\ wire' \in IF how = "reset" THEN {SubSeq(wire, 1, n) : n \in 0 .. Len(wire)} ELSE {wire}
    /\ UNCHANGED <<config, sent, buf, pc, secure, pkt, verdict, answers, upVars, lost, why>>

-----------------------------------------------------------------------------
Close(reason) == pc' = "closed" /\ why' = reason /\ UNCHANGED <<config, clientVars>>

Goto(point) == pc' = point /\ UNCHANGED <<config, clientVars, why>>

\* The bytes still in the BufReader are gone when it is taken apart.
IntoInner(rest) == buf' = <<>> /\ lost' = lost \cup Range(rest)

\* Mutant: the allowlist is not consulted.
CheckNoPeer ==
    /\ pc = "accepted"
    /\ Goto("proxy")
    /\ UNCHANGED <<buf, secure, pkt, verdict, answers, upVars, lost>>

\* The trust check comes before the first read.
CheckPeer ==
    /\ pc = "accepted"
    /\ IF trusted THEN Goto("proxy") ELSE Close("untrusted")
    /\ UNCHANGED <<buf, secure, pkt, verdict, answers, upVars, lost>>

\* One read of the socket by the BufReader: it returns at least a unit.
Reading == pc \in {"proxy", "startup", "tlsStartup"}

Fill ==
    /\ Reading /\ buf = <<>>
    /\ \E n \in 1 .. Len(wire) :
          /\ buf' = SubSeq(wire, 1, n)
          /\ wire' = SubSeq(wire, n + 1, Len(wire))
    /\ UNCHANGED <<config, sent, cEnd, pc, secure, pkt, verdict, answers, upVars, lost, why>>

\* Mutant: the header is read with a BufReader of its own.
ReadProxyHeaderUnbuffers ==
    /\ pc = "proxy" /\ buf # <<>>
    /\ IntoInner(Tail(buf))
    /\ IF Head(buf).kind = "proxy" /\ ~Head(buf).tls THEN Goto("startup") ELSE Close("protocol")
    /\ UNCHANGED <<secure, pkt, verdict, answers, upVars>>

\* Mutant: a header alone opens a session.
ReadProxyHeaderOnly ==
    /\ pc = "proxy" /\ buf # <<>>
    /\ buf' = Tail(buf)
    /\ Goto("connect")
    /\ UNCHANGED <<secure, pkt, verdict, answers, upVars, lost>>

\* read_proxy_v1_header.
ReadProxyHeader ==
    /\ pc = "proxy" /\ buf # <<>>
    /\ buf' = Tail(buf)
    /\ IF Head(buf).kind = "proxy" /\ ~Head(buf).tls THEN Goto("startup") ELSE Close("protocol")
    /\ UNCHANGED <<secure, pkt, verdict, answers, upVars, lost>>

\* A packet whose length prefix checked_startup_len accepts.  Text and TLS
\* records read as a length are far above the limit.
WellFormed(u) == u.kind \in Packets \ {"badLen"} /\ u.tls = secure

\* One turn of the loop in perform_handshake.
ReadPacket ==
    /\ pc = "startup" /\ buf # <<>>
    /\ pkt' = Head(buf)
    /\ IF ~WellFormed(Head(buf))
       THEN Close("protocol") /\ buf' = Tail(buf) /\ UNCHANGED lost
       ELSE CASE Head(buf).kind = "ssl" ->
                     /\ Goto(IF acceptor THEN "acceptTls" ELSE "refuseTls")
                     /\ IntoInner(Tail(buf))
              [] Head(buf).kind = "gss" -> Goto("refuseTls") /\ IntoInner(Tail(buf))
              [] Head(buf).kind = "cancel" ->
                     Goto("cancelConnect") /\ buf' = Tail(buf) /\ UNCHANGED lost
              [] OTHER -> Goto("version") /\ IntoInner(Tail(buf))
    /\ UNCHANGED <<secure, verdict, answers, upVars>>

\* 'N' to an SSLRequest without an acceptor and to any GSSENCRequest.
RefuseTls ==
    /\ pc = "refuseTls" /\ cEnd # "reset"
    /\ answers' = Append(answers, "N")
    /\ Goto("startup")
    /\ UNCHANGED <<buf, secure, pkt, verdict, upVars, lost>>

\* 'S', then the TLS handshake on the bare socket.
AcceptTls ==
    /\ pc = "acceptTls" /\ cEnd # "reset"
    /\ answers' = Append(answers, "S")
    /\ Goto("tlsHello")
    /\ UNCHANGED <<buf, secure, pkt, verdict, upVars, lost>>

\* Mutant: a client that does not start TLS falls back to plaintext.
TlsFallsBack ==
    /\ pc = "tlsHello" /\ wire # <<>> /\ cEnd # "reset"
    /\ \/ Head(wire).kind = "hello" /\ pc' = "tlsStartup" /\ secure' = TRUE /\ wire' = Tail(wire)
       \/ Head(wire).kind # "hello" /\ pc' = "startup" /\ UNCHANGED <<secure, wire>>
    /\ UNCHANGED <<config, sent, cEnd, buf, pkt, verdict, answers, upVars, lost, why>>

TlsHandshake ==
    /\ pc = "tlsHello" /\ wire # <<>> /\ cEnd # "reset"
    /\ wire' = Tail(wire)
    /\ \/ Head(wire).kind = "hello" /\ pc' = "tlsStartup" /\ secure' = TRUE /\ UNCHANGED why
       \/ Head(wire).kind # "hello" /\ pc' = "closed" /\ why' = "io" /\ UNCHANGED secure
    /\ UNCHANGED <<config, sent, cEnd, buf, pkt, verdict, answers, upVars, lost>>

\* The packet inside TLS is not looked at: whatever it is, it starts a session.
ReadTlsPacket ==
    /\ pc = "tlsStartup" /\ buf # <<>>
    /\ pkt' = Head(buf)
    /\ \/ ~Head(buf).tls /\ Close("io") /\ buf' = Tail(buf) /\ UNCHANGED lost
       \/ /\ Head(buf).tls /\ ~WellFormed(Head(buf))
          /\ Close("protocol") /\ buf' = Tail(buf) /\ UNCHANGED lost
       \/ WellFormed(Head(buf)) /\ Goto("version") /\ IntoInner(Tail(buf))
    /\ UNCHANGED <<secure, verdict, answers, upVars>>

\* A read or a write that fails: the future returns HandshakeError::Io.
ReadEnds == cEnd # "open" /\ wire = <<>>

HandshakeIoFails ==
    /\ \/ Reading /\ buf = <<>> /\ ReadEnds
       \/ pc = "tlsHello" /\ ReadEnds
       \/ pc \in {"refuseTls", "acceptTls", "tlsHello"} /\ cEnd = "reset"
    /\ Close("io")
    /\ UNCHANGED <<buf, secure, pkt, verdict, answers, upVars, lost>>

\* One deadline covers all of perform_handshake.
HandshakeTimeout ==
    /\ pc \in InHandshake
    /\ Close("deadline")
    /\ UNCHANGED <<buf, secure, pkt, verdict, answers, upVars, lost>>

-----------------------------------------------------------------------------
(* A CancelRequest: relayed on a connection of its own.                    *)

CancelConnects ==
    /\ pc = "cancelConnect"
    /\ up' = "open" /\ Goto("cancelWrite")
    /\ UNCHANGED <<buf, secure, pkt, verdict, answers, backend, lost>>

CancelConnectFails ==
    /\ pc = "cancelConnect"
    /\ Close("unreachable")
    /\ UNCHANGED <<buf, secure, pkt, verdict, answers, upVars, lost>>

\* Mutant: a CancelRequest is rewritten like a startup message.
CancelRewritten ==
    /\ pc = "cancelWrite"
    /\ backend' = Append(backend, [packet |-> pkt.kind, form |-> "rewritten"]) /\ Close("cancelled")
    /\ up' = "shut"
    /\ UNCHANGED <<buf, secure, pkt, verdict, answers, lost>>

CancelRelayed ==
    /\ pc = "cancelWrite"
    /\ \/ backend' = Append(backend, [packet |-> pkt.kind, form |-> "verbatim"]) /\ Close("cancelled")
       \/ Close("io") /\ UNCHANGED backend
    /\ up' = "shut"
    /\ UNCHANGED <<buf, secure, pkt, verdict, answers, lost>>

-----------------------------------------------------------------------------
(* A session.                                                              *)

\* An ErrorResponse, then the connection is dropped.
Diagnose(code, reason) ==
    /\ answers' = IF cEnd = "reset" THEN answers ELSE Append(answers, code)
    /\ Close(reason)

\* Mutant: Guardian sees a startup message only if it is exactly 3.0.
CheckVersionExactly30 ==
    /\ pc = "version"
    /\ IF pkt.kind \in Supported
       THEN Goto(IF pkt.kind = "startup30" THEN "guardian" ELSE "connect") /\ UNCHANGED answers
       ELSE Diagnose("08P01", "unsupported")
    /\ UNCHANGED <<buf, secure, pkt, verdict, upVars, lost>>

CheckVersion ==
    /\ pc = "version"
    /\ IF pkt.kind \in Supported
       THEN Goto("guardian") /\ UNCHANGED answers
       ELSE Diagnose("08P01", "unsupported")
    /\ UNCHANGED <<buf, secure, pkt, verdict, upVars, lost>>

CheckConnection(action) ==
    /\ pc = "guardian"
    /\ verdict' = action
    /\ IF action = "DENY"
       THEN Diagnose("28000", "denied")
       ELSE Goto("connect") /\ UNCHANGED answers
    /\ UNCHANGED <<buf, secure, pkt, upVars, lost>>

Connects ==
    /\ pc = "connect"
    /\ up' = "open" /\ Goto("sendStartup")
    /\ UNCHANGED <<buf, secure, pkt, verdict, answers, backend, lost>>

\* Mutant: the client gets a bare FIN.
ConnectFailsSilently ==
    /\ pc = "connect"
    /\ Close("unreachable")
    /\ UNCHANGED <<buf, secure, pkt, verdict, answers, upVars, lost>>

\* Refused, or upstream_connect_timeout.
ConnectFails ==
    /\ pc = "connect"
    /\ Diagnose("08006", "unreachable")
    /\ UNCHANGED <<buf, secure, pkt, verdict, upVars, lost>>

\* inject_ip_startup; a failed write ends the connection without a word.
SendStartup ==
    /\ pc = "sendStartup"
    /\ \/ /\ backend' = Append(backend, [packet |-> pkt.kind, form |-> "rewritten"])
          /\ Goto("relay") /\ UNCHANGED up
       \/ Close("io") /\ up' = "shut" /\ UNCHANGED backend
    /\ UNCHANGED <<buf, secure, pkt, verdict, answers, lost>>

Terminated == Settled /\ UNCHANGED vars

-----------------------------------------------------------------------------
Client ==
    \/ \E u \in Menu : ClientSends(u)
    \/ \E how \in {"eof", "reset"} : ClientEnds(how)

PerformHandshake ==
    \/ Fill \/ ReadProxyHeader \/ ReadPacket \/ RefuseTls
    \/ AcceptTls \/ TlsHandshake \/ ReadTlsPacket
    \/ HandshakeIoFails

HandleClient ==
    \/ CheckPeer
    \/ PerformHandshake
    \/ CancelConnects \/ CancelConnectFails \/ CancelRelayed
    \/ CheckVersion
    \/ \E action \in {"ALLOW", "INSPECT", "DENY"} : CheckConnection(action)
    \/ Connects \/ ConnectFails \/ SendStartup

Next == Client \/ HandleClient \/ HandshakeTimeout \/ Terminated

Spec == Init /\ [][Next]_vars

\* The runtime polls the task and fires its timers; nothing is asked of the
\* client.  A connection attempt ends by its own deadline.
FairSpec == Spec /\ WF_vars(HandleClient) /\ WF_vars(HandshakeTimeout)

-----------------------------------------------------------------------------
TypeOK ==
    /\ trusted \in BOOLEAN /\ acceptor \in BOOLEAN /\ polite \in BOOLEAN
    /\ sent \in Seq(Units) /\ wire \in Seq(Units) /\ buf \in Seq(Units)
    /\ cEnd \in {"open", "eof", "reset"}
    /\ pc \in Points
    /\ secure \in BOOLEAN
    /\ pkt \in Units \cup {NoUnit}
    /\ verdict \in {"none", "ALLOW", "INSPECT", "DENY"}
    /\ answers \in Seq(Answers)
    /\ up \in {"none", "open", "shut"}
    /\ backend \in Seq([packet : Packets, form : {"verbatim", "rewritten"}])
    /\ lost \subseteq Units
    /\ why \in {"none", "untrusted", "deadline", "protocol", "io", "cancelled", "unreachable",
               "unsupported", "denied"}

(***************************************************************************)
(* A peer outside TRUSTED_PROXIES gets nothing: no byte of it is read, no  *)
(* byte is written to it, and the backend never hears of it.               *)
(***************************************************************************)
UntrustedPeerIgnored ==
    ~trusted =>
        /\ wire = sent \/ cEnd = "reset"
        /\ buf = <<>> /\ pkt = NoUnit /\ answers = <<>> /\ up = "none"

(***************************************************************************)
(* The backend is contacted only for a CancelRequest or for a protocol 3   *)
(* session, of any minor version, that Guardian judged and did not deny.   *)
(***************************************************************************)
BackendNeedsVerdict ==
    up # "none" =>
        \/ pkt.kind = "cancel" /\ ~pkt.tls
        \/ pkt.kind \in Supported /\ verdict \in {"ALLOW", "INSPECT"}

(***************************************************************************)
(* A backend connection carries one startup-phase packet: a CancelRequest  *)
(* as it came, and nobody is answered, or a startup message with the       *)
(* address injected.                                                       *)
(***************************************************************************)
OnePacketPerBackendConnection ==
    backend # <<>> =>
        /\ Len(backend) = 1
        /\ \/ backend[1] = [packet |-> "cancel", form |-> "verbatim"]
             /\ up = "shut" /\ ~\E i \in DOMAIN answers : answers[i] \in Errors
           \/ backend[1].packet \in Supported /\ backend[1].form = "rewritten"

(***************************************************************************)
(* A client that got as far as a startup message, is still there and is    *)
(* turned away before a backend connection exists is told so, once and as  *)
(* the last thing it hears.                                                *)
(***************************************************************************)
RefusedStartupDiagnosed ==
    /\ pc = "closed" /\ pkt.kind \in Startups /\ pkt.tls = secure /\ up = "none" /\ cEnd # "reset" =>
          answers # <<>> /\ answers[Len(answers)] \in Errors
    /\ \A i \in 1 .. Len(answers) : answers[i] \in Errors => i = Len(answers) /\ pc = "closed"

(***************************************************************************)
(* Once 'S' was sent, only a packet from inside the TLS session starts a   *)
(* session: plaintext that was pipelined behind the SSLRequest never does. *)
(***************************************************************************)
NoPlaintextAfterTls ==
    pc \in {"version", "guardian", "connect", "sendStartup", "relay"} =>
        (pkt.tls <=> \E i \in 1 .. Len(answers) : answers[i] = "S")

\* A client that waits for each answer loses no byte to into_inner(), at any
\* of the five places that take the BufReader apart.
PoliteLosesNothing == polite => lost = {}

(***************************************************************************)
(* README.md: "Forwards everything else byte for byte."                    *)
(***************************************************************************)
NothingLost == lost = {}

\* Whatever the client does or omits, the handshake comes to an end.
HandshakeEnds == <>Settled

(***************************************************************************)
(* README.md: "Relays `CancelRequest` unmodified on its own connection."   *)
(***************************************************************************)
CancelNeverRefused == why = "unsupported" => pkt.kind # "cancel"
=============================================================================
