--------------------------- MODULE ListenerProofs ---------------------------
(***************************************************************************)
(* Proofs about the start of the proxy (Boot) and its accept loop, for any *)
(* environment, any number of clients and any number of descriptors.       *)
(***************************************************************************)
EXTENDS Listener, TLAPS

-----------------------------------------------------------------------------
(* The inductive invariant.                                                *)

\* The configuration has been read and is not forgotten yet.
Configured == {"certificate", "generate", "export", "load", "bind", "bound"}

\* What ServesAsParsed asks of a rule, and of a configuration.
RuleAsParsed(written, rule) ==
    /\ "name" \in DOMAIN rule /\ "action" \in DOMAIN rule
    /\ \A f \in RuleFields :
          /\ f \in DOMAIN written <=> f \in DOMAIN rule
          /\ f \in DOMAIN rule =>
                rule[f] = written[f] /\ rule[f] \in {"sensible", "meaningless"}
    /\ DOMAIN rule \subseteq RuleFields
AsParsed(e, c) ==
    /\ \A spec \in e.trusted \cup (IF e.trusted = {} THEN {DefaultTrusted} ELSE {}) :
          /\ \A k \in DOMAIN spec : spec[k] = Blank \/ (spec[k] # NotABlock /\ spec[k] \in c.trusted)
          /\ c.trusted \subseteq ToSet(spec)
    /\ c.trusted # {} /\ Blank \notin c.trusted
    /\ \A t \in Timeouts :
          /\ c.limits[t] > 0
          /\ \A raw \in e.secs[t] : raw.number /\ raw.n = c.limits[t]
          /\ e.secs[t] = {} => c.limits[t] = DefaultSecs[t]
    /\ IF e.file.state \in {"absent", "unreadable"}
       THEN c.rules = <<>>
       ELSE /\ e.file.state = "rules" /\ DOMAIN c.rules = DOMAIN e.file.rules
            /\ \A k \in DOMAIN c.rules : RuleAsParsed(e.file.rules[k], c.rules[k])

\* It is right as soon as it is there, and main only ever adds the acceptor.
ConfigInv ==
    proc \in Configured =>
        /\ AsParsed(env, cfg)
        /\ cfg = [trusted |-> cfg.trusted, limits |-> cfg.limits, rules |-> cfg.rules, tls |-> cfg.tls]

\* The file that is looked for is the one written last, so it is there when it
\* is read.
TlsInv ==
    /\ proc = "load" => p12 # "absent"
    /\ proc \in {"bind", "bound"} /\ SslEnabled(env.ssl) /\ ~cfg.tls =>
          openssl = "failed" \/ p12 = "damaged"

IInv == TypeOK /\ ConfigInv /\ TlsInv

-----------------------------------------------------------------------------
(* Reading the configuration.                                              *)

\* TrustedProxies::parse keeps each entry or refuses the list.
LEMMA TrustedAsWritten ==
    ASSUME NEW e \in Environments, NEW t \in TrustedFromEnv(e.trusted),
           NEW spec \in e.trusted \cup (IF e.trusted = {} THEN {DefaultTrusted} ELSE {})
    PROVE  /\ \A k \in DOMAIN spec : spec[k] = Blank \/ (spec[k] # NotABlock /\ spec[k] \in t)
           /\ t \subseteq ToSet(spec) /\ t # {} /\ Blank \notin t
<1>1. spec = IF e.trusted = {} THEN DefaultTrusted ELSE CHOOSE s \in e.trusted : TRUE
  <2>1. CASE e.trusted = {}
    BY <2>1
  <2>2. CASE e.trusted # {}
    <3>1. spec \in e.trusted /\ \A x, y \in e.trusted : x = y
      BY <2>2, BootAssumption DEF IsOption
    <3>2. (CHOOSE s \in e.trusted : TRUE) \in e.trusted
      BY <2>2
    <3> QED
      BY <2>2, <3>1, <3>2
  <2> QED
    BY <2>1, <2>2
<1>2. t \in ParseTrusted(spec)
  BY <1>1 DEF TrustedFromEnv
<1>3. t = ToSet(spec) \ {Blank} /\ t # {} /\ NotABlock \notin t
  BY <1>2 DEF ParseTrusted
<1> QED
  BY <1>3 DEF ToSet

\* Limits::from_env takes each timeout that is set, or refuses to start.
LEMMA LimitsAsWritten ==
    ASSUME NEW e \in Environments, NEW l \in LimitsFromEnv(e.secs), NEW t \in Timeouts
    PROVE  /\ l[t] > 0
           /\ \A raw \in e.secs[t] : raw.number /\ raw.n = l[t]
           /\ e.secs[t] = {} => l[t] = DefaultSecs[t]
<1> DEFINE Value(s) == IF e.secs[s] = {} THEN {DefaultSecs[s]} ELSE UNION {ParseSecs(raw) : raw \in e.secs[s]}
<1>1. Value(t) # {} /\ l[t] = CHOOSE n \in Value(t) : TRUE
  BY DEF LimitsFromEnv
<1>2. l[t] \in Value(t)
  BY <1>1
<1>3. CASE e.secs[t] = {}
  <2>1. DefaultSecs[t] > 0
    BY DEF DefaultSecs, Timeouts
  <2> QED
    BY <1>2, <1>3, <2>1
<1>4. CASE e.secs[t] # {}
  <2>1. PICK raw \in e.secs[t] : l[t] \in ParseSecs(raw)
    BY <1>2, <1>4
  <2>2. raw \in [number : BOOLEAN, n : Nat] /\ \A other \in e.secs[t] : other = raw
    BY BootAssumption DEF IsOption
  <2>3. raw.number /\ raw.n # 0 /\ l[t] = raw.n
    BY <2>1 DEF ParseSecs
  <2>4. raw.n \in Nat
    BY <2>2
  <2> QED
    BY <1>4, <2>2, <2>3, <2>4
<1> QED
  BY <1>3, <1>4

\* What serde keeps of a rule it takes.
LEMMA RuleKept ==
    ASSUME NEW rule, rule \in [DOMAIN rule -> Values], Deserializes(rule)
    PROVE  RuleAsParsed(rule, Deserialized(rule))
<1> DEFINE kept == Deserialized(rule)
<1>1. DOMAIN kept = DOMAIN rule \cap RuleFields /\ \A f \in DOMAIN kept : kept[f] = rule[f]
  BY DEF Deserialized, Restrict
<1>2. "name" \in RuleFields /\ "action" \in RuleFields
  BY DEF RuleFields
<1>3. \A f \in DOMAIN rule \cap RuleFields : rule[f] \in {"sensible", "meaningless"}
  BY DEF Deserializes, Values
<1>4. {"name", "action"} \subseteq DOMAIN rule
  BY DEF Deserializes
<1> HIDE DEF kept
<1> QED
  BY <1>1, <1>2, <1>3, <1>4 DEF RuleAsParsed, kept

\* Guardian::load takes every rule of a file, or refuses to start.
LEMMA RulesAsParsed ==
    ASSUME NEW e \in Environments, NEW r \in LoadRules(e.file)
    PROVE  IF e.file.state \in {"absent", "unreadable"}
           THEN r = <<>>
           ELSE /\ e.file.state = "rules" /\ DOMAIN r = DOMAIN e.file.rules
                /\ \A k \in DOMAIN r : RuleAsParsed(e.file.rules[k], r[k])
<1>1. CASE e.file.state \in {"absent", "unreadable"}
  BY <1>1 DEF LoadRules
<1>2. CASE e.file.state \notin {"absent", "unreadable"}
  <2>1. /\ e.file.state # "malformed" /\ \A k \in DOMAIN e.file.rules : Deserializes(e.file.rules[k])
        /\ r = [k \in DOMAIN e.file.rules |-> Deserialized(e.file.rules[k])]
    BY <1>2, Zenon DEF LoadRules
  <2>2. /\ e.file.state \in {"absent", "unreadable", "malformed", "rules"}
        /\ \A k \in DOMAIN e.file.rules : e.file.rules[k] \in [DOMAIN e.file.rules[k] -> Values]
    BY BootAssumption
  <2>3. ASSUME NEW k \in DOMAIN e.file.rules PROVE RuleAsParsed(e.file.rules[k], r[k])
    BY <2>1, <2>2, RuleKept
  <2> QED
    BY <1>2, <2>1, <2>2, <2>3
<1> QED
  BY <1>1, <1>2

\* What main has built when nothing failed to parse.
LEMMA LoadedAsParsed ==
    ASSUME NEW e \in Environments, NEW t \in TrustedFromEnv(e.trusted),
           NEW l \in LimitsFromEnv(e.secs), NEW r \in LoadRules(e.file), NEW b,
           NEW c, c = [trusted |-> t, limits |-> l, rules |-> r, tls |-> b]
    PROVE  AsParsed(e, c)
<1>1. c.trusted = t /\ c.limits = l /\ c.rules = r
  OBVIOUS
<1>2. \A spec \in e.trusted \cup (IF e.trusted = {} THEN {DefaultTrusted} ELSE {}) :
          /\ \A k \in DOMAIN spec : spec[k] = Blank \/ (spec[k] # NotABlock /\ spec[k] \in t)
          /\ t \subseteq ToSet(spec)
  BY TrustedAsWritten
<1>3. t # {} /\ Blank \notin t
  <2>1. \E spec : spec \in e.trusted \cup (IF e.trusted = {} THEN {DefaultTrusted} ELSE {})
    OBVIOUS
  <2> QED
    BY <2>1, TrustedAsWritten
<1>4. \A s \in Timeouts :
          /\ l[s] > 0
          /\ \A raw \in e.secs[s] : raw.number /\ raw.n = l[s]
          /\ e.secs[s] = {} => l[s] = DefaultSecs[s]
  BY LimitsAsWritten
<1>5. IF e.file.state \in {"absent", "unreadable"}
      THEN r = <<>>
      ELSE /\ e.file.state = "rules" /\ DOMAIN r = DOMAIN e.file.rules
           /\ \A k \in DOMAIN r : RuleAsParsed(e.file.rules[k], r[k])
  BY RulesAsParsed
<1> QED
  BY <1>1, <1>2, <1>3, <1>4, <1>5 DEF AsParsed

-----------------------------------------------------------------------------
(* The steps.                                                              *)

\* Nothing is running and nobody is connected.
LEMMA InitInv == Init => IInv
<1> SUFFICES ASSUME Init PROVE IInv
  OBVIOUS
<1>1. NoEnv \in Environments
  BY BootAssumption DEF NoEnv
<1>2. TypeOK
  <2>1. crt \in BOOLEAN
    BY Zenon DEF Init, BootInit
  <2>2. backlog \in Seq(Clients)
    BY DEF Init
  <2>3. conn \in [Clients -> {"away", "pending", "handshake", "connecting", "relay"}]
    BY DEF Init
  <2> QED
    BY <1>1, <2>1, <2>2, <2>3 DEF Init, BootInit, TypeOK
<1>3. proc = "down"
  BY DEF Init, BootInit
<1> QED
  BY <1>2, <1>3 DEF IInv, ConfigInv, TlsInv, Configured

\* The pause after a failed accept is never longer than its ceiling.
LEMMA PauseBounded ==
    ASSUME backoff \in {0} \cup (FirstBackoff .. MaxBackoff)
    PROVE  NextBackoff \in FirstBackoff .. MaxBackoff
<1> USE ListenerAssumption
<1>1. CASE backoff = 0
  BY <1>1 DEF NextBackoff
<1>2. CASE backoff # 0
  <2>1. backoff \in FirstBackoff .. MaxBackoff /\ backoff * 2 \in Nat /\ backoff * 2 >= FirstBackoff
    BY <1>2
  <2>2. \E x \in {backoff * 2, MaxBackoff} : \A y \in {backoff * 2, MaxBackoff} : x =< y
    BY <2>1
  <2>3. /\ Min({backoff * 2, MaxBackoff}) \in {backoff * 2, MaxBackoff}
        /\ Min({backoff * 2, MaxBackoff}) =< MaxBackoff
    BY <2>2 DEF Min
  <2>4. NextBackoff \in {backoff * 2, MaxBackoff} /\ NextBackoff =< MaxBackoff
    BY <1>2, <2>3 DEF NextBackoff
  <2> QED
    BY <2>1, <2>4
<1> QED
  BY <1>1, <1>2

\* Every step keeps the types.
LEMMA TypeStep == ASSUME TypeOK, [Next]_vars PROVE TypeOK'
<1>h. backlog # <<>> => Head(backlog) \in Clients /\ Tail(backlog) \in Seq(Clients)
  BY DEF TypeOK
<1>1. CASE Booting /\ UNCHANGED loop
  <2>1. UNCHANGED <<conn, backlog, listener, backoff>>
    BY <1>1 DEF loop
  <2>2. CASE Start
    BY <2>1, <2>2 DEF TypeOK, Start
  <2>3. CASE LoadConfig
    BY <2>1, <2>3 DEF TypeOK, LoadConfig
  <2>4. CASE EnsureCertificates
    BY <2>1, <2>4 DEF TypeOK, EnsureCertificates
  <2>5. CASE Generate
    <3>1. crt' \in BOOLEAN
      BY <2>5, Zenon DEF TypeOK, Generate
    <3> QED
      BY <2>1, <2>5, <3>1 DEF TypeOK, Generate
  <2>6. CASE Export
    BY <2>1, <2>6 DEF TypeOK, Export
  <2>7. CASE LoadAcceptor \/ Bind
    BY <2>1, <2>7 DEF TypeOK, LoadAcceptor, Bind
  <2>8. CASE Serve
    <3>1. NoEnv \in Environments
      BY BootAssumption DEF NoEnv
    <3> QED
      BY <2>1, <2>8, <3>1 DEF TypeOK, Serve
  <2> QED
    BY <1>1, <2>2, <2>3, <2>4, <2>5, <2>6, <2>7, <2>8 DEF Booting
<1>2. CASE Crash
  <2>1. crt' \in {crt, TRUE} /\ p12' \in {p12, "absent", "damaged", "whole"}
    BY <1>2 DEF Crash, Killed
  <2>2. crt' \in BOOLEAN
    BY <2>1, Zenon DEF TypeOK
  <2> QED
    BY <1>2, <2>1, <2>2 DEF TypeOK, Crash, Killed
<1>3. CASE Accept
  BY <1>3, <1>h DEF TypeOK, Accept, boot
<1>4. CASE AcceptFails
  <2>1. backoff' \in FirstBackoff .. MaxBackoff
    BY <1>4, PauseBounded DEF TypeOK, AcceptFails
  <2>2. conn' \in [Clients -> {"away", "pending", "handshake", "connecting", "relay"}] /\ backlog' \in Seq(Clients)
    BY <1>4, <1>h DEF TypeOK, AcceptFails
  <2> QED
    BY <1>4, <2>1, <2>2 DEF TypeOK, AcceptFails, boot
<1>5. CASE Wake
  BY <1>5 DEF TypeOK, Wake, boot
<1>6. ASSUME NEW c \in Clients, Arrive(c) PROVE TypeOK'
  BY <1>6 DEF TypeOK, Arrive, boot
<1>7. ASSUME NEW c \in Clients, Task(c) PROVE TypeOK'
  BY <1>7 DEF TypeOK, Task, Connecting, Connected, TurnedAway, SessionEnds, boot
<1>8. CASE UNCHANGED vars
  BY <1>8 DEF TypeOK, vars, boot, loop
<1> QED
  BY <1>1, <1>2, <1>3, <1>4, <1>5, <1>6, <1>7, <1>8 DEF Next, Main

\* The loop and its tasks leave the process as it is.
LEMMA BootOrNot ==
    ASSUME [Next]_vars
    PROVE  Booting \/ Killed \/ UNCHANGED boot
BY DEF Next, Main, Accept, AcceptFails, Wake, Arrive, Task, Connecting, Connected, TurnedAway, SessionEnds,
       Crash, vars

\* main builds the configuration once and only adds the acceptor to it.
LEMMA ConfigStep == ASSUME TypeOK, ConfigInv, [Next]_vars PROVE ConfigInv'
<1>1. CASE Start \/ Serve \/ Killed
  BY <1>1 DEF ConfigInv, Configured, Start, Serve, Killed
<1>2. CASE LoadConfig
  <2>1. CASE proc' = "down"
    BY <2>1 DEF ConfigInv, Configured
  <2>2. CASE proc' # "down"
    <3>1. PICK t \in TrustedFromEnv(env.trusted), l \in LimitsFromEnv(env.secs), r \in LoadRules(env.file) :
              cfg' = [trusted |-> t, limits |-> l, rules |-> r, tls |-> FALSE]
      BY <1>2, <2>2 DEF LoadConfig
    <3>2. env \in Environments /\ env' = env
      BY <1>2 DEF TypeOK, LoadConfig
    <3>3. AsParsed(env, cfg')
      BY <3>1, <3>2, LoadedAsParsed
    <3>4. cfg' = [trusted |-> cfg'.trusted, limits |-> cfg'.limits, rules |-> cfg'.rules, tls |-> cfg'.tls]
      BY <3>1
    <3> QED
      BY <3>2, <3>3, <3>4 DEF ConfigInv, AsParsed
  <2> QED
    BY <2>1, <2>2
<1>3. CASE EnsureCertificates \/ Generate \/ Export \/ Bind \/ UNCHANGED boot
  <2>1. env' = env /\ cfg' = cfg /\ (proc' \in Configured => proc \in Configured)
    BY <1>3 DEF EnsureCertificates, Generate, Export, Bind, boot, Configured
  <2> QED
    BY <2>1 DEF ConfigInv, AsParsed
<1>4. CASE LoadAcceptor
  <2>1. env' = env /\ proc \in Configured /\ cfg' = [cfg EXCEPT !.tls = IdentityLoads]
    BY <1>4 DEF LoadAcceptor, Configured
  <2>2. cfg = [trusted |-> cfg.trusted, limits |-> cfg.limits, rules |-> cfg.rules, tls |-> cfg.tls]
    BY <2>1 DEF ConfigInv
  <2>3. cfg' = [trusted |-> cfg.trusted, limits |-> cfg.limits, rules |-> cfg.rules, tls |-> IdentityLoads]
    BY <2>1, <2>2
  <2>4. cfg'.trusted = cfg.trusted /\ cfg'.limits = cfg.limits /\ cfg'.rules = cfg.rules
    BY <2>3
  <2>5. cfg' = [trusted |-> cfg'.trusted, limits |-> cfg'.limits, rules |-> cfg'.rules, tls |-> cfg'.tls]
    BY <2>3
  <2> QED
    BY <2>1, <2>4, <2>5 DEF ConfigInv, AsParsed
<1> QED
  BY <1>1, <1>2, <1>3, <1>4, BootOrNot DEF Booting

\* identity.p12 is written last and looked for first.
LEMMA TlsStep == ASSUME TypeOK, ConfigInv, TlsInv, [Next]_vars PROVE TlsInv'
<1>1. CASE Start \/ Serve \/ Killed
  BY <1>1 DEF TlsInv, Start, Serve, Killed
<1>2. CASE LoadConfig
  BY <1>2 DEF TlsInv, LoadConfig
<1>3. CASE EnsureCertificates
  BY <1>3 DEF TlsInv, EnsureCertificates, IdentityMissing
<1>4. CASE Generate \/ Export
  BY <1>4 DEF TlsInv, Generate, Export
<1>5. CASE LoadAcceptor
  <2>1. cfg'.tls = IdentityLoads
    BY <1>5 DEF LoadAcceptor, ConfigInv, Configured
  <2>2. p12 \in {"damaged", "whole"}
    BY <1>5 DEF LoadAcceptor, TlsInv, TypeOK
  <2> QED
    BY <1>5, <2>1, <2>2 DEF TlsInv, LoadAcceptor, IdentityLoads
<1>6. CASE Bind \/ UNCHANGED boot
  BY <1>6 DEF TlsInv, Bind, boot
<1> QED
  BY <1>1, <1>2, <1>3, <1>4, <1>5, <1>6, BootOrNot DEF Booting

\* The invariant holds throughout.
THEOREM Invariant == Spec => []IInv
<1>1. ASSUME IInv, [Next]_vars PROVE IInv'
  BY <1>1, TypeStep, ConfigStep, TlsStep DEF IInv
<1> QED
  BY InitInv, <1>1, PTL DEF Spec

-----------------------------------------------------------------------------
(* What it says.                                                           *)

\* The accept loop keeps its types, its pause within ACCEPT_BACKOFF_MAX.
THEOREM TypeCorrect == Spec => []TypeOK
<1>1. IInv => TypeOK
  BY DEF IInv
<1> QED
  BY Invariant, <1>1, PTL

\* A proxy that has its socket runs with the allowlist and the timeouts as they
\* were written and with the known fields of every rule, whatever was in its
\* environment and however often it was killed before; a field the code does
\* not know is dropped, and a value that means nothing is kept.
THEOREM RunsAsParsed == Spec => []ServesAsParsed
<1>1. IInv => ServesAsParsed
  BY DEF IInv, ConfigInv, Configured, AsParsed, RuleAsParsed, ServesAsParsed
<1> QED
  BY Invariant, <1>1, PTL

\* It goes without TLS only because a command failed or the identity is
\* damaged, never because an earlier start was killed between the commands.
THEOREM TlsKept == Spec => []TlsUnlessBroken
<1>1. IInv => TlsUnlessBroken
  BY DEF IInv, TlsInv, TlsUnlessBroken
<1> QED
  BY Invariant, <1>1, PTL
=============================================================================
