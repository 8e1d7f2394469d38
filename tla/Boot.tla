-------------------------------- MODULE Boot --------------------------------
(***************************************************************************)
(* What main does before its accept loop (main.rs, with Limits::from_env,  *)
(* Guardian::load and load_tls_acceptor): read the configuration, make or  *)
(* load the TLS identity, bind.  The process may be killed at any point    *)
(* and is started again by its supervisor, with an environment that may    *)
(* have been edited and with the files the last start left behind.         *)
(*                                                                         *)
(* A Result or Option is a set of at most one element.                     *)
(***************************************************************************)
EXTENDS Naturals, Trust

CONSTANT Environments   \* [trusted, secs, file, ssl] the process may find

VARIABLES
    proc,       \* where main is; "down" when there is no process
    env,        \* the environment and guardian.yaml of this start
    cfg,        \* ProxyConfig, as far as it is built
    p12,        \* identity.p12: "absent", "damaged" or "whole"
    crt,        \* server.crt and server.key have been written
    openssl     \* a command has failed in this start

boot == <<proc, env, cfg, p12, crt, openssl>>

\* Limits::default: the timeouts that can be set, in seconds.
DefaultSecs == [handshake |-> 10, connect |-> 5, keepalive |-> 60]
Timeouts == DOMAIN DefaultSecs

IsOption(set) == \A x, y \in set : x = y

(***************************************************************************)
(* A rule as it is written: what stands behind each field name the file    *)
(* gives it, known to the code or not.  A value is "mistyped" when serde   *)
(* refuses it (an action that is none, a text for a list), "meaningless"   *)
(* when it is a text of the right type that nothing will match (a CIDR or  *)
(* a time_range that does not parse), and else "sensible".                 *)
(***************************************************************************)
RuleFields == {"name", "action", "ips", "users", "databases", "time_range",
               "block_queries", "block_tables"}
Values == {"sensible", "meaningless", "mistyped"}

\* A variable is set or not, and what stands for a timeout is a u64 or no number.
ASSUME BootAssumption ==
    /\ Environments # {}
    /\ \A e \in Environments :
          /\ IsOption(e.trusted)
          /\ \A t \in Timeouts : IsOption(e.secs[t]) /\ e.secs[t] \subseteq [number : BOOLEAN, n : Nat]
          /\ e.file.state \in {"absent", "unreadable", "malformed", "rules"}
          /\ \A k \in DOMAIN e.file.rules :
                e.file.rules[k] \in [DOMAIN e.file.rules[k] -> Values]

NoConfig == [trusted |-> {}, limits |-> {}, rules |-> <<>>, tls |-> FALSE]
NoEnv == CHOOSE e \in Environments : TRUE

BootInit ==
    /\ proc = "down" /\ env = NoEnv /\ cfg = NoConfig
    /\ p12 = "absent" /\ crt = FALSE /\ openssl = "ok"

-----------------------------------------------------------------------------
(* Reading the configuration.                                              *)

ParseSecs(raw) == IF raw.number /\ raw.n # 0 THEN {raw.n} ELSE {}

LimitsFromEnv(secs) ==
    LET Value(t) == IF secs[t] = {} THEN {DefaultSecs[t]} ELSE UNION {ParseSecs(raw) : raw \in secs[t]}
    IN  IF \E t \in Timeouts : Value(t) = {} THEN {}
        ELSE {[t \in Timeouts |-> CHOOSE n \in Value(t) : TRUE]}

\* What serde makes of one rule: a name and an action there must be, a known
\* field has the right type, and an unknown one is dropped without a word, for
\* want of deny_unknown_fields.  The text of a block or a window is not parsed.
Deserializes(rule) ==
    /\ {"name", "action"} \subseteq DOMAIN rule
    /\ \A f \in DOMAIN rule \cap RuleFields : rule[f] # "mistyped"

Deserialized(rule) == Restrict(rule, DOMAIN rule \cap RuleFields)

\* Mutant: a file that does not parse leaves no rules (AUDIT.md #18).
LoadRulesOrNone(file) ==
    IF file.state # "rules" \/ \E k \in DOMAIN file.rules : ~Deserializes(file.rules[k])
    THEN {<<>>}
    ELSE {[k \in DOMAIN file.rules |-> Deserialized(file.rules[k])]}

\* A file that cannot be opened, for whatever reason, is taken for absent; one
\* rule that does not parse, or a file that is no list of rules, is an error.
LoadRules(file) ==
    IF file.state \in {"absent", "unreadable"} THEN {<<>>}
    ELSE IF file.state = "malformed" \/ \E k \in DOMAIN file.rules : ~Deserializes(file.rules[k])
    THEN {}
    ELSE {[k \in DOMAIN file.rules |-> Deserialized(file.rules[k])]}

\* to_lowercase() = "true".
SslEnabled(var) == var \in {"unset", "true", "True"}

-----------------------------------------------------------------------------
(* The steps of main.                                                      *)

Start ==
    /\ proc = "down"
    /\ proc' = "starting" /\ env' \in Environments /\ cfg' = NoConfig /\ openssl' = "ok"
    /\ UNCHANGED <<p12, crt>>

\* TrustedProxies::from_env, Limits::from_env, Guardian::load: the first that
\* fails ends the process.
LoadConfig ==
    LET trusted == TrustedFromEnv(env.trusted)
        limits == LimitsFromEnv(env.secs)
        rules == LoadRules(env.file)
    IN
    /\ proc = "starting"
    /\ \/ /\ trusted = {} \/ limits = {} \/ rules = {}
          /\ proc' = "down" /\ UNCHANGED cfg
       \/ \E t \in trusted, l \in limits, r \in rules :
             /\ cfg' = [trusted |-> t, limits |-> l, rules |-> r, tls |-> FALSE]
             /\ proc' = IF SslEnabled(env.ssl) THEN "certificate" ELSE "bind"
    /\ UNCHANGED <<env, p12, crt, openssl>>

\* Mutant: the certificate, which is written first, is looked for.
IdentityMissingByCrt == ~crt

IdentityMissing == p12 = "absent"

EnsureCertificates ==
    /\ proc = "certificate"
    /\ proc' = IF IdentityMissing THEN "generate" ELSE "load"
    /\ UNCHANGED <<env, cfg, p12, crt, openssl>>

\* openssl req: the key and the certificate.
Generate ==
    /\ proc = "generate"
    /\ \/ crt' = TRUE /\ proc' = "export" /\ UNCHANGED openssl
       \/ crt' \in {crt, TRUE} /\ proc' = "bind" /\ openssl' = "failed"
    /\ UNCHANGED <<env, cfg, p12>>

\* openssl pkcs12 -export: a failure may leave a truncated file.
Export ==
    /\ proc = "export"
    /\ \/ p12' = "whole" /\ proc' = "load" /\ UNCHANGED openssl
       \/ p12' \in {"absent", "damaged"} /\ proc' = "bind" /\ openssl' = "failed"
    /\ UNCHANGED <<env, cfg, crt>>

\* fs::read, Identity::from_pkcs12 and the builder take the file.  "damaged"
\* stands for every file they refuse: unreadable, cut short, or exported with
\* another password.
IdentityLoads == p12 = "whole"

\* An identity that cannot be read switches TLS off; main goes on.
LoadAcceptor ==
    /\ proc = "load"
    /\ cfg' = [cfg EXCEPT !.tls = IdentityLoads]
    /\ proc' = "bind"
    /\ UNCHANGED <<env, p12, crt, openssl>>

Bind ==
    /\ proc = "bind"
    /\ proc' \in {"bound", "down"}
    /\ UNCHANGED <<env, cfg, p12, crt, openssl>>

\* The accept loop begins.  What was configured is not read again.
Serve ==
    /\ proc = "bound"
    /\ proc' = "serving" /\ env' = NoEnv /\ cfg' = NoConfig /\ openssl' = "ok"
    /\ UNCHANGED <<p12, crt>>

\* The process is killed, and with it the command it is waiting for.
Killed ==
    /\ proc # "down"
    /\ proc' = "down"
    /\ crt' \in IF proc = "generate" THEN {crt, TRUE} ELSE {crt}
    /\ p12' \in IF proc = "export" THEN {"absent", "damaged", "whole"} ELSE {p12}
    /\ UNCHANGED <<env, cfg, openssl>>

Booting ==
    \/ Start \/ LoadConfig \/ EnsureCertificates \/ Generate \/ Export
    \/ LoadAcceptor \/ Bind \/ Serve

-----------------------------------------------------------------------------
(***************************************************************************)
(* A proxy that gets as far as its socket runs with each entry of the      *)
(* allowlist and no other, each timeout that was set and the default of    *)
(* each that was not; an entry or a timeout that does not parse ends the   *)
(* start, whatever else is in order.  Of guardian.yaml it has every rule,  *)
(* in order, with every field it knows as it is written, and a rule        *)
(* without a name or an action or with a field of the wrong type ends the  *)
(* start.  That is all: a misspelled field is gone from its rule           *)
(* (AUDIT.md #53), and a block or a window that means nothing is kept and  *)
(* matches nothing (#54, #55).                                             *)
(***************************************************************************)
ServesAsParsed ==
    proc = "bound" =>
        /\ \A spec \in env.trusted \cup (IF env.trusted = {} THEN {DefaultTrusted} ELSE {}) :
              /\ \A k \in DOMAIN spec : spec[k] = Blank \/ (spec[k] # NotABlock /\ spec[k] \in cfg.trusted)
              /\ cfg.trusted \subseteq ToSet(spec)
        /\ cfg.trusted # {} /\ Blank \notin cfg.trusted
        /\ \A t \in Timeouts :
              /\ cfg.limits[t] > 0
              /\ \A raw \in env.secs[t] : raw.number /\ raw.n = cfg.limits[t]
              /\ env.secs[t] = {} => cfg.limits[t] = DefaultSecs[t]
        /\ IF env.file.state \in {"absent", "unreadable"}
           THEN cfg.rules = <<>>
           ELSE /\ env.file.state = "rules" /\ DOMAIN cfg.rules = DOMAIN env.file.rules
                /\ \A k \in DOMAIN cfg.rules :
                      LET written == env.file.rules[k]
                          rule == cfg.rules[k]
                      IN  /\ "name" \in DOMAIN rule /\ "action" \in DOMAIN rule
                          /\ \A f \in RuleFields :
                                /\ f \in DOMAIN written <=> f \in DOMAIN rule
                                /\ f \in DOMAIN rule =>
                                      rule[f] = written[f] /\ rule[f] \in {"sensible", "meaningless"}
                          /\ DOMAIN rule \subseteq RuleFields

(***************************************************************************)
(* With TLS asked for, a proxy serves without it only because openssl      *)
(* failed in this start or identity.p12 is damaged: a start that was       *)
(* killed between the commands is made good by the next one, because the   *)
(* file that is looked for is the one written last.                        *)
(***************************************************************************)
TlsUnlessBroken ==
    proc = "bound" /\ SslEnabled(env.ssl) /\ ~cfg.tls => openssl = "failed" \/ p12 = "damaged"
=============================================================================
