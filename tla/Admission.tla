----------------------------- MODULE Admission -----------------------------
(***************************************************************************)
(* What one connection's data goes through in handle_client: the peer's    *)
(* address, the address of the PROXY header, the startup message,          *)
(* Guardian's rules, the rewritten message and the statements of the       *)
(* session.  Composes Trust, Startup and Guardian; failures and the        *)
(* negotiation are in Handshake.                                           *)
(***************************************************************************)
EXTENDS Startup, Guardian, Trust

CONSTANTS
    Allowlists, \* what TRUSTED_PROXIES may have been parsed to
    Peers,      \* addresses a connection may come from
    Addresses,  \* third field of the header: family, bits and characters
    Payloads,   \* parameter sections a client may send
    Rulesets,   \* configurations of Guardian, sequences of rules
    Queries     \* payloads of Query and Parse messages below the limit

ASSUME AdmissionAssumption ==
    /\ MappedPrefix \in Seq({0, 1})
    /\ Allowlists \subseteq SUBSET Nets
    /\ \A p \in Peers : p.bits \in Seq({0, 1})
    /\ \A a \in Addresses : a.bits \in Seq({0, 1})
    /\ \A a \in Addresses : Parses(a) => a.text \in Seq(Printable) /\ Len(Suffix(a.text)) < NameLimit
    /\ Payloads \subseteq Seq(Seq(Chars)) \ {<<>>}
    /\ Rulesets \subseteq Seq(Rules)
    /\ Queries \subseteq Seq(STRING)

VARIABLES
    rules,      \* guardian.rules, fixed once loaded
    pc,
    nets, peer, \* the allowlist and the socket's peer; not kept beyond the check
    ip,         \* client_ip
    payload,
    user, db,   \* what extract_user_db found
    now,        \* the time check_connection reads, once
    i,          \* the rule its loop has reached
    ctx,        \* guardian_context
    out,        \* the rewritten message as PostgreSQL gets it
    query,      \* the statement inspected last
    passed      \* and whether it was forwarded

origin == <<nets, peer>>
session == <<ip, ctx>>
startup == <<payload, user, db, now, i, out>>
vars == <<rules, pc, origin, session, startup, query, passed>>

NoAddress == [family |-> "none", bits |-> <<>>, text |-> <<>>]

Init ==
    /\ rules \in Rulesets
    /\ pc = "accepted"
    /\ nets \in Allowlists /\ peer \in Peers
    /\ ip = NoAddress
    /\ payload = <<>> /\ user = <<>> /\ db = <<>> /\ now = 0 /\ i = 1
    /\ ctx = NoMatch /\ out = <<>>
    /\ query = <<>> /\ passed = TRUE

\* Before the first read.
CheckPeer ==
    /\ pc = "accepted"
    /\ pc' = IF IsTrusted(nets, peer) THEN "handshake" ELSE "rejected"
    /\ UNCHANGED <<rules, origin, session, startup, query, passed>>

\* The third field of the PROXY header; the socket's peer is not used again.
ReadProxyHeader ==
    /\ pc = "handshake"
    /\ ip' \in Addresses
    /\ nets' = {} /\ peer' = NoAddress
    /\ pc' = "startup"
    /\ UNCHANGED <<rules, ctx, startup, query, passed>>

\* perform_handshake returned a protocol 3 startup message.
Receive ==
    /\ pc = "startup"
    /\ \E words \in Payloads :
          payload' = words /\ user' = ExtractUser(words) /\ db' = ExtractDb(words)
    /\ pc' = "check"
    /\ UNCHANGED <<rules, origin, session, now, i, out, query, passed>>

\* check_connection up to its loop.
Check ==
    /\ pc = "check"
    /\ IF Parses(ip)
       THEN now' \in Minutes /\ pc' = "scan" /\ UNCHANGED ctx
       ELSE ctx' = Unparsed /\ pc' = "judged" /\ UNCHANGED now
    /\ UNCHANGED <<rules, origin, ip, payload, user, db, i, out, query, passed>>

NextRule ==
    /\ pc = "scan" /\ i =< Len(rules)
    /\ IF Matches(rules[i], ip, user, db, now)
       THEN ctx' = OfRule(rules[i]) /\ pc' = "judged" /\ UNCHANGED i
       ELSE i' = i + 1 /\ UNCHANGED <<ctx, pc>>
    /\ UNCHANGED <<rules, origin, ip, payload, user, db, now, out, query, passed>>

NoRuleLeft ==
    /\ pc = "scan" /\ i > Len(rules)
    /\ ctx' = NoMatch /\ pc' = "judged"
    /\ UNCHANGED <<rules, origin, ip, startup, query, passed>>

Deny ==
    /\ pc = "judged" /\ ctx.action = "DENY"
    /\ pc' = "closed"
    /\ UNCHANGED <<rules, origin, session, startup, query, passed>>

Inject ==
    /\ pc = "judged" /\ ctx.action # "DENY"
    /\ out' = InjectIpStartup(payload, ip.text)
    /\ pc' = "started"
    /\ UNCHANGED <<rules, origin, session, payload, user, db, now, i, query, passed>>

\* The relay starts; the startup message is not used again.
Serve ==
    /\ pc = "started"
    /\ pc' = "session"
    /\ payload' = <<>> /\ user' = <<>> /\ db' = <<>> /\ now' = 0 /\ i' = 1 /\ out' = <<>>
    /\ UNCHANGED <<rules, origin, session, query, passed>>

Inspect ==
    /\ pc = "session"
    /\ \E q \in Queries : query' = q /\ passed' = CheckQuery(q, ctx)
    /\ UNCHANGED <<rules, origin, pc, session, startup>>

Closed == pc \in {"closed", "rejected"} /\ UNCHANGED vars

Next ==
    \/ CheckPeer \/ ReadProxyHeader \/ Receive \/ Check \/ NextRule \/ NoRuleLeft \/ Deny
    \/ Inject \/ Serve \/ Inspect
    \/ Closed

Spec == Init /\ [][Next]_vars

-----------------------------------------------------------------------------
(***************************************************************************)
(* A connection gets as far as its PROXY header exactly if its peer lies   *)
(* in a block of the allowlist, as it is written or, for an IPv4 block, in *)
(* the IPv6 notation of it: a listener bound to :: must not lock its load  *)
(* balancer out.                                                           *)
(***************************************************************************)
PeerListedEitherWay ==
    LET Twin(net) == [family |-> "v6", prefix |-> Mapped(net.prefix)]
        Listed == \E net \in nets :
            InNet(net, peer) \/ (net.family = "v4" /\ InNet(Twin(net), peer))
    IN  pc \in {"handshake", "rejected"} => (pc = "handshake" <=> Listed)

(***************************************************************************)
(* The user and database PostgreSQL takes from the rewritten message are   *)
(* the ones Guardian judged, whatever the client's parameters look like:   *)
(* repeated, empty, unpaired or unterminated.  Guardian compares all of a  *)
(* name that is longer than NAMEDATALEN - 1 bytes, and PostgreSQL goes on  *)
(* with that many bytes of it: the two then agree on every whole character *)
(* of those bytes, and on no more.                                         *)
(***************************************************************************)
JudgedAsRead ==
    LET AsJudged(used, judged) ==
            \/ Lossy(used) = judged
            \/ /\ WordBytes(judged) > NameLimit /\ WordBytes(used) = NameLimit
               /\ \A k \in DOMAIN used : used[k] # "invalid" => used[k] = judged[k]
    IN  pc = "started" =>
            PgLayoutOK(out) /\ AsJudged(PgUser(out), user) /\ AsJudged(PgDb(out), db)

(***************************************************************************)
(* A message PostgreSQL would have taken as it was is still taken, with    *)
(* the same parameters in the same order but for application_name.         *)
(***************************************************************************)
OthersUntouched ==
    LET before == PgPairs(payload)
        after == PgPairs(out)
        Named(p) == p.key = ApplicationName
    IN  pc = "started" /\ PgLayoutOK(payload) =>
            /\ Len(before) =< Len(after)
            /\ \A k \in DOMAIN before :
                  after[k].key = before[k].key /\ (~Named(before[k]) => after[k] = before[k])
            /\ \A k \in Len(before) + 1 .. Len(after) : Named(after[k])

(***************************************************************************)
(* The application_name that pg_stat_activity shows ends with the client's *)
(* address, uncut, although PostgreSQL escapes and cuts what it is sent.   *)
(***************************************************************************)
AddressStored == pc = "started" => IsSuffix(ip.text, PgApplicationName(out))

(***************************************************************************)
(* No more of the client's own name is given up than the address needs:    *)
(* what precedes the suffix is the longest run of whole characters for     *)
(* which PostgreSQL still has room.                                        *)
(***************************************************************************)
LongestNameKept ==
    LET name == Lossy(LastValue(Pairs(payload), ApplicationName))
        Fits(n) == Len(PgClean(name)[n]) + Len(Suffix(ip.text)) =< NameLimit
        n == Max({n \in 0 .. Len(name) : Fits(n)})
    IN  pc = "started" /\ FoundAppName(Pairs(payload)) =>
            LastValue(PgPairs(out), ApplicationName) = SubSeq(name, 1, n) \o Suffix(ip.text)

(***************************************************************************)
(* The rewritten message is longer than the client's by no more than the   *)
(* suffix of each application_name, or by the one parameter added (and by  *)
(* what the replacement of bytes that are not UTF-8 takes): that far below *)
(* the limit on a startup message it is still within it for PostgreSQL.    *)
(***************************************************************************)
GrowthBounded ==
    LET pairs == Pairs(payload)
        Replaced(w) == Total([k \in DOMAIN w |-> IF w[k] = "invalid" THEN 2 ELSE 0])
        Grows(p) == IF NamesApplication(p) THEN Len(Suffix(ip.text)) + Replaced(p.val) ELSE 0
        growth == IF FoundAppName(pairs) THEN Total([k \in DOMAIN pairs |-> Grows(pairs[k])])
                  ELSE Len(ApplicationName) + Len(ip.text) + 3
    IN  pc = "started" /\ PgLayoutOK(payload) => Bytes(out) =< Bytes(payload) + growth

(***************************************************************************)
(* A session exists only for an address that is one and under the first    *)
(* rule that holds in full, its window read as so many minutes from its    *)
(* start, around midnight if need be.                                      *)
(***************************************************************************)
FirstRuleDecides ==
    LET Inside(w) == \E k \in Minutes :
            /\ (w.start + k) % Day = now
            /\ k =< (w.end - w.start) % Day
        Holds(rule) ==
            /\ rule.ips = {} \/ \E net \in UNION rule.ips : InNet(net, ip)
            /\ rule.users = {} \/ user \in UNION rule.users
            /\ rule.databases = {} \/ db \in UNION rule.databases
            /\ rule.time_range = {} \/ \E w \in rule.time_range : w.valid /\ Inside(w)
        First(r) == Holds(rules[r]) /\ \A s \in 1 .. r - 1 : ~Holds(rules[s])
    IN  pc = "started" =>
            /\ Parses(ip)
            /\ \/ \E r \in DOMAIN rules : First(r) /\ ctx = OfRule(rules[r]) /\ ctx.action # "DENY"
               \/ ctx = NoMatch /\ \A r \in DOMAIN rules : ~Holds(rules[r])

(***************************************************************************)
(* Guardian does not normalise addresses, so an IPv4 client may meet       *)
(* another verdict in the other notation of its address.  It cannot if in  *)
(* every list of blocks (1) what an IPv4 block holds is, in the other      *)
(* notation, in one of the list's IPv6 blocks, and (2) an IPv6 block that  *)
(* holds IPv4-mapped addresses, ::/0 for one, holds none that an IPv4      *)
(* block of the list does not.  IPv6 blocks of other addresses are free.   *)
(***************************************************************************)
NotationDoesNotMatter ==
    LET HoldsMapped(net) ==
            IsPrefix(MappedPrefix, net.prefix) \/ IsPrefix(net.prefix, MappedPrefix)
        BothWays(list) ==
            /\ \A net \in list : net.family = "v4" =>
                  \E other \in list : other.family = "v6" /\ IsPrefix(other.prefix, Mapped(net.prefix))
            /\ \A net \in list : net.family = "v6" /\ HoldsMapped(net) =>
                  \E other \in list :
                      /\ other.family = "v4"
                      /\ other.prefix = <<>> \/ IsPrefix(Mapped(other.prefix), net.prefix)
        twin == IF IsMapped(ip) THEN Normalise(ip) ELSE [family |-> "v6", bits |-> Mapped(ip.bits)]
        First(a) == {r \in DOMAIN rules :
            /\ Matches(rules[r], a, user, db, now)
            /\ \A q \in 1 .. r - 1 : ~Matches(rules[q], a, user, db, now)}
    IN  /\ pc = "judged" /\ (ip.family = "v4" \/ IsMapped(ip))
        /\ \A r \in DOMAIN rules : \A list \in rules[r].ips : BothWays(list)
        =>  ctx = IF First(twin) = {} THEN NoMatch ELSE OfRule(rules[CHOOSE r \in First(twin) : TRUE])

(***************************************************************************)
(* In an inspected session a statement is refused if one of its words, cut *)
(* at every byte that cannot be part of an identifier, is a blocked one in *)
(* either case, and only then if every blocked entry is one word.          *)
(***************************************************************************)
WholeWordsRefused ==
    LET IsWord(a, b) ==
            /\ \A k \in a .. b : query[k] \in IdentifierBytes
            /\ a = 1 \/ query[a - 1] \notin IdentifierBytes
            /\ b = Len(query) \/ query[b + 1] \notin IdentifierBytes
        HasWord(w) == \E a, b \in 1 .. Len(query) :
            a =< b /\ IsWord(a, b) /\ Fold(SubSeq(query, a, b)) = w
        tokens == ctx.block_queries \cup ctx.block_tables
        Blocked == \E t \in tokens : HasWord(Fold(t))
    IN  pc = "session" =>
            /\ ctx.action = "ALLOW" => passed
            /\ ctx.action # "ALLOW" /\ Blocked => ~passed
            /\ ~passed /\ tokens \subseteq Seq(IdentifierBytes) => Blocked
=============================================================================
