------------------------------ MODULE Guardian ------------------------------
(***************************************************************************)
(* Guardian (guardian.rs): which rule a connection matches and whether a   *)
(* statement passes.  An Option of the code is a set of at most one        *)
(* element; an entry of a rule's ips that is no block matches nothing.  A  *)
(* time of day is its number of minutes, which orders times as the code's  *)
(* HH:MM strings are ordered.                                              *)
(***************************************************************************)
EXTENDS Integers, Cidr

CONSTANT Day    \* minutes in a day

ASSUME DayAssumption == Day \in Nat \ {0}

Minutes == 0 .. Day - 1

\* A time_range: is_hhmm accepts both ends, or it is malformed.
Windows == [valid : BOOLEAN, start : Minutes, end : Minutes]

Options(set) == {opt \in SUBSET set : \A x, y \in opt : x = y}

\* Rule, but for its name.  A Vec is the set of its elements.
Rules ==
    [action : {"ALLOW", "INSPECT", "DENY"},
     ips : Options(SUBSET Nets), users : Options(SUBSET Seq(STRING)),
     databases : Options(SUBSET Seq(STRING)), time_range : Options(Windows),
     block_queries : Options(SUBSET Seq(STRING)), block_tables : Options(SUBSET Seq(STRING))]

\* Mutant: a window that wraps midnight never matches (AUDIT.md #30).
TimeInRangeNoWrap(now, w) == w.valid /\ now >= w.start /\ now =< w.end

TimeInRange(now, w) ==
    /\ w.valid
    /\ IF w.start =< w.end
       THEN now >= w.start /\ now =< w.end
       ELSE now >= w.start \/ now =< w.end

\* Mutant: the entries of ips are parsed as IPv4 blocks.
MatchesV4Only(rule, ip, user, db, now) ==
    /\ \A nets \in rule.ips : \E net \in nets : net.family = "v4" /\ InNet(net, ip)
    /\ \A users \in rule.users : user \in users
    /\ \A dbs \in rule.databases : db \in dbs
    /\ \A w \in rule.time_range : TimeInRange(now, w)

\* The four checks of the loop body, each left by continue.
Matches(rule, ip, user, db, now) ==
    /\ \A nets \in rule.ips : \E net \in nets : InNet(net, ip)
    /\ \A users \in rule.users : user \in users
    /\ \A dbs \in rule.databases : db \in dbs
    /\ \A w \in rule.time_range : TimeInRange(now, w)

Parses(ip) == ip.family \in {"v4", "v6"}

\* The contexts that no rule decides: an address that is none, and no match.
Context(action, queries, tables) ==
    [action |-> action, block_queries |-> queries, block_tables |-> tables]

Unparsed == Context("DENY", {}, {})
NoMatch == Context("INSPECT", {}, {})
OfRule(rule) ==
    Context(rule.action, UNION rule.block_queries, UNION rule.block_tables)

-----------------------------------------------------------------------------
(* Statements: sequences of characters.                                    *)

\* "high" is a byte from 0x80 up.
IdentifierBytes == {"d", "D", "x", "X", "_", "$", "high"}
Lower(c) == CASE c = "D" -> "d" [] c = "X" -> "x" [] OTHER -> c
Fold(w) == [i \in DOMAIN w |-> Lower(w[i])]

\* Mutant: only the byte before a match is looked at.
ContainsTokenPrefix(q, token) ==
    /\ token # <<>>
    /\ \E start \in 0 .. Len(q) - Len(token) :
          /\ Fold(SubSeq(q, start + 1, start + Len(token))) = Fold(token)
          /\ ~(start > 0 /\ q[start] \in IdentifierBytes)

ContainsToken(q, token) ==
    /\ token # <<>>
    /\ \E start \in 0 .. Len(q) - Len(token) :
          LET end == start + Len(token) IN
          /\ Fold(SubSeq(q, start + 1, end)) = Fold(token)
          /\ ~(start > 0 /\ q[start] \in IdentifierBytes)
          /\ ~(end < Len(q) /\ q[end + 1] \in IdentifierBytes)

CheckQuery(q, ctx) ==
    \/ ctx.action = "ALLOW"
    \/ /\ ctx.action # "DENY"
       /\ ~\E token \in ctx.block_queries \cup ctx.block_tables : ContainsToken(q, token)
=============================================================================
