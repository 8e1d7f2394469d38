---------------------------- MODULE MCAdmission ----------------------------
(***************************************************************************)
(* Admission with a day of five minutes, addresses of up to three bits and  *)
(* an application_name of at most eleven stored characters: beside the     *)
(* suffix there is room for a character that costs four.                   *)
(***************************************************************************)
EXTENDS Admission

Address(family, bits, text) == [family |-> family, bits |-> bits, text |-> text]

\* The IPv6 addresses that begin with 1 are the IPv4 ones.
MCMappedPrefix == <<1>>

MCAddresses == {
    Address("v4", <<0, 1>>, <<".">>),
    Address("v4", <<1, 0>>, <<".", ".">>),
    Address("v6", <<0, 1, 1>>, <<".", ".", ".">>),
    Address("v6", <<1, 0, 1>>, <<".", ".", ".">>),
    Address("none", <<>>, <<"b", "a", "d">>) }

KeyVal(keys, vals) == {<<k, v>> : k \in keys, v \in vals}

MCPairs ==
    KeyVal({User}, {<<>>, <<"a">>, <<"b">>, <<"invalid">>})
    \cup KeyVal({Database}, {<<>>, <<"b">>})
    \cup KeyVal({ApplicationName},
                {<<>>, <<"a", "cedilla", "b">>, <<"tab", "a", "a">>, <<"invalid">>,
                 <<"a", "b", "a", "b", "a", "b", "a", "b">>})
    \cup KeyVal({<<>>}, {<<>>, <<"u">>})
    \cup KeyVal({<<"o">>}, {<<"a">>})

\* Up to three pairs and every way to end: properly, one or two NULs short,
\* with a name that has no value, and with parameters behind the terminator.
MCPayloads ==
    {FlattenSeq(ps) \o end :
        ps \in UNION {[1 .. n -> MCPairs] : n \in 0 .. 3},
        end \in {<<>>, << <<>> >>, << <<>>, <<>> >>, << <<"u">>, <<>> >>,
                 << <<>>, <<"u">>, <<"b">>, <<>>, <<>> >>}} \ {<<>>}

\* Names at PostgreSQL's limit and beyond it, cut between and inside characters.
As(n) == [k \in 1 .. n |-> "a"]
MCLongNames ==
    {FlattenSeq(ps) \o << <<>>, <<>> >> :
        ps \in [1 .. 2 -> KeyVal({User, Database},
                {<<"b">>, As(11), As(12), As(10) \o <<"cedilla", "b">>, As(9) \o <<"cedilla">>,
                 As(10) \o <<"invalid">>, As(9) \o <<"invalid", "replacement">>})]}

AllPayloads == MCPayloads \cup MCLongNames

V4(prefix) == [family |-> "v4", prefix |-> prefix]
V6(prefix) == [family |-> "v6", prefix |-> prefix]

MCPeers ==
    [family : {"v4"}, bits : [1 .. 2 -> {0, 1}]] \cup [family : {"v6"}, bits : [1 .. 3 -> {0, 1}]]
MCAllowlists == {
    {V4(<<0>>), V6(<<0, 0, 1>>)}, {V4(<<1, 1>>)}, {V6(<<1>>)}, {V6(<<0>>), V4(<<>>)} }
MCDefaultTrusted == <<V4(<<0>>)>>

Window(s, e) == [valid |-> TRUE, start |-> s, end |-> e]
Malformed == [valid |-> FALSE, start |-> 0, end |-> 4]

Rule(action, ips, users, dbs, range, queries, tables) ==
    [action |-> action, ips |-> ips, users |-> users, databases |-> dbs,
     time_range |-> range, block_queries |-> queries, block_tables |-> tables]

\* A malformed window, one that wraps, one that does not and one of a minute;
\* lists that are absent, empty and present.  In the last ruleset every list
\* has both notations, one of them beside an IPv6 block of its own and one as
\* 0.0.0.0/0 and ::/0.
MCRulesets == {
    << Rule("DENY", {}, {{<<"a">>}}, {}, {Malformed}, {}, {}),
       Rule("DENY", {{V4(<<0>>)}}, {}, {}, {Window(4, 1)}, {}, {}),
       Rule("INSPECT", {{V4(<<>>)}}, {}, {{<<"a">>, <<"b">>}}, {}, {{<<"d">>}}, {{<<"D", "x">>}}),
       Rule("ALLOW", {{V6(<<0, 1>>), V4(<<1, 0>>)}}, {{<<"a">>}}, {}, {Window(1, 3)}, {}, {}) >>,
    << Rule("ALLOW", {{}}, {}, {}, {}, {}, {}),
       Rule("INSPECT", {}, {{<<"a">>, <<"replacement">>}}, {{<<"b">>, <<"replacement">>}},
            {Window(2, 2)}, {}, {{<<"x", "_">>}}) >>,
    << Rule("DENY", {{V4(<<1>>), V6(<<1, 1>>), V6(<<0, 1>>), NotABlock}}, {}, {}, {}, {}, {}),
       Rule("ALLOW", {{V4(<<0, 1>>), V6(<<1, 0, 1>>)}}, {{<<"a">>}}, {}, {}, {}, {}),
       Rule("DENY", {{V4(<<>>), V6(<<>>)}}, {}, {{<<"b">>}}, {}, {}, {}) >> }

MCQueries == UNION {[1 .. n -> {"d", "D", "x", "_", ";"}] : n \in 1 .. 4}
=============================================================================
