----------------------------- MODULE MCListener -----------------------------
(***************************************************************************)
(* Listener with four descriptors: two sessions use them up, and so do a   *)
(* session and two connections still in their handshake.                   *)
(***************************************************************************)
EXTENDS Listener

FourClients == 1 .. 4

MCMappedPrefix == <<1>>
Block(family, prefix) == [family |-> family, prefix |-> prefix]
MCDefaultTrusted == <<Block("v4", <<1>>), Block("v6", <<0, 0, 1>>)>>

\* Lists that are absent, in order, sparse, malformed and empty.
MCTrusted == { {}, {<<Block("v4", <<0>>)>>}, {<<Blank, Block("v6", <<>>), Blank, Block("v4", <<>>)>>},
               {<<Block("v4", <<0>>), NotABlock>>}, {<<Blank>>} }

\* At most one timeout is set: to a number, to zero or to something else.
MCSecs ==
    LET unset == [t \in Timeouts |-> {}]
    IN  {unset} \cup {[unset EXCEPT ![t] = {raw}] :
            t \in Timeouts, raw \in [number : {TRUE}, n : {0, 7}] \cup [number : {FALSE}, n : {0}]}

\* A rule in order, one with a misspelled field and a block that is none, one
\* without an action, and one whose time_range is not a text.
Complete == [name |-> "sensible", action |-> "sensible", block_queries |-> "sensible"]
Misspelled == [name |-> "sensible", action |-> "sensible", ips |-> "meaningless", block_querys |-> "sensible"]
Actionless == [name |-> "sensible", users |-> "sensible"]
Mistyped == [name |-> "sensible", action |-> "sensible", time_range |-> "mistyped"]

MCFiles ==
    [state : {"absent", "unreadable", "malformed"}, rules : {<<>>}]
    \cup [state : {"rules"}, rules : {<<>>, <<Complete, Misspelled>>, <<Complete, Actionless>>, <<Mistyped>>}]

MCEnvironments ==
    [trusted : MCTrusted, secs : MCSecs, file : MCFiles, ssl : {"unset", "True", "yes"}]
=============================================================================
