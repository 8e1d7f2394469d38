------------------------------- MODULE Trust -------------------------------
(***************************************************************************)
(* Who may send a PROXY header (trust.rs): the list in TRUSTED_PROXIES and *)
(* the test of a peer's address.  A list is the sequence of what stands    *)
(* between its commas: nothing, a block or address, or something else.  A  *)
(* Result is the set of the value it holds, empty for an error.            *)
(***************************************************************************)
EXTENDS Cidr

CONSTANT DefaultTrusted     \* DEFAULT_TRUSTED_PROXIES

Blank == [family |-> "blank", prefix |-> <<>>]

ParseTrusted(spec) ==
    LET entries == ToSet(spec) \ {Blank}
    IN  IF entries = {} \/ NotABlock \in entries THEN {} ELSE {entries}

\* An Option of the environment's text is a set of at most one list.
TrustedFromEnv(var) == ParseTrusted(IF var = {} THEN DefaultTrusted ELSE CHOOSE spec \in var : TRUE)

Normalise(ip) ==
    IF IsMapped(ip)
    THEN [family |-> "v4", bits |-> SubSeq(ip.bits, Len(MappedPrefix) + 1, Len(ip.bits))]
    ELSE [family |-> ip.family, bits |-> ip.bits]

\* Mutant: the peer's address is taken as it is written.
IsTrustedAsWritten(nets, peer) == \E net \in nets : InNet(net, peer)

IsTrusted(nets, peer) == \E net \in nets : InNet(net, peer) \/ InNet(net, Normalise(peer))
=============================================================================
