-------------------------------- MODULE Cidr --------------------------------
(***************************************************************************)
(* Addresses and CIDR blocks as the cidr crate and std::net see them.  An  *)
(* address is a family and a sequence of bits, a block a family and a      *)
(* prefix.  An IPv4 address has a second notation, the IPv6 address that   *)
(* puts its bits behind a fixed prefix (::ffff:0:0/96).                    *)
(***************************************************************************)
EXTENDS Sequences, SequencesExt

CONSTANT MappedPrefix

Nets == [family : {"v4", "v6", "none"}, prefix : Seq({0, 1})]

\* A text that is not a block; it contains no address.
NotABlock == [family |-> "none", prefix |-> <<>>]

\* IpCidr::contains: a block holds addresses of its own family only.
InNet(net, ip) ==
    /\ net.family = ip.family
    /\ IsPrefix(net.prefix, ip.bits)

Mapped(bits) == MappedPrefix \o bits

\* Ipv6Addr::to_ipv4_mapped.
IsMapped(ip) == ip.family = "v6" /\ IsPrefix(MappedPrefix, ip.bits)
=============================================================================
