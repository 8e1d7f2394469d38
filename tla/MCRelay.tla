------------------------------ MODULE MCRelay ------------------------------
(***************************************************************************)
(* Relay with an inspection size of 2 bytes and a transfer buffer of 3:    *)
(* a small statement Guardian allows, one it refuses, the same statement   *)
(* exactly at the inspection size, and a bulk message of two chunks.       *)
(***************************************************************************)
EXTENDS Relay

SmallAllowed == [type |-> "Q", len |-> 5, forbidden |-> FALSE]
SmallRefused == [type |-> "P", len |-> 5, forbidden |-> TRUE]
AtLimit      == [type |-> "Q", len |-> 6, forbidden |-> TRUE]
Bulk         == [type |-> "other", len |-> 8, forbidden |-> FALSE]
NoPayload    == [type |-> "other", len |-> 0, forbidden |-> FALSE]

AllShapes == {SmallAllowed, SmallRefused, AtLimit, Bulk, NoPayload}
FewShapes == {SmallRefused, Bulk}
=============================================================================
