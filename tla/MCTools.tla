------------------------------ MODULE MCTools ------------------------------
(***************************************************************************)
(* Tools on a small instance: one cheap price and one metered one, two     *)
(* subscription items, and lists of up to two of the item changes below.   *)
(***************************************************************************)
EXTENDS Tools

MCUnitAmount == [p \in Prices |-> IF p \in Metered THEN 0 ELSE 1]

MCItems == {
  [price |-> "cheap"],
  [price |-> "cheap", quantity |-> 2],
  [price |-> "metered"],
  [price |-> "cheap", id |-> "i1"],
  [price |-> "cheap", id |-> "i1", quantity |-> 2],
  [price |-> "metered", id |-> "i2"],
  [price |-> "cheap", id |-> "i1", deleted |-> TRUE],
  [price |-> "metered", id |-> "i2", deleted |-> TRUE]}

MCItemLists == BoundedSeq(MCItems, 2)

\* Once with a threshold of 0, once without.
MCConfigs == {[refund |-> 2, cancel |-> 2, charge |-> 3], [refund |-> 0, cancel |-> 1, charge |-> 0]}
=============================================================================
