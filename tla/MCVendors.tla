------------------------------ MODULE MCVendors ------------------------------
(***************************************************************************)
(* Instances of Vendors for TLC.                                           *)
(***************************************************************************)
EXTENDS Vendors, TLC

CONSTANTS v1, v2, u1, u2, s1, s2

TwoValues == {v1, v2}
Users == {u1, u2}
TwoSlots == {s1, s2}
Fields == {"iban", "tax_id"}

\* The change requests of one field, and patches that set both.
OneField == [fields |-> {"iban"}, versions |-> 3, changes |-> 2]
BothFields == [fields |-> Fields, versions |-> 2, changes |-> 1]
EveryWorkload == {OneField, BothFields}

Interchangeable == Permutations(Slot) \cup Permutations(User) \cup Permutations(Value)
=============================================================================
