----------------------------- MODULE MCApprovals -----------------------------
(***************************************************************************)
(* Approvals with two people.  One policy asks for the approval of both,   *)
(* the other for that of anybody but the starter, within a timeout.        *)
(***************************************************************************)
EXTENDS Approvals

People == {"ann", "bob"}

Policy(approvers, required, different, timeout) ==
  [approvers |-> approvers, required |-> required,
   different |-> different, timeout |-> timeout]

Both == Policy(People, 2, FALSE, FALSE)
AnyOther == Policy({}, 0, TRUE, TRUE)

SomePolicies == {Both, AnyOther}
=============================================================================
