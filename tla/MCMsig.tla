------------------------------- MODULE MCMsig -------------------------------
(* Small instances of Msig for TLC: alice and bob are asked, carol only    *)
(* looks on; one transaction needs both of them, or only alice once the    *)
(* permission has been changed.                                            *)
EXTENDS Msig

CONSTANTS alice, bob, carol, A, B, t, u, n

MCActor == A :> alice @@ B :> bob
MCExpiration == t :> 1 @@ u :> 1
MCAuthorities ==
  {t :> {{A, B}} @@ u :> {{A}, {A, B}}, t :> {{A}, {A, B}} @@ u :> {{B}, {A, B}}}
MCDistinct == {<<A, B>>, <<A>>}
MCRepeated == {<<A, A>>}
MCLegacy == <<alice, n>> :> [trx |-> t, approvals |-> [requested |-> <<B>>, provided |-> <<A>>]]
MCNoLegacy == [k \in {} |-> {}]
=============================================================================
