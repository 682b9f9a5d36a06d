---------------------------- MODULE MCCapability ----------------------------
(***************************************************************************)
(* Two items: one has an observation of every status, not in the order of  *)
(* their times, the other has one.                                         *)
(***************************************************************************)
EXTENDS Capability

CONSTANTS emotions, rules

Obs(id, i, s, t) == [id |-> id, item |-> i, status |-> s, at |-> t]

Some == {Obs(1, emotions, "emerging", 2), Obs(2, emotions, "demonstrated", 1),
         Obs(3, emotions, "not_observed", 3), Obs(4, rules, "demonstrated", 1)}
=============================================================================
