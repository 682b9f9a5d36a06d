------------------------- MODULE MCDatastoreFactory -------------------------
(***************************************************************************)
(* Two datastore types on one connection string: the keys differ, the      *)
(* engine and the schema are shared.                                       *)
(***************************************************************************)
EXTENDS DatastoreFactory

CONSTANTS profile, facts, db

OneDatabase == [k \in Key |-> db]
=============================================================================
