--------------------------- MODULE MCConversation ---------------------------
(***************************************************************************)
(* Two conversations, two turns and two sessions at a time.                *)
(***************************************************************************)
EXTENDS Conversation, TLC

Interchangeable == Permutations(Conv) \cup Permutations(Turn) \cup Permutations(Worker)
=============================================================================
