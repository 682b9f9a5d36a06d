----------------------------- MODULE MCRetention -----------------------------
(***************************************************************************)
(* Instances of Retention for TLC: the tables that requests write.         *)
(***************************************************************************)
EXTENDS Retention

\* A table of every kind that the job treats in its own way. The first child
\* has tables that stand in its way (a story in that of its conversation, a
\* message in that of its session), so also in the way of the second child,
\* which has one that is scrubbed and whose scrub swallows errors.
OneOfEachKind ==
    <<{"conversations", "stories", "parent_chat_sessions", "parent_chat_messages"},
      {"telemetry_events"}>>

Stories == <<{"conversations", "stories"}>>
Conversations == <<{"conversations"}, {"conversations"}>>
=============================================================================
