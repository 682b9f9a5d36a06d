------------------------------- MODULE Topics -------------------------------
(***************************************************************************)
(* The topics the explorer page carries (DATA.topics, DATA.edges and       *)
(* DATA.categories in explorer.js).                                        *)
(***************************************************************************)
CONSTANTS
    Topic,
    NoTopic,   \* null
    Category,  \* the topics at the top
    First,     \* DATA.categories[0]
    parent,    \* topic |-> the category it is under, or NoTopic
    edges      \* pairs of topics

ASSUME TopicsAssumption ==
    /\ First \in Category /\ Category \subseteq Topic /\ NoTopic \notin Topic
    /\ parent \in [Topic -> Category \cup {NoTopic}]
    /\ \A t \in Topic : parent[t] = NoTopic <=> t \in Category
    /\ edges \subseteq Topic \X Topic
=============================================================================
