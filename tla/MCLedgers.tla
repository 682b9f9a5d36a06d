----------------------------- MODULE MCLedgers -----------------------------
EXTENDS Ledgers, TLC

CONSTANTS moon, other, space, ocean, ngss, happy, deepener, widener, calm

Sight(kind, link, sentiment, depth, curiosity, mentions_delta, origin) ==
    [kind |-> kind, link |-> link, sentiment |-> sentiment, depth |-> depth,
     curiosity |-> curiosity, mentions_delta |-> mentions_delta, origin |-> origin]

\* A deep visit without curiosity, a shallow and curious one, and one with nothing but its key.
MCVisit ==
    {Sight(space, ngss, Null, 2, 0, 2, "child"),
     Sight(ocean, Null, happy, 1, 1, 1, "buju"),
     Sight(other, Null, Null, 0, Null, 0, "child")}

\* The curiosity mode alone, and the style with its confidence and the bandit's state.
MCLearned ==
    {"curiosity_mode_by_kind" :> deepener,
     ("preferred_style" :> calm) @@ ("preferred_style_confidence" :> widener) @@
     ("voice_style_scores" :> calm),
     ("preferred_style" :> Null) @@ ("preferred_style_confidence" :> Null)}

MCTold == {[summary |-> calm, session_count |-> 1], [summary |-> widener, session_count |-> 1],
           [summary |-> widener, session_count |-> 2]}

Workers == Permutations(Worker)
=============================================================================
