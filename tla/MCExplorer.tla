----------------------------- MODULE MCExplorer -----------------------------
EXTENDS Explorer, TLC

CONSTANTS
    moon, mars, ash, rocket,          \* topics and stories
    s1, s2a, s2b, s3, s4a, s4b,
    c1, c2,
    hero, snack,                      \* slots
    Kestrel, Pip,                \* values
    the, laser, photo

MCParent == (moon :> NoTopic) @@ (mars :> moon)
MCEdges == {<<moon, mars>>}
MCSteps == {-1, 0, 1}
MCLinks == {<<s1, s2a>>, <<s1, s2b>>, <<s2a, s3>>, <<s2b, s3>>, <<s3, s4a>>, <<s3, s4b>>}
MCRow == (s1 :> 1) @@ (s2a :> 2) @@ (s2b :> 2) @@ (s3 :> 3) @@ (s4a :> 4) @@ (s4b :> 4)

MCNext == (s1 :> c1) @@ (s2a :> s3) @@ (s2b :> s3) @@ (s3 :> c2) @@
          (s4a :> TheEnd) @@ (s4b :> TheEnd)
Opt(to, sets, says, words) ==
    [to |-> to, sets |-> [k \in Slot |-> IF k \in DOMAIN sets THEN sets[k] ELSE Keep],
     says |-> says, words |-> says \cup words]
NoSets == [k \in {} |-> Keep]

\* A story with two names to give, both of which some option sets (as in
\* story.the_moon.age9to10, whose rocket_name and eclipse_snack are).
Rocket ==
    [topic |-> moon, start |-> s1, next |-> MCNext,
     options |-> (c1 :> <<Opt(s2a, hero :> Kestrel, {laser}, {the}),
                          Opt(s2b, NoSets, {the, photo}, {})>>) @@
                 (c2 :> <<Opt(s4a, NoSets, {the, laser}, {}),
                          Opt(s4b, snack :> Kestrel, {photo}, {the})>>),
     asks |-> <<hero, snack>>, default |-> [k \in Slot |-> Pip],
     recorded |-> TRUE, record |-> Required]
\* A story with nothing to name, and without the weights in its decision record.
Ash ==
    [Rocket EXCEPT !.topic = moon, !.asks = << >>, !.record = Required \ {"weights"},
                   !.options[c2] = <<Opt(s4a, NoSets, {laser}, {}), Opt(s4b, NoSets, {photo}, {})>>]
NoLibrary == [s \in {} |-> Rocket]
MCLibrary == (rocket :> Rocket) @@ (ash :> Ash)
=============================================================================
