\* The map, with no story to play.
SPECIFICATION FairSpec
CONSTANTS
    moon = moon  mars = mars  ash = ash  rocket = rocket
    s1 = s1  s2a = s2a  s2b = s2b  s3 = s3  s4a = s4a  s4b = s4b
    c1 = c1  c2 = c2  hero = hero  snack = snack
    Kestrel = Kestrel  Pip = Pip
    the = the  laser = laser  photo = photo
    Topic = {moon, mars}
    Category = {moon}
    First = moon
    parent <- MCParent
    edges <- MCEdges
    NoTopic = NoTopic
    Nowhere = Nowhere
    CLICK_SLOP = 1
    Turn = 2
    MaxPitch = 1
    MaxZoom = 2
    MaxTimers = 2
    Steps <- MCSteps
    Story = {}
    NoStory = NoStory
    Segment = {s1, s2a, s2b, s3, s4a, s4b}
    Choice = {c1, c2}
    Slot = {hero, snack}
    Name = {Kestrel, Pip}
    Word = {the, laser, photo}
    TheEnd = TheEnd
    Keep = Keep
    library <- NoLibrary
    links <- MCLinks
    row <- MCRow
INVARIANTS
    TypeOK
    IdleIsCurrent
    OneTopic
PROPERTIES
    SteadyClickCounts
    DragIsNotClick
    TurnsOnlyWhenHeld
    ShownInTheEnd
