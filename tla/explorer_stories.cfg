\* The stories, with a map that cannot be turned.
SPECIFICATION Spec
CONSTANTS
    moon = moon  mars = mars  ash = ash  rocket = rocket
    s1 = s1  s2a = s2a  s2b = s2b  s3 = s3  s4a = s4a  s4b = s4b
    c1 = c1  c2 = c2  hero = hero  snack = snack
    Kestrel = Kestrel  Pip = Pip
    the = the  laser = laser  photo = photo
    Topic = {moon, mars}
    Category = {moon}
    First = moon
    parent <- MCParent
    edges <- MCEdges
    NoTopic = NoTopic
    Nowhere = Nowhere
    CLICK_SLOP = 0
    Turn = 1
    MaxPitch = 0
    MaxZoom = 1
    MaxTimers = 1
    Steps = {}
    Story = {rocket, ash}
    NoStory = NoStory
    Segment = {s1, s2a, s2b, s3, s4a, s4b}
    Choice = {c1, c2}
    Slot = {hero, snack}
    Name = {Kestrel, Pip}
    Word = {the, laser, photo}
    TheEnd = TheEnd
    Keep = Keep
    library <- MCLibrary
    links <- MCLinks
    row <- MCRow
INVARIANTS
    ScreenIsCurrent
    TabIsShown
    SlotLifetimes
    BraidIsHonest
PROPERTIES
    SayWordAnswers
    PlayingIsWalking
