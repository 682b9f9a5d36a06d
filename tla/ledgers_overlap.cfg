SPECIFICATION Spec
CONSTANTS
    moon = moon  other = other  space = space  ocean = ocean  ngss = ngss
    happy = happy  deepener = deepener  widener = widener  calm = calm
    Key = {moon}
    Kind = {other, space, ocean}
    Other = other
    Link = {ngss}
    Sentiment = {happy}
    Value = {deepener, widener, calm}
    Null = Null
    Visit <- MCVisit
    Learned <- MCLearned
    Told <- MCTold
    Worker = {w1, w2, w3}
    MaxCalls = 4
SYMMETRY Workers
INVARIANTS
    SumsUpLog
    RowsAreBacked
PROPERTY
    NothingForgotten
\* It stops when MaxCalls upserts have been made and every row is deleted.
CHECK_DEADLOCK FALSE
