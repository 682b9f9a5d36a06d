------------------------- MODULE ConversationProofs -------------------------
(***************************************************************************)
(* What overlapping sessions leave of conversations and turns, for any     *)
(* number of sessions, conversations and turns.                            *)
(***************************************************************************)
EXTENDS Conversation, TLAPS

(***************************************************************************)
(* Flushing a row over another keeps it a row, and each column is either   *)
(* the one that is there or the one that was set.                          *)
(***************************************************************************)
LEMMA FlushedRow ==
  ASSUME NEW row \in Row, NEW read \in Row, NEW set \in Row
  PROVE  /\ Flushed(row, read, set) \in Row
         /\ Flushed(row, read, set).state
               = IF set.state = read.state THEN row.state ELSE set.state
         /\ Flushed(row, read, set).end
               = IF set.end = read.end THEN row.end ELSE set.end
         /\ Flushed(row, read, set).archived
               = IF set.archived = read.archived THEN row.archived ELSE set.archived
<1> DEFINE f == Flushed(row, read, set)
<1>1. DOMAIN row = {"state", "end", "last", "archived"}
  BY DEF Row
<1>2. f = [state |-> IF set.state = read.state THEN row.state ELSE set.state,
           end |-> IF set.end = read.end THEN row.end ELSE set.end,
           last |-> IF set.last = read.last THEN row.last ELSE set.last,
           archived |-> IF set.archived = read.archived THEN row.archived ELSE set.archived]
  BY <1>1 DEF Flushed
<1>3. QED
  BY <1>2 DEF Row

LEMMA FlushedTurn ==
  ASSUME NEW row \in TurnRow, NEW read \in TurnRow, NEW set \in TurnRow,
         set.conv = read.conv
  PROVE  /\ Flushed(row, read, set) \in TurnRow
         /\ Flushed(row, read, set).conv = row.conv
<1> DEFINE f == Flushed(row, read, set)
<1>1. DOMAIN row = {"conv", "redacted"}
  BY DEF TurnRow
<1>2. f = [conv |-> row.conv,
           redacted |-> IF set.redacted = read.redacted THEN row.redacted ELSE set.redacted]
  BY <1>1 DEF Flushed
<1>3. QED
  BY <1>2 DEF TurnRow

LEMMA NoRows == /\ Absent \notin Row /\ Gone \notin Row /\ Absent # Gone
                /\ Absent \notin TurnRow /\ Gone \notin TurnRow
<1>1. DOMAIN Absent = {"state"} /\ DOMAIN Gone = {"state"}
  BY DEF Absent, Gone
<1>2. \A r \in Row : DOMAIN r = {"state", "end", "last", "archived"}
  BY DEF Row
<1>3. \A r \in TurnRow : DOMAIN r = {"conv", "redacted"}
  BY DEF TurnRow
<1>4. Absent.state = "absent" /\ Gone.state = "gone"
  BY DEF Absent, Gone
<1>5. "end" \notin {"state"} /\ "conv" \notin {"state"}
  OBVIOUS
<1>6. QED
  BY <1>1, <1>2, <1>3, <1>4, <1>5

Rows == UNION {[C -> Row] : C \in SUBSET Conv}
Sessions == UNION {Session(C) : C \in SUBSET Conv}

LEMMA RowsOf ==
  /\ \A r \in Rows : /\ DOMAIN r \subseteq Conv
                     /\ \A c \in DOMAIN r : r[c] \in Row
  /\ \A C \in SUBSET Conv : \A f \in [C -> Row] : f \in Rows
  BY DEF Rows

LEMMA SessionsOf ==
  /\ \A s \in Sessions : /\ s.read \in Rows /\ s.set \in Rows
                        /\ DOMAIN s.set = DOMAIN s.read
                        /\ s.turn \subseteq Turn
  /\ \A C \in SUBSET Conv : \A s \in Session(C) : s \in Sessions
  /\ TypeOK => \A w \in Worker : tx[w] \in Sessions
<1>1. ASSUME NEW C \in SUBSET Conv, NEW s \in Session(C)
      PROVE  /\ s.read \in Rows /\ s.set \in Rows
             /\ DOMAIN s.set = DOMAIN s.read
             /\ s.turn \subseteq Turn
  BY <1>1, RowsOf DEF Session
<1>2. QED
  BY <1>1 DEF Sessions, TypeOK

LEMMA NothingType == Nothing \in [{} -> Row] /\ DOMAIN Nothing = {}
  BY DEF Nothing

LEMMA IdleType == /\ Idle \in Sessions
                  /\ DOMAIN Idle.read = {} /\ Idle.turn = {} /\ Idle.op = "idle"
<1>1. Idle \in Session({})
  BY NothingType DEF Idle, Session, NoRow
<1>2. QED
  BY <1>1, NothingType, SessionsOf DEF Idle

-----------------------------------------------------------------------------
(***************************************************************************)
(* What a session has in hand agrees with the tables. Of the rows it read  *)
(* none is unused, it takes back no archiving and no end time, and it sets *)
(* no end time to NULL that it, or another session since, has read as set. *)
(***************************************************************************)
Held(w, c) == c \in DOMAIN tx[w].read

ColumnsInv ==
    \A w \in Worker, c \in Conv : Held(w, c) =>
        /\ convs[c] # Absent
        /\ tx[w].read[c].archived => tx[w].set[c].archived
        /\ tx[w].read[c].end # 0 => tx[w].set[c].end # 0
        /\ tx[w].set[c].state \in Finished /\ tx[w].set[c].state # tx[w].read[c].state
              => tx[w].set[c].end # 0
        /\ tx[w].read[c].end # 0 /\ Exists(c) => convs[c].end # 0

(***************************************************************************)
(* A turn that is being added is in no other session; one that is changed  *)
(* or deleted has been added.                                              *)
(***************************************************************************)
TurnsInv ==
    \A w \in Worker :
        /\ tx[w].op \in {"add", "redact"} => tx[w].row \in TurnRow
        /\ tx[w].op = "add" =>
              \A t \in tx[w].turn : /\ turns[t] = Absent
                                    /\ \A v \in Worker \ {w} : t \notin tx[v].turn
        /\ tx[w].op # "add" => \A t \in tx[w].turn : turns[t] # Absent

IInv == TypeOK /\ ColumnsInv /\ TurnsInv /\ NoTurnOutlivesConversation

LEMMA InitIInv == Init => IInv
<1> SUFFICES ASSUME Init PROVE IInv
  OBVIOUS
<1>1. TypeOK
  <2>1. now \in 1..MaxTime /\ calls \in 0..MaxCalls
    BY BoundsAssumption DEF Init
  <2>2. convs \in [Conv -> Row \cup NoRow] /\ turns \in [Turn -> TurnRow \cup NoRow]
    BY DEF Init, NoRow
  <2>3. DOMAIN tx = Worker /\ \A w \in Worker : tx[w] \in Sessions
    BY IdleType DEF Init
  <2>4. QED
    BY <2>1, <2>2, <2>3 DEF TypeOK, Sessions
<1>2. ColumnsInv /\ TurnsInv
  BY IdleType DEF Init, ColumnsInv, TurnsInv, Held
<1>3. NoTurnOutlivesConversation
  BY DEF Init, NoTurnOutlivesConversation, Said, NoRow
<1>4. QED
  BY <1>1, <1>2, <1>3 DEF IInv

-----------------------------------------------------------------------------
(***************************************************************************)
(* What a commit writes, and what any step does to one conversation.       *)
(***************************************************************************)
Kept(row, new) ==
    /\ new \in Row
    /\ row.archived => new.archived
    /\ row.end # 0 => new.end # 0
    /\ row.state \notin Finished /\ new.state \in Finished => new.end # 0

LEMMA WrittenRow ==
  ASSUME TypeOK, ColumnsInv, NEW w \in Worker, NEW c \in Conv
  PROVE  /\ Exists(c) => convs[c] \in Row /\ Kept(convs[c], Written(w)[c])
         /\ ~Exists(c) => Written(w)[c] = convs[c]
<1>1. Exists(c) => convs[c] \in Row
  BY DEF TypeOK, Exists
<1>2. CASE ~(Held(w, c) /\ Exists(c))
  <2>1. Written(w)[c] = convs[c]
    BY <1>2 DEF Written, Held
  <2>2. QED
    BY <1>1, <2>1 DEF Kept
<1>3. CASE Held(w, c) /\ Exists(c)
  <2> DEFINE read == tx[w].read[c]
             set == tx[w].set[c]
             new == Flushed(convs[c], read, set)
  <2>1. Written(w)[c] = new
    BY <1>3 DEF Written, Held
  <2>2. tx[w].read \in Rows /\ tx[w].set \in Rows /\ DOMAIN tx[w].set = DOMAIN tx[w].read
    BY SessionsOf
  <2>3. read \in Row /\ set \in Row
    BY <1>3, <2>2, RowsOf DEF Held
  <2>4. /\ read.archived => set.archived
        /\ read.end # 0 => set.end # 0
        /\ set.state \in Finished /\ set.state # read.state => set.end # 0
        /\ read.end # 0 => convs[c].end # 0
    BY <1>3 DEF ColumnsInv
  <2> HIDE DEF read, set
  <2>5. /\ new \in Row
        /\ new.state = IF set.state = read.state THEN convs[c].state ELSE set.state
        /\ new.end = IF set.end = read.end THEN convs[c].end ELSE set.end
        /\ new.archived = IF set.archived = read.archived
                          THEN convs[c].archived ELSE set.archived
    BY <1>1, <1>3, <2>3, FlushedRow
  <2> HIDE DEF new
  <2>6. convs[c].archived => new.archived
    BY <1>1, <1>3, <2>3, <2>4, <2>5 DEF Row
  <2>7. convs[c].end # 0 => new.end # 0
    BY <2>4, <2>5
  <2>8. convs[c].state \notin Finished /\ new.state \in Finished => new.end # 0
    BY <2>4, <2>5
  <2>9. QED
    BY <1>1, <1>3, <2>1, <2>5, <2>6, <2>7, <2>8 DEF Kept
<1>4. QED
  BY <1>2, <1>3

LEMMA ConvsStep ==
  ASSUME TypeOK, ColumnsInv, [Next]_vars, NEW c \in Conv
  PROVE  /\ Exists(c) => convs'[c] = Gone \/ Kept(convs[c], convs'[c])
         /\ convs[c] = Gone => convs'[c] = Gone
         /\ convs[c] = Absent => convs'[c] \in Row \cup NoRow
<1> USE NoRows DEF NoRow, Exists
<1>0. /\ Exists(c) => convs[c] \in Row
      /\ \A row \in Row : Kept(row, row)
  BY DEF TypeOK, Kept
<1>1. CASE UNCHANGED convs
  BY <1>0, <1>1 DEF TypeOK
<1>2. ASSUME NEW w \in Worker, convs' = Written(w)
      PROVE  /\ Exists(c) => convs'[c] = Gone \/ Kept(convs[c], convs'[c])
             /\ convs[c] = Gone => convs'[c] = Gone
             /\ convs[c] = Absent => convs'[c] \in Row \cup NoRow
  BY <1>2, WrittenRow
<1>3. ASSUME NEW w \in Worker, NEW d \in Conv, Save(w, d)
      PROVE  /\ Exists(c) => convs'[c] = Gone \/ Kept(convs[c], convs'[c])
             /\ convs[c] = Gone => convs'[c] = Gone
             /\ convs[c] = Absent => convs'[c] \in Row \cup NoRow
  <2>1. PICK s \in State :
          convs' = [convs EXCEPT ![d] = [state |-> s, end |-> 0, last |-> now,
                                         archived |-> FALSE]]
    BY <1>3 DEF Save
  <2>2. [state |-> s, end |-> 0, last |-> now, archived |-> FALSE] \in Row
    BY DEF TypeOK, Row
  <2>3. convs[d] = Absent
    BY <1>3 DEF Save
  <2>4. QED
    BY <1>0, <2>1, <2>2, <2>3 DEF TypeOK
<1>4. ASSUME NEW w \in Worker, NEW d \in Conv, SoftDelete(w, d)
      PROVE  /\ Exists(c) => convs'[c] = Gone \/ Kept(convs[c], convs'[c])
             /\ convs[c] = Gone => convs'[c] = Gone
             /\ convs[c] = Absent => convs'[c] \in Row \cup NoRow
  <2> DEFINE new == [convs[d] EXCEPT !.archived = TRUE, !.state = "ended", !.end = now]
  <2>1. convs' = [convs EXCEPT ![d] = new] /\ Exists(d) /\ convs[d] \in Row
    BY <1>4 DEF SoftDelete, TypeOK
  <2>2. /\ new \in Row
        /\ new.archived = TRUE /\ new.end = now
    <3>1. now \in Nat /\ "ended" \in State
      BY DEF TypeOK, State
    <3>2. QED
      BY <2>1, <3>1 DEF Row
  <2>3. now \in Nat /\ now # 0
    BY BoundsAssumption DEF TypeOK
  <2>4. Kept(convs[d], new)
    BY <2>1, <2>2, <2>3 DEF Kept, Row, State
  <2>5. QED
    BY <1>0, <2>1, <2>4 DEF TypeOK
<1>5. ASSUME NEW w \in Worker, CommitDelete(w)
      PROVE  /\ Exists(c) => convs'[c] = Gone \/ Kept(convs[c], convs'[c])
             /\ convs[c] = Gone => convs'[c] = Gone
             /\ convs[c] = Absent => convs'[c] \in Row \cup NoRow
  BY <1>0, <1>5 DEF CommitDelete
<1>6. QED
  BY <1>1, <1>2, <1>3, <1>4, <1>5 DEF Next, vars, Tick, Calls, Commits, CommitUpdate,
     CommitAdd, CommitRedact, RollBack, ArchiveOld, DeleteAllForChild, SetState, Touch,
     Archive, HardDelete, Erase, AddTurn, RedactTurn, DeleteTurn, Opens

-----------------------------------------------------------------------------
(***************************************************************************)
(* The sessions that calls open: what they read is what is in the tables,  *)
(* and what they make of a row respects it.                                *)
(***************************************************************************)
Fit(row, new) ==
    /\ new \in Row
    /\ row.archived => new.archived
    /\ row.end # 0 => new.end # 0
    /\ new.state \in Finished /\ new.state # row.state => new.end # 0

LEMMA Fits ==
  ASSUME TypeOK, NEW row \in Row, NEW s \in State, NEW at \in 1..now
  PROVE  /\ Fit(row, row)
         /\ Fit(row, ToState(row, s))
         /\ Fit(row, [row EXCEPT !.last = at])
         /\ Fit(row, [row EXCEPT !.archived = TRUE])
         /\ Fit(row, [row EXCEPT !.archived = TRUE, !.last = at])
<1>1. now \in Nat /\ now # 0 /\ at \in Nat
  BY BoundsAssumption DEF TypeOK
<1>2. Fit(row, row)
  BY DEF Fit
<1>3. Fit(row, ToState(row, s))
  <2> DEFINE new == ToState(row, s)
  <2>1. new \in Row
    BY <1>1 DEF ToState, Row
  <2>2. /\ new.archived = row.archived
        /\ new.state = s
        /\ new.end = IF s \in Finished THEN now ELSE row.end
    BY DEF ToState, Row
  <2> HIDE DEF new
  <2>3. new.end # 0 \/ (new.end = row.end /\ s \notin Finished)
    BY <1>1, <2>2
  <2>4. row.end # 0 => new.end # 0
    BY <1>1, <2>2
  <2>5. Fit(row, new)
    BY <2>1, <2>2, <2>3, <2>4 DEF Fit
  <2>6. QED
    BY <2>5 DEF new
<1>4. Fit(row, [row EXCEPT !.last = at])
  BY <1>1 DEF Fit, Row
<1>5. Fit(row, [row EXCEPT !.archived = TRUE])
  BY DEF Fit, Row
<1>6. Fit(row, [row EXCEPT !.archived = TRUE, !.last = at])
  BY <1>1 DEF Fit, Row
<1>7. QED
  BY <1>2, <1>3, <1>4, <1>5, <1>6

Opened(w, session) ==
    /\ session \in Sessions
    /\ \A c \in DOMAIN session.read :
          /\ c \in Conv
          /\ Exists(c)
          /\ session.read[c] = convs[c]
          /\ Fit(convs[c], session.set[c])
    /\ session.op \in {"add", "redact"} => session.row \in TurnRow
    /\ session.op = "add" =>
          \A t \in session.turn : /\ turns[t] = Absent
                                  /\ \A v \in Worker \ {w} : t \notin tx[v].turn
    /\ session.op # "add" => \A t \in session.turn : turns[t] # Absent

Opening(w) ==
    /\ UNCHANGED <<convs, turns>>
    /\ \E session : Opened(w, session) /\ tx' = [tx EXCEPT ![w] = session]

LEMMA ReadsType ==
  ASSUME TypeOK, NEW C \in SUBSET Conv, \A c \in C : Exists(c)
  PROVE  /\ Reads(C) \in Rows
         /\ Reads(C) \in [C -> Row]
         /\ DOMAIN Reads(C) = C
         /\ \A c \in C : Reads(C)[c] = convs[c] /\ convs[c] \in Row
<1>1. \A c \in C : convs[c] \in Row
  BY DEF TypeOK, Exists
<1>2. Reads(C) \in [C -> Row]
  BY <1>1 DEF Reads
<1>3. QED
  BY <1>1, <1>2, RowsOf DEF Reads

LEMMA OpensOpens ==
  ASSUME TypeOK, NEW w \in Worker, NEW C \in SUBSET Conv, \A c \in C : Exists(c),
         NEW made, made \in [C -> Row], \A c \in C : Fit(convs[c], made[c]),
         Opens(w, made)
  PROVE  Opening(w)
<1> DEFINE session == [op |-> "update", read |-> Reads(C), set |-> made,
                       turn |-> {}, row |-> Absent]
<1>1. /\ DOMAIN made = C /\ made \in Rows
      /\ Reads(C) \in Rows /\ DOMAIN Reads(C) = C
      /\ \A c \in C : Reads(C)[c] = convs[c]
  BY RowsOf, ReadsType
<1>2. UNCHANGED <<convs, turns>> /\ tx' = [tx EXCEPT ![w] = session]
  BY <1>1 DEF Opens, Begin
<1>3. session \in Sessions
  BY <1>1, SessionsOf, ReadsType DEF Session, NoRow
<1>4. Opened(w, session)
  BY <1>1, <1>3 DEF Opened
<1>5. QED
  BY <1>2, <1>4 DEF Opening

LEMMA EraseOpens ==
  ASSUME TypeOK, NEW w \in Worker, NEW C \in SUBSET Conv, Erase(w, C)
  PROVE  Opening(w)
<1> DEFINE session == [op |-> "delete", read |-> Reads(C), set |-> Reads(C),
                       turn |-> TurnsOf(C), row |-> Absent]
<1>1. \A c \in C : Exists(c)
  BY DEF Erase
<1>2. /\ Reads(C) \in Rows /\ DOMAIN Reads(C) = C
      /\ \A c \in C : Reads(C)[c] = convs[c] /\ Fit(convs[c], Reads(C)[c])
  BY <1>1, ReadsType DEF Fit
<1>3. TurnsOf(C) \in SUBSET Turn /\ \A t \in TurnsOf(C) : turns[t] # Absent
  BY DEF TurnsOf, Said, NoRow
<1>4. UNCHANGED <<convs, turns>> /\ tx' = [tx EXCEPT ![w] = session]
  BY DEF Erase, Begin
<1>5. session \in Sessions
  BY <1>1, <1>3, SessionsOf, ReadsType DEF Session, NoRow
<1>6. Opened(w, session)
  BY <1>1, <1>2, <1>3, <1>5 DEF Opened
<1>7. QED
  BY <1>4, <1>6 DEF Opening

LEMMA CallsOpen ==
  ASSUME TypeOK, NEW w \in Worker, Calls(w)
  PROVE  \/ Opening(w)
         \/ tx' = [tx EXCEPT ![w] = Idle] /\ UNCHANGED turns
<1> USE DEF Opening
<1>1. ASSUME NEW c \in Conv, Save(w, c) \/ SoftDelete(w, c)
      PROVE  tx' = [tx EXCEPT ![w] = Idle] /\ UNCHANGED turns
  BY <1>1 DEF Save, SoftDelete, Begin
<1>2. now \in 1..now
  BY BoundsAssumption DEF TypeOK
<1>3. ASSUME NEW c \in Conv, Exists(c) PROVE {c} \in SUBSET Conv /\ convs[c] \in Row
  BY <1>3 DEF TypeOK, Exists
<1>4. ASSUME NEW c \in Conv, SetState(w, c) PROVE Opening(w)
  <2>1. PICK s \in State : Opens(w, [x \in {c} |-> ToState(convs[x], s)])
    BY <1>4 DEF SetState
  <2>2. Exists(c) /\ Fit(convs[c], ToState(convs[c], s))
    BY <1>2, <1>3, <1>4, Fits DEF SetState
  <2>3. [x \in {c} |-> ToState(convs[x], s)] \in [{c} -> Row]
    BY <2>2 DEF Fit
  <2>4. QED
    BY <1>3, <2>1, <2>2, <2>3, OpensOpens
<1>5. ASSUME NEW c \in Conv, Touch(w, c) PROVE Opening(w)
  <2> DEFINE made == [x \in {c} |-> [convs[x] EXCEPT !.last = now]]
  <2>1. Exists(c) /\ Opens(w, made)
    BY <1>5 DEF Touch
  <2>2. Fit(convs[c], made[c])
    BY <1>2, <1>3, <2>1, Fits DEF State
  <2>3. made \in [{c} -> Row]
    BY <2>2 DEF Fit
  <2>4. QED
    BY <1>3, <2>1, <2>2, <2>3, OpensOpens
<1>6. ASSUME NEW c \in Conv, Archive(w, c) PROVE Opening(w)
  <2> DEFINE made == [x \in {c} |-> [convs[x] EXCEPT !.archived = TRUE, !.last = now]]
  <2>1. Exists(c) /\ Opens(w, made)
    BY <1>6 DEF Archive
  <2>2. Fit(convs[c], made[c])
    BY <1>2, <1>3, <2>1, Fits DEF State
  <2>3. made \in [{c} -> Row]
    BY <2>2 DEF Fit
  <2>4. QED
    BY <1>3, <2>1, <2>2, <2>3, OpensOpens
<1>7. CASE ArchiveOld(w)
  <2> DEFINE made == [c \in Stale |-> [convs[c] EXCEPT !.archived = TRUE]]
  <2>1. Opens(w, made) /\ Stale \in SUBSET Conv /\ \A c \in Stale : Exists(c)
    BY <1>7 DEF ArchiveOld, Stale
  <2>2. \A c \in Stale : Fit(convs[c], made[c])
    BY <1>2, <1>3, <2>1, Fits DEF State
  <2>3. made \in [Stale -> Row]
    BY <2>2 DEF Fit
  <2>4. QED
    BY <2>1, <2>2, <2>3, OpensOpens
<1>8. ASSUME NEW c \in Conv, NEW t \in Turn, AddTurn(w, c, t) PROVE Opening(w)
  <2>1. PICK at \in 1..now :
          tx' = [tx EXCEPT ![w] =
                   [op |-> "add", read |-> Reads({c}),
                    set |-> [x \in {c} |-> [convs[x] EXCEPT !.last = at]],
                    turn |-> {t}, row |-> [conv |-> c, redacted |-> FALSE]]]
    BY <1>8 DEF AddTurn, Begin
  <2> DEFINE made == [x \in {c} |-> [convs[x] EXCEPT !.last = at]]
             session == [op |-> "add", read |-> Reads({c}), set |-> made,
                         turn |-> {t}, row |-> [conv |-> c, redacted |-> FALSE]]
  <2>2. Exists(c) /\ turns[t] = Absent /\ \A v \in Worker : t \notin tx[v].turn
    BY <1>8 DEF AddTurn
  <2>3. Fit(convs[c], made[c])
    BY <1>3, <2>2, Fits DEF State
  <2>4. made \in [{c} -> Row]
    BY <2>3 DEF Fit
  <2>5. /\ made \in Rows /\ DOMAIN made = {c}
        /\ Reads({c}) \in Rows /\ DOMAIN Reads({c}) = {c} /\ Reads({c})[c] = convs[c]
    BY <1>3, <2>2, <2>4, RowsOf, ReadsType
  <2>6. [conv |-> c, redacted |-> FALSE] \in TurnRow
    BY DEF TurnRow
  <2> HIDE DEF made
  <2>7. session \in Sessions
    <3>1. {c} \in SUBSET Conv /\ Reads({c}) \in [{c} -> Row] /\ made \in [{c} -> Row]
      BY <1>3, <2>2, <2>4, ReadsType
    <3>2. session \in Session({c})
      BY <2>6, <3>1 DEF Session
    <3>3. QED
      BY <3>1, <3>2, SessionsOf
  <2>8. Opened(w, session)
    BY <2>2, <2>3, <2>5, <2>6, <2>7 DEF Opened
  <2>9. UNCHANGED <<convs, turns>>
    BY <1>8 DEF AddTurn
  <2>10. QED
    BY <2>1, <2>9, <2>8 DEF made
<1>9. ASSUME NEW t \in Turn, RedactTurn(w, t) PROVE Opening(w)
  <2> DEFINE session == [op |-> "redact", read |-> Nothing, set |-> Nothing,
                         turn |-> {t}, row |-> turns[t]]
  <2>1. turns[t] \in TurnRow /\ turns[t] # Absent
    BY <1>9, NoRows DEF RedactTurn, Said, TypeOK, NoRow
  <2>2. tx' = [tx EXCEPT ![w] = session] /\ UNCHANGED <<convs, turns>>
    BY <1>9 DEF RedactTurn, Begin
  <2>3. Nothing \in [{} -> Row] /\ DOMAIN Nothing = {}
    BY NothingType
  <2>4. session \in Session({})
    BY <2>1, <2>3 DEF Session
  <2>5. Opened(w, session)
    BY <2>1, <2>3, <2>4, SessionsOf DEF Opened
  <2>6. QED
    BY <2>2, <2>5
<1>10. ASSUME NEW t \in Turn, DeleteTurn(w, t) PROVE Opening(w)
  <2> DEFINE session == [op |-> "delete", read |-> Nothing, set |-> Nothing,
                         turn |-> {t}, row |-> Absent]
  <2>1. turns[t] # Absent
    BY <1>10 DEF DeleteTurn, Said, NoRow
  <2>2. tx' = [tx EXCEPT ![w] = session] /\ UNCHANGED <<convs, turns>>
    BY <1>10 DEF DeleteTurn, Begin
  <2>3. Nothing \in [{} -> Row] /\ DOMAIN Nothing = {}
    BY NothingType
  <2>4. session \in Session({})
    BY <2>3 DEF Session, NoRow
  <2>5. Opened(w, session)
    BY <2>1, <2>3, <2>4, SessionsOf DEF Opened
  <2>6. QED
    BY <2>2, <2>5
<1>11. CASE DeleteAllForChild(w) \/ \E c \in Conv : HardDelete(w, c)
  BY <1>11, EraseOpens DEF DeleteAllForChild, HardDelete
<1>12. QED
  BY <1>1, <1>4, <1>5, <1>6, <1>7, <1>8, <1>9, <1>10, <1>11 DEF Calls

-----------------------------------------------------------------------------
(***************************************************************************)
(* The steps, by what they do to the sessions and the turns.               *)
(***************************************************************************)
Closing(w) == tx' = [tx EXCEPT ![w] = Idle]

LEMMA Steps ==
  ASSUME TypeOK, [Next]_vars
  PROVE  \/ UNCHANGED <<convs, turns, tx>>
         \/ \E w \in Worker :
               \/ Opening(w)
               \/ Closing(w) /\ UNCHANGED turns
               \/ Closing(w) /\ (CommitAdd(w) \/ CommitRedact(w) \/ CommitDelete(w))
<1>1. ASSUME NEW w \in Worker, Calls(w)
      PROVE  Opening(w) \/ (Closing(w) /\ UNCHANGED turns)
  BY <1>1, CallsOpen DEF Closing
<1>2. ASSUME NEW w \in Worker, CommitUpdate(w) \/ RollBack(w)
      PROVE  Closing(w) /\ UNCHANGED turns
  BY <1>2 DEF CommitUpdate, RollBack, End, Closing
<1>3. ASSUME NEW w \in Worker, CommitAdd(w) \/ CommitRedact(w) \/ CommitDelete(w)
      PROVE  Closing(w)
  BY <1>3 DEF CommitAdd, CommitRedact, CommitDelete, End, Closing
<1>4. QED
  BY <1>1, <1>2, <1>3 DEF Next, vars, Tick, Commits

(***************************************************************************)
(* What a step does to one turn: nothing, or what the commit of a session  *)
(* does that has the turn in hand.                                         *)
(***************************************************************************)
LEMMA TurnStep ==
  ASSUME TypeOK, TurnsInv, [Next]_vars, NEW t \in Turn
  PROVE  /\ turns'[t] \in TurnRow \cup NoRow
         /\ turns[t] # Absent => turns'[t] # Absent
         /\ turns[t] = Gone => turns'[t] = Gone
         /\ turns'[t] # turns[t] => \E w \in Worker : Closing(w) /\ t \in tx[w].turn
         /\ Said(t)' => \/ Said(t) /\ turns'[t].conv = turns[t].conv
                        \/ \E w \in Worker :
                              /\ CommitAdd(w)
                              /\ turns'[t] = tx[w].row
                              /\ tx[w].row \in TurnRow
<1> DEFINE Holds ==
      /\ turns'[t] \in TurnRow \cup NoRow
      /\ turns[t] # Absent => turns'[t] # Absent
      /\ turns[t] = Gone => turns'[t] = Gone
      /\ turns'[t] # turns[t] => \E w \in Worker : Closing(w) /\ t \in tx[w].turn
      /\ Said(t)' => \/ Said(t) /\ turns'[t].conv = turns[t].conv
                     \/ \E w \in Worker :
                           /\ CommitAdd(w)
                           /\ turns'[t] = tx[w].row
                           /\ tx[w].row \in TurnRow
<1> USE NoRows
<1>0. turns[t] \in TurnRow \cup NoRow
  BY DEF TypeOK
<1>1. CASE turns'[t] = turns[t]
  BY <1>0, <1>1 DEF Said
<1>2. ASSUME NEW w \in Worker, CommitAdd(w), Closing(w), turns'[t] # turns[t] PROVE Holds
  <2>1. /\ t \in tx[w].turn /\ turns'[t] = tx[w].row /\ tx[w].op = "add"
    BY <1>2 DEF CommitAdd
  <2>2. tx[w].row \in TurnRow /\ turns[t] = Absent
    BY <2>1 DEF TurnsInv
  <2>3. turns'[t] \in TurnRow /\ turns[t] # Gone /\ turns'[t] # Absent
    BY <2>1, <2>2
  <2>4. QED
    BY <1>2, <2>1, <2>2, <2>3
<1>3. ASSUME NEW w \in Worker, CommitRedact(w), Closing(w), turns'[t] # turns[t] PROVE Holds
  <2> DEFINE row == tx[w].row
             set == [row EXCEPT !.redacted = TRUE]
  <2>1. t \in tx[w].turn /\ turns'[t] = Flushed(turns[t], row, set) /\ Said(t)
    BY <1>3 DEF CommitRedact
  <2>2. row \in TurnRow /\ turns[t] \in TurnRow
    BY <1>0, <1>3, <2>1 DEF CommitRedact, TurnsInv, Said
  <2>3. set \in TurnRow /\ set.conv = row.conv
    BY <2>2 DEF TurnRow
  <2> HIDE DEF set, row
  <2>4. turns'[t] \in TurnRow /\ turns'[t].conv = turns[t].conv
    BY <2>1, <2>2, <2>3, FlushedTurn
  <2>5. turns[t] # Gone /\ turns'[t] # Absent
    BY <2>2, <2>4
  <2>6. QED
    BY <1>3, <2>1, <2>4, <2>5
<1>4. ASSUME NEW w \in Worker, CommitDelete(w), Closing(w), turns'[t] # turns[t] PROVE Holds
  <2>1. t \in tx[w].turn /\ turns'[t] = Gone
    BY <1>4 DEF CommitDelete
  <2>2. ~Said(t)'
    BY <2>1 DEF Said, NoRow
  <2>3. QED
    BY <1>4, <2>1, <2>2 DEF NoRow
<1>5. QED
  <2>1. ASSUME NEW w \in Worker, Opening(w) PROVE turns' = turns
    BY <2>1 DEF Opening
  <2>2. QED
    BY <1>1, <1>2, <1>3, <1>4, <2>1, Steps

(***************************************************************************)
(* Only the commit of a deletion makes a conversation go, and its turns    *)
(* are then among those it deletes.                                        *)
(***************************************************************************)
LEMMA Goes ==
  ASSUME TypeOK, ColumnsInv, [Next]_vars, NEW c \in Conv, Exists(c), ~Exists(c)'
  PROVE  \A t \in TurnsOf({c}) : turns'[t] = Gone
<1>1. convs'[c] = Gone
  BY ConvsStep, NoRows DEF Kept, Exists, NoRow
<1>2. ASSUME NEW w \in Worker, CommitDelete(w)
      PROVE  \A t \in TurnsOf({c}) : turns'[t] = Gone
  <2>1. c \in DOMAIN tx[w].read
    BY <1>1, <1>2 DEF CommitDelete, Exists, NoRow
  <2>2. \A t \in TurnsOf({c}) : t \in Turn /\ t \in TurnsOf(DOMAIN tx[w].read)
    BY <2>1 DEF TurnsOf
  <2>3. QED
    BY <1>2, <2>2 DEF CommitDelete
<1>3. ASSUME NEW w \in Worker, Calls(w) \/ RollBack(w) \/ CommitRedact(w) PROVE FALSE
  <2>1. CASE convs' = convs
    BY <1>1, <2>1 DEF Exists, NoRow
  <2>2. ASSUME NEW d \in Conv, Save(w, d) PROVE FALSE
    <3>1. d # c
      BY <2>2 DEF Save, Exists, NoRow
    <3>2. QED
      BY <1>1, <2>2, <3>1 DEF Save, TypeOK, Exists, NoRow
  <2>3. ASSUME NEW d \in Conv, SoftDelete(w, d) PROVE FALSE
    <3> DEFINE new == [convs[d] EXCEPT !.archived = TRUE, !.state = "ended", !.end = now]
    <3>1. convs' = [convs EXCEPT ![d] = new] /\ convs[d] \in Row
      BY <2>3 DEF SoftDelete, TypeOK, Exists
    <3>2. new.archived = TRUE /\ DOMAIN new = DOMAIN convs[d]
      BY <3>1 DEF Row
    <3>3. DOMAIN new = {"state", "end", "last", "archived"}
      BY <3>1, <3>2 DEF Row
    <3>4. new # Gone
      BY <3>3 DEF Gone
    <3>5. QED
      BY <1>1, <3>1, <3>4 DEF TypeOK, Exists, NoRow
  <2>4. QED
    BY <1>3, <2>1, <2>2, <2>3 DEF Calls, CommitRedact, RollBack, ArchiveOld,
       DeleteAllForChild, SetState, Touch, Archive, HardDelete, Erase, AddTurn, RedactTurn,
       DeleteTurn, Opens
<1>4. ASSUME NEW w \in Worker, CommitUpdate(w) \/ CommitAdd(w) PROVE FALSE
  <2>1. convs' = Written(w)
    BY <1>4 DEF CommitUpdate, CommitAdd
  <2>2. convs'[c] \in Row
    BY <2>1, WrittenRow DEF Kept
  <2>3. QED
    BY <1>1, <2>2, NoRows
<1>5. QED
  <2>1. convs' # convs
    BY DEF Exists
  <2>2. QED
    BY <1>2, <1>3, <1>4, <2>1 DEF Next, vars, Tick, Commits

-----------------------------------------------------------------------------
(***************************************************************************)
(* The inductive invariant.                                                *)
(***************************************************************************)
LEMMA TypeStep == IInv /\ [Next]_vars => TypeOK'
<1> SUFFICES ASSUME IInv, [Next]_vars PROVE TypeOK'
  OBVIOUS
<1> USE DEF IInv
<1>1. now' \in 1..MaxTime /\ calls' \in 0..MaxCalls
  <2>1. CASE Tick \/ UNCHANGED vars
    BY <2>1, BoundsAssumption DEF TypeOK, Tick, vars
  <2>2. ASSUME NEW w \in Worker, Calls(w) \/ Commits(w) \/ RollBack(w)
        PROVE  now' = now /\ (calls' = calls \/ (calls < MaxCalls /\ calls' = calls + 1))
    BY <2>2 DEF Calls, Save, SetState, Touch, Archive, SoftDelete, HardDelete, AddTurn,
       ArchiveOld, DeleteAllForChild, RedactTurn, DeleteTurn, Erase, Opens, Begin, Commits,
       CommitUpdate, CommitAdd, CommitRedact, CommitDelete, RollBack, End
  <2>3. QED
    BY <2>1, <2>2, BoundsAssumption DEF Next, TypeOK
<1>2. convs' \in [Conv -> Row \cup NoRow]
  <2>1. \A c \in Conv : convs'[c] \in Row \cup NoRow
    <3> TAKE c \in Conv
    <3>1. convs[c] = Absent \/ convs[c] = Gone \/ Exists(c)
      BY DEF Exists, NoRow
    <3>2. QED
      BY <3>1, ConvsStep DEF Kept, NoRow
  <2>2. \E f : convs' = [c \in Conv |-> f[c]]
    <3>1. convs' = convs => convs' = [c \in Conv |-> convs[c]]
      BY DEF TypeOK
    <3>2. ASSUME NEW w \in Worker, Commits(w), convs' # convs
          PROVE  \E f : convs' = [c \in Conv |-> f[c]]
      BY <3>2 DEF Commits, CommitUpdate, CommitAdd, CommitRedact, CommitDelete, Written
    <3>3. ASSUME NEW w \in Worker, NEW c \in Conv, Save(w, c) \/ SoftDelete(w, c)
          PROVE  \E f : convs' = [d \in Conv |-> f[d]]
      BY <3>3 DEF TypeOK, Save, SoftDelete
    <3>4. QED
      BY <3>1, <3>2, <3>3 DEF Next, vars, Tick, Calls, RollBack, ArchiveOld,
         DeleteAllForChild, SetState, Touch, Archive, HardDelete, Erase, AddTurn,
         RedactTurn, DeleteTurn, Opens
  <2>3. QED
    BY <2>1, <2>2
<1>3. turns' \in [Turn -> TurnRow \cup NoRow]
  <2>1. \A t \in Turn : turns'[t] \in TurnRow \cup NoRow
    BY TurnStep
  <2>2. turns' = [t \in Turn |-> turns'[t]]
    <3>1. ASSUME NEW w \in Worker, CommitAdd(w) \/ CommitRedact(w) \/ CommitDelete(w)
          PROVE  turns' = [t \in Turn |-> turns'[t]]
      BY <3>1 DEF CommitAdd, CommitRedact, CommitDelete
    <3>2. QED
      BY <3>1, Steps DEF TypeOK, Opening
  <2>3. QED
    BY <2>1, <2>2
<1>4. DOMAIN tx' = Worker /\ \A w \in Worker : tx'[w] \in Sessions
  <2>1. DOMAIN tx = Worker /\ \A w \in Worker : tx[w] \in Sessions
    BY SessionsOf DEF TypeOK
  <2>2. QED
    BY <2>1, Steps, IdleType DEF Closing, Opening, Opened
<1>5. QED
  BY <1>1, <1>2, <1>3, <1>4 DEF TypeOK, Sessions

LEMMA ColumnsStep == IInv /\ [Next]_vars => ColumnsInv'
<1> SUFFICES ASSUME IInv, [Next]_vars, NEW v \in Worker, NEW c \in Conv, Held(v, c)'
             PROVE  /\ convs'[c] # Absent
                    /\ tx'[v].read[c].archived => tx'[v].set[c].archived
                    /\ tx'[v].read[c].end # 0 => tx'[v].set[c].end # 0
                    /\ tx'[v].set[c].state \in Finished
                       /\ tx'[v].set[c].state # tx'[v].read[c].state
                          => tx'[v].set[c].end # 0
                    /\ tx'[v].read[c].end # 0 /\ Exists(c)' => convs'[c].end # 0
  BY DEF ColumnsInv
<1> USE DEF IInv
<1>1. CASE tx'[v] = tx[v]
  <2>1. Held(v, c)
    BY <1>1 DEF Held
  <2>2. convs[c] # Absent
    BY <2>1 DEF ColumnsInv
  <2>3. convs'[c] # Absent
    BY <2>2, ConvsStep, NoRows DEF Kept, Exists, NoRow
  <2>4. tx[v].read[c].end # 0 /\ Exists(c)' => convs'[c].end # 0
    <3> SUFFICES ASSUME tx[v].read[c].end # 0, Exists(c)' PROVE convs'[c].end # 0
      OBVIOUS
    <3>1. convs'[c] # Gone
      BY DEF Exists, NoRow
    <3>2. Exists(c)
      BY <2>2, <3>1, ConvsStep DEF Exists, NoRow
    <3>3. convs[c].end # 0
      BY <2>1, <3>2 DEF ColumnsInv
    <3>4. QED
      BY <3>1, <3>2, <3>3, ConvsStep DEF Kept
  <2>5. QED
    BY <1>1, <2>1, <2>3, <2>4 DEF ColumnsInv
<1>2. CASE tx'[v] = Idle
  BY <1>2, IdleType DEF Held
<1>3. CASE Opening(v)
  <2>1. PICK session : Opened(v, session) /\ tx' = [tx EXCEPT ![v] = session]
    BY <1>3 DEF Opening
  <2>2. tx'[v] = session /\ convs' = convs
    BY <1>3, <2>1 DEF Opening, TypeOK
  <2>3. c \in DOMAIN session.read
    BY <2>2 DEF Held
  <2>4. Exists(c) /\ session.read[c] = convs[c] /\ Fit(convs[c], session.set[c])
    BY <2>1, <2>3 DEF Opened
  <2>5. convs[c] # Absent
    BY <2>4 DEF Exists, NoRow
  <2>6. QED
    BY <2>2, <2>4, <2>5 DEF Fit
<1>4. tx'[v] = tx[v] \/ tx'[v] = Idle \/ Opening(v)
  <2>1. ASSUME NEW w \in Worker, Opening(w) PROVE tx'[v] = tx[v] \/ Opening(v)
    BY <2>1 DEF Opening, TypeOK
  <2>2. ASSUME NEW w \in Worker, Closing(w) PROVE tx'[v] = tx[v] \/ tx'[v] = Idle
    BY <2>2 DEF Closing, TypeOK
  <2>3. QED
    BY <2>1, <2>2, Steps
<1>5. QED
  BY <1>1, <1>2, <1>3, <1>4

LEMMA TurnsStep == IInv /\ [Next]_vars => TurnsInv'
<1> SUFFICES ASSUME IInv, [Next]_vars, NEW v \in Worker
             PROVE  /\ tx'[v].op \in {"add", "redact"} => tx'[v].row \in TurnRow
                    /\ tx'[v].op = "add" =>
                          \A t \in tx'[v].turn :
                             /\ turns'[t] = Absent
                             /\ \A u \in Worker \ {v} : t \notin tx'[u].turn
                    /\ tx'[v].op # "add" => \A t \in tx'[v].turn : turns'[t] # Absent
  BY DEF TurnsInv
<1> USE DEF IInv
<1>0. \A w \in Worker : tx[w].turn \subseteq Turn
  BY SessionsOf
<1>1. CASE tx'[v] = Idle
  BY <1>1, IdleType
<1>2. CASE Opening(v)
  <2>1. PICK session : Opened(v, session) /\ tx' = [tx EXCEPT ![v] = session]
    BY <1>2 DEF Opening
  <2>2. /\ tx'[v] = session /\ turns' = turns
        /\ \A u \in Worker \ {v} : tx'[u] = tx[u]
    BY <1>2, <2>1 DEF Opening, TypeOK
  <2>3. QED
    BY <2>1, <2>2 DEF Opened
<1>3. CASE tx'[v] = tx[v]
  <2>1. tx[v].op \in {"add", "redact"} => tx[v].row \in TurnRow
    BY DEF TurnsInv
  <2>2. tx[v].op # "add" => \A t \in tx[v].turn : turns'[t] # Absent
    BY <1>0, TurnStep DEF TurnsInv
  <2>3. ASSUME tx[v].op = "add", NEW t \in tx[v].turn, NEW u \in Worker \ {v}
        PROVE  t \notin tx'[u].turn
    <3>1. turns[t] = Absent /\ t \notin tx[u].turn
      BY <2>3 DEF TurnsInv
    <3>2. ASSUME Opening(u) PROVE t \notin tx'[u].turn
      <4>1. PICK session : Opened(u, session) /\ tx' = [tx EXCEPT ![u] = session]
        BY <3>2 DEF Opening
      <4>2. tx'[u] = session
        BY <4>1 DEF TypeOK
      <4>3. QED
        BY <2>3, <3>1, <4>1, <4>2 DEF Opened
    <3>3. tx'[u] = tx[u] \/ tx'[u] = Idle \/ Opening(u)
      BY Steps DEF Opening, Closing, TypeOK
    <3>4. QED
      BY <3>1, <3>2, <3>3, IdleType
  <2>4. ASSUME tx[v].op = "add", NEW t \in tx[v].turn PROVE turns'[t] = Absent
    <3>1. turns[t] = Absent /\ \A u \in Worker \ {v} : t \notin tx[u].turn
      BY <2>4 DEF TurnsInv
    <3>2. ASSUME NEW w \in Worker, Closing(w), t \in tx[w].turn PROVE FALSE
      <4>1. w = v
        BY <3>1, <3>2
      <4>2. tx'[v] = Idle
        BY <3>2, <4>1 DEF Closing, TypeOK
      <4>3. QED
        BY <1>3, <2>4, <4>2, IdleType
    <3>3. QED
      BY <1>0, <3>1, <3>2, TurnStep
  <2>5. QED
    BY <1>3, <2>1, <2>2, <2>3, <2>4
<1>4. tx'[v] = tx[v] \/ tx'[v] = Idle \/ Opening(v)
  BY Steps DEF Opening, Closing, TypeOK
<1>5. QED
  BY <1>1, <1>2, <1>3, <1>4

LEMMA OutliveStep == IInv /\ [Next]_vars => NoTurnOutlivesConversation'
<1> SUFFICES ASSUME IInv, [Next]_vars, NEW t \in Turn, turns'[t] \notin NoRow
             PROVE  convs'[turns'[t].conv] \notin NoRow
  BY DEF NoTurnOutlivesConversation, Said, Exists
<1> USE DEF IInv
<1>1. \A c \in Conv : Exists(c) /\ t \in TurnsOf({c}) => convs'[c] \notin NoRow
  BY Goes DEF Exists, NoRow
<1>2. CASE Said(t) /\ turns'[t].conv = turns[t].conv
  <2>1. turns[t] \in TurnRow
    BY <1>2 DEF Said, TypeOK
  <2>2. turns[t].conv \in Conv /\ Exists(turns[t].conv)
    BY <1>2, <2>1 DEF NoTurnOutlivesConversation, TurnRow
  <2>3. t \in TurnsOf({turns[t].conv})
    BY <1>2 DEF TurnsOf
  <2>4. QED
    BY <1>1, <1>2, <2>2, <2>3
<1>3. ASSUME NEW w \in Worker, CommitAdd(w), turns'[t] = tx[w].row, tx[w].row \in TurnRow
      PROVE  convs'[turns'[t].conv] \notin NoRow
  <2>1. tx[w].row.conv \in Conv /\ Exists(tx[w].row.conv) /\ convs' = Written(w)
    BY <1>3 DEF CommitAdd, TurnRow
  <2>2. Written(w)[tx[w].row.conv] \in Row
    BY <2>1, WrittenRow DEF Kept
  <2>3. QED
    BY <1>3, <2>1, <2>2, NoRows DEF NoRow
<1>4. QED
  BY <1>2, <1>3, TurnStep DEF Said

LEMMA NextIInv == IInv /\ [Next]_vars => IInv'
  BY TypeStep, ColumnsStep, TurnsStep, OutliveStep DEF IInv

LEMMA SpecIInv == Spec => []IInv
  BY InitIInv, NextIInv, PTL DEF Spec

-----------------------------------------------------------------------------
(***************************************************************************)
(* Type correctness.                                                       *)
(***************************************************************************)
THEOREM TypeCorrect == Spec => []TypeOK
<1>1. IInv => TypeOK
  BY DEF IInv
<1>2. QED
  BY <1>1, SpecIInv, PTL

(***************************************************************************)
(* However many deletions and turns overlap, no turn is left of a          *)
(* conversation that is gone.                                              *)
(***************************************************************************)
THEOREM NoneOutlives == Spec => []NoTurnOutlivesConversation
<1>1. IInv => NoTurnOutlivesConversation
  BY DEF IInv
<1>2. QED
  BY <1>1, SpecIInv, PTL

(***************************************************************************)
(* However many sessions overlap, a conversation that becomes finished has *)
(* an end time.                                                            *)
(***************************************************************************)
THEOREM FinishedHasEndTime == Spec => EndTimeIsSet
<1>1. ASSUME IInv, [Next]_vars, NEW c \in Conv, Exists(c), Exists(c)',
             convs[c].state \notin Finished, convs'[c].state \in Finished
      PROVE  convs'[c].end # 0
  BY <1>1, ConvsStep DEF IInv, Kept, Exists, NoRow
<1>2. IInv /\ [Next]_vars =>
        [\A c \in Conv :
           /\ Exists(c) /\ Exists(c)'
           /\ convs[c].state \notin Finished
           /\ convs'[c].state \in Finished
           => convs'[c].end # 0]_vars
  BY <1>1
<1>3. QED
  BY <1>2, SpecIInv, PTL DEF Spec, EndTimeIsSet

(***************************************************************************)
(* However many sessions overlap, none takes an archiving back.            *)
(***************************************************************************)
THEOREM StaysArchived == Spec => ArchivedForGood
<1>1. ASSUME IInv, [Next]_vars, NEW c \in Conv, Exists(c), convs[c].archived, Exists(c)'
      PROVE  convs'[c].archived
  BY <1>1, ConvsStep DEF IInv, Kept, Exists, NoRow
<1>2. IInv /\ [Next]_vars =>
        [\A c \in Conv :
           Exists(c) /\ convs[c].archived /\ Exists(c)' => convs'[c].archived]_vars
  BY <1>1
<1>3. QED
  BY <1>2, SpecIInv, PTL DEF Spec, ArchivedForGood

(***************************************************************************)
(* However many sessions overlap, none brings back what was deleted.       *)
(***************************************************************************)
THEOREM StaysGone == Spec => GoneForGood
<1>1. IInv /\ [Next]_vars =>
        [/\ \A c \in Conv : convs[c] = Gone => convs'[c] = Gone
         /\ \A t \in Turn : turns[t] = Gone => turns'[t] = Gone]_vars
  BY ConvsStep, TurnStep DEF IInv
<1>2. QED
  BY <1>1, SpecIInv, PTL DEF Spec, GoneForGood
=============================================================================
