--------------------------- MODULE MatchTable_proof ---------------------------
(***************************************************************************)
(* Theorems about Matchmaking where one room is made at a time, nobody     *)
(* cancels and the cards can be read, for any number of clients, seats and *)
(* slots, whoever leaves and whenever: the barriers of a room are passed   *)
(* by its own players, who have been told and have answered, the queue     *)
(* holds live clients at every moment, and a session that has ended is let *)
(* go.  With two rooms or a late cancel they are false; what is left of    *)
(* them with more rooms is in MatchRooms_proof.                            *)
(***************************************************************************)
EXTENDS Matchmaking_proof, FiniteSetTheorems

Room == CHOOSE r \in Rooms : TRUE

\* The hypothesis of all that follows.
OneTable == Rooms = {Room} /\ Cancellers = {} /\ ~ CardsCanFail

Pc == roomPc[Room]

Party == Players(Room)

\* From the filling of the room to the end of the game.
Making == {"phase1", "phase2", "create", "registered", "started", "playing"}

Seated(c) == c \in Party /\ Pc \in Making

----------------------------------------------------------------------------
(* What is under way on a connection.                                      *)

\* The program does nothing upon these.
Answers == {"SESSION_ACK", "SESSION_NOT_FOUND"}

News(lines) == Heed(lines, Answers)

Ordered(lines) == InOrder(lines, Answers)

Told(c) == News(inbox[c])
Said(c) == News(outbox[c])

LinesOrdered == \A c \in Clients : Ordered(inbox[c]) /\ Ordered(outbox[c])

----------------------------------------------------------------------------
(* Where a client stands, by how far the room is.                          *)

\* The client is gone; of what it has said only these may still be unheard.
Left(c, lines) ==
  program[c] = "gone" /\ Told(c) = {} /\ Said(c) \subseteq lines \cup {"EOF"}

Stage(c, screen, told, said) ==
  program[c] = screen /\ Told(c) = told /\ Said(c) = said

\* It has asked and been heard.
Listed(c) == Stage(c, "waiting", {}, {}) \/ Left(c, {})

\* It has got ready, or said so and not been heard yet.
Answering(c) ==
  \/ Stage(c, "summoned", {}, {})
  \/ Stage(c, "summoned", {}, {"READY_TO_GO"})
  \/ Left(c, {"READY_TO_GO"})

Invited(c) == Stage(c, "waiting", {"QUEUE_FULL"}, {}) \/ Answering(c)

Dealt(c) == Stage(c, "summoned", {"GAME_INIT"}, {}) \/ Answering(c)

Prepared(c) == Stage(c, "summoned", {}, {}) \/ Left(c, {})

Plays(c) ==
  \/ Stage(c, "summoned", {"GAME_START"}, {})
  \/ Stage(c, "playing", {}, {}) \/ Stage(c, "playing", {}, {"SESSION_READY"})
  \/ Left(c, {"SESSION_READY"})

\* What a client that is back in the lobby may still have under way.
Quits == {{}, {"GAME_QUIT"}, {"SESSION_READY", "GAME_QUIT"}}

\* In no room, or in a game that is over.
Elsewhere(c) ==
  \/ \E said \in Quits :
       \/ Stage(c, "lobby", {}, said)
       \/ Stage(c, "waiting", {}, said \cup {"QUERY_WAIT"})
  \/ Stage(c, "waiting", {}, {})
  \/ Stage(c, "summoned", {"GAME_START", "GAME_OVER"}, {})
  \/ Stage(c, "playing", {"GAME_OVER"}, {})
  \/ Stage(c, "playing", {"GAME_OVER"}, {"SESSION_READY"})
  \/ Left(c, {"SESSION_READY", "GAME_QUIT", "QUERY_WAIT"})

Stands(c) ==
  IF ~ Seated(c) THEN Elsewhere(c)
  ELSE IF filling # NoRoom THEN Listed(c)
  ELSE IF Pc = "phase1" THEN Invited(c)
  ELSE IF Pc = "phase2" THEN Dealt(c)
  ELSE IF Pc \in {"create", "registered"} THEN Prepared(c)
  ELSE Plays(c)

AllStand == \A c \in Clients : Stands(c)

----------------------------------------------------------------------------
(* The queue, the room, its counters and its session.                      *)

Queued ==
  /\ IsInjective(waiting_queue)
  /\ \A c \in ToSet(waiting_queue) :
       /\ conn[c] \in {"loop", "filling"}
       /\ program[c] \in {"waiting", "gone"}
       /\ Said(c) \subseteq {"EOF"}
       /\ filling = NoRoom => ~ Seated(c)

\* One thread announces the room, before anything else comes of it.
FillsAlone ==
  /\ filling # NoRoom => Pc = "phase1"
  /\ \A c \in Clients : conn[c] = "filling" => filling # NoRoom
  /\ \A c, d \in Clients : conn[c] = "filling" /\ conn[d] = "filling" => c = d

FullParty ==
  /\ Pc # "failed"
  /\ Pc = "unused" => Party = {}
  /\ Pc \in Making =>
       IsInjective(seats[Room]) /\ Len(seats[Room]) = RoomSize

\* The client owes no answer to what it has been told.
Done(c) ==
  /\ program[c] \in {"summoned", "gone"}
  /\ Told(c) \cap {"QUEUE_FULL", "GAME_INIT"} = {}
  /\ "READY_TO_GO" \notin Said(c)

Ready == {c \in Party : Done(c)}

\* A counter never runs ahead of the players who have answered.
Counted ==
  /\ filling # NoRoom => ready_phase1 = 0
  /\ Pc = "phase1" => ready_phase2 = 0 /\ ready_phase1 <= Cardinality(Ready)
  /\ Pc = "phase2" =>
       ready_phase1 = RoomSize /\ ready_phase2 <= Cardinality(Ready)
  /\ Pc \in {"unused", "playing", "over", "ended"} =>
       ready_phase1 = 0 /\ ready_phase2 = 0

\* What ends the client's inner loop is under way.
LetsGo(c) == "GAME_OVER" \in Told(c) \/ Said(c) \cap {"GAME_QUIT", "EOF"} # {}

Bound ==
  \A c \in Clients : session[c] # NoRoom =>
    /\ conn[c] = "loop"
    /\ c \in Party
    /\ Pc \in {"registered", "started", "playing", "over", "ended"}
    /\ Pc \in {"over", "ended"} => LetsGo(c)

TInv == LinesOrdered /\ AllStand /\ Queued /\ FillsAlone /\ FullParty /\ Counted
          /\ Bound

----------------------------------------------------------------------------
(* Lines.                                                                  *)

\* A line that is sent is the last of its order.
LEMMA NewsAppend ==
  ASSUME NEW T, NEW s \in Seq(T), NEW line \in T, Ordered(s),
         line \in Answers \/ \A l \in News(s) : Rank(l) < Rank(line)
  PROVE  /\ Ordered(Append(s, line))
         /\ News(Append(s, line)) = News(s) \cup ({line} \ Answers)
BY HeedAppend DEF News, Ordered

\* The one that is read is the first, and is not there a second time.
LEMMA NewsTail ==
  ASSUME NEW T, NEW s \in Seq(T), s # <<>>, Ordered(s)
  PROVE  /\ Ordered(Tail(s))
         /\ News(Tail(s)) = News(s) \ {Head(s)}
         /\ Head(s) \in News(s) \/ Head(s) \in Answers
         /\ Head(s) \notin Answers =>
              \A l \in News(s) : l = Head(s) \/ Rank(Head(s)) < Rank(l)
BY HeedTail DEF News, Ordered

\* No line under way.
LEMMA NoNews == News(<<>>) = {} /\ Ordered(<<>>)
BY NoHeed DEF News, Ordered

----------------------------------------------------------------------------
(* The room and its counters.                                              *)

\* The party is the seats of the one room.
LEMMA PartyType ==
  ASSUME OneTable, MInv
  PROVE  /\ Room \in Rooms /\ \A r \in Rooms : r = Room
         /\ Pc \in RoomStates /\ NoRoom # Room
         /\ seats[Room] \in Seq(Clients)
         /\ Party = ToSet(seats[Room]) /\ Party \subseteq Clients
<1>1. Room \in Rooms /\ \A r \in Rooms : r = Room
  BY DEF OneTable
<1>2. seats[Room] \in Seq(Clients) /\ Pc \in RoomStates
  BY <1>1 DEF MInv, TypeOK, Pc
<1> QED
  BY <1>1, <1>2, MatchAssumption DEF Party, Players, ToSet

\* The players who have answered can be counted.
LEMMA ReadyCount ==
  ASSUME OneTable, MInv, FullParty, Pc \in Making
  PROVE  /\ IsFiniteSet(Party) /\ Cardinality(Party) = RoomSize
         /\ IsFiniteSet(Ready) /\ Cardinality(Ready) \in Nat
         /\ Cardinality(Ready) <= RoomSize
         /\ Cardinality(Ready) = RoomSize => Ready = Party
<1>1. seats[Room] \in Seq(Clients) /\ Party = ToSet(seats[Room])
  BY PartyType
<1>2. IsFiniteSet(Party) /\ Cardinality(Party) = RoomSize
  BY <1>1, PartySize DEF FullParty
<1>3. Ready \in SUBSET Party
  BY DEF Ready
<1>4. /\ IsFiniteSet(Ready) /\ Cardinality(Ready) <= Cardinality(Party)
      /\ Cardinality(Party) = Cardinality(Ready) => Party = Ready
  BY <1>2, <1>3, FS_Subset
<1>5. Cardinality(Ready) \in Nat
  BY <1>4, FS_CardinalityType
<1> QED
  BY <1>2, <1>4, <1>5

\* Where nobody takes back his answer, the counters stay behind.
LEMMA CountKeeps ==
  ASSUME OneTable, MInv, TInv, UNCHANGED <<filling, readyVars, roomPc, seats>>,
         Pc \in {"phase1", "phase2"} => Ready \subseteq Ready'
  PROVE  Counted'
<1>1. /\ Pc' = Pc /\ Party' = Party
      /\ UNCHANGED <<filling, ready_phase1, ready_phase2>>
  BY DEF Pc, Party, Players, readyVars
<1>2. CASE Pc \in {"phase1", "phase2"}
  <2>1. Pc \in Making /\ FullParty
    BY <1>2 DEF Making, TInv
  <2>2. IsFiniteSet(Party) /\ Cardinality(Ready) \in Nat
    BY <2>1, ReadyCount
  <2>3. Ready' \in SUBSET Party
    BY <1>1 DEF Ready
  <2>4. IsFiniteSet(Ready') /\ Cardinality(Ready') \in Nat
    BY <2>2, <2>3, FS_Subset, FS_CardinalityType
  <2>5. Cardinality(Ready) <= Cardinality(Ready')
    BY <1>2, <2>4, FS_Subset
  <2>6. ready_phase1 \in Nat /\ ready_phase2 \in Nat
    BY MatchAssumption DEF MInv, TypeOK
  <2> HIDE DEF Ready
  <2> QED
    BY <1>1, <1>2, <2>2, <2>4, <2>5, <2>6 DEF TInv, Counted
<1>3. CASE Pc \notin {"phase1", "phase2"}
  BY <1>1, <1>3 DEF TInv, Counted
<1> QED
  BY <1>2, <1>3

----------------------------------------------------------------------------
(* The client's program.                                                   *)

\* Where a client stands, by the screen it is on.
LEMMA OnScreen ==
  ASSUME TInv, NEW c \in Clients
  PROVE  /\ program[c] = "lobby" => ~ Seated(c) /\ Told(c) = {} /\ Said(c) \in Quits
         /\ program[c] = "waiting" =>
              \/ ~ Seated(c) /\ Told(c) = {} /\ Said(c) = {}
              \/ /\ ~ Seated(c) /\ Told(c) = {}
                 /\ \E said \in Quits : Said(c) = said \cup {"QUERY_WAIT"}
              \/ Seated(c) /\ filling # NoRoom /\ Told(c) = {} /\ Said(c) = {}
              \/ /\ Seated(c) /\ filling = NoRoom /\ Pc = "phase1"
                 /\ Told(c) = {"QUEUE_FULL"} /\ Said(c) = {}
         /\ program[c] = "summoned" =>
              \/ /\ ~ Seated(c) /\ Told(c) = {"GAME_START", "GAME_OVER"}
                 /\ Said(c) = {}
              \/ /\ Seated(c) /\ filling = NoRoom
                 /\ \/ /\ Pc \in {"phase1", "phase2"} /\ Told(c) = {}
                       /\ Said(c) \subseteq {"READY_TO_GO"}
                    \/ Pc = "phase2" /\ Told(c) = {"GAME_INIT"} /\ Said(c) = {}
                    \/ /\ Pc \in {"create", "registered"}
                       /\ Told(c) = {} /\ Said(c) = {}
                    \/ /\ Pc \in {"started", "playing"}
                       /\ Told(c) = {"GAME_START"} /\ Said(c) = {}
         /\ program[c] # "cancelling"
         /\ program[c] = "playing" =>
              /\ Said(c) \subseteq {"SESSION_READY"}
              /\ \/ ~ Seated(c) /\ Told(c) = {"GAME_OVER"}
                 \/ /\ Seated(c) /\ filling = NoRoom
                    /\ Pc \in {"started", "playing"} /\ Told(c) = {}
         /\ program[c] = "gone" => Told(c) = {}
         /\ Said(c) \subseteq ClientLines \ {"MATCHING_CANCEL"}
<1> USE DEF Stage, Left
<1>1. Stands(c) /\ FillsAlone
  BY DEF TInv, AllStand
<1>2. CASE ~ Seated(c)
  BY <1>1, <1>2 DEF Stands, Elsewhere, Quits, ClientLines
<1>3. CASE Seated(c) /\ filling # NoRoom
  BY <1>1, <1>3 DEF Stands, Listed, ClientLines
<1>4. CASE Seated(c) /\ filling = NoRoom
  <2>1. CASE Pc = "phase1"
    BY <1>1, <1>4, <2>1 DEF Stands, Invited, Answering, ClientLines
  <2>2. CASE Pc = "phase2"
    BY <1>1, <1>4, <2>2 DEF Stands, Dealt, Answering, ClientLines
  <2>3. CASE Pc \in {"create", "registered"}
    BY <1>1, <1>4, <2>3 DEF Stands, Prepared, ClientLines
  <2>4. CASE Pc \in {"started", "playing"}
    BY <1>1, <1>4, <2>4 DEF Stands, Plays, ClientLines
  <2> QED
    BY <1>4, <2>1, <2>2, <2>3, <2>4 DEF Seated, Making
<1> QED
  BY <1>2, <1>3, <1>4

\* A line that is said joins what is under way to the server.
LEMMA Saying ==
  ASSUME MInv, TInv, NEW c \in Clients, NEW line \in ClientLines, Say(c, line),
         \A l \in Said(c) : Rank(l) < Rank(line)
  PROVE  /\ Ordered(outbox'[c])
         /\ Said(c)' = Said(c) \cup {line}
         /\ \A x \in Clients : x # c => outbox'[x] = outbox[x]
<1>1. /\ outbox'[c] = Append(outbox[c], line)
      /\ outbox[c] \in Seq(ClientLines)
      /\ \A x \in Clients : x # c => outbox'[x] = outbox[x]
  BY SayTypes DEF MInv, TypeOK
<1>2. Ordered(outbox[c]) /\ line \notin Answers
  BY DEF TInv, LinesOrdered, ClientLines, Answers
<1>3. \A l \in News(outbox[c]) : Rank(l) < Rank(line)
  BY DEF Said
<1>4. /\ Ordered(Append(outbox[c], line))
      /\ News(Append(outbox[c], line)) = News(outbox[c]) \cup {line}
  BY <1>1, <1>2, <1>3, NewsAppend
<1> QED
  BY <1>1, <1>4 DEF Said

\* A line that is read is gone from what is under way to the client.
LEMMA Reading ==
  ASSUME MInv, TInv, NEW c \in Clients, inbox[c] # <<>>,
         inbox' = [inbox EXCEPT ![c] = Tail(@)]
  PROVE  /\ Ordered(inbox'[c])
         /\ Told(c)' = Told(c) \ {Head(inbox[c])}
         /\ Head(inbox[c]) \in Told(c) \/ Head(inbox[c]) \in Answers
         /\ Head(inbox[c]) \notin Answers =>
              \A l \in Told(c) :
                l = Head(inbox[c]) \/ Rank(Head(inbox[c])) < Rank(l)
         /\ \A x \in Clients : x # c => inbox'[x] = inbox[x]
<1>1. /\ inbox'[c] = Tail(inbox[c]) /\ inbox[c] \in Seq(ServerLines)
      /\ Ordered(inbox[c])
      /\ \A x \in Clients : x # c => inbox'[x] = inbox[x]
  BY DEF MInv, TypeOK, TInv, LinesOrdered
<1> QED
  BY <1>1, NewsTail DEF Told

\* What the program of one client does leaves the others where they stand, and
\* the server as it is.
LEMMA ClientKeeps ==
  ASSUME OneTable, MInv, TInv, NEW c \in Clients,
         UNCHANGED <<queueVars, readyVars, roomVars, conn, session>>,
         \A x \in Clients : x # c => /\ program'[x] = program[x]
                                     /\ inbox'[x] = inbox[x]
                                     /\ outbox'[x] = outbox[x],
         Ordered(inbox'[c]), Ordered(outbox'[c]), Stands(c)',
         c \in ToSet(waiting_queue) =>
           program'[c] \in {"waiting", "gone"} /\ Said(c)' \subseteq {"EOF"},
         Pc \in {"phase1", "phase2"} /\ c \in Party /\ Done(c) => Done(c)',
         LetsGo(c) => LetsGo(c)'
  PROVE  TInv'
<1>0. UNCHANGED <<waiting_queue, filling, ready_phase1, ready_phase2,
                  ongoing_sessions, roomPc, seats, conn, session>>
  BY DEF queueVars, readyVars, roomVars
<1>1. Pc' = Pc /\ Party' = Party /\ \A x : Seated(x)' <=> Seated(x)
  BY <1>0 DEF Pc, Party, Players, Seated
<1>2. \A x \in Clients : x # c => /\ Told(x)' = Told(x) /\ Said(x)' = Said(x)
                                  /\ program'[x] = program[x]
  BY DEF Told, Said
<1>3. LinesOrdered'
  BY DEF TInv, LinesOrdered
<1>4. AllStand'
  <2> SUFFICES ASSUME NEW x \in Clients, x # c PROVE Stands(x)'
    BY DEF AllStand
  <2>1. Stands(x) /\ filling' = filling
    BY <1>0 DEF TInv, AllStand
  <2> QED
    BY <1>1, <1>2, <2>1 DEF Stands, Elsewhere, Listed, Invited, Dealt, Answering,
                            Prepared, Plays, Stage, Left
<1>5. Queued'
  <2>1. ToSet(waiting_queue') = ToSet(waiting_queue)
        /\ ToSet(waiting_queue) \subseteq Clients
    BY <1>0 DEF ToSet, MInv, TypeOK
  <2> QED
    BY <1>0, <1>1, <1>2, <2>1 DEF TInv, Queued
<1>6. FillsAlone' /\ FullParty'
  BY <1>0, <1>1 DEF TInv, FillsAlone, FullParty
<1>7. Counted'
  <2>1. ASSUME Pc \in {"phase1", "phase2"} PROVE Ready \subseteq Ready'
    <3>1. \A x \in Party : Done(x) => Done(x)'
      BY <1>2, <2>1, PartyType DEF Done
    <3> QED
      BY <1>1, <3>1 DEF Ready
  <2> QED
    BY <1>0, <1>1, <2>1, CountKeeps
<1>8. Bound'
  BY <1>0, <1>1, <1>2 DEF TInv, Bound, LetsGo
<1> QED
  BY <1>3, <1>4, <1>5, <1>6, <1>7, <1>8 DEF TInv

\* The program asks, reads, answers and leaves, as OneTable lets it.
LEMMA PressMatchKeeps ==
  ASSUME OneTable, MInv, TInv, NEW c \in Clients, PressMatch(c)
  PROVE  TInv'
<1>1. /\ program[c] = "lobby" /\ Say(c, "QUERY_WAIT") /\ inbox' = inbox
      /\ UNCHANGED <<queueVars, readyVars, roomVars, conn, session>>
      /\ Show(c, "waiting")
  BY DEF PressMatch
<1>2. /\ program'[c] = "waiting"
      /\ \A x \in Clients : x # c => program'[x] = program[x]
  BY <1>1 DEF Show, MInv, TypeOK
<1>3. ~ Seated(c) /\ Told(c) = {} /\ Said(c) \in Quits
  BY <1>1, OnScreen
<1>4. /\ Ordered(outbox'[c]) /\ Said(c)' = Said(c) \cup {"QUERY_WAIT"}
      /\ \A x \in Clients : x # c => outbox'[x] = outbox[x]
  BY <1>1, <1>3, Saying DEF Quits, Rank, ClientLines
<1>5. Ordered(inbox'[c]) /\ Told(c)' = {}
  BY <1>1, <1>3 DEF Told, TInv, LinesOrdered
<1>6. ~ Seated(c)'
  BY <1>1, <1>3 DEF Seated, Party, Players, Pc, roomVars
<1>7. Stands(c)'
  BY <1>2, <1>3, <1>4, <1>5, <1>6 DEF Stands, Elsewhere, Stage
<1>8. c \notin ToSet(waiting_queue)
  BY <1>1 DEF TInv, Queued
<1>9. ~ Done(c) /\ (LetsGo(c) => LetsGo(c)')
  BY <1>1, <1>3, <1>4 DEF Done, LetsGo
<1> QED
  BY <1>1, <1>2, <1>4, <1>5, <1>7, <1>8, <1>9, ClientKeeps

\* A client that reads QUEUE_FULL or GAME_INIT owes the answer no more, and one
\* that reads GAME_START plays.
LEMMA ReadWaitingKeeps ==
  ASSUME OneTable, MInv, TInv, NEW c \in Clients, ReadWaiting(c)
  PROVE  TInv'
<1> DEFINE line == Head(inbox[c])
<1>1. /\ program[c] \in {"waiting", "summoned"} /\ inbox[c] # <<>>
      /\ inbox' = [inbox EXCEPT ![c] = Tail(@)]
      /\ UNCHANGED <<queueVars, readyVars, roomVars, conn, session>>
  BY DEF ReadWaiting
<1>2. /\ Ordered(inbox'[c]) /\ Told(c)' = Told(c) \ {line}
      /\ line \in Told(c) \/ line \in Answers
      /\ line \notin Answers =>
           \A l \in Told(c) : l = line \/ Rank(line) < Rank(l)
      /\ \A x \in Clients : x # c => inbox'[x] = inbox[x]
  BY <1>1, Reading
<1>3. (Seated(c)' <=> Seated(c)) /\ Pc' = Pc /\ filling' = filling
  BY <1>1 DEF Seated, Party, Players, Pc, roomVars, queueVars
<1>4. Ordered(outbox[c])
  BY DEF TInv, LinesOrdered
<1>5. \A screen : Show(c, screen) =>
        /\ program'[c] = screen
        /\ \A x \in Clients : x # c => program'[x] = program[x]
  BY DEF Show, MInv, TypeOK
<1>6. c \in ToSet(waiting_queue) =>
        /\ Said(c) \subseteq {"EOF"} /\ program[c] = "waiting"
        /\ filling = NoRoom => ~ Seated(c)
  BY <1>1 DEF TInv, Queued
<1>7. CASE line = "QUEUE_FULL"
  <2>1. Show(c, "summoned") /\ Say(c, "READY_TO_GO")
    BY <1>7 DEF ReadWaiting
  <2>2. /\ Seated(c) /\ filling = NoRoom /\ Pc = "phase1"
        /\ Told(c) = {"QUEUE_FULL"} /\ Said(c) = {}
    BY <1>1, <1>2, <1>7, OnScreen DEF Answers
  <2>3. /\ Ordered(outbox'[c]) /\ Said(c)' = {"READY_TO_GO"}
        /\ \A x \in Clients : x # c => outbox'[x] = outbox[x]
    BY <2>1, <2>2, Saying DEF ClientLines
  <2>4. Stands(c)'
    BY <1>2, <1>3, <1>5, <1>7, <2>1, <2>2, <2>3
       DEF Stands, Invited, Answering, Stage
  <2>5. ~ Done(c) /\ ~ LetsGo(c)
    BY <2>2 DEF Done, LetsGo
  <2> QED
    BY <1>1, <1>2, <1>5, <1>6, <2>1, <2>2, <2>3, <2>4, <2>5, ClientKeeps
<1>8. CASE line = "GAME_INIT"
  <2>1. UNCHANGED program /\ Say(c, "READY_TO_GO")
    BY <1>8 DEF ReadWaiting
  <2>2. /\ Seated(c) /\ filling = NoRoom /\ Pc = "phase2"
        /\ Told(c) = {"GAME_INIT"} /\ Said(c) = {} /\ program[c] = "summoned"
    BY <1>1, <1>2, <1>8, OnScreen DEF Answers
  <2>3. /\ Ordered(outbox'[c]) /\ Said(c)' = {"READY_TO_GO"}
        /\ \A x \in Clients : x # c => outbox'[x] = outbox[x]
    BY <2>1, <2>2, Saying DEF ClientLines
  <2>4. Stands(c)'
    BY <1>2, <1>3, <1>8, <2>1, <2>2, <2>3 DEF Stands, Dealt, Answering, Stage
  <2>5. ~ Done(c) /\ ~ LetsGo(c)
    BY <2>2 DEF Done, LetsGo
  <2> QED
    BY <1>1, <1>2, <1>6, <2>1, <2>2, <2>3, <2>4, <2>5, ClientKeeps
<1>9. CASE line = "GAME_START"
  <2>1. Show(c, "playing") /\ Say(c, "SESSION_READY")
    BY <1>9 DEF ReadWaiting
  <2>2. /\ program[c] = "summoned" /\ Said(c) = {}
        /\ \/ ~ Seated(c) /\ Told(c) = {"GAME_START", "GAME_OVER"}
           \/ /\ Seated(c) /\ filling = NoRoom /\ Told(c) = {"GAME_START"}
              /\ Pc \in {"started", "playing"}
    BY <1>1, <1>2, <1>9, OnScreen DEF Answers
  <2>3. /\ Ordered(outbox'[c]) /\ Said(c)' = {"SESSION_READY"}
        /\ \A x \in Clients : x # c => outbox'[x] = outbox[x]
    BY <2>1, <2>2, Saying DEF ClientLines
  <2>4. Told(c)' = IF Seated(c) THEN {} ELSE {"GAME_OVER"}
    BY <1>2, <1>9, <2>2
  <2>5. Stands(c)'
    BY <1>3, <1>5, <2>1, <2>2, <2>3, <2>4
       DEF Stands, Elsewhere, Plays, Stage
  <2>6. /\ LetsGo(c) => LetsGo(c)'
        /\ ~ (Pc \in {"phase1", "phase2"} /\ c \in Party)
    BY <2>2, <2>4 DEF LetsGo, Seated, Making
  <2> QED
    BY <1>1, <1>2, <1>5, <1>6, <2>1, <2>2, <2>3, <2>5, <2>6, ClientKeeps
<1>10. CASE line \notin {"QUEUE_FULL", "GAME_INIT", "GAME_START"}
  <2>1. UNCHANGED <<program, outbox>>
    BY <1>10 DEF ReadWaiting
  <2>2. line \in Answers
    <3>1. line # "GAME_OVER"
      <4> SUFFICES ASSUME line = "GAME_OVER" PROVE FALSE
        OBVIOUS
      <4>1. line \in Told(c) /\ \A l \in Told(c) : l = line \/ Rank(line) < Rank(l)
        BY <1>2 DEF Answers
      <4>2. "GAME_START" \in Told(c)
        BY <1>1, <4>1, OnScreen
      <4>3. Rank(line) < Rank("GAME_START")
        BY <4>1, <4>2
      <4> QED
        BY <4>3 DEF Rank
    <3>2. Told(c) \subseteq {"QUEUE_FULL", "GAME_INIT", "GAME_START", "GAME_OVER"}
      BY <1>1, OnScreen
    <3> QED
      BY <1>2, <1>10, <3>1, <3>2
  <2>3. Told(c)' = Told(c) /\ Said(c)' = Said(c)
    BY <1>2, <2>1, <2>2 DEF Told, Said, News, Heed
  <2>4. Stands(c)
    BY DEF TInv, AllStand
  <2>5. Stands(c)'
    BY <1>3, <2>1, <2>3, <2>4
       DEF Stands, Elsewhere, Listed, Invited, Dealt, Answering, Prepared, Plays,
           Stage, Left
  <2>6. /\ Done(c) => Done(c)'
        /\ LetsGo(c) => LetsGo(c)'
    BY <2>1, <2>3 DEF Done, LetsGo
  <2> QED
    BY <1>1, <1>2, <1>4, <1>6, <2>1, <2>3, <2>5, <2>6, ClientKeeps
<1> QED
  BY <1>7, <1>8, <1>9, <1>10

\* GAME_OVER sends a player back to the lobby; what else comes changes nothing.
LEMMA ReadPlayingKeeps ==
  ASSUME OneTable, MInv, TInv, NEW c \in Clients, ReadPlaying(c)
  PROVE  TInv'
<1> DEFINE line == Head(inbox[c])
<1>1. /\ program[c] = "playing" /\ inbox[c] # <<>>
      /\ inbox' = [inbox EXCEPT ![c] = Tail(@)]
      /\ UNCHANGED <<queueVars, readyVars, roomVars, conn, session>>
  BY DEF ReadPlaying
<1>2. /\ Ordered(inbox'[c]) /\ Told(c)' = Told(c) \ {line}
      /\ line \in Told(c) \/ line \in Answers
      /\ \A x \in Clients : x # c => inbox'[x] = inbox[x]
  BY <1>1, Reading
<1>3. (Seated(c)' <=> Seated(c)) /\ Pc' = Pc /\ filling' = filling
  BY <1>1 DEF Seated, Party, Players, Pc, roomVars, queueVars
<1>4. /\ Said(c) \subseteq {"SESSION_READY"}
      /\ \/ ~ Seated(c) /\ Told(c) = {"GAME_OVER"}
         \/ /\ Seated(c) /\ filling = NoRoom
            /\ Pc \in {"started", "playing"} /\ Told(c) = {}
  BY <1>1, OnScreen
<1>5. c \notin ToSet(waiting_queue) /\ ~ Done(c)
  BY <1>1 DEF TInv, Queued, Done
<1>6. CASE line = "GAME_OVER"
  <2>1. Show(c, "lobby") /\ Say(c, "GAME_QUIT")
    BY <1>6 DEF ReadPlaying
  <2>2. /\ program'[c] = "lobby"
        /\ \A x \in Clients : x # c => program'[x] = program[x]
    BY <2>1 DEF Show, MInv, TypeOK
  <2>3. /\ Ordered(outbox'[c]) /\ Said(c)' = Said(c) \cup {"GAME_QUIT"}
        /\ \A x \in Clients : x # c => outbox'[x] = outbox[x]
    BY <1>4, <2>1, Saying DEF ClientLines, Rank
  <2>4. ~ Seated(c) /\ Told(c)' = {}
    BY <1>2, <1>4, <1>6 DEF Answers
  <2>5. Said(c)' \in Quits
    BY <1>4, <2>3 DEF Quits
  <2>6. Stands(c)'
    BY <1>3, <2>2, <2>4, <2>5 DEF Stands, Elsewhere, Stage
  <2>7. LetsGo(c)'
    BY <2>3 DEF LetsGo
  <2> QED
    BY <1>1, <1>2, <1>5, <2>2, <2>3, <2>6, <2>7, ClientKeeps
<1>7. CASE line # "GAME_OVER"
  <2>1. UNCHANGED <<program, outbox>> /\ Ordered(outbox[c])
    BY <1>7 DEF ReadPlaying, TInv, LinesOrdered
  <2>2. Told(c)' = Told(c) /\ Said(c)' = Said(c)
    BY <1>2, <1>4, <1>7, <2>1 DEF Said
  <2>3. Stands(c)
    BY DEF TInv, AllStand
  <2>4. Stands(c)'
    BY <1>3, <2>1, <2>2, <2>3
       DEF Stands, Elsewhere, Listed, Invited, Dealt, Answering, Prepared, Plays,
           Stage, Left
  <2>5. LetsGo(c) => LetsGo(c)'
    BY <2>2 DEF LetsGo
  <2> QED
    BY <1>1, <1>2, <1>5, <2>1, <2>4, <2>5, ClientKeeps
<1> QED
  BY <1>6, <1>7

\* Who leaves is counted as having answered, wherever it stands.
LEMMA DisconnectKeeps ==
  ASSUME OneTable, MInv, TInv, NEW c \in Clients, Disconnect(c)
  PROVE  TInv'
<1>1. /\ program[c] # "gone" /\ Show(c, "gone") /\ Say(c, "EOF")
      /\ inbox' = [inbox EXCEPT ![c] = <<>>]
      /\ UNCHANGED <<queueVars, readyVars, roomVars, conn, session>>
  BY DEF Disconnect
<1>2. /\ program'[c] = "gone" /\ inbox'[c] = <<>>
      /\ \A x \in Clients : x # c =>
           program'[x] = program[x] /\ inbox'[x] = inbox[x]
  BY <1>1 DEF Show, MInv, TypeOK
<1>3. Ordered(inbox'[c]) /\ Told(c)' = {}
  BY <1>2, NoNews DEF Told
<1>4. (Seated(c)' <=> Seated(c)) /\ Pc' = Pc /\ filling' = filling
  BY <1>1 DEF Seated, Party, Players, Pc, roomVars, queueVars
<1>5. Stands(c)
  BY DEF TInv, AllStand
<1>6. "EOF" \notin Said(c)
  BY <1>1, <1>5 DEF Stands, Elsewhere, Listed, Invited, Dealt, Answering,
                    Prepared, Plays, Stage, Left, Quits
<1>7. Said(c) \subseteq ClientLines
  BY OnScreen
<1>8. \A l \in Said(c) : Rank(l) < Rank("EOF")
  BY <1>1, <1>5 DEF Rank, Stands, Elsewhere, Listed, Invited, Dealt, Answering,
                    Prepared, Plays, Stage, Left, Quits
<1>9. /\ Ordered(outbox'[c]) /\ Said(c)' = Said(c) \cup {"EOF"}
      /\ \A x \in Clients : x # c => outbox'[x] = outbox[x]
  BY <1>1, <1>8, Saying DEF ClientLines
<1>10. Stands(c)'
  BY <1>1, <1>2, <1>3, <1>4, <1>5, <1>9
     DEF Stands, Elsewhere, Listed, Invited, Dealt, Answering, Prepared, Plays,
         Stage, Left, Quits
<1>11. /\ c \in ToSet(waiting_queue) => Said(c)' \subseteq {"EOF"}
       /\ Done(c) => Done(c)'
       /\ LetsGo(c)'
  BY <1>2, <1>3, <1>9 DEF TInv, Queued, Done, LetsGo
<1> QED
  BY <1>1, <1>2, <1>3, <1>9, <1>10, <1>11, ClientKeeps

\* So every step of a client's program keeps the invariant.
LEMMA ClientStepKeeps ==
  ASSUME OneTable, MInv, TInv, NEW c \in Clients, Client(c)
  PROVE  TInv'
<1>1. ~ PressCancel(c)
  BY DEF OneTable, PressCancel
<1>2. ~ ReadCancelAnswer(c)
  BY OnScreen DEF ReadCancelAnswer
<1> QED
  BY <1>1, <1>2, PressMatchKeeps, ReadWaitingKeeps, ReadPlayingKeeps,
     DisconnectKeeps DEF Client

----------------------------------------------------------------------------
(* The connection threads.                                                 *)

\* The line that is heard was the first of those under way.
LEMMA Hearing ==
  ASSUME MInv, TInv, NEW c \in Clients, NEW loop, NEW line, Hears(c, loop, line)
  PROVE  /\ Ordered(outbox'[c])
         /\ Said(c)' = Said(c) \ {line} /\ line \in Said(c)
         /\ \A l \in Said(c) : l = line \/ Rank(line) < Rank(l)
         /\ \A x \in Clients : x # c => outbox'[x] = outbox[x]
<1>1. /\ outbox'[c] = Tail(outbox[c]) /\ outbox[c] # <<>>
      /\ outbox[c] \in Seq(ClientLines) /\ Head(outbox[c]) = line
      /\ \A x \in Clients : x # c => outbox'[x] = outbox[x]
  BY HearTypes DEF MInv, Hears
<1>2. Ordered(outbox[c])
  BY DEF TInv, LinesOrdered
<1>3. line \notin Answers
  <2>1. Head(outbox[c]) \in ClientLines
    BY <1>1
  <2> QED
    BY <1>1, <2>1 DEF ClientLines, Answers
<1> QED
  BY <1>1, <1>2, <1>3, NewsTail DEF Said

\* Where a client stands, by what it has said.
LEMMA BySaid ==
  ASSUME TInv, NEW c \in Clients
  PROVE  /\ "READY_TO_GO" \in Said(c) =>
              /\ Seated(c) /\ filling = NoRoom /\ Pc \in {"phase1", "phase2"}
              /\ program[c] \in {"summoned", "gone"} /\ Told(c) = {}
         /\ "SESSION_READY" \in Said(c) =>
              ~ Seated(c) \/ Pc \in {"started", "playing"}
         /\ "GAME_QUIT" \in Said(c) => ~ Seated(c)
         /\ "QUERY_WAIT" \in Said(c) =>
              ~ Seated(c) /\ program[c] \in {"waiting", "gone"}
<1> USE DEF Stage, Left
<1>1. Stands(c) /\ FillsAlone
  BY DEF TInv, AllStand
<1>2. CASE ~ Seated(c)
  BY <1>1, <1>2 DEF Stands, Elsewhere, Quits
<1>3. CASE Seated(c) /\ filling # NoRoom
  BY <1>1, <1>3 DEF Stands, Listed
<1>4. CASE Seated(c) /\ filling = NoRoom
  <2>1. CASE Pc = "phase1"
    BY <1>1, <1>4, <2>1 DEF Stands, Invited, Answering
  <2>2. CASE Pc = "phase2"
    BY <1>1, <1>4, <2>2 DEF Stands, Dealt, Answering
  <2>3. CASE Pc \in {"create", "registered"}
    BY <1>1, <1>4, <2>3 DEF Stands, Prepared
  <2>4. CASE Pc \in {"started", "playing"}
    BY <1>1, <1>4, <2>4 DEF Stands, Plays
  <2> QED
    BY <1>4, <2>1, <2>2, <2>3, <2>4 DEF Seated, Making
<1> QED
  BY <1>2, <1>3, <1>4

\* A client that has left and is not closed yet is about to be.
LEMMA GoneIsHeardOf ==
  ASSUME MInv, NEW c \in Clients, program[c] = "gone", conn[c] = "loop"
  PROVE  "EOF" \in Said(c)
<1>1. InStep("gone", "loop", outbox[c]) /\ outbox[c] \in Seq(ClientLines)
  BY DEF MInv, AllInStep, Loop, TypeOK
<1>2. outbox[c] # <<>> /\ Leads(outbox[c][Len(outbox[c])]) = "closed"
  BY <1>1 DEF InStep, LoopOf
<1>3. Len(outbox[c]) \in DOMAIN outbox[c]
  BY <1>1, <1>2, EmptySeq
<1>4. outbox[c][Len(outbox[c])] = "EOF"
  BY <1>2 DEF Leads
<1> QED
  BY <1>3, <1>4 DEF Said, News, Heed, ToSet, Answers

\* To be heard changes nothing of where a client stands.
LEMMA HeardStands ==
  ASSUME TInv, NEW c \in Clients, NEW line \in Said(c),
         Said(c)' = Said(c) \ {line},
         \A l \in Said(c) : l = line \/ Rank(line) < Rank(l),
         UNCHANGED <<filling, roomVars, program>>, Told(c)' = Told(c)
  PROVE  Stands(c)'
<1> USE DEF Stage, Left
<1>1. Stands(c) /\ UNCHANGED filling /\ program'[c] = program[c]
  BY DEF TInv, AllStand
<1>2. (Seated(c)' <=> Seated(c)) /\ Pc' = Pc
  BY DEF Seated, Party, Players, Pc, roomVars
<1>3. CASE ~ Seated(c)
  <2>1. Elsewhere(c)
    BY <1>1, <1>3 DEF Stands
  <2>2. ASSUME NEW said \in Quits, Said(c) = said PROVE Said(c)' \in Quits
    BY <2>2 DEF Quits, Rank
  <2>3. ASSUME NEW said \in Quits, Said(c) = said \cup {"QUERY_WAIT"}
        PROVE  Said(c)' = {}
                 \/ \E s \in Quits : Said(c)' = s \cup {"QUERY_WAIT"}
    <3>1. CASE line = "QUERY_WAIT"
      BY <2>3, <3>1 DEF Quits, Rank
    <3>2. CASE line # "QUERY_WAIT"
      <4>1. said \ {line} \in Quits
        BY <2>3, <3>2 DEF Quits, Rank
      <4>2. Said(c)' = (said \ {line}) \cup {"QUERY_WAIT"}
        BY <2>3, <3>2
      <4> QED
        BY <4>1, <4>2
    <3> QED
      BY <3>1, <3>2
  <2>4. Elsewhere(c)'
    BY <1>1, <2>1, <2>2, <2>3 DEF Elsewhere
  <2> QED
    BY <1>2, <1>3, <2>4 DEF Stands
<1>4. CASE Seated(c)
  BY <1>1, <1>2, <1>4 DEF Stands, Listed, Invited, Dealt, Answering, Prepared,
                          Plays
<1> QED
  BY <1>3, <1>4

\* What one thread hears leaves the others where they are.
LEMMA HearKeeps ==
  ASSUME OneTable, MInv, TInv, NEW c \in Clients, NEW loop, NEW line,
         Hears(c, loop, line), loop # "filling", conn'[c] # "filling",
         UNCHANGED <<filling, roomVars, program>>,
         \A x \in Clients : /\ Ordered(inbox'[x]) /\ Told(x)' = Told(x)
                            /\ x # c => /\ conn'[x] = conn[x]
                                        /\ session'[x] = session[x],
         Queued', Counted',
         session'[c] # NoRoom =>
           /\ conn'[c] = "loop" /\ c \in Party
           /\ Pc \in {"registered", "started", "playing", "over", "ended"}
           /\ Pc \in {"over", "ended"} => LetsGo(c)'
  PROVE  TInv'
<1>1. /\ Ordered(outbox'[c])
      /\ Said(c)' = Said(c) \ {line} /\ line \in Said(c)
      /\ \A l \in Said(c) : l = line \/ Rank(line) < Rank(l)
      /\ \A x \in Clients : x # c => outbox'[x] = outbox[x]
  BY Hearing
<1>2. /\ Pc' = Pc /\ Party' = Party /\ \A x : Seated(x)' <=> Seated(x)
      /\ UNCHANGED <<ongoing_sessions, roomPc, seats, filling, program>>
  BY DEF Pc, Party, Players, Seated, roomVars
<1>3. \A x \in Clients : x # c => Told(x)' = Told(x) /\ Said(x)' = Said(x)
  BY <1>1 DEF Said
<1>4. LinesOrdered'
  BY <1>1 DEF TInv, LinesOrdered
<1>5. Stands(c)'
  BY <1>1, HeardStands
<1>6. AllStand'
  <2> SUFFICES ASSUME NEW x \in Clients, x # c PROVE Stands(x)'
    BY <1>5 DEF AllStand
  <2>1. Stands(x)
    BY DEF TInv, AllStand
  <2> QED
    BY <1>2, <1>3, <2>1 DEF Stands, Elsewhere, Listed, Invited, Dealt, Answering,
                            Prepared, Plays, Stage, Left
<1>7. conn[c] = loop
  BY DEF Hears
<1>8. FillsAlone' /\ FullParty'
  BY <1>2, <1>7 DEF TInv, FillsAlone, FullParty
<1>9. Bound'
  BY <1>2, <1>3 DEF TInv, Bound, LetsGo
<1> QED
  BY <1>4, <1>6, <1>8, <1>9 DEF TInv

\* Who has been heard has answered all the more.
LEMMA HeardCounts ==
  ASSUME OneTable, MInv, TInv, NEW c \in Clients, NEW loop, NEW line,
         Hears(c, loop, line), UNCHANGED <<filling, readyVars, roomVars, program>>,
         \A x \in Clients : Told(x)' = Told(x)
  PROVE  Counted'
<1>1. /\ Said(c)' = Said(c) \ {line}
      /\ \A x \in Clients : x # c => outbox'[x] = outbox[x]
  BY Hearing
<1>2. \A x \in Clients : Said(x)' \subseteq Said(x)
  BY <1>1 DEF Said
<1>3. Party' = Party /\ Party \subseteq Clients
  BY PartyType DEF Party, Players, roomVars
<1>4. Ready \subseteq Ready'
  BY <1>2, <1>3 DEF Ready, Done
<1> QED
  BY <1>4, CountKeeps DEF roomVars

\* A queue nobody joins or leaves.
LEMMA QueueKeeps ==
  ASSUME OneTable, MInv, TInv, NEW c \in Clients, NEW loop, NEW line,
         Hears(c, loop, line), UNCHANGED <<queueVars, roomVars, program>>,
         \A x \in Clients : x # c => conn'[x] = conn[x],
         c \in ToSet(waiting_queue) => conn'[c] \in {"loop", "filling"}
  PROVE  Queued'
<1>1. /\ Said(c)' = Said(c) \ {line}
      /\ \A x \in Clients : x # c => outbox'[x] = outbox[x]
  BY Hearing
<1>2. \A x \in Clients : Said(x)' \subseteq Said(x)
  BY <1>1 DEF Said
<1>3. /\ \A x : Seated(x)' <=> Seated(x)
      /\ UNCHANGED <<waiting_queue, filling, program>>
  BY DEF Pc, Party, Players, Seated, roomVars, queueVars
<1>4. ToSet(waiting_queue) \subseteq Clients
  BY DEF ToSet, MInv, TypeOK
<1>5. ToSet(waiting_queue') = ToSet(waiting_queue)
  BY <1>3
<1> QED
  BY <1>2, <1>3, <1>4, <1>5 DEF TInv, Queued

\* Whoever asks and is heard joins the queue, seated nowhere.
LEMMA EnqueueKeeps ==
  ASSUME OneTable, MInv, TInv, NEW c \in Clients, Enqueue(c)
  PROVE  TInv'
<1>1. /\ Hears(c, "lobby", "QUERY_WAIT") /\ filling = NoRoom
      /\ waiting_queue' = Append(waiting_queue, c) /\ Enter(c, "loop")
      /\ UNCHANGED <<filling, readyVars, roomVars, program, inbox>>
  BY DEF Enqueue
<1>2. /\ conn'[c] = "loop" /\ session'[c] = NoRoom
      /\ \A x \in Clients : x # c => /\ conn'[x] = conn[x]
                                     /\ session'[x] = session[x]
  BY <1>1, Entering
<1>3. /\ Said(c)' = Said(c) \ {"QUERY_WAIT"} /\ "QUERY_WAIT" \in Said(c)
      /\ \A l \in Said(c) : l = "QUERY_WAIT" \/ Rank("QUERY_WAIT") < Rank(l)
      /\ \A x \in Clients : x # c => outbox'[x] = outbox[x]
  BY <1>1, Hearing
<1>4. ~ Seated(c) /\ program[c] \in {"waiting", "gone"}
  BY <1>3, BySaid
<1>5. Said(c)' \subseteq {"EOF"}
  <2>1. Said(c) \subseteq ClientLines \ {"MATCHING_CANCEL"}
    BY OnScreen
  <2> QED
    BY <1>3, <2>1 DEF ClientLines, Rank
<1>6. c \notin ToSet(waiting_queue) /\ conn[c] = "lobby"
  BY <1>1 DEF Hears, TInv, Queued
<1>7. waiting_queue \in Seq(Clients) /\ ToSet(waiting_queue) \subseteq Clients
  BY DEF ToSet, MInv, TypeOK
<1>8. /\ IsInjective(waiting_queue')
      /\ ToSet(waiting_queue') = ToSet(waiting_queue) \cup {c}
  BY <1>1, <1>6, <1>7, JoinQueue DEF TInv, Queued
<1>9. \A x : Seated(x)' <=> Seated(x)
  BY <1>1 DEF Pc, Party, Players, Seated, roomVars
<1>10. Queued'
  <2>1. ASSUME NEW x \in ToSet(waiting_queue), x # c
        PROVE  /\ conn'[x] \in {"loop", "filling"}
               /\ program'[x] \in {"waiting", "gone"}
               /\ Said(x)' \subseteq {"EOF"}
               /\ ~ Seated(x)'
    BY <1>1, <1>2, <1>3, <1>7, <1>9, <2>1 DEF TInv, Queued, Said
  <2> QED
    BY <1>1, <1>2, <1>4, <1>5, <1>8, <1>9, <2>1 DEF Queued
<1>11. \A x \in Clients : Ordered(inbox'[x]) /\ Told(x)' = Told(x)
  BY <1>1 DEF Told, TInv, LinesOrdered
<1>12. Counted'
  BY <1>1, <1>11, HeardCounts
<1> QED
  BY <1>1, <1>2, <1>10, <1>11, <1>12, HearKeeps

\* A room fills: nobody is bound, nobody has been counted, and whoever has a
\* seat has asked and heard nothing yet.
LEMMA FillRoomKeeps ==
  ASSUME OneTable, MInv, TInv, NEW c \in Clients, NEW r \in Rooms,
         FillRoom(c, r)
  PROVE  TInv'
<1>1. /\ Hears(c, "lobby", "QUERY_WAIT") /\ filling = NoRoom
      /\ waiting_queue' = Append(waiting_queue, c) /\ Enter(c, "filling")
      /\ Len(waiting_queue') = RoomSize
      /\ Free(Room) /\ filling' = Room
      /\ roomPc' = [roomPc EXCEPT ![Room] = "phase1"]
      /\ seats' = [seats EXCEPT ![Room] = waiting_queue']
      /\ UNCHANGED <<readyVars, ongoing_sessions, program, inbox>>
  BY PartyType DEF FillRoom
<1>2. /\ conn'[c] = "filling" /\ session'[c] = NoRoom
      /\ \A x \in Clients : x # c => /\ conn'[x] = conn[x]
                                     /\ session'[x] = session[x]
  BY <1>1, Entering
<1>3. /\ Ordered(outbox'[c])
      /\ Said(c)' = Said(c) \ {"QUERY_WAIT"} /\ "QUERY_WAIT" \in Said(c)
      /\ \A l \in Said(c) : l = "QUERY_WAIT" \/ Rank("QUERY_WAIT") < Rank(l)
      /\ \A x \in Clients : x # c => outbox'[x] = outbox[x]
  BY <1>1, Hearing
<1>4. /\ ~ Seated(c) /\ program[c] \in {"waiting", "gone"}
      /\ program[c] = "waiting" => "EOF" \notin Said(c)
      /\ Told(c) = {}
  BY <1>3, BySaid, OnScreen DEF Quits
<1>5. Said(c)' \subseteq {"EOF"}
  <2>1. Said(c) \subseteq ClientLines \ {"MATCHING_CANCEL"}
    BY OnScreen
  <2> QED
    BY <1>3, <2>1 DEF ClientLines, Rank
<1>6. c \notin ToSet(waiting_queue) /\ conn[c] = "lobby"
  BY <1>1 DEF Hears, TInv, Queued
<1>7. waiting_queue \in Seq(Clients) /\ ToSet(waiting_queue) \subseteq Clients
  BY DEF ToSet, MInv, TypeOK
<1>8. /\ IsInjective(waiting_queue')
      /\ ToSet(waiting_queue') = ToSet(waiting_queue) \cup {c}
      /\ waiting_queue' \in Seq(Clients)
  BY <1>1, <1>6, <1>7, JoinQueue DEF TInv, Queued
<1>9. /\ Pc' = "phase1" /\ seats'[Room] = waiting_queue'
      /\ Party' = ToSet(waiting_queue')
      /\ \A x : Seated(x)' <=> x \in ToSet(waiting_queue')
  <2>1. Room \in Rooms
    BY PartyType
  <2>2. roomPc'[Room] = "phase1" /\ seats'[Room] = waiting_queue'
    BY <1>1, <2>1 DEF MInv, TypeOK
  <2> QED
    BY <2>2 DEF Pc, Party, Players, Seated, Making
<1>10. Pc \in {"unused", "ended"} /\ \A x : ~ Seated(x)
  BY <1>1 DEF Free, Pc, Seated, Making, TInv, FullParty
<1>11. \A x \in Clients : session'[x] = NoRoom
  BY <1>1, <1>2, PartyType DEF Free, MInv, TypeOK
<1>12. \A x \in Clients : x # c => Told(x)' = Told(x) /\ Said(x)' = Said(x)
  BY <1>1, <1>3 DEF Told, Said
<1>13. Told(c)' = {} /\ program' = program
  BY <1>1, <1>4 DEF Told
<1>14. NoRoom # Room
  BY PartyType
<1>15. LinesOrdered'
  BY <1>1, <1>3 DEF TInv, LinesOrdered
<1>16. AllStand'
  <2> SUFFICES ASSUME NEW x \in Clients PROVE Stands(x)'
    BY DEF AllStand
  <2>1. CASE x = c
    <3>1. program[c] = "waiting" => Said(c)' = {}
      BY <1>3, <1>4, <1>5
    <3>2. Listed(c)'
      BY <1>4, <1>5, <1>13, <3>1 DEF Listed, Stage, Left
    <3> QED
      BY <1>1, <1>8, <1>9, <1>14, <2>1, <3>2 DEF Stands
  <2>2. CASE x # c /\ x \in ToSet(waiting_queue)
    <3>1. program[x] \in {"waiting", "gone"} /\ Said(x) \subseteq {"EOF"}
      BY <2>2 DEF TInv, Queued
    <3>2. /\ program[x] = "waiting" => Told(x) = {} /\ Said(x) = {}
          /\ program[x] = "gone" => Told(x) = {}
      BY <1>10, <3>1, OnScreen
    <3>3. Listed(x)'
      BY <1>12, <1>13, <2>2, <3>1, <3>2 DEF Listed, Stage, Left
    <3> QED
      BY <1>1, <1>8, <1>9, <1>14, <2>2, <3>3 DEF Stands
  <2>3. CASE x # c /\ x \notin ToSet(waiting_queue)
    <3>1. Elsewhere(x)
      BY <1>10 DEF TInv, AllStand, Stands
    <3>2. Elsewhere(x)'
      BY <1>12, <1>13, <2>3, <3>1 DEF Elsewhere, Stage, Left
    <3> QED
      BY <1>8, <1>9, <2>3, <3>2 DEF Stands
  <2> QED
    BY <2>1, <2>2, <2>3
<1>17. Queued'
  <2>1. ASSUME NEW x \in ToSet(waiting_queue), x # c
        PROVE  /\ conn'[x] \in {"loop", "filling"}
               /\ program'[x] \in {"waiting", "gone"}
               /\ Said(x)' \subseteq {"EOF"}
    BY <1>2, <1>7, <1>12, <1>13, <2>1 DEF TInv, Queued
  <2> QED
    BY <1>1, <1>2, <1>4, <1>5, <1>8, <1>13, <1>14, <2>1 DEF Queued
<1>18. FillsAlone'
  BY <1>1, <1>2, <1>9, <1>14 DEF TInv, FillsAlone
<1>19. FullParty'
  BY <1>1, <1>8, <1>9 DEF FullParty
<1>20. Counted'
  <2>1. /\ ready_phase1 = 0 /\ ready_phase2 = 0
        /\ ready_phase1' = 0 /\ ready_phase2' = 0
    BY <1>1, <1>10 DEF TInv, Counted, readyVars
  <2>2. IsFiniteSet(Party')
    BY <1>8, <1>9, PartySize
  <2>3. Ready' \in SUBSET Party'
    BY DEF Ready
  <2>4. Cardinality(Ready') \in Nat
    BY <2>2, <2>3, FS_Subset, FS_CardinalityType
  <2> HIDE DEF Ready
  <2> QED
    BY <1>9, <2>1, <2>4 DEF Counted
<1>21. Bound'
  BY <1>11 DEF Bound
<1> QED
  BY <1>15, <1>16, <1>17, <1>18, <1>19, <1>20, <1>21 DEF TInv

\* What is sent to a room, or to a queue, reaches those that are still there.
LEMMA Telling ==
  ASSUME MInv, TInv, NEW S, NEW line \in ServerLines \ Answers,
         SendAll(S, line),
         \A x \in Clients : x \in S /\ program[x] # "gone" =>
           \A l \in Told(x) : Rank(l) < Rank(line)
  PROVE  \A x \in Clients :
           /\ Ordered(inbox'[x])
           /\ Told(x)' = IF x \in S /\ program[x] # "gone"
                         THEN Told(x) \cup {line} ELSE Told(x)
<1> SUFFICES ASSUME NEW x \in Clients
             PROVE  /\ Ordered(inbox'[x])
                    /\ Told(x)' = IF x \in S /\ program[x] # "gone"
                                  THEN Told(x) \cup {line} ELSE Told(x)
  OBVIOUS
<1>1. inbox[x] \in Seq(ServerLines) /\ Ordered(inbox[x])
  BY DEF MInv, TypeOK, TInv, LinesOrdered
<1>2. CASE x \in S /\ program[x] # "gone"
  <2>1. inbox'[x] = Append(inbox[x], line)
    BY <1>2 DEF SendAll
  <2>2. \A l \in News(inbox[x]) : Rank(l) < Rank(line)
    BY <1>2 DEF Told
  <2>3. /\ Ordered(Append(inbox[x], line))
        /\ News(Append(inbox[x], line)) = News(inbox[x]) \cup {line}
    BY <1>1, <2>2, NewsAppend
  <2> QED
    BY <1>2, <2>1, <2>3 DEF Told
<1>3. CASE ~ (x \in S /\ program[x] # "gone")
  <2>1. inbox'[x] = inbox[x]
    BY <1>3 DEF SendAll
  <2> QED
    BY <1>1, <1>3, <2>1 DEF Told
<1> QED
  BY <1>2, <1>3

\* The queue is the party, and is emptied when it has been told.
LEMMA AnnounceFullKeeps ==
  ASSUME OneTable, MInv, TInv, NEW c \in Clients, AnnounceFull(c)
  PROVE  TInv'
<1>1. /\ conn[c] = "filling" /\ SendAll(ToSet(waiting_queue), "QUEUE_FULL")
      /\ waiting_queue' = <<>> /\ filling' = NoRoom /\ Enter(c, "loop")
      /\ UNCHANGED <<readyVars, roomVars, program, outbox>>
  BY DEF AnnounceFull
<1>2. /\ conn'[c] = "loop" /\ session'[c] = NoRoom
      /\ \A x \in Clients : x # c => /\ conn'[x] = conn[x]
                                     /\ session'[x] = session[x]
  BY <1>1, Entering
<1>3. filling # NoRoom /\ filling = Room /\ Pc = "phase1"
  BY <1>1, PartyType DEF TInv, FillsAlone, MInv, TypeOK
<1>4. ToSet(waiting_queue) = Party
  BY <1>3, PartyType DEF MInv, QueueHasPlace
<1>5. /\ Pc' = Pc /\ Party' = Party /\ \A x : Seated(x)' <=> Seated(x)
      /\ \A x : Seated(x) <=> x \in Party
  BY <1>1, <1>3 DEF Pc, Party, Players, Seated, roomVars, Making
<1>6. \A x \in Clients : x \in Party => Listed(x)
  BY <1>3, <1>5 DEF TInv, AllStand, Stands
<1>7. \A x \in Clients :
        /\ Ordered(inbox'[x])
        /\ Told(x)' = IF x \in Party /\ program[x] # "gone"
                      THEN Told(x) \cup {"QUEUE_FULL"} ELSE Told(x)
  <2>1. \A x \in Clients : x \in Party /\ program[x] # "gone" => Told(x) = {}
    BY <1>6 DEF Listed, Stage, Left
  <2>2. "QUEUE_FULL" \in ServerLines \ Answers
    BY DEF ServerLines, Answers
  <2> QED
    BY <1>1, <1>4, <2>1, <2>2, Telling
<1>8. \A x \in Clients : Said(x)' = Said(x) /\ program'[x] = program[x]
  BY <1>1 DEF Said
<1>9. LinesOrdered'
  BY <1>1, <1>7 DEF TInv, LinesOrdered
<1>10. AllStand'
  <2> SUFFICES ASSUME NEW x \in Clients PROVE Stands(x)'
    BY DEF AllStand
  <2>1. CASE x \in Party
    <3>1. Invited(x)'
      BY <1>6, <1>7, <1>8, <2>1 DEF Invited, Answering, Listed, Stage, Left
    <3> QED
      BY <1>1, <1>3, <1>5, <2>1, <3>1 DEF Stands
  <2>2. CASE x \notin Party
    <3>1. Elsewhere(x)
      BY <1>5, <2>2 DEF TInv, AllStand, Stands
    <3>2. Elsewhere(x)'
      BY <1>7, <1>8, <2>2, <3>1 DEF Elsewhere, Stage, Left
    <3> QED
      BY <1>5, <2>2, <3>2 DEF Stands
  <2> QED
    BY <2>1, <2>2
<1>11. Queued'
  BY <1>1 DEF Queued, ToSet, IsInjective
<1>12. FillsAlone'
  BY <1>1, <1>2 DEF TInv, FillsAlone
<1>13. FullParty'
  BY <1>1, <1>5 DEF TInv, FullParty, roomVars
<1>14. Counted'
  <2>1. /\ ready_phase1' = 0 /\ ready_phase2' = 0
    BY <1>1, <1>3 DEF TInv, Counted, readyVars
  <2>2. IsFiniteSet(Party)
    BY <1>3, ReadyCount DEF TInv, Making
  <2>3. Ready' \in SUBSET Party
    BY <1>5 DEF Ready
  <2>4. Cardinality(Ready') \in Nat
    BY <2>2, <2>3, FS_Subset, FS_CardinalityType
  <2> HIDE DEF Ready
  <2> QED
    BY <1>1, <1>3, <1>5, <2>1, <2>4 DEF Counted
<1>15. Bound'
  <2>1. \A x \in Clients : session[x] = NoRoom
    BY <1>3 DEF TInv, Bound
  <2> QED
    BY <1>2, <2>1 DEF Bound
<1> QED
  BY <1>9, <1>10, <1>11, <1>12, <1>13, <1>14, <1>15 DEF TInv

\* A player's READY_TO_GO is counted for the phase the room is in.
LEMMA CountReadyKeeps ==
  ASSUME OneTable, MInv, TInv, NEW c \in Clients, CountReady(c)
  PROVE  TInv'
<1>1. /\ Hears(c, "loop", "READY_TO_GO")
      /\ IF ready_phase1 < RoomSize
           THEN ready_phase1' = ready_phase1 + 1 /\ UNCHANGED ready_phase2
           ELSE ready_phase2' = ready_phase2 + 1 /\ UNCHANGED ready_phase1
      /\ UNCHANGED <<queueVars, roomVars, conn, session, program, inbox>>
  BY DEF CountReady
<1>2. /\ Said(c)' = Said(c) \ {"READY_TO_GO"} /\ "READY_TO_GO" \in Said(c)
      /\ \A x \in Clients : x # c => outbox'[x] = outbox[x]
  BY <1>1, Hearing
<1>3. /\ c \in Party /\ filling = NoRoom /\ Pc \in {"phase1", "phase2"}
      /\ program[c] \in {"summoned", "gone"} /\ Told(c) = {}
  BY <1>2, BySaid DEF Seated
<1>4. /\ \A x \in Clients : Ordered(inbox'[x]) /\ Told(x)' = Told(x)
      /\ \A x \in Clients : x # c => Said(x)' = Said(x)
  BY <1>1, <1>2 DEF Told, Said, TInv, LinesOrdered
<1>5. /\ Pc' = Pc /\ Party' = Party /\ Party \subseteq Clients
      /\ filling' = filling /\ program' = program
  BY <1>1, PartyType DEF Pc, Party, Players, roomVars, queueVars
<1>6. ~ Done(c) /\ Done(c)' /\ \A x \in Party : Done(x) => Done(x)'
  BY <1>2, <1>3, <1>4, <1>5 DEF Done
<1>7. Ready \cup {c} \subseteq Ready' /\ c \notin Ready /\ Ready' \subseteq Party
  BY <1>3, <1>5, <1>6 DEF Ready
<1>8. /\ IsFiniteSet(Party) /\ IsFiniteSet(Ready) /\ Cardinality(Ready) \in Nat
      /\ Cardinality(Ready) < RoomSize
  <2>1. Pc \in Making /\ FullParty
    BY <1>3 DEF Making, TInv
  <2>2. Ready # Party
    BY <1>3, <1>7
  <2> HIDE DEF Ready
  <2> QED
    BY <2>1, <2>2, ReadyCount, MatchAssumption
<1>9. Cardinality(Ready') \in Nat /\ Cardinality(Ready) + 1 <= Cardinality(Ready')
  <2> HIDE DEF Ready
  <2>1. IsFiniteSet(Ready') /\ Cardinality(Ready') \in Nat
    BY <1>7, <1>8, FS_Subset, FS_CardinalityType
  <2>2. Cardinality(Ready \cup {c}) = Cardinality(Ready) + 1
    BY <1>7, <1>8, FS_AddElement
  <2>3. Ready \cup {c} \in SUBSET Ready'
    BY <1>7
  <2>4. Cardinality(Ready \cup {c}) <= Cardinality(Ready')
    BY <2>1, <2>3, FS_Subset
  <2> QED
    BY <2>1, <2>2, <2>4
<1>10. Counted'
  <2>1. ready_phase1 \in Nat /\ ready_phase2 \in Nat /\ RoomSize \in Nat
    BY MatchAssumption DEF MInv, TypeOK
  <2> HIDE DEF Ready
  <2>2. CASE Pc = "phase1"
    <3>1. ready_phase1 <= Cardinality(Ready) /\ ready_phase2 = 0
      BY <2>2 DEF TInv, Counted
    <3>2. ready_phase1 < RoomSize
      BY <1>8, <2>1, <3>1
    <3>3. ready_phase1' = ready_phase1 + 1 /\ ready_phase2' = 0
      BY <1>1, <3>1, <3>2
    <3>4. ready_phase1' <= Cardinality(Ready')
      BY <1>8, <1>9, <2>1, <3>1, <3>3
    <3> QED
      BY <1>3, <1>5, <2>2, <3>3, <3>4 DEF Counted
  <2>3. CASE Pc = "phase2"
    <3>1. ready_phase1 = RoomSize /\ ready_phase2 <= Cardinality(Ready)
      BY <2>3 DEF TInv, Counted
    <3>2. ready_phase1' = RoomSize /\ ready_phase2' = ready_phase2 + 1
      BY <1>1, <2>1, <3>1
    <3>3. ready_phase2' <= Cardinality(Ready')
      BY <1>8, <1>9, <2>1, <3>1, <3>2
    <3> QED
      BY <1>3, <1>5, <2>3, <3>2, <3>3 DEF Counted
  <2> QED
    BY <1>3, <2>2, <2>3
<1>11. conn[c] = "loop" /\ conn'[c] = "loop"
  BY <1>1 DEF Hears
<1>12. Queued'
  BY <1>1, <1>11, QueueKeeps
<1>13. session'[c] = NoRoom
  BY <1>1, <1>3 DEF TInv, Bound
<1> QED
  BY <1>1, <1>4, <1>10, <1>11, <1>12, <1>13, HearKeeps DEF queueVars

\* The session that is found is the party's.
LEMMA FoundIsTheRoom ==
  ASSUME OneTable, MInv, NEW c \in Clients, FindSession(c) # NoRoom
  PROVE  c \in Party /\ Pc \in {"registered", "started", "playing", "over"}
BY FoundInRegistry, PartyType DEF Party, Pc, Announced

\* A player is bound to the game it is in, and if that is over, to let it go.
LEMMA BindSessionKeeps ==
  ASSUME OneTable, MInv, TInv, NEW c \in Clients, BindSession(c)
  PROVE  TInv'
<1>1. /\ conn[c] = "loop" /\ FindSession(c) # NoRoom
      /\ session' = [session EXCEPT ![c] = FindSession(c)]
      /\ UNCHANGED <<queueVars, readyVars, roomVars, conn, program, inbox, outbox>>
  BY DEF BindSession
<1>2. \A x \in Clients : x # c => session'[x] = session[x]
  BY <1>1 DEF MInv, TypeOK
<1>3. /\ \A x \in Clients : Told(x)' = Told(x) /\ Said(x)' = Said(x)
      /\ Pc' = Pc /\ Party' = Party /\ \A x : Seated(x)' <=> Seated(x)
      /\ UNCHANGED <<waiting_queue, filling, ready_phase1, ready_phase2, seats>>
  BY <1>1 DEF Told, Said, Pc, Party, Players, Seated, roomVars, queueVars, readyVars
<1>4. c \in Party /\ Pc \in {"registered", "started", "playing", "over"}
  BY <1>1, FoundIsTheRoom
<1>5. ASSUME Pc = "over" PROVE LetsGo(c)
  <2>1. Elsewhere(c)
    BY <1>5 DEF TInv, AllStand, Stands, Seated, Making
  <2>2. program[c] = "gone" => "EOF" \in Said(c)
    BY <1>1, GoneIsHeardOf
  <2>3. "SESSION_READY" \in Said(c)
    <3>1. /\ outbox[c] \in Seq(ClientLines) /\ outbox[c] # <<>>
          /\ Head(outbox[c]) = "SESSION_READY" /\ Ordered(outbox[c])
      BY DEF BindSession, MInv, TypeOK, TInv, LinesOrdered
    <3> QED
      BY <3>1, NewsTail DEF Said, Answers
  <2> QED
    BY <2>1, <2>2, <2>3 DEF Elsewhere, Stage, Left, Quits, LetsGo
<1>6. Bound'
  BY <1>1, <1>2, <1>3, <1>4, <1>5 DEF TInv, Bound, LetsGo
<1>7. LinesOrdered' /\ AllStand'
  <2>1. ASSUME NEW x \in Clients PROVE Stands(x)'
    BY <1>1, <1>3 DEF TInv, AllStand, Stands, Elsewhere, Listed, Invited, Dealt,
                      Answering, Prepared, Plays, Stage, Left
  <2> QED
    BY <1>1, <2>1 DEF TInv, LinesOrdered, AllStand
<1>8. Queued' /\ FillsAlone' /\ FullParty'
  <2>1. ToSet(waiting_queue') = ToSet(waiting_queue) /\ ToSet(waiting_queue) \subseteq Clients
    BY <1>3 DEF ToSet, MInv, TypeOK
  <2>2. Queued'
    BY <1>1, <1>3, <2>1 DEF TInv, Queued
  <2>3. FillsAlone' /\ FullParty'
    BY <1>1, <1>3 DEF TInv, FillsAlone, FullParty
  <2> QED
    BY <2>2, <2>3
<1>9. Counted'
  <2>1. Ready' = Ready
    BY <1>1, <1>3, PartyType DEF Ready, Done
  <2> QED
    BY <1>3, <2>1 DEF TInv, Counted
<1> QED
  BY <1>6, <1>7, <1>8, <1>9 DEF TInv

\* SESSION_READY is heard and answered, and whoever is bound stays so.
LEMMA AnswerReadyKeeps ==
  ASSUME OneTable, MInv, TInv, NEW c \in Clients,
         AckSession(c) \/ RefuseSession(c)
  PROVE  TInv'
<1>1. PICK answer \in {"SESSION_ACK", "SESSION_NOT_FOUND"} :
        /\ Hears(c, "loop", "SESSION_READY") /\ SendTo(c, answer)
        /\ UNCHANGED <<queueVars, readyVars, roomVars, conn, session, program>>
  BY DEF AckSession, RefuseSession
<1>2. answer \in ServerLines /\ answer \in Answers
  BY DEF ServerLines, Answers
<1>3. \A x \in Clients : Ordered(inbox'[x]) /\ Told(x)' = Told(x)
  <2> SUFFICES ASSUME NEW x \in Clients
               PROVE  Ordered(inbox'[x]) /\ Told(x)' = Told(x)
    OBVIOUS
  <2>1. inbox[x] \in Seq(ServerLines) /\ Ordered(inbox[x])
    BY DEF MInv, TypeOK, TInv, LinesOrdered
  <2>2. inbox'[x] = inbox[x] \/ inbox'[x] = Append(inbox[x], answer)
    BY <1>1 DEF SendTo, Deliver, MInv, TypeOK
  <2>3. /\ Ordered(Append(inbox[x], answer))
        /\ News(Append(inbox[x], answer))
             = News(inbox[x]) \cup ({answer} \ Answers)
    BY <1>2, <2>1, NewsAppend
  <2> QED
    BY <1>2, <2>1, <2>2, <2>3 DEF Told
<1>4. conn[c] = "loop" /\ conn'[c] = "loop"
  BY <1>1 DEF Hears
<1>5. Queued'
  BY <1>1, <1>4, QueueKeeps
<1>6. Counted'
  BY <1>1, <1>3, HeardCounts DEF queueVars
<1>7. Said(c)' = Said(c) \ {"SESSION_READY"}
  BY <1>1, Hearing
<1>8. ASSUME session'[c] # NoRoom
      PROVE  /\ conn'[c] = "loop" /\ c \in Party
             /\ Pc \in {"registered", "started", "playing", "over", "ended"}
             /\ Pc \in {"over", "ended"} => LetsGo(c)'
  <2>1. session[c] # NoRoom /\ Told(c)' = Told(c)
    BY <1>1, <1>3, <1>8
  <2> QED
    BY <1>4, <1>7, <2>1 DEF TInv, Bound, LetsGo
<1> QED
  BY <1>1, <1>3, <1>4, <1>5, <1>6, <1>8, HearKeeps DEF queueVars

\* The thread of a client that quits lets go of its session.
LEMMA QuitGameKeeps ==
  ASSUME OneTable, MInv, TInv, NEW c \in Clients, QuitGame(c)
  PROVE  TInv'
<1>1. /\ Hears(c, "loop", "GAME_QUIT") /\ Enter(c, "lobby")
      /\ UNCHANGED <<queueVars, readyVars, roomVars, program, inbox>>
  BY DEF QuitGame
<1>2. /\ conn'[c] = "lobby" /\ session'[c] = NoRoom
      /\ \A x \in Clients : x # c => /\ conn'[x] = conn[x]
                                     /\ session'[x] = session[x]
  BY <1>1, Entering
<1>3. "GAME_QUIT" \in Said(c)
  BY <1>1, Hearing
<1>4. c \notin ToSet(waiting_queue)
  BY <1>3 DEF TInv, Queued
<1>5. \A x \in Clients : Ordered(inbox'[x]) /\ Told(x)' = Told(x)
  BY <1>1 DEF Told, TInv, LinesOrdered
<1>6. Queued'
  BY <1>1, <1>2, <1>4, QueueKeeps
<1>7. Counted'
  BY <1>1, <1>5, HeardCounts DEF queueVars
<1> QED
  BY <1>1, <1>2, <1>5, <1>6, <1>7, HearKeeps DEF queueVars

\* Whoever is gone is taken out of the queue, if it is there.
LEMMA LoseClientKeeps ==
  ASSUME OneTable, MInv, TInv, NEW c \in Clients, LoseClient(c)
  PROVE  TInv'
<1>1. /\ \/ Hears(c, "loop", "EOF") /\ LeaveQueue(c)
         \/ Hears(c, "lobby", "EOF") /\ UNCHANGED waiting_queue
      /\ Enter(c, "closed")
      /\ UNCHANGED <<filling, readyVars, roomVars, program, inbox>>
  BY DEF LoseClient
<1>2. /\ conn'[c] = "closed" /\ session'[c] = NoRoom
      /\ \A x \in Clients : x # c => /\ conn'[x] = conn[x]
                                     /\ session'[x] = session[x]
  BY <1>1, Entering
<1>3. \A x \in Clients : Ordered(inbox'[x]) /\ Told(x)' = Told(x)
  BY <1>1 DEF Told, TInv, LinesOrdered
<1>4. CASE Hears(c, "loop", "EOF") /\ LeaveQueue(c)
  <2>1. /\ IsInjective(waiting_queue')
        /\ ToSet(waiting_queue') \subseteq ToSet(waiting_queue) \ {c}
    BY <1>4, RemoveFirstInjective DEF LeaveQueue, TInv, Queued, MInv, TypeOK
  <2>2. \A x \in Clients : x # c => Said(x)' = Said(x)
    BY <1>4, Hearing DEF Said
  <2>3. \A x : Seated(x)' <=> Seated(x)
    BY <1>1 DEF Pc, Party, Players, Seated, roomVars
  <2>4. ToSet(waiting_queue) \subseteq Clients
    BY DEF ToSet, MInv, TypeOK
  <2>5. Queued'
    BY <1>1, <1>2, <2>1, <2>2, <2>3, <2>4 DEF TInv, Queued
  <2>6. Counted'
    BY <1>1, <1>3, <1>4, HeardCounts
  <2> QED
    BY <1>1, <1>2, <1>3, <1>4, <2>5, <2>6, HearKeeps
<1>5. CASE Hears(c, "lobby", "EOF") /\ UNCHANGED waiting_queue
  <2>1. c \notin ToSet(waiting_queue)
    BY <1>5 DEF Hears, TInv, Queued
  <2>2. Queued'
    BY <1>1, <1>2, <1>5, <2>1, QueueKeeps DEF queueVars
  <2>3. Counted'
    BY <1>1, <1>3, <1>5, HeardCounts
  <2> QED
    BY <1>1, <1>2, <1>3, <1>5, <2>2, <2>3, HearKeeps
<1> QED
  BY <1>1, <1>4, <1>5

\* So every step of a connection thread keeps the invariant.
LEMMA ConnectionStepKeeps ==
  ASSUME OneTable, MInv, TInv, NEW c \in Clients, Connection(c)
  PROVE  TInv'
<1>1. ~ CancelMatch(c)
  <2>1. "MATCHING_CANCEL" \notin Said(c)
    BY OnScreen
  <2> QED
    BY <2>1, Hearing DEF CancelMatch
<1> QED
  BY <1>1, EnqueueKeeps, FillRoomKeeps, AnnounceFullKeeps, CountReadyKeeps,
     BindSessionKeeps, AnswerReadyKeeps, QuitGameKeeps, LoseClientKeeps
  DEF Connection

----------------------------------------------------------------------------
(* The thread of the room and its game.                                    *)

\* A step of the room concerns its party only.
LEMMA RoomKeeps ==
  ASSUME OneTable, MInv, TInv, filling = NoRoom,
         UNCHANGED <<queueVars, seats, conn, session, program, outbox>>,
         Pc' \notin {"unused", "failed"}, Pc' \in Making => Pc \in Making,
         \A x \in Clients : /\ Ordered(inbox'[x])
                            /\ x \notin Party => Told(x)' = Told(x)
                            /\ x \in Party => Stands(x)',
         Counted',
         \A x \in Clients : session[x] # NoRoom =>
           /\ Pc' \in {"registered", "started", "playing", "over", "ended"}
           /\ Pc' \in {"over", "ended"} => LetsGo(x)'
  PROVE  TInv'
<1>1. /\ Party' = Party /\ UNCHANGED <<waiting_queue, filling>>
      /\ \A x : Seated(x)' => Seated(x)
  BY DEF Party, Players, Seated, queueVars
<1>2. \A x \in Clients : Said(x)' = Said(x)
  BY DEF Said
<1>3. LinesOrdered'
  BY DEF TInv, LinesOrdered
<1>4. AllStand'
  <2> SUFFICES ASSUME NEW x \in Clients, x \notin Party PROVE Stands(x)'
    BY DEF AllStand
  <2>1. ~ Seated(x) /\ ~ Seated(x)'
    BY <1>1 DEF Seated
  <2>2. Elsewhere(x)
    BY <2>1 DEF TInv, AllStand, Stands
  <2>3. Elsewhere(x)'
    BY <1>2, <2>2 DEF Elsewhere, Stage, Left
  <2> QED
    BY <2>1, <2>3 DEF Stands
<1>5. Queued'
  <2>1. ToSet(waiting_queue) \subseteq Clients
    BY DEF ToSet, MInv, TypeOK
  <2>2. ToSet(waiting_queue') = ToSet(waiting_queue)
    BY <1>1
  <2> QED
    BY <1>1, <1>2, <2>1, <2>2 DEF TInv, Queued
<1>6. FillsAlone' /\ FullParty'
  BY <1>1 DEF TInv, FillsAlone, FullParty
<1>7. Bound'
  BY <1>1 DEF TInv, Bound
<1> QED
  BY <1>3, <1>4, <1>5, <1>6, <1>7 DEF TInv

\* Nothing is sent.
LEMMA NothingTold ==
  ASSUME TInv, UNCHANGED <<program, inbox, outbox>>
  PROVE  \A x \in Clients : /\ Ordered(inbox'[x])
                            /\ Told(x)' = Told(x) /\ Said(x)' = Said(x)
                            /\ program'[x] = program[x]
BY DEF TInv, LinesOrdered, Told, Said

\* Where the room's thread is, before and after a step.
LEMMA Going ==
  ASSUME OneTable, MInv, NEW r \in Rooms, NEW from, NEW to, Goes(r, from, to)
  PROVE  r = Room /\ Pc = from /\ Pc' = to
<1>1. r = Room
  BY PartyType
<1> QED
  BY <1>1 DEF Goes, Pc, MInv, TypeOK

\* A barrier is passed when every player has answered.
LEMMA BarrierPassed ==
  ASSUME OneTable, MInv, TInv,
         \/ Pc = "phase1" /\ ready_phase1 = RoomSize
         \/ Pc = "phase2" /\ ready_phase2 = RoomSize
  PROVE  filling = NoRoom /\ \A c \in Party : Done(c)
<1>1. Pc \in Making /\ FullParty
  BY DEF Making, TInv
<1>2. /\ Cardinality(Ready) \in Nat /\ Cardinality(Ready) <= RoomSize
      /\ Cardinality(Ready) = RoomSize => Ready = Party
  BY <1>1, ReadyCount
<1>3. RoomSize \in Nat /\ RoomSize # 0
  BY MatchAssumption
<1>4. Cardinality(Ready) >= RoomSize
  <2> HIDE DEF Ready
  <2> QED
    BY <1>2, <1>3 DEF TInv, Counted
<1>5. Ready = Party
  <2> HIDE DEF Ready
  <2> QED
    BY <1>2, <1>3, <1>4
<1>6. filling = NoRoom
  BY <1>3 DEF TInv, Counted, FillsAlone
<1> QED
  BY <1>5, <1>6 DEF Ready

\* Phase 2 begins with every player told its role, and a counter of nobody.
LEMMA PassPhase1Keeps ==
  ASSUME OneTable, MInv, TInv, NEW r \in Rooms, PassPhase1(r)
  PROVE  TInv'
<1>1. /\ r = Room /\ Pc = "phase1" /\ Pc' = "phase2"
      /\ ready_phase1 = RoomSize /\ SendAll(Party, "GAME_INIT")
      /\ UNCHANGED <<queueVars, readyVars, ongoing_sessions, seats, conn,
                     session, program, outbox>>
  BY Going DEF PassPhase1, Party
<1>2. /\ filling = NoRoom /\ filling' = NoRoom
      /\ \A c \in Party : Done(c)
  BY <1>1, BarrierPassed DEF queueVars
<1>3. Party \subseteq Clients /\ Party' = Party
  BY <1>1, PartyType DEF Party, Players
<1>4. \A x \in Party : Stage(x, "summoned", {}, {}) \/ Left(x, {})
  <2> SUFFICES ASSUME NEW x \in Party
               PROVE  Stage(x, "summoned", {}, {}) \/ Left(x, {})
    OBVIOUS
  <2>1. Invited(x) /\ Done(x)
    BY <1>1, <1>2, <1>3 DEF TInv, AllStand, Stands, Seated, Making
  <2> QED
    BY <2>1 DEF Invited, Answering, Done, Stage, Left
<1>5. \A x \in Clients :
        /\ Ordered(inbox'[x])
        /\ Told(x)' = IF x \in Party /\ program[x] # "gone"
                      THEN Told(x) \cup {"GAME_INIT"} ELSE Told(x)
  <2>1. \A x \in Clients : x \in Party /\ program[x] # "gone" => Told(x) = {}
    BY <1>4 DEF Stage, Left
  <2>2. "GAME_INIT" \in ServerLines \ Answers
    BY DEF ServerLines, Answers
  <2> QED
    BY <1>1, <2>1, <2>2, Telling
<1>6. \A x \in Clients : Said(x)' = Said(x) /\ program'[x] = program[x]
  BY <1>1 DEF Said
<1>7. \A x \in Party : Stands(x)'
  <2> SUFFICES ASSUME NEW x \in Party PROVE Stands(x)'
    OBVIOUS
  <2>1. Dealt(x)'
    BY <1>3, <1>4, <1>5, <1>6 DEF Dealt, Answering, Stage, Left
  <2> QED
    BY <1>1, <1>2, <1>3, <2>1 DEF Stands, Seated, Making
<1>8. Counted'
  <2>1. ready_phase1' = RoomSize /\ ready_phase2' = 0
    BY <1>1 DEF TInv, Counted, readyVars
  <2>2. IsFiniteSet(Party)
    BY <1>1, ReadyCount DEF TInv, Making
  <2>3. Ready' \in SUBSET Party
    BY <1>3 DEF Ready
  <2>4. Cardinality(Ready') \in Nat
    BY <2>2, <2>3, FS_Subset, FS_CardinalityType
  <2> HIDE DEF Ready
  <2> QED
    BY <1>1, <1>2, <2>1, <2>4 DEF Counted
<1>9. \A x \in Clients : session[x] = NoRoom
  BY <1>1 DEF TInv, Bound
<1> QED
  BY <1>1, <1>2, <1>5, <1>7, <1>8, <1>9, RoomKeeps DEF Making

\* The game is created when nothing is under way.
LEMMA PassPhase2Keeps ==
  ASSUME OneTable, MInv, TInv, NEW r \in Rooms, PassPhase2(r)
  PROVE  TInv'
<1>1. /\ r = Room /\ Pc = "phase2" /\ Pc' = "create"
      /\ ready_phase2 = RoomSize
      /\ UNCHANGED <<queueVars, readyVars, ongoing_sessions, seats, conn,
                     session, program, inbox, outbox>>
  BY Going DEF PassPhase2
<1>2. /\ filling = NoRoom /\ filling' = NoRoom
      /\ \A c \in Party : Done(c)
  BY <1>1, BarrierPassed DEF queueVars
<1>3. Party \subseteq Clients /\ Party' = Party
  BY <1>1, PartyType DEF Party, Players
<1>4. \A x \in Clients : /\ Ordered(inbox'[x])
                         /\ Told(x)' = Told(x) /\ Said(x)' = Said(x)
                         /\ program'[x] = program[x]
  BY <1>1, NothingTold
<1>5. \A x \in Party : Stands(x)'
  <2> SUFFICES ASSUME NEW x \in Party PROVE Stands(x)'
    OBVIOUS
  <2>1. Dealt(x) /\ Done(x)
    BY <1>1, <1>2, <1>3 DEF TInv, AllStand, Stands, Seated, Making
  <2>2. Prepared(x)'
    BY <1>3, <1>4, <2>1 DEF Dealt, Answering, Done, Prepared, Stage, Left
  <2> QED
    BY <1>1, <1>2, <1>3, <2>2 DEF Stands, Seated, Making
<1>6. Counted'
  BY <1>1, <1>2 DEF Counted
<1>7. \A x \in Clients : session[x] = NoRoom
  BY <1>1 DEF TInv, Bound
<1> QED
  BY <1>1, <1>2, <1>4, <1>5, <1>6, <1>7, RoomKeeps DEF Making

\* Registering a session tells nobody.
LEMMA RegisterKeeps ==
  ASSUME OneTable, MInv, TInv, NEW r \in Rooms, Register(r)
  PROVE  TInv'
<1>1. /\ r = Room /\ Pc = "create" /\ Pc' = "registered"
      /\ UNCHANGED <<queueVars, readyVars, seats, conn,
                     session, program, inbox, outbox>>
  BY Going DEF Register
<1>2. filling = NoRoom /\ filling' = NoRoom
  BY <1>1 DEF TInv, FillsAlone, queueVars
<1>3. Party \subseteq Clients /\ Party' = Party
  BY <1>1, PartyType DEF Party, Players
<1>4. \A x \in Clients : /\ Ordered(inbox'[x])
                         /\ Told(x)' = Told(x) /\ Said(x)' = Said(x)
                         /\ program'[x] = program[x]
  BY <1>1, NothingTold
<1>5. \A x \in Party : Stands(x)'
  <2> SUFFICES ASSUME NEW x \in Party PROVE Stands(x)'
    OBVIOUS
  <2>1. Prepared(x)
    BY <1>1, <1>2, <1>3 DEF TInv, AllStand, Stands, Seated, Making
  <2>2. Prepared(x)'
    BY <1>3, <1>4, <2>1 DEF Prepared, Stage, Left
  <2> QED
    BY <1>1, <1>2, <1>3, <2>2 DEF Stands, Seated, Making
<1>6. Counted'
  BY <1>1, <1>2 DEF Counted
<1>7. \A x \in Clients : session[x] = NoRoom
  BY <1>1 DEF TInv, Bound
<1> QED
  BY <1>1, <1>2, <1>4, <1>5, <1>6, <1>7, RoomKeeps DEF Making

\* There is a slot for the one room.
LEMMA NeverFails ==
  ASSUME OneTable, MInv, NEW r \in Rooms
  PROVE  ~ FailCards(r) /\ ~ FailRegister(r)
<1>1. ~ FailCards(r)
  BY DEF OneTable, FailCards
<1>2. ASSUME FailRegister(r) PROVE FALSE
  <2>1. r = Room /\ Pc = "create" /\ FreeSlots = {}
    BY <1>2, Going DEF FailRegister
  <2>2. 0 \in Slots
    BY MatchAssumption DEF Slots
  <2>3. ongoing_sessions[0] \in Rooms \cup {NoRoom}
    BY <2>2 DEF MInv, TypeOK
  <2>4. ongoing_sessions[0] = Room
    BY <2>1, <2>2, <2>3, PartyType DEF FreeSlots
  <2> DEFINE slots == {i \in Slots : ongoing_sessions[i] = Room}
  <2>5. slots = {}
    BY <2>1, PartyType DEF MInv, RegistryExact, Pc
  <2> QED
    BY <2>2, <2>4, <2>5
<1> QED
  BY <1>1, <1>2

\* GAME_START finds every player prepared.
LEMMA StartGameKeeps ==
  ASSUME OneTable, MInv, TInv, NEW r \in Rooms, StartGame(r)
  PROVE  TInv'
<1>1. /\ r = Room /\ Pc = "registered" /\ Pc' = "started"
      /\ SendAll(Party, "GAME_START")
      /\ UNCHANGED <<queueVars, readyVars, ongoing_sessions, seats, conn,
                     session, program, outbox>>
  BY Going DEF StartGame, Party
<1>2. filling = NoRoom /\ filling' = NoRoom
  BY <1>1 DEF TInv, FillsAlone, queueVars
<1>3. Party \subseteq Clients /\ Party' = Party
  BY <1>1, PartyType DEF Party, Players
<1>4. \A x \in Party : Prepared(x)
  BY <1>1, <1>2, <1>3 DEF TInv, AllStand, Stands, Seated, Making
<1>5. \A x \in Clients :
        /\ Ordered(inbox'[x])
        /\ Told(x)' = IF x \in Party /\ program[x] # "gone"
                      THEN Told(x) \cup {"GAME_START"} ELSE Told(x)
  <2>1. \A x \in Clients : x \in Party /\ program[x] # "gone" => Told(x) = {}
    BY <1>4 DEF Prepared, Stage, Left
  <2>2. "GAME_START" \in ServerLines \ Answers
    BY DEF ServerLines, Answers
  <2> QED
    BY <1>1, <2>1, <2>2, Telling
<1>6. \A x \in Clients : Said(x)' = Said(x) /\ program'[x] = program[x]
  BY <1>1 DEF Said
<1>7. \A x \in Party : Stands(x)'
  <2> SUFFICES ASSUME NEW x \in Party PROVE Stands(x)'
    OBVIOUS
  <2>1. Plays(x)'
    BY <1>3, <1>4, <1>5, <1>6 DEF Plays, Prepared, Stage, Left
  <2> QED
    BY <1>1, <1>2, <1>3, <2>1 DEF Stands, Seated, Making
<1>8. Counted'
  BY <1>1, <1>2 DEF Counted
<1> QED
  BY <1>1, <1>2, <1>5, <1>7, <1>8, RoomKeeps DEF Making

\* The counters are reset while nobody can be counted.
LEMMA ResetReadyKeeps ==
  ASSUME OneTable, MInv, TInv, NEW r \in Rooms, ResetReady(r)
  PROVE  TInv'
<1>1. /\ r = Room /\ Pc = "started" /\ Pc' = "playing"
      /\ ready_phase1' = 0 /\ ready_phase2' = 0
      /\ UNCHANGED <<queueVars, ongoing_sessions, seats, conn, session, program,
                     inbox, outbox>>
  BY Going DEF ResetReady
<1>2. filling = NoRoom /\ filling' = NoRoom
  BY <1>1 DEF TInv, FillsAlone, queueVars
<1>3. Party \subseteq Clients /\ Party' = Party
  BY <1>1, PartyType DEF Party, Players
<1>4. \A x \in Clients : /\ Ordered(inbox'[x])
                         /\ Told(x)' = Told(x) /\ Said(x)' = Said(x)
                         /\ program'[x] = program[x]
  BY <1>1, NothingTold
<1>5. \A x \in Party : Stands(x)'
  <2> SUFFICES ASSUME NEW x \in Party PROVE Stands(x)'
    OBVIOUS
  <2>1. Plays(x)
    BY <1>1, <1>2, <1>3 DEF TInv, AllStand, Stands, Seated, Making
  <2>2. Plays(x)'
    BY <1>3, <1>4, <2>1 DEF Plays, Stage, Left
  <2> QED
    BY <1>1, <1>2, <1>3, <2>2 DEF Stands, Seated, Making
<1>6. Counted'
  BY <1>1, <1>2 DEF Counted
<1> QED
  BY <1>1, <1>2, <1>4, <1>5, <1>6, RoomKeeps DEF Making

\* Whoever is bound is told that the game is over, or is known to be gone.
LEMMA AnnounceOverKeeps ==
  ASSUME OneTable, MInv, TInv, NEW r \in Rooms, AnnounceOver(r)
  PROVE  TInv'
<1>1. /\ r = Room /\ Pc = "playing" /\ Pc' = "over"
      /\ SendAll(Party, "GAME_OVER")
      /\ UNCHANGED <<queueVars, readyVars, ongoing_sessions, seats, conn,
                     session, program, outbox>>
  BY Going DEF AnnounceOver, Party
<1>2. filling = NoRoom /\ filling' = NoRoom
  BY <1>1 DEF TInv, FillsAlone, queueVars
<1>3. Party \subseteq Clients /\ Party' = Party
  BY <1>1, PartyType DEF Party, Players
<1>4. \A x \in Party : Plays(x)
  BY <1>1, <1>2, <1>3 DEF TInv, AllStand, Stands, Seated, Making
<1>5. \A x \in Clients :
        /\ Ordered(inbox'[x])
        /\ Told(x)' = IF x \in Party /\ program[x] # "gone"
                      THEN Told(x) \cup {"GAME_OVER"} ELSE Told(x)
  <2>1. \A x \in Clients : x \in Party /\ program[x] # "gone" =>
          Told(x) \subseteq {"GAME_START"}
    BY <1>4 DEF Plays, Stage, Left
  <2>2. "GAME_OVER" \in ServerLines \ Answers
    BY DEF ServerLines, Answers
  <2>3. Rank("GAME_START") < Rank("GAME_OVER")
    BY DEF Rank
  <2> QED
    BY <1>1, <2>1, <2>2, <2>3, Telling
<1>6. \A x \in Clients : Said(x)' = Said(x) /\ program'[x] = program[x]
  BY <1>1 DEF Said
<1>7. \A x \in Party : Stands(x)'
  <2> SUFFICES ASSUME NEW x \in Party PROVE Stands(x)'
    OBVIOUS
  <2>1. Elsewhere(x)'
    BY <1>3, <1>4, <1>5, <1>6 DEF Plays, Elsewhere, Stage, Left
  <2> QED
    BY <1>1, <2>1 DEF Stands, Seated, Making
<1>8. Counted'
  BY <1>1, <1>2 DEF TInv, Counted, readyVars
<1>9. ASSUME NEW x \in Clients, session[x] # NoRoom PROVE LetsGo(x)'
  <2>1. x \in Party /\ conn[x] = "loop"
    BY <1>9 DEF TInv, Bound
  <2>2. program[x] = "gone" => "EOF" \in Said(x)
    BY <2>1, GoneIsHeardOf
  <2> QED
    BY <1>5, <1>6, <2>1, <2>2 DEF LetsGo
<1> QED
  BY <1>1, <1>2, <1>5, <1>7, <1>8, <1>9, RoomKeeps DEF Making

\* The session is freed after GAME_OVER, which unseats everybody.
LEMMA FreeSessionKeeps ==
  ASSUME OneTable, MInv, TInv, NEW r \in Rooms, FreeSession(r)
  PROVE  TInv'
<1>1. /\ r = Room /\ Pc = "over" /\ Pc' = "ended"
      /\ UNCHANGED <<queueVars, readyVars, seats, conn, session, program,
                     inbox, outbox>>
  BY Going DEF FreeSession
<1>2. filling = NoRoom /\ filling' = NoRoom
  BY <1>1 DEF TInv, FillsAlone, queueVars
<1>3. Party \subseteq Clients /\ Party' = Party
  BY <1>1, PartyType DEF Party, Players
<1>4. \A x \in Clients : /\ Ordered(inbox'[x])
                         /\ Told(x)' = Told(x) /\ Said(x)' = Said(x)
                         /\ program'[x] = program[x]
  BY <1>1, NothingTold
<1>5. \A x \in Party : Stands(x)'
  <2> SUFFICES ASSUME NEW x \in Party PROVE Stands(x)'
    OBVIOUS
  <2>1. Elsewhere(x)
    BY <1>1, <1>3 DEF TInv, AllStand, Stands, Seated, Making
  <2>2. Elsewhere(x)'
    BY <1>3, <1>4, <2>1 DEF Elsewhere, Stage, Left
  <2> QED
    BY <1>1, <2>2 DEF Stands, Seated, Making
<1>6. Counted'
  BY <1>1, <1>2 DEF TInv, Counted, readyVars
<1>7. \A x \in Clients : session[x] # NoRoom => LetsGo(x)'
  BY <1>1, <1>4 DEF TInv, Bound, LetsGo
<1> QED
  BY <1>1, <1>2, <1>4, <1>5, <1>6, <1>7, RoomKeeps DEF Making

----------------------------------------------------------------------------
(* The invariant.                                                          *)

\* At the start everybody is in the lobby and nothing is under way.
LEMMA TInit ==
  ASSUME OneTable, Init
  PROVE  TInv
<1>1. MInv
  BY MInit
<1>2. Pc = "unused" /\ Party = {} /\ \A x : ~ Seated(x)
  BY <1>1, PartyType DEF Init, Pc, Seated, ToSet
<1>3. \A c \in Clients : /\ program[c] = "lobby" /\ conn[c] = "lobby"
                         /\ session[c] = NoRoom
                         /\ Told(c) = {} /\ Said(c) = {}
                         /\ Ordered(inbox[c]) /\ Ordered(outbox[c])
  BY NoNews DEF Init, Told, Said
<1>4. AllStand
  <2> SUFFICES ASSUME NEW c \in Clients PROVE Stands(c)
    BY DEF AllStand
  <2>1. Elsewhere(c)
    BY <1>3 DEF Elsewhere, Stage, Quits
  <2> QED
    BY <1>2, <2>1 DEF Stands
<1>5. Queued
  BY DEF Init, Queued, IsInjective, ToSet
<1>6. FillsAlone /\ FullParty /\ Counted /\ Bound /\ LinesOrdered
  BY <1>2, <1>3 DEF Init, FillsAlone, FullParty, Making, Counted, Bound,
                    LinesOrdered
<1> QED
  BY <1>4, <1>5, <1>6 DEF TInv

\* Every step keeps all parts of the invariant.
LEMMA TNext ==
  ASSUME OneTable, MInv, TInv, [Next]_vars
  PROVE  TInv'
<1>1. CASE Next
  BY <1>1, ClientStepKeeps, ConnectionStepKeeps, PassPhase1Keeps,
     PassPhase2Keeps, RegisterKeeps, NeverFails, StartGameKeeps,
     ResetReadyKeeps, AnnounceOverKeeps, FreeSessionKeeps DEF Next, RoomThread
<1>2. CASE UNCHANGED vars
  <2>1. UNCHANGED <<waiting_queue, filling, ready_phase1, ready_phase2,
                    ongoing_sessions, roomPc, seats, conn, session, program,
                    inbox, outbox>>
    BY <1>2 DEF vars, queueVars, readyVars, roomVars
  <2>2. Pc' = Pc /\ Party' = Party /\ \A x : Seated(x)' <=> Seated(x)
    BY <2>1 DEF Pc, Party, Players, Seated
  <2>3. \A x \in Clients : Told(x)' = Told(x) /\ Said(x)' = Said(x)
    BY <2>1 DEF Told, Said
  <2>4. LinesOrdered'
    BY <2>1 DEF TInv, LinesOrdered
  <2>5. AllStand'
    BY <2>1, <2>2, <2>3 DEF TInv, AllStand, Stands, Elsewhere, Listed, Invited,
                            Dealt, Answering, Prepared, Plays, Stage, Left
  <2>6. Queued'
    <3>1. ToSet(waiting_queue) \subseteq Clients
      BY DEF ToSet, MInv, TypeOK
    <3> QED
      BY <2>1, <2>2, <2>3, <3>1 DEF TInv, Queued
  <2>7. FillsAlone' /\ FullParty'
    BY <2>1, <2>2 DEF TInv, FillsAlone, FullParty
  <2>8. Counted'
    <3>1. Ready' = Ready
      BY <2>1, <2>2, <2>3, PartyType DEF Ready, Done
    <3> QED
      BY <2>1, <3>1, CountKeeps DEF readyVars
  <2>9. Bound'
    BY <2>1, <2>2, <2>3 DEF TInv, Bound, LetsGo
  <2> QED
    BY <2>4, <2>5, <2>6, <2>7, <2>8, <2>9 DEF TInv
<1> QED
  BY <1>1, <1>2

----------------------------------------------------------------------------
(* The theorems.                                                           *)

\* The invariant of the proof: where the clients and the room are, and what
\* is under way between them.
THEOREM TableInvariance ==
  ASSUME OneTable
  PROVE  Spec => [](MInv /\ TInv)
<1>1. Init => MInv /\ TInv
  BY MInit, TInit
<1>2. (MInv /\ TInv) /\ [Next]_vars => (MInv /\ TInv)'
  BY MNext, TNext
<1> QED
  BY <1>1, <1>2, PTL DEF Spec

\* The queue holds no client twice and none whose thread is gone, whoever
\* leaves (room_manager.c:30-74, 80-100).
THEOREM QueueOfLiveClientsCorrect ==
  ASSUME OneTable
  PROVE  Spec => []QueueOfLiveClients
<1>1. TInv => QueueOfLiveClients
  BY DEF TInv, Queued, QueueOfLiveClients
<1> QED
  BY <1>1, TableInvariance, PTL

\* A line that is no answer is in a queue of lines just if it is news.
LEMMA ContainsNews ==
  ASSUME NEW s, NEW line, line \notin Answers
  PROVE  Contains(s, line) <=> line \in News(s)
BY ContainsHeeded DEF News

\* The thread that still points to a freed session (room_manager.c:589) is
\* about to hear that its client quits or is gone.
THEOREM FreedIsLetGoCorrect ==
  ASSUME OneTable
  PROVE  Spec => []FreedIsLetGo
<1>1. MInv /\ TInv => FreedIsLetGo
  <2> SUFFICES ASSUME MInv, TInv, NEW c \in Clients, session[c] # NoRoom,
                      roomPc[session[c]] = "ended"
               PROVE  \/ Contains(inbox[c], "GAME_OVER")
                      \/ \E line \in {"GAME_QUIT", "EOF"} :
                           Contains(outbox[c], line)
    BY DEF FreedIsLetGo
  <2>1. session[c] = Room
    BY PartyType DEF MInv, TypeOK
  <2>2. LetsGo(c)
    BY <2>1 DEF TInv, Bound, Pc
  <2>3. \A line \in {"GAME_OVER", "GAME_QUIT", "EOF"} : line \notin Answers
    BY DEF Answers
  <2> QED
    BY <2>2, <2>3, ContainsNews DEF LetsGo, Told, Said
<1> QED
  BY <1>1, TableInvariance, PTL

\* A phase of the room ends only when its counter is full.
LEMMA PhaseEnds ==
  ASSUME OneTable, MInv, [Next]_vars
  PROVE  /\ Pc = "phase1" /\ Pc' = "phase2" => ready_phase1 = RoomSize
         /\ Pc = "phase2" /\ Pc' = "create" => ready_phase2 = RoomSize
<1>1. ASSUME UNCHANGED roomPc PROVE Pc' = Pc
  BY <1>1 DEF Pc
<1>2. CASE UNCHANGED vars
  BY <1>1, <1>2 DEF vars, roomVars
<1>3. ASSUME NEW c \in Clients, Client(c) PROVE Pc' = Pc
  BY <1>1, <1>3 DEF Client, PressMatch, ReadWaiting, PressCancel,
                    ReadCancelAnswer, ReadPlaying, Disconnect, roomVars
<1>4. ASSUME NEW c \in Clients, Connection(c) PROVE Pc' \in {Pc, "phase1"}
  <2>1. ASSUME NEW r \in Rooms, FillRoom(c, r) PROVE Pc' = "phase1"
    <3>1. r = Room /\ roomPc' = [roomPc EXCEPT ![r] = "phase1"]
      BY <2>1, PartyType DEF FillRoom
    <3> QED
      BY <3>1, PartyType DEF MInv, TypeOK, Pc
  <2> QED
    BY <1>1, <1>4, <2>1 DEF Connection, Enqueue, AnnounceFull, CountReady,
                            BindSession, AckSession, RefuseSession,
                            CancelMatch, QuitGame, LoseClient, roomVars
<1>5. ASSUME NEW r \in Rooms, RoomThread(r) \/ AnnounceOver(r) \/ FreeSession(r),
             \/ Pc = "phase1" /\ Pc' = "phase2"
             \/ Pc = "phase2" /\ Pc' = "create"
      PROVE  PassPhase1(r) \/ PassPhase2(r)
  <2>1. \A from, to : Goes(r, from, to) => Pc = from
    BY Going
  <2> QED
    BY <1>5, <2>1 DEF RoomThread, FailCards, Register, FailRegister, StartGame,
                      ResetReady, AnnounceOver, FreeSession
<1>6. ASSUME NEW r \in Rooms
      PROVE  /\ PassPhase1(r) => Pc = "phase1" /\ ready_phase1 = RoomSize
             /\ PassPhase2(r) => Pc = "phase2" /\ ready_phase2 = RoomSize
  BY Going DEF PassPhase1, PassPhase2
<1> QED
  BY <1>2, <1>3, <1>4, <1>5, <1>6 DEF Next

\* Who owes no answer has answered.
LEMMA DoneAnswered ==
  ASSUME NEW c, Done(c)
  PROVE  Answered(c) /\ ~ Contains(inbox[c], "GAME_INIT")
<1>1. \A line \in {"QUEUE_FULL", "GAME_INIT", "READY_TO_GO"} : line \notin Answers
  BY DEF Answers
<1> QED
  BY <1>1, ContainsNews DEF Done, Answered, Told, Said

\* The first READY barrier of a room is passed by all of its own players
\* (room_manager.c:251-259).
THEOREM StartsTogetherCorrect ==
  ASSUME OneTable
  PROVE  Spec => StartsTogether
<1>1. MInv /\ TInv /\ [Next]_vars =>
        [\A r \in Rooms : roomPc[r] = "phase1" /\ roomPc'[r] = "phase2"
           => \A c \in Players(r) : Answered(c)]_vars
  <2> SUFFICES ASSUME MInv, TInv, [Next]_vars, NEW r \in Rooms,
                      roomPc[r] = "phase1", roomPc'[r] = "phase2",
                      NEW c \in Players(r)
               PROVE  Answered(c)
    OBVIOUS
  <2>1. r = Room
    BY PartyType
  <2>2. c \in Party /\ Pc = "phase1" /\ ready_phase1 = RoomSize
    BY <2>1, PhaseEnds DEF Party, Pc
  <2> QED
    BY <2>2, BarrierPassed, DoneAnswered
<1> QED
  BY <1>1, TableInvariance, PTL DEF Spec, StartsTogether

\* The second one is passed by players who have all seen their roles
\* (room_manager.c:289-297).
THEOREM StartsInformedCorrect ==
  ASSUME OneTable
  PROVE  Spec => StartsInformed
<1>1. MInv /\ TInv /\ [Next]_vars =>
        [\A r \in Rooms : roomPc[r] = "phase2" /\ roomPc'[r] = "create"
           => \A c \in Players(r) :
                Answered(c) /\ ~ Contains(inbox[c], "GAME_INIT")]_vars
  <2> SUFFICES ASSUME MInv, TInv, [Next]_vars, NEW r \in Rooms,
                      roomPc[r] = "phase2", roomPc'[r] = "create",
                      NEW c \in Players(r)
               PROVE  Answered(c) /\ ~ Contains(inbox[c], "GAME_INIT")
    OBVIOUS
  <2>1. r = Room
    BY PartyType
  <2>2. c \in Party /\ Pc = "phase2" /\ ready_phase2 = RoomSize
    BY <2>1, PhaseEnds DEF Party, Pc
  <2> QED
    BY <2>2, BarrierPassed, DoneAnswered
<1> QED
  BY <1>1, TableInvariance, PTL DEF Spec, StartsInformed
=============================================================================
