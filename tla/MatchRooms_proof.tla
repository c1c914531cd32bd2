--------------------------- MODULE MatchRooms_proof ---------------------------
(***************************************************************************)
(* Theorems about Matchmaking where nobody cancels, for any number of      *)
(* clients and of rooms that run side by side, whoever leaves and whatever *)
(* fails: the matching implements RandomMatch, a session is found until it *)
(* ends, and the queue holds live clients whenever queue_mutex is free.    *)
(* The barriers of the rooms play no part: a barrier passed by the READYs  *)
(* of another room (README) makes a game too early, never for the wrong    *)
(* players.  Where somebody cancels all three are false.                   *)
(***************************************************************************)
EXTENDS Matchmaking_proof

\* The hypothesis of all that follows.
NoCancels == Cancellers = {}

\* A room has its players waiting until it starts, for good if it fails; then
\* they play until GAME_OVER is sent.
Held == {"phase1", "phase2", "create", "registered", "failed"}
InGame == {"started", "playing"}

SeatedIn(c, r) == c \in Players(r) /\ roomPc[r] \in Held \cup InGame

Plays(c) == \E r \in Rooms : SeatedIn(c, r) /\ roomPc[r] \in InGame

Waits(c) ==
  \/ \E r \in Rooms : SeatedIn(c, r)
  \/ filling = NoRoom /\ c \in ToSet(waiting_queue)

----------------------------------------------------------------------------
(* What is under way on a connection, and where its client stands.         *)

\* These neither start a game nor end one.
Notices == {"QUEUE_FULL", "GAME_INIT", "GAME_FAILED", "CANCEL_OK",
            "SESSION_ACK", "SESSION_NOT_FOUND", "READY_TO_GO"}

Told(c) == Heed(inbox[c], Notices)
Said(c) == Heed(outbox[c], Notices)

LinesOrdered ==
  \A c \in Clients : InOrder(inbox[c], Notices) /\ InOrder(outbox[c], Notices)

\* The client is gone; of what it has said only these may still be unheard.
Left(c, lines) ==
  program[c] = "gone" /\ Told(c) = {} /\ Said(c) \subseteq lines \cup {"EOF"}

Stage(c, screens, told, said) ==
  program[c] \in screens /\ Told(c) = told /\ Said(c) = said

Matching == {"waiting", "summoned"}

Patient(c) == Stage(c, Matching, {}, {}) \/ Left(c, {})

Playing(c) ==
  \/ Stage(c, Matching, {"GAME_START"}, {})
  \/ Stage(c, {"playing"}, {}, {})
  \/ Stage(c, {"playing"}, {}, {"SESSION_READY"})
  \/ Left(c, {"SESSION_READY"})

\* What a client that is back in the lobby may still have under way.
Quits == {{}, {"GAME_QUIT"}, {"SESSION_READY", "GAME_QUIT"}}

Elsewhere(c) ==
  \/ \E said \in Quits :
       \/ Stage(c, {"lobby"}, {}, said)
       \/ Stage(c, Matching, {}, said \cup {"QUERY_WAIT"})
  \/ Patient(c)
  \/ Stage(c, Matching, {"GAME_START", "GAME_OVER"}, {})
  \/ Stage(c, {"playing"}, {"GAME_OVER"}, {})
  \/ Stage(c, {"playing"}, {"GAME_OVER"}, {"SESSION_READY"})
  \/ Left(c, {"SESSION_READY", "GAME_QUIT", "QUERY_WAIT"})

Stands(c) ==
  IF Plays(c) THEN Playing(c) ELSE IF Waits(c) THEN Patient(c)
  ELSE Elsewhere(c)

AllStand == \A c \in Clients : Stands(c)

\* Nobody sits in two rooms that are made or played.
Apart ==
  \A c \in Clients : \A r, q \in Rooms :
    SeatedIn(c, r) /\ SeatedIn(c, q) => r = q

Queued ==
  filling = NoRoom =>
    /\ IsInjective(waiting_queue)
    /\ \A c \in ToSet(waiting_queue) :
         /\ conn[c] \in {"loop", "filling"}
         /\ \A r \in Rooms : ~ SeatedIn(c, r)

FullRooms ==
  \A r \in Rooms :
    /\ roomPc[r] = "unused" => seats[r] = <<>>
    /\ roomPc[r] \in Held \cup InGame =>
         IsInjective(seats[r]) /\ Len(seats[r]) = RoomSize

RInv == LinesOrdered /\ AllStand /\ Apart /\ Queued /\ FullRooms

----------------------------------------------------------------------------
(* What a step leaves alone.                                               *)

\* Where a client stands is decided by its seats, the queue, its screen and
\* the lines under way.
LEMMA SameStand ==
  ASSUME NEW c \in Clients, Stands(c), Plays(c)' <=> Plays(c),
         Waits(c)' => Waits(c) \/ Plays(c),
         program'[c] = program[c], Told(c)' = Told(c), Said(c)' = Said(c)
  PROVE  Stands(c)'
<1>1. Patient(c) => Patient(c)' /\ Elsewhere(c)'
  BY DEF Patient, Elsewhere, Stage, Left
<1>2. Playing(c) => Playing(c)'
  BY DEF Playing, Stage, Left
<1>3. Elsewhere(c) => Elsewhere(c)'
  BY DEF Elsewhere, Patient, Stage, Left
<1>4. CASE Plays(c)
  BY <1>2, <1>4 DEF Stands
<1>5. CASE ~ Plays(c) /\ Waits(c)
  BY <1>1, <1>5 DEF Stands
<1>6. CASE ~ Plays(c) /\ ~ Waits(c)
  BY <1>3, <1>6 DEF Stands
<1> QED
  BY <1>4, <1>5, <1>6

\* Nobody takes a seat or leaves one.
LEMMA SameSeats ==
  ASSUME UNCHANGED <<roomPc, seats>>
  PROVE  /\ \A c, r : SeatedIn(c, r)' <=> SeatedIn(c, r)
         /\ \A c : Plays(c)' <=> Plays(c)
         /\ \A r : Players(r)' = Players(r)
         /\ UNCHANGED <<waiting_queue, filling>> =>
              \A c : Waits(c)' <=> Waits(c)
         /\ FullRooms => FullRooms'
         /\ Apart => Apart'
<1>1. \A r : Players(r)' = Players(r)
  BY DEF Players
<1>2. \A c, r : SeatedIn(c, r)' <=> SeatedIn(c, r)
  BY <1>1 DEF SeatedIn
<1>3. \A c : Plays(c)' <=> Plays(c)
  BY <1>2 DEF Plays
<1>4. FullRooms => FullRooms'
  BY DEF FullRooms
<1>5. Apart => Apart'
  BY <1>2 DEF Apart
<1>6. UNCHANGED <<waiting_queue, filling>> => \A c : Waits(c)' <=> Waits(c)
  BY <1>2 DEF Waits
<1> QED
  BY <1>1, <1>2, <1>3, <1>4, <1>5, <1>6

\* A line that is said joins what is under way to the server.
LEMMA Saying ==
  ASSUME MInv, RInv, NEW c \in Clients, NEW line \in ClientLines, Say(c, line),
         line \in Notices \/ \A l \in Said(c) : Rank(l) < Rank(line)
  PROVE  /\ InOrder(outbox'[c], Notices)
         /\ Said(c)' = Said(c) \cup ({line} \ Notices)
         /\ \A x \in Clients : x # c => outbox'[x] = outbox[x]
<1>1. /\ outbox'[c] = Append(outbox[c], line)
      /\ outbox[c] \in Seq(ClientLines)
      /\ \A x \in Clients : x # c => outbox'[x] = outbox[x]
  BY SayTypes DEF MInv, TypeOK
<1>2. InOrder(outbox[c], Notices)
  BY DEF RInv, LinesOrdered
<1>3. line \in Notices \/ \A l \in Heed(outbox[c], Notices) : Rank(l) < Rank(line)
  BY DEF Said
<1>4. /\ InOrder(Append(outbox[c], line), Notices)
      /\ Heed(Append(outbox[c], line), Notices)
           = Heed(outbox[c], Notices) \cup ({line} \ Notices)
  BY <1>1, <1>2, <1>3, HeedAppend
<1> QED
  BY <1>1, <1>4 DEF Said

\* A line that is read is gone from what is under way to the client.
LEMMA Reading ==
  ASSUME MInv, RInv, NEW c \in Clients, inbox[c] # <<>>,
         inbox' = [inbox EXCEPT ![c] = Tail(@)]
  PROVE  /\ InOrder(inbox'[c], Notices)
         /\ Told(c)' = Told(c) \ {Head(inbox[c])}
         /\ Head(inbox[c]) \in Told(c) \/ Head(inbox[c]) \in Notices
         /\ Head(inbox[c]) \notin Notices =>
              \A l \in Told(c) :
                l = Head(inbox[c]) \/ Rank(Head(inbox[c])) < Rank(l)
         /\ \A x \in Clients : x # c => inbox'[x] = inbox[x]
<1>1. /\ inbox'[c] = Tail(inbox[c]) /\ inbox[c] \in Seq(ServerLines)
      /\ InOrder(inbox[c], Notices)
      /\ \A x \in Clients : x # c => inbox'[x] = inbox[x]
  BY DEF MInv, TypeOK, RInv, LinesOrdered
<1>2. /\ InOrder(Tail(inbox[c]), Notices)
      /\ Heed(Tail(inbox[c]), Notices)
           = Heed(inbox[c], Notices) \ {Head(inbox[c])}
      /\ Head(inbox[c]) \in Heed(inbox[c], Notices)
           \/ Head(inbox[c]) \in Notices
      /\ Head(inbox[c]) \notin Notices =>
           \A l \in Heed(inbox[c], Notices) :
             l = Head(inbox[c]) \/ Rank(Head(inbox[c])) < Rank(l)
  BY <1>1, HeedTail
<1> QED
  BY <1>1, <1>2 DEF Told

\* One that is heard is gone from what is under way to the server.
LEMMA Hearing ==
  ASSUME MInv, RInv, NEW c \in Clients, NEW loop, NEW line, Hears(c, loop, line)
  PROVE  /\ InOrder(outbox'[c], Notices)
         /\ Said(c)' = Said(c) \ {line}
         /\ line \in Said(c) \/ line \in Notices
         /\ line \notin Notices =>
              \A l \in Said(c) : l = line \/ Rank(line) < Rank(l)
         /\ conn[c] = loop
         /\ \A x \in Clients : x # c => outbox'[x] = outbox[x]
<1>1. /\ outbox'[c] = Tail(outbox[c]) /\ outbox[c] # <<>>
      /\ outbox[c] \in Seq(ClientLines) /\ Head(outbox[c]) = line
      /\ conn[c] = loop
      /\ \A x \in Clients : x # c => outbox'[x] = outbox[x]
  BY HearTypes DEF MInv, Hears
<1>2. InOrder(outbox[c], Notices)
  BY DEF RInv, LinesOrdered
<1>3. /\ InOrder(Tail(outbox[c]), Notices)
      /\ Heed(Tail(outbox[c]), Notices)
           = Heed(outbox[c], Notices) \ {Head(outbox[c])}
      /\ Head(outbox[c]) \in Heed(outbox[c], Notices)
           \/ Head(outbox[c]) \in Notices
      /\ Head(outbox[c]) \notin Notices =>
           \A l \in Heed(outbox[c], Notices) :
             l = Head(outbox[c]) \/ Rank(Head(outbox[c])) < Rank(l)
  BY <1>1, <1>2, HeedTail
<1> QED
  BY <1>1, <1>3 DEF Said

\* What is sent to a room, or to a queue, reaches those that are still there.
LEMMA Telling ==
  ASSUME MInv, RInv, NEW S, NEW line \in ServerLines, SendAll(S, line),
         \/ line \in Notices
         \/ \A x \in Clients : x \in S /\ program[x] # "gone" =>
              \A l \in Told(x) : Rank(l) < Rank(line)
  PROVE  \A x \in Clients :
           /\ InOrder(inbox'[x], Notices)
           /\ Told(x)' = IF x \in S /\ program[x] # "gone"
                         THEN Told(x) \cup ({line} \ Notices) ELSE Told(x)
<1> SUFFICES ASSUME NEW x \in Clients
             PROVE  /\ InOrder(inbox'[x], Notices)
                    /\ Told(x)' = IF x \in S /\ program[x] # "gone"
                                  THEN Told(x) \cup ({line} \ Notices)
                                  ELSE Told(x)
  OBVIOUS
<1>1. inbox[x] \in Seq(ServerLines) /\ InOrder(inbox[x], Notices)
  BY DEF MInv, TypeOK, RInv, LinesOrdered
<1>2. CASE x \in S /\ program[x] # "gone"
  <2>1. inbox'[x] = Append(inbox[x], line)
    BY <1>2 DEF SendAll
  <2>2. line \in Notices \/ \A l \in Heed(inbox[x], Notices) : Rank(l) < Rank(line)
    BY <1>2 DEF Told
  <2>3. /\ InOrder(Append(inbox[x], line), Notices)
        /\ Heed(Append(inbox[x], line), Notices)
             = Heed(inbox[x], Notices) \cup ({line} \ Notices)
    BY <1>1, <2>2, HeedAppend
  <2> QED
    BY <1>2, <2>1, <2>3 DEF Told
<1>3. CASE ~ (x \in S /\ program[x] # "gone")
  <2>1. inbox'[x] = inbox[x]
    BY <1>3 DEF SendAll
  <2> QED
    BY <1>1, <1>3, <2>1 DEF Told
<1> QED
  BY <1>2, <1>3

\* A notice to one client or to several changes nothing that is heeded.
LEMMA Noticing ==
  ASSUME MInv, RInv, NEW line \in ServerLines \cap Notices,
         \/ \E S : SendAll(S, line)
         \/ \E c \in Clients : SendTo(c, line)
  PROVE  \A x \in Clients : InOrder(inbox'[x], Notices) /\ Told(x)' = Told(x)
<1> SUFFICES ASSUME NEW x \in Clients
             PROVE  InOrder(inbox'[x], Notices) /\ Told(x)' = Told(x)
  OBVIOUS
<1>1. /\ inbox \in [Clients -> Seq(ServerLines)]
      /\ inbox[x] \in Seq(ServerLines) /\ InOrder(inbox[x], Notices)
  BY DEF MInv, TypeOK, RInv, LinesOrdered
<1>2. inbox'[x] = inbox[x] \/ inbox'[x] = Append(inbox[x], line)
  BY <1>1 DEF SendAll, SendTo, Deliver
<1>3. /\ InOrder(Append(inbox[x], line), Notices)
      /\ Heed(Append(inbox[x], line), Notices)
           = Heed(inbox[x], Notices) \cup ({line} \ Notices)
  BY <1>1, HeedAppend
<1> QED
  BY <1>1, <1>2, <1>3 DEF Told

----------------------------------------------------------------------------
(* The client's program.                                                   *)

\* Where a client stands, by the screen it is on.
LEMMA OnScreen ==
  ASSUME RInv, NEW c \in Clients
  PROVE  /\ program[c] = "lobby" =>
              /\ ~ Plays(c) /\ ~ Waits(c)
              /\ Told(c) = {} /\ Said(c) \in Quits
         /\ program[c] \in Matching =>
              \/ Told(c) = {}
              \/ Told(c) = {"GAME_START"} /\ Said(c) = {} /\ Plays(c)
              \/ /\ Told(c) = {"GAME_START", "GAME_OVER"} /\ Said(c) = {}
                 /\ ~ Plays(c) /\ ~ Waits(c)
         /\ program[c] # "cancelling"
         /\ program[c] = "playing" =>
              /\ Said(c) \subseteq {"SESSION_READY"}
              /\ \/ Told(c) = {} /\ Plays(c)
                 \/ Told(c) = {"GAME_OVER"} /\ ~ Plays(c) /\ ~ Waits(c)
         /\ program[c] = "gone" => Told(c) = {}
         /\ program[c] # "gone" => "EOF" \notin Said(c)
         /\ Said(c) \subseteq {"SESSION_READY", "GAME_QUIT", "QUERY_WAIT", "EOF"}
<1> USE DEF Stage, Left, Matching
<1>1. Stands(c)
  BY DEF RInv, AllStand
<1>2. CASE Plays(c)
  BY <1>1, <1>2 DEF Stands, Playing
<1>3. CASE ~ Plays(c) /\ Waits(c)
  BY <1>1, <1>3 DEF Stands, Patient
<1>4. CASE ~ Plays(c) /\ ~ Waits(c)
  BY <1>1, <1>4 DEF Stands, Elsewhere, Patient, Quits
<1> QED
  BY <1>2, <1>3, <1>4

\* Where one client, and nothing else but the lines under way, has changed.
LEMMA OneKeeps ==
  ASSUME MInv, RInv, UNCHANGED <<roomPc, seats, waiting_queue, filling>>,
         NEW c \in Clients, Stands(c)',
         \A x \in Clients : InOrder(inbox'[x], Notices)
                            /\ InOrder(outbox'[x], Notices),
         \A x \in Clients : x # c =>
           /\ program'[x] = program[x]
           /\ Told(x)' = Told(x) /\ Said(x)' = Said(x)
           /\ conn'[x] = conn[x],
         conn'[c] = conn[c] \/ ~ Waits(c)
           \/ conn'[c] \in {"loop", "filling"}
  PROVE  RInv'
<1>1. /\ \A x, r : SeatedIn(x, r)' <=> SeatedIn(x, r)
      /\ \A x : Plays(x)' <=> Plays(x)
      /\ \A x : Waits(x)' <=> Waits(x)
      /\ FullRooms' /\ Apart'
  BY SameSeats DEF RInv
<1>2. LinesOrdered'
  BY DEF LinesOrdered
<1>3. AllStand'
  <2> SUFFICES ASSUME NEW x \in Clients, x # c PROVE Stands(x)'
    BY DEF AllStand
  <2>1. Stands(x)
    BY DEF RInv, AllStand
  <2> QED
    BY <1>1, <2>1, SameStand
<1>4. Queued'
  <2>1. \A x \in ToSet(waiting_queue) : filling = NoRoom => Waits(x)
    BY DEF Waits
  <2>2. ASSUME NEW x \in ToSet(waiting_queue), filling = NoRoom
        PROVE  conn'[x] \in {"loop", "filling"}
    <3>1. conn[x] \in {"loop", "filling"}
      BY <2>2 DEF RInv, Queued
    <3>2. x \in Clients
      BY DEF ToSet, MInv, TypeOK
    <3> QED
      BY <2>1, <2>2, <3>1, <3>2
  <2>3. ToSet(waiting_queue') = ToSet(waiting_queue)
    OBVIOUS
  <2> QED
    BY <1>1, <2>2, <2>3 DEF RInv, Queued
<1> QED
  BY <1>1, <1>2, <1>3, <1>4 DEF RInv

\* A step of a client's program.
LEMMA ProgramKeeps ==
  ASSUME MInv, RInv, NEW c \in Clients,
         UNCHANGED <<queueVars, readyVars, roomVars, conn, session>>,
         \A x \in Clients : x # c => /\ program'[x] = program[x]
                                     /\ inbox'[x] = inbox[x]
                                     /\ outbox'[x] = outbox[x],
         InOrder(inbox'[c], Notices), InOrder(outbox'[c], Notices), Stands(c)'
  PROVE  RInv'
<1>1. UNCHANGED <<roomPc, seats, waiting_queue, filling, conn>>
  BY DEF roomVars, queueVars
<1>2. \A x \in Clients : x # c => Told(x)' = Told(x) /\ Said(x)' = Said(x)
  BY DEF Told, Said
<1>3. \A x \in Clients : InOrder(inbox'[x], Notices)
                         /\ InOrder(outbox'[x], Notices)
  BY DEF RInv, LinesOrdered
<1> QED
  BY <1>1, <1>2, <1>3, OneKeeps

\* Whoever asks was in the lobby, seated nowhere.
LEMMA PressMatchKeeps ==
  ASSUME MInv, RInv, NEW c \in Clients, PressMatch(c)
  PROVE  RInv'
<1>1. /\ program[c] = "lobby" /\ Say(c, "QUERY_WAIT") /\ inbox' = inbox
      /\ UNCHANGED <<queueVars, readyVars, roomVars, conn, session>>
      /\ Show(c, "waiting")
  BY DEF PressMatch
<1>2. /\ program'[c] = "waiting"
      /\ \A x \in Clients : x # c => program'[x] = program[x]
  BY <1>1 DEF Show, MInv, TypeOK
<1>3. ~ Plays(c) /\ ~ Waits(c) /\ Told(c) = {} /\ Said(c) \in Quits
  BY <1>1, OnScreen
<1>4. /\ InOrder(outbox'[c], Notices) /\ Said(c)' = Said(c) \cup {"QUERY_WAIT"}
      /\ \A x \in Clients : x # c => outbox'[x] = outbox[x]
  BY <1>1, <1>3, Saying DEF Quits, Rank, ClientLines, Notices
<1>5. InOrder(inbox'[c], Notices) /\ Told(c)' = {}
  BY <1>1, <1>3 DEF Told, RInv, LinesOrdered
<1>6. ~ Plays(c)' /\ ~ Waits(c)'
  BY <1>1, <1>3, SameSeats DEF roomVars, queueVars
<1>7. Stands(c)'
  BY <1>2, <1>3, <1>4, <1>5, <1>6 DEF Stands, Elsewhere, Stage, Matching
<1> QED
  BY <1>1, <1>2, <1>4, <1>5, <1>7, ProgramKeeps

\* A client that reads GAME_START plays, and whatever else it reads on the
\* waiting screen leaves it where it stands.
LEMMA ReadWaitingKeeps ==
  ASSUME MInv, RInv, NEW c \in Clients, ReadWaiting(c)
  PROVE  RInv'
<1> DEFINE line == Head(inbox[c])
<1>1. /\ program[c] \in Matching /\ inbox[c] # <<>>
      /\ inbox' = [inbox EXCEPT ![c] = Tail(@)]
      /\ UNCHANGED <<queueVars, readyVars, roomVars, conn, session>>
  BY DEF ReadWaiting, Matching
<1>2. /\ InOrder(inbox'[c], Notices) /\ Told(c)' = Told(c) \ {line}
      /\ line \in Told(c) \/ line \in Notices
      /\ line \notin Notices =>
           \A l \in Told(c) : l = line \/ Rank(line) < Rank(l)
      /\ \A x \in Clients : x # c => inbox'[x] = inbox[x]
  BY <1>1, Reading
<1>3. (Plays(c)' <=> Plays(c)) /\ (Waits(c)' <=> Waits(c))
  BY <1>1, SameSeats DEF roomVars, queueVars
<1>4. \A screen : Show(c, screen) =>
        /\ program'[c] = screen
        /\ \A x \in Clients : x # c => program'[x] = program[x]
  BY DEF Show, MInv, TypeOK
<1>5. Stands(c)
  BY DEF RInv, AllStand
<1>6. CASE line = "GAME_START"
  <2>1. Show(c, "playing") /\ Say(c, "SESSION_READY")
    BY <1>6 DEF ReadWaiting
  <2>2. /\ Said(c) = {}
        /\ \/ Told(c) = {"GAME_START"} /\ Plays(c)
           \/ /\ Told(c) = {"GAME_START", "GAME_OVER"}
              /\ ~ Plays(c) /\ ~ Waits(c)
    BY <1>1, <1>2, <1>6, OnScreen DEF Notices
  <2>3. /\ InOrder(outbox'[c], Notices) /\ Said(c)' = {"SESSION_READY"}
        /\ \A x \in Clients : x # c => outbox'[x] = outbox[x]
    BY <2>1, <2>2, Saying DEF ClientLines, Notices
  <2>4. Told(c)' = IF Plays(c) THEN {} ELSE {"GAME_OVER"}
    BY <1>2, <1>6, <2>2
  <2>5. program'[c] = "playing"
    BY <1>4, <2>1
  <2>6. Stands(c)'
    BY <1>3, <2>2, <2>3, <2>4, <2>5 DEF Stands, Elsewhere, Playing, Stage
  <2> QED
    BY <1>1, <1>2, <1>4, <2>1, <2>3, <2>6, ProgramKeeps
<1>7. CASE line # "GAME_START"
  <2>1. line \in Notices
    <3>1. line \notin Notices => line = "GAME_OVER" /\ "GAME_START" \in Told(c)
      BY <1>1, <1>2, <1>7, OnScreen
    <3>2. ~ (Rank("GAME_OVER") < Rank("GAME_START"))
      BY DEF Rank
    <3> QED
      BY <1>2, <3>1, <3>2
  <2>2. Told(c)' = Told(c)
    BY <1>2, <2>1 DEF Told, Heed
  <2>3. /\ program'[c] \in Matching
        /\ \A x \in Clients : x # c => program'[x] = program[x]
    BY <1>1, <1>4, <1>7 DEF ReadWaiting, Matching
  <2>4. Say(c, "READY_TO_GO") \/ UNCHANGED outbox
    BY <1>7 DEF ReadWaiting
  <2>5. /\ InOrder(outbox'[c], Notices) /\ Said(c)' = Said(c)
        /\ \A x \in Clients : x # c => outbox'[x] = outbox[x]
    <3>1. CASE Say(c, "READY_TO_GO")
      <4>1. "READY_TO_GO" \in ClientLines /\ "READY_TO_GO" \in Notices
        BY DEF ClientLines, Notices
      <4>2. Said(c) \cup ({"READY_TO_GO"} \ Notices) = Said(c)
        BY <4>1
      <4> QED
        BY <3>1, <4>1, <4>2, Saying
    <3>2. CASE UNCHANGED outbox
      BY <3>2 DEF RInv, LinesOrdered, Said
    <3> QED
      BY <2>4, <3>1, <3>2
  <2>6. Stands(c)'
    BY <1>1, <1>3, <1>5, <2>2, <2>3, <2>5
       DEF Stands, Elsewhere, Patient, Playing, Stage, Left, Matching
  <2> QED
    BY <1>1, <1>2, <2>3, <2>5, <2>6, ProgramKeeps
<1> QED
  BY <1>6, <1>7

\* GAME_OVER sends a player back to the lobby; what else comes changes nothing.
LEMMA ReadPlayingKeeps ==
  ASSUME MInv, RInv, NEW c \in Clients, ReadPlaying(c)
  PROVE  RInv'
<1> DEFINE line == Head(inbox[c])
<1>1. /\ program[c] = "playing" /\ inbox[c] # <<>>
      /\ inbox' = [inbox EXCEPT ![c] = Tail(@)]
      /\ UNCHANGED <<queueVars, readyVars, roomVars, conn, session>>
  BY DEF ReadPlaying
<1>2. /\ InOrder(inbox'[c], Notices) /\ Told(c)' = Told(c) \ {line}
      /\ line \in Told(c) \/ line \in Notices
      /\ \A x \in Clients : x # c => inbox'[x] = inbox[x]
  BY <1>1, Reading
<1>3. (Plays(c)' <=> Plays(c)) /\ (Waits(c)' <=> Waits(c))
  BY <1>1, SameSeats DEF roomVars, queueVars
<1>4. /\ Said(c) \subseteq {"SESSION_READY"}
      /\ \/ Told(c) = {} /\ Plays(c)
         \/ Told(c) = {"GAME_OVER"} /\ ~ Plays(c) /\ ~ Waits(c)
  BY <1>1, OnScreen
<1>5. CASE line = "GAME_OVER"
  <2>1. Show(c, "lobby") /\ Say(c, "GAME_QUIT")
    BY <1>5 DEF ReadPlaying
  <2>2. /\ program'[c] = "lobby"
        /\ \A x \in Clients : x # c => program'[x] = program[x]
    BY <2>1 DEF Show, MInv, TypeOK
  <2>3. /\ InOrder(outbox'[c], Notices) /\ Said(c)' = Said(c) \cup {"GAME_QUIT"}
        /\ \A x \in Clients : x # c => outbox'[x] = outbox[x]
    BY <1>4, <2>1, Saying DEF ClientLines, Rank, Notices
  <2>4. ~ Plays(c) /\ ~ Waits(c) /\ Told(c)' = {}
    BY <1>2, <1>4, <1>5 DEF Notices
  <2>5. Said(c)' \in Quits
    BY <1>4, <2>3 DEF Quits
  <2>6. Stands(c)'
    BY <1>3, <2>2, <2>4, <2>5 DEF Stands, Elsewhere, Stage
  <2> QED
    BY <1>1, <1>2, <2>2, <2>3, <2>6, ProgramKeeps
<1>6. CASE line # "GAME_OVER"
  <2>1. UNCHANGED <<program, outbox>> /\ InOrder(outbox[c], Notices)
    BY <1>6 DEF ReadPlaying, RInv, LinesOrdered
  <2>2. Told(c)' = Told(c) /\ Said(c)' = Said(c)
    BY <1>2, <1>4, <1>6, <2>1 DEF Said
  <2>3. Stands(c)
    BY DEF RInv, AllStand
  <2>4. Stands(c)'
    BY <1>3, <2>1, <2>2, <2>3, SameStand
  <2> QED
    BY <1>1, <1>2, <2>1, <2>4, ProgramKeeps
<1> QED
  BY <1>5, <1>6

\* A client may leave wherever it stands.
LEMMA DisconnectKeeps ==
  ASSUME MInv, RInv, NEW c \in Clients, Disconnect(c)
  PROVE  RInv'
<1>1. /\ program[c] # "gone" /\ Show(c, "gone") /\ Say(c, "EOF")
      /\ inbox' = [inbox EXCEPT ![c] = <<>>]
      /\ UNCHANGED <<queueVars, readyVars, roomVars, conn, session>>
  BY DEF Disconnect
<1>2. /\ program'[c] = "gone" /\ inbox'[c] = <<>>
      /\ \A x \in Clients : x # c =>
           program'[x] = program[x] /\ inbox'[x] = inbox[x]
  BY <1>1 DEF Show, MInv, TypeOK
<1>3. InOrder(inbox'[c], Notices) /\ Told(c)' = {}
  BY <1>2, NoHeed DEF Told
<1>4. (Plays(c)' <=> Plays(c)) /\ (Waits(c)' <=> Waits(c))
  BY <1>1, SameSeats DEF roomVars, queueVars
<1>5. Stands(c)
  BY DEF RInv, AllStand
<1>6. \A l \in Said(c) : Rank(l) < Rank("EOF")
  <2>1. Said(c) \subseteq {"SESSION_READY", "GAME_QUIT", "QUERY_WAIT"}
    BY <1>1, OnScreen
  <2> QED
    BY <2>1 DEF Rank
<1>7. /\ InOrder(outbox'[c], Notices) /\ Said(c)' = Said(c) \cup {"EOF"}
      /\ \A x \in Clients : x # c => outbox'[x] = outbox[x]
  BY <1>1, <1>6, Saying DEF ClientLines, Notices
<1>8. Stands(c)'
  BY <1>1, <1>2, <1>3, <1>4, <1>5, <1>7
     DEF Stands, Elsewhere, Patient, Playing, Stage, Left, Quits
<1> QED
  BY <1>1, <1>2, <1>3, <1>7, <1>8, ProgramKeeps

\* So every step of a client's program keeps the invariant.
LEMMA ClientStepKeeps ==
  ASSUME NoCancels, MInv, RInv, NEW c \in Clients, Client(c)
  PROVE  RInv'
<1>1. ~ PressCancel(c)
  BY DEF NoCancels, PressCancel
<1>2. ~ ReadCancelAnswer(c)
  BY OnScreen DEF ReadCancelAnswer
<1> QED
  BY <1>1, <1>2, PressMatchKeeps, ReadWaitingKeeps, ReadPlayingKeeps,
     DisconnectKeeps DEF Client

----------------------------------------------------------------------------
(* The connection threads.                                                 *)

\* To be heard changes nothing of where a client stands.
LEMMA HeardStands ==
  ASSUME MInv, RInv, NEW c \in Clients, NEW loop, NEW line, Hears(c, loop, line),
         Plays(c)' <=> Plays(c), Waits(c)' => Waits(c) \/ Plays(c),
         program'[c] = program[c], Told(c)' = Told(c)
  PROVE  Stands(c)'
<1>1. /\ Said(c)' = Said(c) \ {line} /\ (line \in Said(c) \/ line \in Notices)
      /\ line \notin Notices =>
           \A l \in Said(c) : l = line \/ Rank(line) < Rank(l)
  BY Hearing
<1>2. Stands(c)
  BY DEF RInv, AllStand
<1>3. CASE line \in Notices
  <2>1. Said(c)' = Said(c)
    BY <1>1, <1>3 DEF Said, Heed
  <2> QED
    BY <1>2, <2>1, SameStand
<1>4. CASE line \notin Notices
  <2>1. Patient(c) => Patient(c)' /\ Elsewhere(c)'
    BY <1>1, <1>4 DEF Patient, Elsewhere, Stage, Left
  <2>2. Playing(c) => Playing(c)'
    BY <1>1, <1>4 DEF Playing, Stage, Left
  <2>3. ASSUME NEW said \in Quits, Said(c) = said PROVE Said(c)' \in Quits
    BY <1>1, <1>4, <2>3 DEF Quits, Rank
  <2>4. ASSUME NEW said \in Quits, Said(c) = said \cup {"QUERY_WAIT"}
        PROVE  Said(c)' = {}
                 \/ \E s \in Quits : Said(c)' = s \cup {"QUERY_WAIT"}
    <3>1. CASE line = "QUERY_WAIT"
      BY <1>1, <1>4, <2>4, <3>1 DEF Quits, Rank
    <3>2. CASE line # "QUERY_WAIT"
      <4>1. said \ {line} \in Quits
        BY <1>1, <1>4, <2>4, <3>2 DEF Quits, Rank
      <4>2. Said(c)' = (said \ {line}) \cup {"QUERY_WAIT"}
        BY <1>1, <2>4, <3>2
      <4> QED
        BY <4>1, <4>2
    <3> QED
      BY <3>1, <3>2
  <2>5. ASSUME Elsewhere(c) PROVE Elsewhere(c)'
    <3>1. ASSUME NEW said \in Quits, Stage(c, {"lobby"}, {}, said)
          PROVE  Elsewhere(c)'
      BY <2>3, <3>1 DEF Elsewhere, Stage
    <3>2. ASSUME NEW said \in Quits,
                 Stage(c, Matching, {}, said \cup {"QUERY_WAIT"})
          PROVE  Elsewhere(c)'
      BY <2>4, <3>2 DEF Elsewhere, Patient, Stage
    <3>3. CASE \/ Patient(c)
               \/ Stage(c, Matching, {"GAME_START", "GAME_OVER"}, {})
               \/ Stage(c, {"playing"}, {"GAME_OVER"}, {})
               \/ Stage(c, {"playing"}, {"GAME_OVER"}, {"SESSION_READY"})
               \/ Left(c, {"SESSION_READY", "GAME_QUIT", "QUERY_WAIT"})
      BY <1>1, <1>4, <2>1, <3>3 DEF Elsewhere, Stage, Left
    <3> QED
      BY <2>5, <3>1, <3>2, <3>3 DEF Elsewhere
  <2>6. CASE Plays(c)
    BY <1>2, <2>2, <2>6 DEF Stands
  <2>7. CASE ~ Plays(c) /\ Waits(c)
    BY <1>2, <2>1, <2>7 DEF Stands
  <2>8. CASE ~ Plays(c) /\ ~ Waits(c)
    BY <1>2, <2>5, <2>8 DEF Stands
  <2> QED
    BY <2>6, <2>7, <2>8
<1> QED
  BY <1>3, <1>4

\* What one thread hears leaves the others where they are.
LEMMA HearKeeps ==
  ASSUME MInv, RInv, NEW c \in Clients, NEW loop, NEW line, Hears(c, loop, line),
         UNCHANGED <<queueVars, roomVars, program>>,
         \A x \in Clients : InOrder(inbox'[x], Notices) /\ Told(x)' = Told(x),
         \A x \in Clients : x # c => conn'[x] = conn[x],
         conn'[c] = conn[c] \/ ~ Waits(c)
  PROVE  RInv'
<1>1. /\ InOrder(outbox'[c], Notices)
      /\ \A x \in Clients : x # c => outbox'[x] = outbox[x]
  BY Hearing
<1>2. UNCHANGED <<roomPc, seats, waiting_queue, filling>>
  BY DEF roomVars, queueVars
<1>3. (Plays(c)' <=> Plays(c)) /\ (Waits(c)' <=> Waits(c))
  BY <1>2, SameSeats
<1>4. Stands(c)'
  BY <1>3, HeardStands
<1>5. \A x \in Clients : x # c => /\ program'[x] = program[x]
                                  /\ Said(x)' = Said(x)
  BY <1>1 DEF Said
<1>6. \A x \in Clients : InOrder(outbox'[x], Notices)
  BY <1>1 DEF RInv, LinesOrdered
<1> QED
  BY <1>2, <1>4, <1>5, <1>6, OneKeeps

\* What a client has said tells where it stands.
LEMMA BySaid ==
  ASSUME RInv, NEW c \in Clients
  PROVE  /\ "SESSION_READY" \in Said(c) => Plays(c) \/ ~ Waits(c)
         /\ "GAME_QUIT" \in Said(c) => ~ Plays(c) /\ ~ Waits(c)
         /\ "QUERY_WAIT" \in Said(c) =>
              /\ ~ Plays(c) /\ ~ Waits(c)
              /\ program[c] \in Matching \cup {"gone"} /\ Told(c) = {}
         /\ program[c] # "gone" => "EOF" \notin Said(c)
<1> USE DEF Stage, Left
<1>1. Stands(c)
  BY DEF RInv, AllStand
<1>2. CASE Plays(c)
  BY <1>1, <1>2 DEF Stands, Playing, Matching
<1>3. CASE ~ Plays(c) /\ Waits(c)
  BY <1>1, <1>3 DEF Stands, Patient, Matching
<1>4. CASE ~ Plays(c) /\ ~ Waits(c)
  BY <1>1, <1>4 DEF Stands, Elsewhere, Patient, Quits, Matching
<1> QED
  BY <1>2, <1>3, <1>4

\* Whoever asks has no seat and no place in the queue, and nothing of its is
\* under way but that it leaves.
LEMMA AskerIsFree ==
  ASSUME MInv, RInv, NEW c \in Clients, Hears(c, "lobby", "QUERY_WAIT"),
         UNCHANGED <<program, inbox>>
  PROVE  /\ ~ Plays(c) /\ \A r \in Rooms : ~ SeatedIn(c, r)
         /\ filling = NoRoom => c \notin ToSet(waiting_queue)
         /\ Patient(c)'
<1>1. /\ Said(c)' = Said(c) \ {"QUERY_WAIT"} /\ "QUERY_WAIT" \in Said(c)
      /\ \A l \in Said(c) : l = "QUERY_WAIT" \/ Rank("QUERY_WAIT") < Rank(l)
  BY Hearing DEF Notices
<1>2. /\ ~ Plays(c) /\ ~ Waits(c)
      /\ program[c] \in Matching \cup {"gone"} /\ Told(c) = {}
      /\ program[c] # "gone" => "EOF" \notin Said(c)
      /\ Said(c) \subseteq {"SESSION_READY", "GAME_QUIT", "QUERY_WAIT", "EOF"}
  BY <1>1, BySaid, OnScreen
<1>3. Said(c)' \subseteq {"EOF"}
  BY <1>1, <1>2 DEF Rank
<1>4. Told(c)' = {} /\ program'[c] = program[c]
  BY <1>2 DEF Told
<1>5. program[c] # "gone" => Said(c)' = {}
  BY <1>1, <1>2, <1>3
<1>6. Patient(c)'
  BY <1>2, <1>3, <1>4, <1>5 DEF Patient, Stage, Left
<1> QED
  BY <1>2, <1>6 DEF Waits

\* The queue gets another live client.
LEMMA EnqueueKeeps ==
  ASSUME MInv, RInv, NEW c \in Clients, Enqueue(c)
  PROVE  RInv'
<1>1. /\ Hears(c, "lobby", "QUERY_WAIT") /\ filling = NoRoom
      /\ waiting_queue' = Append(waiting_queue, c) /\ Enter(c, "loop")
      /\ UNCHANGED <<filling, readyVars, roomVars, program, inbox>>
  BY DEF Enqueue
<1>2. /\ conn'[c] = "loop"
      /\ \A x \in Clients : x # c => conn'[x] = conn[x]
  BY <1>1, Entering
<1>3. /\ ~ Plays(c) /\ \A r \in Rooms : ~ SeatedIn(c, r)
      /\ c \notin ToSet(waiting_queue) /\ Patient(c)'
  BY <1>1, AskerIsFree
<1>4. waiting_queue \in Seq(Clients) /\ ToSet(waiting_queue) \subseteq Clients
  BY DEF ToSet, MInv, TypeOK
<1>5. /\ IsInjective(waiting_queue')
      /\ ToSet(waiting_queue') = ToSet(waiting_queue) \cup {c}
  BY <1>1, <1>3, <1>4, JoinQueue DEF RInv, Queued
<1>6. /\ InOrder(outbox'[c], Notices)
      /\ \A x \in Clients : x # c => outbox'[x] = outbox[x]
  BY <1>1, Hearing
<1>7. /\ \A x, r : SeatedIn(x, r)' <=> SeatedIn(x, r)
      /\ \A x : Plays(x)' <=> Plays(x)
      /\ FullRooms' /\ Apart'
  BY <1>1, SameSeats DEF roomVars, RInv
<1>8. \A x \in Clients : x # c => (Waits(x)' <=> Waits(x))
  BY <1>1, <1>5, <1>7 DEF Waits
<1>9. LinesOrdered'
  BY <1>1, <1>6 DEF RInv, LinesOrdered
<1>10. AllStand'
  <2>1. Stands(c)'
    BY <1>1, <1>3, <1>5, <1>7 DEF Stands, Waits
  <2>2. ASSUME NEW x \in Clients, x # c PROVE Stands(x)'
    <3>1. Stands(x)
      BY DEF RInv, AllStand
    <3>2. program'[x] = program[x] /\ Told(x)' = Told(x) /\ Said(x)' = Said(x)
      BY <1>1, <1>6, <2>2 DEF Told, Said
    <3> QED
      BY <1>7, <1>8, <2>2, <3>1, <3>2, SameStand
  <2> QED
    BY <2>1, <2>2 DEF AllStand
<1>11. Queued'
  BY <1>1, <1>2, <1>3, <1>4, <1>5, <1>7 DEF RInv, Queued
<1> QED
  BY <1>7, <1>9, <1>10, <1>11 DEF RInv

\* The queue becomes the room, and all who sit there have asked and been
\* heard.
LEMMA FillRoomKeeps ==
  ASSUME MInv, RInv, NEW c \in Clients, NEW r \in Rooms, FillRoom(c, r)
  PROVE  RInv'
<1>1. /\ Hears(c, "lobby", "QUERY_WAIT") /\ filling = NoRoom
      /\ waiting_queue' = Append(waiting_queue, c) /\ Enter(c, "filling")
      /\ Len(waiting_queue') = RoomSize
      /\ roomPc[r] \in {"unused", "ended", "failed"} /\ filling' = r
      /\ roomPc' = [roomPc EXCEPT ![r] = "phase1"]
      /\ seats' = [seats EXCEPT ![r] = waiting_queue']
      /\ UNCHANGED <<readyVars, ongoing_sessions, program, inbox>>
  BY DEF FillRoom, Free
<1>2. /\ ~ Plays(c) /\ \A q \in Rooms : ~ SeatedIn(c, q)
      /\ c \notin ToSet(waiting_queue) /\ Patient(c)'
  BY <1>1, AskerIsFree
<1>3. waiting_queue \in Seq(Clients) /\ ToSet(waiting_queue) \subseteq Clients
  BY DEF ToSet, MInv, TypeOK
<1>4. /\ IsInjective(waiting_queue')
      /\ ToSet(waiting_queue') = ToSet(waiting_queue) \cup {c}
  BY <1>1, <1>2, <1>3, JoinQueue DEF RInv, Queued
<1>5. /\ InOrder(outbox'[c], Notices)
      /\ \A x \in Clients : x # c => outbox'[x] = outbox[x]
  BY <1>1, Hearing
<1>6. /\ roomPc'[r] = "phase1" /\ seats'[r] = waiting_queue'
      /\ \A q \in Rooms : q # r => roomPc'[q] = roomPc[q] /\ seats'[q] = seats[q]
  BY <1>1 DEF MInv, TypeOK
<1>7. \A x : SeatedIn(x, r)' <=> x \in ToSet(waiting_queue) \cup {c}
  BY <1>4, <1>6 DEF SeatedIn, Players, Held
<1>8. \A x : \A q \in Rooms : q # r => (SeatedIn(x, q)' <=> SeatedIn(x, q))
  BY <1>6 DEF SeatedIn, Players
<1>9. \A x \in ToSet(waiting_queue) \cup {c} :
        \A q \in Rooms : ~ SeatedIn(x, q)
  BY <1>1, <1>2 DEF RInv, Queued
<1>10. \A x : Plays(x)' <=> Plays(x)
  <2>1. roomPc[r] \notin InGame /\ roomPc'[r] \notin InGame
    BY <1>1, <1>6 DEF InGame
  <2> QED
    BY <1>6, <1>8, <2>1 DEF Plays
<1>11. \A x \in Clients : Waits(x)' => Waits(x) \/ x = c
  <2>1. filling' # NoRoom
    BY <1>1, MatchAssumption
  <2> QED
    BY <1>1, <1>7, <1>8, <2>1 DEF Waits
<1>12. LinesOrdered'
  BY <1>1, <1>5 DEF RInv, LinesOrdered
<1>13. AllStand'
  <2>1. Stands(c)'
    BY <1>2, <1>7, <1>10 DEF Stands, Waits
  <2>2. ASSUME NEW x \in Clients, x # c PROVE Stands(x)'
    <3>1. Stands(x)
      BY DEF RInv, AllStand
    <3>2. program'[x] = program[x] /\ Told(x)' = Told(x) /\ Said(x)' = Said(x)
      BY <1>1, <1>5, <2>2 DEF Told, Said
    <3> QED
      BY <1>10, <1>11, <2>2, <3>1, <3>2, SameStand
  <2> QED
    BY <2>1, <2>2 DEF AllStand
<1>14. Apart'
  <2> SUFFICES ASSUME NEW x \in Clients, NEW q \in Rooms, NEW p \in Rooms,
                      SeatedIn(x, q)', SeatedIn(x, p)'
               PROVE  q = p
    BY DEF Apart
  <2>1. CASE q = r \/ p = r
    BY <1>7, <1>8, <1>9, <2>1
  <2>2. CASE q # r /\ p # r
    BY <1>8, <2>2 DEF RInv, Apart
  <2> QED
    BY <2>1, <2>2
<1>15. Queued'
  BY <1>1, MatchAssumption DEF Queued
<1>16. FullRooms'
  <2> SUFFICES ASSUME NEW q \in Rooms
               PROVE  /\ roomPc'[q] = "unused" => seats'[q] = <<>>
                      /\ roomPc'[q] \in Held \cup InGame =>
                           IsInjective(seats'[q]) /\ Len(seats'[q]) = RoomSize
    BY DEF FullRooms
  <2>1. CASE q = r
    BY <1>1, <1>4, <1>6, <2>1
  <2>2. CASE q # r
    BY <1>6, <2>2 DEF RInv, FullRooms
  <2> QED
    BY <2>1, <2>2
<1> QED
  BY <1>12, <1>13, <1>14, <1>15, <1>16 DEF RInv

\* QUEUE_FULL is a notice; whoever is still in the queue has a seat.
LEMMA AnnounceFullKeeps ==
  ASSUME MInv, RInv, NEW c \in Clients, AnnounceFull(c)
  PROVE  RInv'
<1>1. /\ SendAll(ToSet(waiting_queue), "QUEUE_FULL")
      /\ waiting_queue' = <<>> /\ filling' = NoRoom
      /\ UNCHANGED <<readyVars, roomVars, program, outbox>>
  BY DEF AnnounceFull
<1>2. "QUEUE_FULL" \in ServerLines \cap Notices
  BY DEF ServerLines, Notices
<1>3. \A x \in Clients : /\ InOrder(inbox'[x], Notices) /\ Told(x)' = Told(x)
                         /\ Said(x)' = Said(x) /\ program'[x] = program[x]
  BY <1>1, <1>2, Noticing DEF Said
<1>4. /\ \A x, r : SeatedIn(x, r)' <=> SeatedIn(x, r)
      /\ \A x : Plays(x)' <=> Plays(x)
      /\ FullRooms' /\ Apart'
  BY <1>1, SameSeats DEF roomVars, RInv
<1>5. ToSet(waiting_queue') = {}
  BY <1>1 DEF ToSet
<1>6. \A x : Waits(x)' => Waits(x)
  BY <1>4, <1>5 DEF Waits
<1>7. AllStand'
  <2> SUFFICES ASSUME NEW x \in Clients PROVE Stands(x)'
    BY DEF AllStand
  <2>1. Stands(x)
    BY DEF RInv, AllStand
  <2> QED
    BY <1>3, <1>4, <1>6, <2>1, SameStand
<1>8. LinesOrdered'
  BY <1>1, <1>3 DEF RInv, LinesOrdered
<1>9. Queued'
  BY <1>1, <1>5 DEF Queued, IsInjective
<1> QED
  BY <1>4, <1>7, <1>8, <1>9 DEF RInv

\* Where nothing is sent, nothing is told.
LEMMA Silence ==
  ASSUME RInv, UNCHANGED inbox
  PROVE  \A x \in Clients : InOrder(inbox'[x], Notices) /\ Told(x)' = Told(x)
BY DEF RInv, LinesOrdered, Told

\* Which session a thread is bound to is nothing to the rooms.
LEMMA BindSessionKeeps ==
  ASSUME MInv, RInv, NEW c \in Clients, BindSession(c)
  PROVE  RInv'
<1>1. UNCHANGED <<queueVars, readyVars, roomVars, conn, program, inbox, outbox>>
  BY DEF BindSession
<1>2. /\ \A x, r : SeatedIn(x, r)' <=> SeatedIn(x, r)
      /\ \A x : Plays(x)' <=> Plays(x)
      /\ FullRooms' /\ Apart'
  BY <1>1, SameSeats DEF roomVars, RInv
<1>3. \A x : Waits(x)' <=> Waits(x)
  BY <1>1, <1>2 DEF Waits, queueVars, roomVars, ToSet
<1>4. AllStand'
  <2> SUFFICES ASSUME NEW x \in Clients PROVE Stands(x)'
    BY DEF AllStand
  <2>1. Stands(x)
    BY DEF RInv, AllStand
  <2>2. program'[x] = program[x] /\ Told(x)' = Told(x) /\ Said(x)' = Said(x)
    BY <1>1 DEF Told, Said
  <2> QED
    BY <1>2, <1>3, <2>1, <2>2, SameStand
<1>5. LinesOrdered'
  BY <1>1 DEF RInv, LinesOrdered
<1>6. Queued'
  BY <1>1, <1>2 DEF RInv, Queued, queueVars, roomVars, ToSet
<1> QED
  BY <1>2, <1>4, <1>5, <1>6 DEF RInv

\* SESSION_READY is answered by a notice, whether or not it has found a session.
LEMMA AnswerReadyKeeps ==
  ASSUME MInv, RInv, NEW c \in Clients, AckSession(c) \/ RefuseSession(c)
  PROVE  RInv'
<1>1. PICK answer \in {"SESSION_ACK", "SESSION_NOT_FOUND"} :
        /\ Hears(c, "loop", "SESSION_READY") /\ SendTo(c, answer)
        /\ UNCHANGED <<queueVars, readyVars, roomVars, conn, program>>
  BY DEF AckSession, RefuseSession
<1>2. answer \in ServerLines \cap Notices
  BY DEF ServerLines, Notices
<1>3. \A x \in Clients : InOrder(inbox'[x], Notices) /\ Told(x)' = Told(x)
  BY <1>1, <1>2, Noticing
<1> QED
  BY <1>1, <1>3, HearKeeps

\* Whoever is gone is taken out of the queue, if it is there.
LEMMA LoseClientKeeps ==
  ASSUME MInv, RInv, NEW c \in Clients, LoseClient(c)
  PROVE  RInv'
<1>1. /\ \/ Hears(c, "loop", "EOF") /\ LeaveQueue(c)
         \/ Hears(c, "lobby", "EOF") /\ UNCHANGED waiting_queue
      /\ Enter(c, "closed")
      /\ UNCHANGED <<filling, readyVars, roomVars, program, inbox>>
  BY DEF LoseClient
<1>2. \A x \in Clients : x # c => conn'[x] = conn[x]
  BY <1>1, Entering
<1>3. \A x \in Clients : InOrder(inbox'[x], Notices) /\ Told(x)' = Told(x)
  BY <1>1, Silence
<1>4. /\ \A x, r : SeatedIn(x, r)' <=> SeatedIn(x, r)
      /\ \A x : Plays(x)' <=> Plays(x)
      /\ FullRooms' /\ Apart'
  BY <1>1, SameSeats DEF roomVars, RInv
<1>5. PICK loop : Hears(c, loop, "EOF")
  BY <1>1
<1>6. /\ InOrder(outbox'[c], Notices)
      /\ \A x \in Clients : x # c => outbox'[x] = outbox[x]
  BY <1>5, Hearing
<1>7. waiting_queue \in Seq(Clients) /\ ToSet(waiting_queue) \subseteq Clients
  BY DEF ToSet, MInv, TypeOK
<1>8. filling = NoRoom =>
        /\ IsInjective(waiting_queue')
        /\ ToSet(waiting_queue') \subseteq ToSet(waiting_queue) \ {c}
  <2>1. CASE Hears(c, "loop", "EOF") /\ LeaveQueue(c)
    BY <1>7, <2>1, RemoveFirstInjective DEF LeaveQueue, RInv, Queued
  <2>2. CASE Hears(c, "lobby", "EOF") /\ UNCHANGED waiting_queue
    BY <2>2 DEF Hears, RInv, Queued
  <2> QED
    BY <1>1, <2>1, <2>2
<1>9. \A x : Waits(x)' => Waits(x)
  BY <1>1, <1>4, <1>8 DEF Waits
<1>10. LinesOrdered'
  BY <1>3, <1>6 DEF RInv, LinesOrdered
<1>11. AllStand'
  <2> SUFFICES ASSUME NEW x \in Clients PROVE Stands(x)'
    BY DEF AllStand
  <2>1. CASE x = c
    BY <1>1, <1>3, <1>4, <1>5, <1>9, <2>1, HeardStands
  <2>2. CASE x # c
    <3>1. Stands(x)
      BY DEF RInv, AllStand
    <3>2. program'[x] = program[x] /\ Told(x)' = Told(x) /\ Said(x)' = Said(x)
      BY <1>1, <1>3, <1>6, <2>2 DEF Said
    <3> QED
      BY <1>4, <1>9, <3>1, <3>2, SameStand
  <2> QED
    BY <2>1, <2>2
<1>12. Queued'
  BY <1>1, <1>2, <1>4, <1>7, <1>8 DEF RInv, Queued
<1> QED
  BY <1>4, <1>10, <1>11, <1>12 DEF RInv

\* So every step of a connection thread keeps the invariant.
LEMMA ConnectionStepKeeps ==
  ASSUME MInv, RInv, NEW c \in Clients, Connection(c)
  PROVE  RInv'
<1>1. CASE CountReady(c)
  BY <1>1, Silence, HearKeeps DEF CountReady
<1>2. CASE QuitGame(c)
  <2>1. /\ Hears(c, "loop", "GAME_QUIT") /\ Enter(c, "lobby")
        /\ UNCHANGED <<queueVars, readyVars, roomVars, program, inbox>>
    BY <1>2 DEF QuitGame
  <2>2. ~ Waits(c)
    BY <2>1, Hearing, BySaid DEF Notices
  <2>3. \A x \in Clients : x # c => conn'[x] = conn[x]
    BY <2>1, Entering
  <2> QED
    BY <2>1, <2>2, <2>3, Silence, HearKeeps
<1>3. ~ CancelMatch(c)
  <2>1. "MATCHING_CANCEL" \notin Said(c)
    BY OnScreen
  <2> QED
    BY <2>1, Hearing DEF CancelMatch, Notices
<1> QED
  BY <1>1, <1>2, <1>3, EnqueueKeeps, FillRoomKeeps, AnnounceFullKeeps,
     BindSessionKeeps, AnswerReadyKeeps, LoseClientKeeps DEF Connection

----------------------------------------------------------------------------
(* The threads of the rooms and their games.                               *)

\* A room that goes on with its players where they are.
LEMMA RoomGoesOn ==
  ASSUME MInv, RInv, NEW r \in Rooms, NEW from, NEW to, Goes(r, from, to),
         from \in Held <=> to \in Held, from \in InGame <=> to \in InGame,
         to # "unused",
         UNCHANGED <<queueVars, seats, conn, program, outbox>>,
         \A x \in Clients : InOrder(inbox'[x], Notices) /\ Told(x)' = Told(x)
  PROVE  RInv'
<1>1. /\ roomPc[r] = from /\ roomPc'[r] = to
      /\ \A q \in Rooms : q # r => roomPc'[q] = roomPc[q]
  BY DEF Goes, MInv, TypeOK
<1>2. \A q \in Rooms : /\ roomPc'[q] \in Held <=> roomPc[q] \in Held
                       /\ roomPc'[q] \in InGame <=> roomPc[q] \in InGame
                       /\ roomPc'[q] = "unused" => roomPc[q] = "unused"
  BY <1>1
<1>3. \A x : \A q \in Rooms : SeatedIn(x, q)' <=> SeatedIn(x, q)
  BY <1>2 DEF SeatedIn, Players
<1>4. \A x : (Plays(x)' <=> Plays(x)) /\ (Waits(x)' <=> Waits(x))
  BY <1>2, <1>3 DEF Plays, Waits, queueVars
<1>5. LinesOrdered'
  BY DEF RInv, LinesOrdered
<1>6. AllStand'
  <2> SUFFICES ASSUME NEW x \in Clients PROVE Stands(x)'
    BY DEF AllStand
  <2>1. Stands(x) /\ program'[x] = program[x] /\ Said(x)' = Said(x)
    BY DEF RInv, AllStand, Said
  <2> QED
    BY <1>4, <2>1, SameStand
<1>7. Apart' /\ FullRooms'
  BY <1>2, <1>3 DEF RInv, Apart, FullRooms
<1>8. Queued'
  <2>1. ToSet(waiting_queue') = ToSet(waiting_queue)
    BY DEF queueVars
  <2> QED
    BY <1>3, <2>1 DEF RInv, Queued, queueVars
<1> QED
  BY <1>5, <1>6, <1>7, <1>8 DEF RInv

\* All of those, by name.
LEMMA RoomThreadKeeps ==
  ASSUME MInv, RInv, NEW r \in Rooms,
         RoomThread(r) \/ FreeSession(r), ~ StartGame(r)
  PROVE  RInv'
<1> USE DEF Held, InGame
<1>1. \A line \in {"GAME_INIT", "GAME_FAILED"} :
        line \in ServerLines \cap Notices
  BY DEF ServerLines, Notices
<1>2. CASE PassPhase1(r)
  <2>1. \A x \in Clients : InOrder(inbox'[x], Notices) /\ Told(x)' = Told(x)
    BY <1>1, <1>2, Noticing DEF PassPhase1
  <2> QED
    BY <1>2, <2>1, RoomGoesOn DEF PassPhase1
<1>3. CASE FailCards(r)
  <2>1. \A x \in Clients : InOrder(inbox'[x], Notices) /\ Told(x)' = Told(x)
    BY <1>1, <1>3, Noticing DEF FailCards
  <2> QED
    BY <1>3, <2>1, RoomGoesOn DEF FailCards
<1>4. CASE PassPhase2(r)
  BY <1>4, Silence, RoomGoesOn DEF PassPhase2
<1>5. CASE Register(r)
  BY <1>5, Silence, RoomGoesOn DEF Register
<1>6. CASE FailRegister(r)
  BY <1>6, Silence, RoomGoesOn DEF FailRegister
<1>7. CASE ResetReady(r)
  BY <1>7, Silence, RoomGoesOn DEF ResetReady
<1>8. CASE FreeSession(r)
  BY <1>8, Silence, RoomGoesOn DEF FreeSession
<1> QED
  BY <1>2, <1>3, <1>4, <1>5, <1>6, <1>7, <1>8 DEF RoomThread

\* A room whose game starts: its players wait, and sit nowhere else.
LEMMA Starting ==
  ASSUME MInv, RInv, NEW r \in Rooms, StartGame(r)
  PROVE  /\ Players(r) \subseteq Clients /\ Cardinality(Players(r)) = RoomSize
         /\ \A x \in Players(r) : ~ Plays(x) /\ Patient(x)
         /\ \A x \in Clients :
              /\ InOrder(inbox'[x], Notices)
              /\ Told(x)' = IF x \in Players(r) /\ program[x] # "gone"
                            THEN {"GAME_START"} ELSE Told(x)
              /\ Said(x)' = Said(x) /\ program'[x] = program[x]
<1>1. /\ roomPc[r] = "registered" /\ SendAll(Players(r), "GAME_START")
      /\ UNCHANGED <<program, outbox>>
  BY DEF StartGame, Goes
<1>2. seats[r] \in Seq(Clients)
  BY DEF MInv, TypeOK
<1>3. Players(r) \subseteq Clients
  BY <1>2 DEF Players, ToSet
<1>4. Cardinality(Players(r)) = RoomSize
  <2>1. IsInjective(seats[r]) /\ Len(seats[r]) = RoomSize
    BY <1>1 DEF RInv, FullRooms, Held
  <2> QED
    BY <1>2, <2>1, PartySize DEF Players
<1>5. ASSUME NEW x \in Players(r) PROVE ~ Plays(x) /\ Patient(x)
  <2>1. SeatedIn(x, r) /\ x \in Clients
    BY <1>1, <1>3 DEF SeatedIn, Held
  <2>2. ~ Plays(x)
    BY <1>1, <2>1 DEF Plays, RInv, Apart, InGame
  <2> QED
    BY <2>1, <2>2 DEF RInv, AllStand, Stands, Waits
<1>6. "GAME_START" \in ServerLines /\ "GAME_START" \notin Notices
  BY DEF ServerLines, Notices
<1>7. \A x \in Players(r) : Told(x) = {}
  BY <1>5 DEF Patient, Stage, Left
<1>8. \A x \in Clients :
        /\ InOrder(inbox'[x], Notices)
        /\ Told(x)' = IF x \in Players(r) /\ program[x] # "gone"
                      THEN {"GAME_START"} ELSE Told(x)
  BY <1>1, <1>6, <1>7, Telling
<1> QED
  BY <1>1, <1>3, <1>4, <1>5, <1>8 DEF Said

\* GAME_START makes players of those that wait.
LEMMA StartGameKeeps ==
  ASSUME MInv, RInv, NEW r \in Rooms, StartGame(r)
  PROVE  RInv'
<1>1. /\ Goes(r, "registered", "started")
      /\ UNCHANGED <<queueVars, seats, conn, program, outbox>>
  BY DEF StartGame
<1>2. /\ roomPc[r] = "registered" /\ roomPc'[r] = "started"
      /\ \A q \in Rooms : q # r => roomPc'[q] = roomPc[q]
  BY <1>1 DEF Goes, MInv, TypeOK
<1>3. /\ \A x \in Players(r) : ~ Plays(x) /\ Patient(x)
      /\ \A x \in Clients :
           /\ InOrder(inbox'[x], Notices)
           /\ Told(x)' = IF x \in Players(r) /\ program[x] # "gone"
                         THEN {"GAME_START"} ELSE Told(x)
           /\ Said(x)' = Said(x) /\ program'[x] = program[x]
  BY Starting
<1>4. \A x : \A q \in Rooms : SeatedIn(x, q)' <=> SeatedIn(x, q)
  BY <1>1, <1>2 DEF SeatedIn, Players, Held, InGame
<1>5. \A x : Waits(x)' <=> Waits(x)
  BY <1>1, <1>4 DEF Waits, queueVars
<1>6. \A x : Plays(x)' <=> Plays(x) \/ x \in Players(r)
  BY <1>2, <1>4 DEF Plays, SeatedIn, Held, InGame
<1>7. LinesOrdered'
  BY <1>1, <1>3 DEF RInv, LinesOrdered
<1>8. AllStand'
  <2> SUFFICES ASSUME NEW x \in Clients PROVE Stands(x)'
    BY DEF AllStand
  <2>1. CASE x \in Players(r)
    <3>1. Playing(x)'
      BY <1>3, <2>1 DEF Patient, Playing, Stage, Left
    <3> QED
      BY <1>6, <2>1, <3>1 DEF Stands
  <2>2. CASE x \notin Players(r)
    <3>1. Stands(x) /\ Told(x)' = Told(x)
      BY <1>3, <2>2 DEF RInv, AllStand
    <3> QED
      BY <1>3, <1>5, <1>6, <2>2, <3>1, SameStand
  <2> QED
    BY <2>1, <2>2
<1>9. Apart' /\ FullRooms'
  BY <1>1, <1>2, <1>4 DEF RInv, Apart, FullRooms, Held, InGame
<1>10. Queued'
  <2>1. ToSet(waiting_queue') = ToSet(waiting_queue)
    BY <1>1 DEF queueVars
  <2> QED
    BY <1>1, <1>4, <2>1 DEF RInv, Queued, queueVars
<1> QED
  BY <1>7, <1>8, <1>9, <1>10 DEF RInv

\* GAME_OVER frees the players for the next match.
LEMMA AnnounceOverKeeps ==
  ASSUME MInv, RInv, NEW r \in Rooms, AnnounceOver(r)
  PROVE  RInv'
<1>1. /\ Goes(r, "playing", "over") /\ SendAll(Players(r), "GAME_OVER")
      /\ UNCHANGED <<queueVars, seats, conn, program, outbox>>
  BY DEF AnnounceOver
<1>2. /\ roomPc[r] = "playing" /\ roomPc'[r] = "over"
      /\ \A q \in Rooms : q # r => roomPc'[q] = roomPc[q]
  BY <1>1 DEF Goes, MInv, TypeOK
<1>3. Players(r) \subseteq Clients
  <2>1. seats[r] \in Seq(Clients)
    BY DEF MInv, TypeOK
  <2> QED
    BY <2>1 DEF Players, ToSet
<1>4. \A x \in Players(r) : SeatedIn(x, r)
  BY <1>2 DEF SeatedIn, InGame
<1>5. \A x \in Players(r) : Plays(x) /\ Playing(x)
  <2>1. \A x \in Players(r) : Plays(x)
    BY <1>2, <1>4 DEF Plays, InGame
  <2> QED
    BY <1>3, <2>1 DEF RInv, AllStand, Stands
<1>6. \A x : \A q \in Rooms :
        SeatedIn(x, q)' <=> SeatedIn(x, q) /\ q # r
  BY <1>1, <1>2 DEF SeatedIn, Players, Held, InGame
<1>7. \A x \in Players(r) : ~ Plays(x)' /\ ~ Waits(x)'
  <2> SUFFICES ASSUME NEW x \in Players(r) PROVE ~ Plays(x)' /\ ~ Waits(x)'
    OBVIOUS
  <2>1. \A q \in Rooms : ~ SeatedIn(x, q)'
    BY <1>3, <1>4, <1>6 DEF RInv, Apart
  <2>2. filling = NoRoom => x \notin ToSet(waiting_queue)
    BY <1>4 DEF RInv, Queued
  <2> QED
    BY <1>1, <2>1, <2>2 DEF Plays, Waits, queueVars
<1>8. \A x \in Clients : x \notin Players(r) =>
        (Plays(x)' <=> Plays(x)) /\ (Waits(x)' <=> Waits(x))
  <2> SUFFICES ASSUME NEW x \in Clients, x \notin Players(r)
               PROVE  (Plays(x)' <=> Plays(x)) /\ (Waits(x)' <=> Waits(x))
    OBVIOUS
  <2>1. \A q \in Rooms : SeatedIn(x, q) => q # r
    BY DEF SeatedIn
  <2> QED
    BY <1>1, <1>2, <1>6, <2>1 DEF Plays, Waits, queueVars
<1>9. \A x \in Clients :
        /\ InOrder(inbox'[x], Notices)
        /\ Told(x)' = IF x \in Players(r) /\ program[x] # "gone"
                      THEN Told(x) \cup {"GAME_OVER"} ELSE Told(x)
  <2>1. \A x \in Clients : x \in Players(r) /\ program[x] # "gone" =>
          Told(x) \subseteq {"GAME_START"}
    BY <1>5 DEF Playing, Stage, Left
  <2>2. "GAME_OVER" \in ServerLines /\ "GAME_OVER" \notin Notices
    BY DEF ServerLines, Notices
  <2>3. Rank("GAME_START") < Rank("GAME_OVER")
    BY DEF Rank
  <2>4. \A x \in Clients : x \in Players(r) /\ program[x] # "gone" =>
          \A l \in Told(x) : Rank(l) < Rank("GAME_OVER")
    BY <2>1, <2>3
  <2>5. {"GAME_OVER"} \ Notices = {"GAME_OVER"}
    BY <2>2
  <2> QED
    BY <1>1, <2>2, <2>4, <2>5, Telling
<1>10. \A x \in Clients : Said(x)' = Said(x) /\ program'[x] = program[x]
  BY <1>1 DEF Said
<1>11. LinesOrdered'
  BY <1>1, <1>9 DEF RInv, LinesOrdered
<1>12. AllStand'
  <2> SUFFICES ASSUME NEW x \in Clients PROVE Stands(x)'
    BY DEF AllStand
  <2>1. CASE x \in Players(r)
    <3>1. Playing(x) /\ program'[x] = program[x] /\ Said(x)' = Said(x)
      BY <1>5, <1>10, <2>1
    <3>2. Told(x)' = IF program[x] # "gone" THEN Told(x) \cup {"GAME_OVER"}
                     ELSE Told(x)
      BY <1>9, <2>1
    <3>3. Elsewhere(x)'
      <4>1. CASE Left(x, {"SESSION_READY"})
        BY <3>1, <3>2, <4>1 DEF Elsewhere, Left
      <4>2. CASE Stage(x, Matching, {"GAME_START"}, {})
        BY <3>1, <3>2, <4>2 DEF Elsewhere, Stage, Matching
      <4>3. CASE \/ Stage(x, {"playing"}, {}, {})
                 \/ Stage(x, {"playing"}, {}, {"SESSION_READY"})
        BY <3>1, <3>2, <4>3 DEF Elsewhere, Stage
      <4> QED
        BY <3>1, <4>1, <4>2, <4>3 DEF Playing
    <3> QED
      BY <1>7, <2>1, <3>3 DEF Stands
  <2>2. CASE x \notin Players(r)
    <3>1. Stands(x) /\ Told(x)' = Told(x)
      BY <1>9, <2>2 DEF RInv, AllStand
    <3> QED
      BY <1>8, <1>10, <2>2, <3>1, SameStand
  <2> QED
    BY <2>1, <2>2
<1>13. Apart'
  BY <1>6 DEF RInv, Apart
<1>14. FullRooms'
  BY <1>1, <1>2 DEF RInv, FullRooms, Held, InGame
<1>15. Queued'
  <2>1. ToSet(waiting_queue') = ToSet(waiting_queue)
    BY <1>1 DEF queueVars
  <2> QED
    BY <1>1, <1>6, <2>1 DEF RInv, Queued, queueVars
<1> QED
  BY <1>11, <1>12, <1>13, <1>14, <1>15 DEF RInv

----------------------------------------------------------------------------
(* The invariant.                                                          *)

\* At first everybody is in the lobby and no room is made.
LEMMA RInit == Init => RInv
<1> SUFFICES ASSUME Init PROVE RInv
  OBVIOUS
<1>1. \A r \in Rooms : roomPc[r] = "unused" /\ seats[r] = <<>>
  BY DEF Init
<1>2. \A c : ~ Plays(c) /\ \A r \in Rooms : ~ SeatedIn(c, r)
  BY <1>1 DEF Plays, SeatedIn, Held, InGame
<1>3. waiting_queue = <<>> /\ ToSet(waiting_queue) = {}
  BY DEF Init, ToSet
<1>4. \A c : ~ Waits(c)
  BY <1>2, <1>3 DEF Waits
<1>5. \A c \in Clients :
        /\ program[c] = "lobby"
        /\ InOrder(inbox[c], Notices) /\ InOrder(outbox[c], Notices)
        /\ Told(c) = {} /\ Said(c) = {}
  BY NoHeed DEF Init, Told, Said
<1>6. LinesOrdered
  BY <1>5 DEF LinesOrdered
<1>7. AllStand
  <2>1. \A c \in Clients : Stage(c, {"lobby"}, {}, {})
    BY <1>5 DEF Stage
  <2>2. {} \in Quits
    BY DEF Quits
  <2>3. \A c \in Clients : Elsewhere(c)
    BY <2>1, <2>2 DEF Elsewhere
  <2> QED
    BY <1>2, <1>4, <2>3 DEF AllStand, Stands
<1>8. Apart /\ FullRooms
  BY <1>1, <1>2 DEF Apart, FullRooms, Held, InGame
<1>9. Queued
  BY <1>3 DEF Queued, IsInjective
<1> QED
  BY <1>6, <1>7, <1>8, <1>9 DEF RInv

\* Every step keeps it, where nobody cancels.
LEMMA RNext ==
  ASSUME NoCancels, MInv, RInv, [Next]_vars
  PROVE  RInv'
<1>1. ASSUME NEW c \in Clients, Client(c) PROVE RInv'
  BY <1>1, ClientStepKeeps
<1>2. ASSUME NEW c \in Clients, Connection(c) PROVE RInv'
  BY <1>2, ConnectionStepKeeps
<1>3. ASSUME NEW r \in Rooms, RoomThread(r) \/ FreeSession(r) PROVE RInv'
  BY <1>3, RoomThreadKeeps, StartGameKeeps
<1>4. ASSUME NEW r \in Rooms, AnnounceOver(r) PROVE RInv'
  BY <1>4, AnnounceOverKeeps
<1>5. CASE UNCHANGED vars
  <2>1. UNCHANGED <<waiting_queue, filling, roomPc, seats, conn, program,
                    inbox, outbox>>
    BY <1>5 DEF vars, queueVars, roomVars
  <2>2. /\ \A c, r : SeatedIn(c, r)' <=> SeatedIn(c, r)
        /\ \A c : Plays(c)' <=> Plays(c)
        /\ \A c : Waits(c)' <=> Waits(c)
        /\ FullRooms' /\ Apart'
    BY <2>1, SameSeats DEF RInv
  <2>3. LinesOrdered'
    BY <2>1 DEF RInv, LinesOrdered
  <2>4. AllStand'
    <3> SUFFICES ASSUME NEW x \in Clients PROVE Stands(x)'
      BY DEF AllStand
    <3>1. /\ Stands(x) /\ program'[x] = program[x]
          /\ Told(x)' = Told(x) /\ Said(x)' = Said(x)
      BY <2>1 DEF RInv, AllStand, Told, Said
    <3> QED
      BY <2>2, <3>1, SameStand
  <2>5. Queued'
    <3>1. ToSet(waiting_queue') = ToSet(waiting_queue)
      BY <2>1
    <3> QED
      BY <2>1, <2>2, <3>1 DEF RInv, Queued
  <2> QED
    BY <2>2, <2>3, <2>4, <2>5 DEF RInv
<1> QED
  BY <1>1, <1>2, <1>3, <1>4, <1>5 DEF Next

\* Where nobody cancels a player sits in one room at a time, the rooms are
\* full of different players, and every client's screen fits its seat and the
\* lines that are under way, whoever leaves and whatever fails, with any
\* number of rooms that are made and played side by side
\* (room_manager.c:86-130, 199-260, 332-345, 575-586).
THEOREM RoomsInvariance ==
  ASSUME NoCancels
  PROVE  Spec => [](MInv /\ RInv)
<1>1. Init => MInv /\ RInv
  BY MInit, RInit
<1>2. MInv /\ RInv /\ [Next]_vars => (MInv /\ RInv)'
  BY MNext, RNext
<1> QED
  BY <1>1, <1>2, PTL DEF Spec

\* The queue holds no client twice and none whose thread is gone whenever
\* queue_mutex is free (room_manager.c:30-74, 80-100).  While it is held to
\* send QUEUE_FULL, of clients already seated, their game may run and end.
THEOREM FreeQueueOfLiveClients ==
  ASSUME NoCancels
  PROVE  Spec => [](filling = NoRoom => QueueOfLiveClients)
<1>1. RInv => (filling = NoRoom => QueueOfLiveClients)
  BY DEF RInv, Queued, QueueOfLiveClients
<1> QED
  BY <1>1, RoomsInvariance, PTL

----------------------------------------------------------------------------
(* A session that is not found.                                            *)

\* A line that is appended shows which one it is.
LEMMA Appended ==
  ASSUME NEW T, NEW s \in Seq(T), NEW line \in T
  PROVE  /\ Append(s, line) # s /\ Append(s, line) # <<>>
         /\ s # <<>> => Append(s, line) # Tail(s)
         /\ \A n \in 0 .. Len(s) : Append(s, line) # SubSeq(s, n + 1, Len(s))
         /\ \A l \in T : Append(s, l) = Append(s, line) => l = line
<1>1. Len(s) \in Nat /\ Len(Append(s, line)) = Len(s) + 1 /\ Len(<<>>) = 0
  OBVIOUS
<1>2. s # <<>> => Len(Tail(s)) = Len(s) - 1
  BY HeadTailProperties
<1>3. \A n \in 0 .. Len(s) : Len(SubSeq(s, n + 1, Len(s))) = Len(s) - n
  BY <1>1
<1>4. \A l \in T : Append(s, l) = Append(s, line) => l = line
  BY AppendInjective
<1>5. Append(s, line) # s /\ Append(s, line) # <<>>
  BY <1>1
<1>6. s # <<>> => Append(s, line) # Tail(s)
  BY <1>1, <1>2
<1>7. \A n \in 0 .. Len(s) : Append(s, line) # SubSeq(s, n + 1, Len(s))
  BY <1>1, <1>3
<1> QED
  BY <1>4, <1>5, <1>6, <1>7

\* SESSION_NOT_FOUND answers a SESSION_READY, and nothing else does.
LEMMA NotFoundSent ==
  ASSUME MInv, [Next]_vars, NEW c \in Clients, Gets(c, "SESSION_NOT_FOUND")
  PROVE  RefuseSession(c)
<1> DEFINE new == Append(inbox[c], "SESSION_NOT_FOUND")
<1>1. inbox[c] \in Seq(ServerLines) /\ inbox \in [Clients -> Seq(ServerLines)]
  BY DEF MInv, TypeOK
<1>2. inbox'[c] = new
  BY DEF Gets
<1>3. /\ new # inbox[c] /\ new # <<>>
      /\ inbox[c] # <<>> => new # Tail(inbox[c])
      /\ \A n \in 0 .. Len(inbox[c]) : new # SubSeq(inbox[c], n + 1, Len(inbox[c]))
      /\ \A l \in ServerLines : Append(inbox[c], l) = new
                                  => l = "SESSION_NOT_FOUND"
  <2>1. "SESSION_NOT_FOUND" \in ServerLines
    BY DEF ServerLines
  <2> QED
    BY <1>1, <2>1, Appended
<1> HIDE DEF new
<1>4. ~ UNCHANGED inbox
  BY <1>2, <1>3
<1>5. \A S, l : l \in ServerLines /\ l # "SESSION_NOT_FOUND" => ~ SendAll(S, l)
  BY <1>1, <1>2, <1>3 DEF SendAll
<1>6. \A x, l : x \in Clients /\ l \in ServerLines /\ SendTo(x, l)
                  => x = c /\ l = "SESSION_NOT_FOUND"
  BY <1>1, <1>2, <1>3 DEF SendTo, Deliver
<1>7. \A l \in {"QUEUE_FULL", "GAME_INIT", "GAME_START", "GAME_FAILED",
                "GAME_OVER", "CANCEL_OK", "SESSION_ACK", "SESSION_NOT_FOUND"} :
        l \in ServerLines
  BY DEF ServerLines
<1>8. Next
  BY <1>4 DEF vars
<1>9. ASSUME NEW x \in Clients, Client(x) PROVE FALSE
  <2>1. CASE PressMatch(x) \/ PressCancel(x)
    BY <1>4, <2>1 DEF PressMatch, PressCancel
  <2>2. CASE ReadWaiting(x) \/ ReadPlaying(x)
    <3>1. inbox[x] # <<>> /\ inbox' = [inbox EXCEPT ![x] = Tail(@)]
      BY <2>2 DEF ReadWaiting, ReadPlaying
    <3> QED
      BY <1>1, <1>2, <1>3, <3>1
  <2>3. CASE ReadCancelAnswer(x)
    <3>1. PICK n \in 0 .. Len(inbox[x]) :
            inbox' = [inbox EXCEPT ![x] = SubSeq(@, n + 1, Len(@))]
      BY <2>3 DEF ReadCancelAnswer
    <3> QED
      BY <1>1, <1>2, <1>3, <3>1
  <2>4. CASE Disconnect(x)
    BY <1>1, <1>2, <1>3, <2>4 DEF Disconnect
  <2> QED
    BY <1>9, <2>1, <2>2, <2>3, <2>4 DEF Client
<1>10. ASSUME NEW x \in Clients, Connection(x)
       PROVE  RefuseSession(c)
  <2>1. CASE RefuseSession(x)
    BY <1>6, <1>7, <2>1 DEF RefuseSession
  <2>2. ~ AnnounceFull(x) /\ ~ AckSession(x) /\ ~ CancelMatch(x)
    BY <1>5, <1>6, <1>7 DEF AnnounceFull, AckSession, CancelMatch
  <2> QED
    BY <1>4, <1>10, <2>1, <2>2 DEF Connection, Enqueue, FillRoom, CountReady,
                                   BindSession, QuitGame, LoseClient
<1>11. ASSUME NEW r \in Rooms, RoomThread(r) \/ AnnounceOver(r) \/ FreeSession(r)
       PROVE  FALSE
  <2>1. ~ PassPhase1(r) /\ ~ FailCards(r) /\ ~ StartGame(r) /\ ~ AnnounceOver(r)
    BY <1>5, <1>7 DEF PassPhase1, FailCards, StartGame, AnnounceOver
  <2> QED
    BY <1>4, <1>11, <2>1 DEF RoomThread, PassPhase2, Register, FailRegister,
                             ResetReady, FreeSession
<1> QED
  BY <1>8, <1>9, <1>10, <1>11 DEF Next

\* GAME_START is sent when the session can be found, so that a client whose
\* SESSION_READY is refused has come after the end of its game, whichever
\* rooms it has sat in before (room_manager.c:332-345, 575-586, 672-690).
THEOREM NotFoundOnlyAfterEndCorrect ==
  ASSUME NoCancels
  PROVE  Spec => NotFoundOnlyAfterEnd
<1>1. MInv /\ RInv /\ [Next]_vars =>
        [\A c \in Clients :
           Gets(c, "SESSION_NOT_FOUND")
             => \A r \in Rooms : c \in Players(r) => roomPc[r] = "ended"]_vars
  <2> SUFFICES ASSUME MInv, RInv, [Next]_vars, NEW c \in Clients,
                      Gets(c, "SESSION_NOT_FOUND"),
                      NEW r \in Rooms, c \in Players(r)
               PROVE  roomPc[r] = "ended"
    OBVIOUS
  <2>1. Hears(c, "loop", "SESSION_READY") /\ FindSession(c) = NoRoom
    BY NotFoundSent DEF RefuseSession
  <2>2. roomPc[r] \notin {"registered", "started", "playing", "over"}
    BY <2>1, FoundInRegistry DEF Announced
  <2>3. "SESSION_READY" \in Said(c)
    BY <2>1, Hearing DEF Notices
  <2>4. ~ Plays(c)
    BY <2>1, FoundInRegistry DEF Plays, SeatedIn, InGame, Announced
  <2>5. ~ Waits(c)
    BY <2>3, <2>4, BySaid
  <2>6. roomPc[r] \notin Held
    BY <2>5 DEF Waits, SeatedIn
  <2>7. roomPc[r] # "unused"
    <3>1. CASE roomPc[r] = "unused"
      <4>1. seats[r] = <<>>
        BY <3>1 DEF RInv, FullRooms
      <4> QED
        BY <4>1 DEF Players, ToSet
    <3> QED
      BY <3>1
  <2>8. roomPc[r] \in RoomStates
    BY DEF MInv, TypeOK
  <2> QED
    BY <2>2, <2>6, <2>7, <2>8 DEF RoomStates, Held
<1> QED
  BY <1>1, RoomsInvariance, PTL DEF Spec, NotFoundOnlyAfterEnd

----------------------------------------------------------------------------
(* Refinement of RandomMatch.                                              *)

\* Only GAME_START, on its way to a client that waits, tells its place.
LEMMA PlaceByNews ==
  ASSUME NEW c
  PROVE  /\ PlaceOf(c) =
              IF program[c] \in {"waiting", "summoned"}
              THEN IF "GAME_START" \in Told(c) THEN "game" ELSE "waiting"
              ELSE IF program[c] = "playing" THEN "game" ELSE program[c]
         /\ PlaceOf(c)' =
              IF program'[c] \in {"waiting", "summoned"}
              THEN IF "GAME_START" \in Told(c)' THEN "game" ELSE "waiting"
              ELSE IF program'[c] = "playing" THEN "game" ELSE program'[c]
<1>1. "GAME_START" \notin Notices
  BY DEF Notices
<1>2. /\ Contains(inbox[c], "GAME_START") <=> "GAME_START" \in Told(c)
      /\ Contains(inbox'[c], "GAME_START") <=> "GAME_START" \in Told(c)'
  BY <1>1, ContainsHeeded DEF Told
<1> QED
  BY <1>2 DEF PlaceOf

\* Nobody has moved.
LEMMA PlacesStay ==
  ASSUME \A x \in Clients : PlaceOf(x)' = PlaceOf(x)
  PROVE  [Match!MatchNext]_Places
BY DEF Places

\* One player has moved.
LEMMA OneMoves ==
  ASSUME NEW c \in Clients,
         \A x \in Clients : x # c => PlaceOf(x)' = PlaceOf(x)
  PROVE  Match!Moves(c, PlaceOf(c), PlaceOf(c)')
BY DEF Match!Moves, Places

\* What the program of one client does moves no other.
LEMMA OthersStay ==
  ASSUME NEW c \in Clients, NEW x \in Clients, x # c, MInv, Client(c)
  PROVE  PlaceOf(x)' = PlaceOf(x)
<1>1. inbox \in [Clients -> Seq(ServerLines)] /\ DOMAIN program = Clients
  BY DEF MInv, TypeOK
<1>2. program'[x] = program[x] /\ inbox'[x] = inbox[x]
  BY <1>1 DEF Client, PressMatch, ReadWaiting, PressCancel, ReadCancelAnswer,
              ReadPlaying, Disconnect, Show
<1> QED
  BY <1>2 DEF PlaceOf

\* A click asks, GAME_OVER returns, and the end of the program leaves.
LEMMA ClientMoves ==
  ASSUME NoCancels, MInv, RInv, NEW c \in Clients, Client(c)
  PROVE  [Match!MatchNext]_Places
<1>1. Match!Moves(c, PlaceOf(c), PlaceOf(c)')
  BY OthersStay, OneMoves
<1>2. PlaceOf(c)' = PlaceOf(c) => [Match!MatchNext]_Places
  BY OthersStay, PlacesStay
<1>3. \A screen : Show(c, screen) => program'[c] = screen
  BY DEF Show, MInv, TypeOK
<1>4. CASE PressMatch(c)
  <2>1. program[c] = "lobby" /\ program'[c] = "waiting" /\ Told(c)' = Told(c)
    BY <1>3, <1>4 DEF PressMatch, Told
  <2>2. PlaceOf(c) = "lobby" /\ PlaceOf(c)' = "waiting"
    BY <2>1, OnScreen, PlaceByNews
  <2> QED
    BY <1>1, <2>2 DEF Match!MatchNext, Match!Ask
<1>5. CASE ReadWaiting(c)
  <2> DEFINE line == Head(inbox[c])
  <2>1. program[c] \in {"waiting", "summoned"}
        /\ inbox[c] # <<>> /\ inbox' = [inbox EXCEPT ![c] = Tail(@)]
    BY <1>5 DEF ReadWaiting
  <2>2. Told(c)' = Told(c) \ {line} /\ (line \in Told(c) \/ line \in Notices)
    BY <2>1, Reading
  <2>3. /\ line = "GAME_START" => program'[c] = "playing"
        /\ line # "GAME_START" => program'[c] \in {"waiting", "summoned"}
    BY <1>3, <1>5, <2>1 DEF ReadWaiting
  <2> HIDE DEF line
  <2>4. PlaceOf(c)' = PlaceOf(c)
    BY <2>1, <2>2, <2>3, PlaceByNews DEF Notices
  <2> QED
    BY <1>2, <2>4
<1>6. CASE PressCancel(c) \/ ReadCancelAnswer(c)
  BY <1>6, OnScreen DEF PressCancel, ReadCancelAnswer, NoCancels
<1>7. CASE ReadPlaying(c)
  <2>1. PlaceOf(c) = "game" /\ program'[c] \in {"lobby", "playing"}
    BY <1>3, <1>7 DEF ReadPlaying, PlaceOf
  <2>2. PlaceOf(c)' \in {"lobby", "game"}
    BY <2>1, PlaceByNews
  <2> QED
    BY <1>1, <1>2, <2>1, <2>2 DEF Match!MatchNext, Match!Return
<1>8. CASE Disconnect(c)
  <2>1. program'[c] = "gone" /\ program[c] # "gone" /\ program[c] # "cancelling"
    BY <1>3, <1>8, OnScreen DEF Disconnect
  <2>2. program[c] \in {"lobby", "waiting", "summoned", "playing"}
    BY <2>1 DEF MInv, TypeOK
  <2>3. PlaceOf(c)' = "gone" /\ PlaceOf(c) \in {"lobby", "waiting", "game"}
    BY <2>1, <2>2, PlaceByNews
  <2> QED
    BY <1>1, <2>3 DEF Match!MatchNext, Match!Leave
<1> QED
  BY <1>4, <1>5, <1>6, <1>7, <1>8 DEF Client

\* What the server sends moves nobody, but for GAME_START.
LEMMA SendingStays ==
  ASSUME MInv, UNCHANGED program, NEW line \in ServerLines, line # "GAME_START",
         \/ \E S : SendAll(S, line)
         \/ \E c \in Clients : SendTo(c, line)
  PROVE  [Match!MatchNext]_Places
<1> SUFFICES ASSUME NEW x \in Clients PROVE PlaceOf(x)' = PlaceOf(x)
  BY PlacesStay
<1>1. inbox \in [Clients -> Seq(ServerLines)] /\ inbox[x] \in Seq(ServerLines)
  BY DEF MInv, TypeOK
<1>2. inbox'[x] = inbox[x] \/ inbox'[x] = Append(inbox[x], line)
  BY <1>1 DEF SendAll, SendTo, Deliver
<1>3. Contains(Append(inbox[x], line), "GAME_START")
        <=> Contains(inbox[x], "GAME_START")
  <2> DEFINE s == inbox[x]
             new == Append(s, line)
  <2>1. /\ Len(s) \in Nat /\ Len(new) = Len(s) + 1 /\ new[Len(s) + 1] = line
        /\ \A i \in 1 .. Len(s) : new[i] = s[i]
    BY <1>1
  <2> HIDE DEF new, s
  <2> QED
    BY <2>1 DEF Contains, new, s
<1> QED
  BY <1>2, <1>3 DEF PlaceOf

\* Where the program and what is sent to it are left alone nobody moves.
LEMMA SilenceStays ==
  ASSUME UNCHANGED <<program, inbox>>
  PROVE  [Match!MatchNext]_Places
<1>1. \A x \in Clients : PlaceOf(x)' = PlaceOf(x)
  BY DEF PlaceOf
<1> QED
  BY <1>1, PlacesStay

\* GAME_START takes the players of a room from waiting to the game at once.
LEMMA StartMoves ==
  ASSUME MInv, RInv, NEW r \in Rooms, StartGame(r)
  PROVE  Players(r) \in SUBSET Clients /\ Match!Start(Players(r))
<1> DEFINE room == Players(r)
<1>1. UNCHANGED program
  BY DEF StartGame
<1>2. /\ room \subseteq Clients /\ Cardinality(room) = RoomSize
      /\ \A x \in room : Patient(x)
      /\ \A x \in Clients :
           Told(x)' = IF x \in room /\ program[x] # "gone"
                      THEN {"GAME_START"} ELSE Told(x)
  BY Starting
<1> HIDE DEF room
<1>3. \A x \in room : PlaceOf(x) \in {"waiting", "gone"}
  BY <1>2, PlaceByNews DEF Patient, Stage, Left, Matching
<1>4. \A x \in room : /\ PlaceOf(x) = "waiting" => PlaceOf(x)' = "game"
                      /\ PlaceOf(x) = "gone" => PlaceOf(x)' = "gone"
  <2> SUFFICES ASSUME NEW x \in room
               PROVE  /\ PlaceOf(x) = "waiting" => PlaceOf(x)' = "game"
                      /\ PlaceOf(x) = "gone" => PlaceOf(x)' = "gone"
    OBVIOUS
  <2>1. /\ program'[x] = program[x] /\ x \in Clients
        /\ program[x] \in Matching \cup {"gone"}
    BY <1>1, <1>2 DEF Patient, Stage, Left
  <2>2. Told(x)' = IF program[x] # "gone" THEN {"GAME_START"} ELSE Told(x)
    BY <1>2, <2>1
  <2> QED
    BY <2>1, <2>2, PlaceByNews DEF Matching
<1>5. \A x \in Clients \ room : PlaceOf(x)' = PlaceOf(x)
  BY <1>1, <1>2, PlaceByNews
<1>6. Places' = [x \in Clients |-> IF x \in room /\ Places[x] = "waiting"
                                  THEN "game" ELSE Places[x]]
  BY <1>3, <1>4, <1>5 DEF Places
<1>7. Match!Cardinality(room) = Cardinality(room)
  BY DEF Match!Cardinality, Cardinality
<1>8. \A x \in room : Places[x] \in {"waiting", "gone"}
  BY <1>2, <1>3 DEF Places
<1> QED
  BY <1>2, <1>6, <1>7, <1>8 DEF Match!Start, room

\* Every step is one of the players' moves, the start of a game, or none.
LEMMA StepImplementsMatch ==
  ASSUME NoCancels, MInv, RInv, [Next]_vars
  PROVE  [Match!MatchNext]_Places
<1>0. \A l \in {"QUEUE_FULL", "GAME_INIT", "GAME_FAILED", "GAME_OVER",
                "CANCEL_OK", "SESSION_ACK", "SESSION_NOT_FOUND"} :
        l \in ServerLines /\ l # "GAME_START"
  BY DEF ServerLines
<1>1. ASSUME NEW c \in Clients, Connection(c)
      PROVE  [Match!MatchNext]_Places
  <2>1. CASE AckSession(c) \/ RefuseSession(c)
    BY <1>0, <2>1, SendingStays DEF AckSession, RefuseSession
  <2>2. CASE AnnounceFull(c) \/ CancelMatch(c)
    BY <1>0, <2>2, SendingStays DEF AnnounceFull, CancelMatch
  <2> QED
    BY <1>1, <2>1, <2>2, SilenceStays
       DEF Connection, Enqueue, FillRoom, CountReady, BindSession, QuitGame,
           LoseClient
<1>2. ASSUME NEW r \in Rooms, RoomThread(r) \/ AnnounceOver(r) \/ FreeSession(r)
      PROVE  [Match!MatchNext]_Places
  <2>1. CASE StartGame(r)
    <3>1. Players(r) \in SUBSET Clients /\ Match!Start(Players(r))
      BY <2>1, StartMoves
    <3> QED
      BY <3>1 DEF Match!MatchNext
  <2>2. CASE PassPhase1(r) \/ FailCards(r) \/ AnnounceOver(r)
    BY <1>0, <2>2, SendingStays DEF PassPhase1, FailCards, AnnounceOver
  <2> QED
    BY <1>2, <2>1, <2>2, SilenceStays
       DEF RoomThread, PassPhase2, Register, FailRegister, ResetReady, FreeSession
<1>3. CASE UNCHANGED vars
  BY <1>3, SilenceStays DEF vars
<1> QED
  BY <1>1, <1>2, <1>3, ClientMoves DEF Next

\* Queue, rooms, registry and the lines that cross, taken together, are a
\* random match as RandomMatch has it: a game starts at one moment for
\* RoomSize different players, all of whom have asked and none of whom is
\* elsewhere, whatever other rooms are made and played meanwhile.
THEOREM RoomsImplementMatch ==
  ASSUME NoCancels
  PROVE  Spec => ImplementsMatch
<1>1. Init => Match!MatchInit
  BY DEF Init, PlaceOf, Places, Match!MatchInit
<1>2. MInv /\ RInv /\ [Next]_vars => [Match!MatchNext]_Places
  BY StepImplementsMatch
<1> QED
  BY <1>1, <1>2, RoomsInvariance, PTL
  DEF Spec, ImplementsMatch, Match!MatchSpec
=============================================================================
