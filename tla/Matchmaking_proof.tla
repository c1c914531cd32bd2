-------------------------- MODULE Matchmaking_proof --------------------------
(***************************************************************************)
(* Theorems about Matchmaking, for any clients, rooms, sizes of a room and *)
(* slots of the registry: its type invariant, the waiting queue, the       *)
(* registry, and that the two ends of a connection stay in step.           *)
(***************************************************************************)
EXTENDS Matchmaking, SequenceTheorems, FiniteSetTheorems, WellFoundedInduction,
        TLAPS

\* The loops in which a line is understood, and the loop it leads to.
Needs(line) ==
  IF line = "QUERY_WAIT" THEN {"lobby"}
  ELSE IF line = "EOF" THEN {"lobby", "loop"} ELSE {"loop"}

Leads(line) ==
  IF line \in {"MATCHING_CANCEL", "GAME_QUIT"} THEN "lobby"
  ELSE IF line = "EOF" THEN "closed" ELSE "loop"

\* The loop that the client's program counts on, once everything it has said
\* is read.
LoopOf(screen) ==
  IF screen \in {"lobby", "cancelling"} THEN "lobby"
  ELSE IF screen = "gone" THEN "closed" ELSE "loop"

Loop(state) == IF state = "filling" THEN "loop" ELSE state

\* The lines out take the connection thread from its loop to the one that
\* the program counts on, each of them in a loop that understands it.
InStep(screen, loop, out) ==
  /\ out = <<>> => LoopOf(screen) = loop
  /\ out # <<>> => loop \in Needs(out[1])
                   /\ LoopOf(screen) = Leads(out[Len(out)])
  /\ \A k \in 1 .. Len(out) - 1 : Leads(out[k]) \in Needs(out[k + 1])

AllInStep == \A c \in Clients : InStep(program[c], Loop(conn[c]), outbox[c])

MInv == TypeOK /\ QueueHasPlace /\ RegistryExact /\ AllInStep

----------------------------------------------------------------------------
(* Sequences and least elements.                                           *)

\* A set of numbers that is not empty has a least one.
LEMMA LeastOf ==
  ASSUME NEW S, S \subseteq Nat, S # {}
  PROVE  \E m \in S : \A k \in S : m <= k
<1> DEFINE R == OpToRel(<, Nat)
<1>1. IsWellFoundedOn(R, Nat)
  BY NatLessThanWellFounded
<1>2. \A x, y \in Nat : <<x, y>> \in R <=> x < y
  BY DEF OpToRel
<1> HIDE DEF R
<1>3. PICK m \in S : \A k \in S : ~ (<<k, m>> \in R)
  BY <1>1, WFMin
<1>4. \A k \in S : k \in Nat /\ m \in Nat /\ ~ (k < m)
  BY <1>2, <1>3
<1>5. \A k \in S : m <= k
  BY <1>4
<1> QED
  BY <1>5

\* cancel_waiting takes out one entry at most, and leaves a queue of clients.
LEMMA RemoveFirstShortens ==
  ASSUME NEW T, NEW s \in Seq(T), NEW e
  PROVE  RemoveFirst(s, e) \in Seq(T) /\ Len(RemoveFirst(s, e)) <= Len(s)
<1>1. CASE ~ \E i \in 1 .. Len(s) : s[i] = e
  BY <1>1 DEF RemoveFirst
<1>2. CASE \E i \in 1 .. Len(s) : s[i] = e
  <2> DEFINE I == {i \in 1 .. Len(s) : s[i] = e}
             n == Min(I)
  <2>1. I \subseteq Nat /\ I # {}
    BY <1>2
  <2>2. \E m \in I : \A k \in I : m =< k
    BY <2>1, LeastOf
  <2>3. n \in I
    BY <2>2 DEF Min
  <2>4. RemoveFirst(s, e) = SubSeq(s, 1, n - 1) \o SubSeq(s, n + 1, Len(s))
    BY <1>2, <2>3 DEF RemoveFirst, RemoveAt, SelectInSeq
  <2>5. n \in 1 .. Len(s)
    BY <2>3
  <2> HIDE DEF n
  <2> DEFINE a == SubSeq(s, 1, n - 1)
             b == SubSeq(s, n + 1, Len(s))
  <2>6. /\ a \in Seq(T) /\ Len(a) = n - 1
        /\ b \in Seq(T) /\ Len(b) = Len(s) - n
    BY <2>5
  <2> HIDE DEF a, b
  <2>7. a \o b \in Seq(T) /\ Len(a \o b) = Len(a) + Len(b)
    BY <2>6, ConcatProperties
  <2>8. Len(a \o b) <= Len(s)
    BY <2>5, <2>6, <2>7
  <2> QED
    BY <2>4, <2>7, <2>8 DEF a, b
<1> QED
  BY <1>1, <1>2

\* Whoever is taken out of the queue was there once.
LEMMA RemoveFirstInjective ==
  ASSUME NEW T, NEW s \in Seq(T), IsInjective(s), NEW e
  PROVE  /\ IsInjective(RemoveFirst(s, e))
         /\ ToSet(RemoveFirst(s, e)) \subseteq ToSet(s) \ {e}
<1>1. CASE ~ \E i \in 1 .. Len(s) : s[i] = e
  <2>1. RemoveFirst(s, e) = s
    BY <1>1 DEF RemoveFirst
  <2> QED
    BY <1>1, <2>1 DEF ToSet
<1>2. CASE \E i \in 1 .. Len(s) : s[i] = e
  <2> DEFINE I == {i \in 1 .. Len(s) : s[i] = e}
             n == Min(I)
  <2>1. I \subseteq Nat /\ I # {}
    BY <1>2
  <2>2. \E m \in I : \A k \in I : m =< k
    BY <2>1, LeastOf
  <2>3. n \in I
    BY <2>2 DEF Min
  <2>4. RemoveFirst(s, e) = SubSeq(s, 1, n - 1) \o SubSeq(s, n + 1, Len(s))
    BY <1>2, <2>3 DEF RemoveFirst, RemoveAt, SelectInSeq
  <2>5. n \in 1 .. Len(s) /\ s[n] = e /\ Len(s) \in Nat
    BY <2>3
  <2> HIDE DEF n
  <2> DEFINE a == SubSeq(s, 1, n - 1)
             b == SubSeq(s, n + 1, Len(s))
             new == a \o b
  <2>6. /\ a \in Seq(T) /\ Len(a) = n - 1
        /\ b \in Seq(T) /\ Len(b) = Len(s) - n
        /\ \A i \in 1 .. n - 1 : a[i] = s[i]
        /\ \A i \in 1 .. Len(s) - n : b[i] = s[i + n]
    BY <2>5
  <2> HIDE DEF a, b
  <2>7. /\ DOMAIN new = 1 .. Len(s) - 1
        /\ \A i \in 1 .. Len(s) - 1 : new[i] = IF i < n THEN s[i] ELSE s[i + 1]
    <3>1. /\ Len(new) = Len(s) - 1 /\ new \in Seq(T)
          /\ \A i \in 1 .. Len(a) : new[i] = a[i]
          /\ \A i \in Len(a) + 1 .. Len(a) + Len(b) : new[i] = b[i - Len(a)]
      <4>1. /\ new \in Seq(T) /\ Len(new) = Len(a) + Len(b)
            /\ \A i \in 1 .. Len(a) + Len(b) :
                 new[i] = IF i <= Len(a) THEN a[i] ELSE b[i - Len(a)]
        BY <2>6, ConcatProperties
      <4>2. Len(a) \in Nat /\ Len(b) \in Nat /\ Len(a) + Len(b) = Len(s) - 1
        BY <2>5, <2>6
      <4> HIDE DEF new
      <4> QED
        BY <4>1, <4>2
    <3>2. ASSUME NEW i \in 1 .. Len(s) - 1, i < n PROVE new[i] = s[i]
      BY <2>5, <2>6, <3>1, <3>2
    <3>3. ASSUME NEW i \in 1 .. Len(s) - 1, ~ (i < n) PROVE new[i] = s[i + 1]
      <4>1. i \in Len(a) + 1 .. Len(a) + Len(b) /\ i - Len(a) \in 1 .. Len(s) - n
        BY <2>5, <2>6, <3>3
      <4>2. new[i] = s[(i - Len(a)) + n] /\ (i - Len(a)) + n = i + 1
        BY <2>5, <2>6, <3>1, <4>1
      <4> QED
        BY <4>2
    <3> QED
      BY <3>1, <3>2, <3>3
  <2> HIDE DEF new
  <2>8. \A i, j \in 1 .. Len(s) : s[i] = s[j] => i = j
    BY DEF IsInjective
  <2>9. IsInjective(new)
    <3> SUFFICES ASSUME NEW i \in 1 .. Len(s) - 1, NEW j \in 1 .. Len(s) - 1,
                        new[i] = new[j]
                 PROVE  i = j
      BY <2>7 DEF IsInjective
    <3>1. /\ i \in 1 .. Len(s) /\ i + 1 \in 1 .. Len(s)
          /\ j \in 1 .. Len(s) /\ j + 1 \in 1 .. Len(s)
      BY <2>5
    <3> QED
      BY <2>5, <2>7, <2>8, <3>1
  <2>10. ToSet(new) \subseteq ToSet(s) \ {e}
    <3> SUFFICES ASSUME NEW i \in 1 .. Len(s) - 1
                 PROVE  new[i] \in ToSet(s) \ {e}
      BY <2>7 DEF ToSet
    <3>1. i \in 1 .. Len(s) /\ i + 1 \in 1 .. Len(s)
      BY <2>5
    <3>2. i < n => i # n /\ s[i] # s[n]
      BY <2>5, <2>8, <3>1
    <3>3. ~ (i < n) => i + 1 # n /\ s[i + 1] # s[n]
      BY <2>5, <2>8, <3>1
    <3> QED
      BY <2>5, <2>7, <3>1, <3>2, <3>3 DEF ToSet
  <2> QED
    BY <2>4, <2>9, <2>10 DEF new, a, b
<1> QED
  BY <1>1, <1>2

\* Whoever joins the queue is in it.
LEMMA JoinQueue ==
  ASSUME NEW T, NEW s \in Seq(T), IsInjective(s), NEW e \in T, e \notin ToSet(s)
  PROVE  /\ IsInjective(Append(s, e))
         /\ ToSet(Append(s, e)) = ToSet(s) \cup {e}
<1> DEFINE new == Append(s, e)
<1>1. /\ Len(s) \in Nat /\ DOMAIN s = 1 .. Len(s)
      /\ DOMAIN new = 1 .. Len(s) + 1 /\ new[Len(s) + 1] = e
      /\ \A i \in 1 .. Len(s) : new[i] = s[i]
  OBVIOUS
<1> HIDE DEF new
<1>2. ToSet(new) = ToSet(s) \cup {e}
  <2>1. ToSet(new) \subseteq ToSet(s) \cup {e}
    BY <1>1 DEF ToSet
  <2>2. ToSet(s) \subseteq ToSet(new) /\ e \in ToSet(new)
    BY <1>1 DEF ToSet
  <2> QED
    BY <2>1, <2>2
<1>3. \A i, j \in 1 .. Len(s) : s[i] = s[j] => i = j
  BY <1>1 DEF IsInjective
<1>4. \A i \in 1 .. Len(s) : s[i] # e
  BY <1>1 DEF ToSet
<1>5. IsInjective(new)
  <2>1. \A i, j \in 1 .. Len(s) + 1 : new[i] = new[j] => i = j
    BY <1>1, <1>3, <1>4
  <2> QED
    BY <1>1, <2>1 DEF IsInjective
<1>6. IsInjective(new) /\ ToSet(new) = ToSet(s) \cup {e}
  BY <1>2, <1>5
<1> QED
  BY <1>6 DEF new

\* A party has as many players as seats, for nobody has two.
LEMMA PartySize ==
  ASSUME NEW T, NEW s \in Seq(T), IsInjective(s)
  PROVE  IsFiniteSet(ToSet(s)) /\ Cardinality(ToSet(s)) = Len(s)
<1>1. Len(s) \in Nat /\ DOMAIN s = 1 .. Len(s)
  OBVIOUS
<1>2. IsFiniteSet(1 .. Len(s)) /\ Cardinality(1 .. Len(s)) = Len(s)
  BY <1>1, FS_Interval
<1>3. s \in [1 .. Len(s) -> ToSet(s)]
  BY <1>1 DEF ToSet
<1>4. s \in Bijection(1 .. Len(s), ToSet(s))
  BY <1>1, <1>3 DEF ToSet, Bijection, Injection, Surjection
<1>5. ExistsBijection(1 .. Len(s), ToSet(s))
  BY <1>4 DEF ExistsBijection
<1> QED
  BY <1>2, <1>5, FS_Bijection

\* A line that is said keeps the two ends in step, if it is understood in the
\* loop the program counts on, and leads to the one it counts on then.
LEMMA SayKeepsStep ==
  ASSUME NEW p, NEW q, NEW l, NEW out \in Seq(ClientLines),
         NEW line \in ClientLines,
         InStep(p, l, out), LoopOf(p) \in Needs(line), LoopOf(q) = Leads(line)
  PROVE  InStep(q, l, Append(out, line))
<1> DEFINE new == Append(out, line)
<1>1. /\ Len(new) = Len(out) + 1 /\ new # <<>> /\ Len(out) \in Nat
      /\ new[Len(new)] = line
      /\ \A k \in 1 .. Len(out) : new[k] = out[k]
      /\ out = <<>> <=> Len(out) = 0
  OBVIOUS
<1> HIDE DEF new
<1>2. l \in Needs(new[1])
  BY <1>1 DEF InStep
<1>3. ASSUME NEW k \in 1 .. Len(new) - 1
      PROVE  Leads(new[k]) \in Needs(new[k + 1])
  <2>1. CASE k = Len(out)
    BY <1>1, <2>1 DEF InStep
  <2>2. CASE k # Len(out)
    BY <1>1, <2>2 DEF InStep
  <2> QED
    BY <2>1, <2>2
<1>4. InStep(q, l, new)
  BY <1>1, <1>2, <1>3 DEF InStep
<1> QED
  BY <1>4 DEF new

\* So does one that is heard, and goes to the loop it leads to.
LEMMA HearKeepsStep ==
  ASSUME NEW p, NEW l, NEW out \in Seq(ClientLines), out # <<>>,
         InStep(p, l, out)
  PROVE  InStep(p, Leads(Head(out)), Tail(out)) /\ l \in Needs(Head(out))
<1> DEFINE new == Tail(out)
<1>1. /\ Len(out) \in Nat /\ Len(out) > 0 /\ Head(out) = out[1]
      /\ new \in Seq(ClientLines) /\ Len(new) = Len(out) - 1
      /\ \A k \in 1 .. Len(new) : new[k] = out[k + 1]
  BY HeadTailProperties, EmptySeq
<1> HIDE DEF new
<1>1a. /\ new = <<>> => Len(out) = 1
       /\ new # <<>> => Len(new) > 0
  BY <1>1, EmptySeq
<1>2. new = <<>> => LoopOf(p) = Leads(out[1])
  BY <1>1, <1>1a DEF InStep
<1>3. new # <<>> => /\ Leads(out[1]) \in Needs(new[1])
                    /\ LoopOf(p) = Leads(new[Len(new)])
  BY <1>1, <1>1a DEF InStep
<1>4. \A k \in 1 .. Len(new) - 1 : Leads(new[k]) \in Needs(new[k + 1])
  BY <1>1 DEF InStep
<1>5. InStep(p, Leads(Head(out)), new)
  BY <1>1, <1>2, <1>3, <1>4 DEF InStep
<1> QED
  BY <1>1, <1>5 DEF InStep, new

----------------------------------------------------------------------------
(* What is under way on a connection.                                      *)

\* The order in which a match brings its lines, in either direction.
Rank(line) ==
  IF line \in {"QUEUE_FULL", "READY_TO_GO"} THEN 1
  ELSE IF line \in {"GAME_INIT", "SESSION_READY"} THEN 2
  ELSE IF line \in {"GAME_START", "GAME_QUIT"} THEN 3
  ELSE IF line \in {"GAME_OVER", "QUERY_WAIT"} THEN 4 ELSE 5

\* The lines under way, but for those a proof has no use for, and that they
\* are in that order, none of them twice.
Heed(lines, but) == ToSet(lines) \ but

InOrder(lines, but) ==
  \A i, j \in DOMAIN lines :
    i < j /\ lines[i] \notin but /\ lines[j] \notin but
      => Rank(lines[i]) < Rank(lines[j])

\* A line that is sent is the last of its order.
LEMMA HeedAppend ==
  ASSUME NEW T, NEW but, NEW s \in Seq(T), NEW line \in T, InOrder(s, but),
         line \in but \/ \A l \in Heed(s, but) : Rank(l) < Rank(line)
  PROVE  /\ InOrder(Append(s, line), but)
         /\ Heed(Append(s, line), but) = Heed(s, but) \cup ({line} \ but)
<1> DEFINE new == Append(s, line)
<1>1. /\ Len(s) \in Nat /\ DOMAIN s = 1 .. Len(s)
      /\ DOMAIN new = 1 .. Len(s) + 1 /\ new[Len(s) + 1] = line
      /\ \A i \in 1 .. Len(s) : new[i] = s[i]
  OBVIOUS
<1> HIDE DEF new
<1>2. ToSet(new) = ToSet(s) \cup {line}
  <2>1. ToSet(new) \subseteq ToSet(s) \cup {line}
    BY <1>1 DEF ToSet
  <2>2. ToSet(s) \subseteq ToSet(new)
    BY <1>1 DEF ToSet
  <2>3. line \in ToSet(new)
    BY <1>1 DEF ToSet
  <2> QED
    BY <2>1, <2>2, <2>3
<1>3. Heed(new, but) = Heed(s, but) \cup ({line} \ but)
  BY <1>2 DEF Heed
<1>4. ASSUME NEW i \in DOMAIN new, NEW j \in DOMAIN new, i < j,
             new[i] \notin but, new[j] \notin but
      PROVE  Rank(new[i]) < Rank(new[j])
  <2>1. i \in 1 .. Len(s) /\ new[i] = s[i] /\ s[i] \in Heed(s, but)
    BY <1>1, <1>4 DEF Heed, ToSet
  <2>2. CASE j \in 1 .. Len(s)
    BY <1>1, <1>4, <2>1, <2>2 DEF InOrder
  <2>3. CASE j = Len(s) + 1
    BY <1>1, <1>4, <2>1, <2>3
  <2> QED
    BY <1>1, <2>2, <2>3
<1>5. InOrder(new, but)
  BY <1>4 DEF InOrder
<1> QED
  BY <1>3, <1>5 DEF new

\* The one that is read is the first, and is not there a second time.
LEMMA HeedTail ==
  ASSUME NEW T, NEW but, NEW s \in Seq(T), s # <<>>, InOrder(s, but)
  PROVE  /\ InOrder(Tail(s), but)
         /\ Heed(Tail(s), but) = Heed(s, but) \ {Head(s)}
         /\ Head(s) \in Heed(s, but) \/ Head(s) \in but
         /\ Head(s) \notin but =>
              \A l \in Heed(s, but) : l = Head(s) \/ Rank(Head(s)) < Rank(l)
<1> DEFINE new == Tail(s)
<1>1. /\ Len(s) \in Nat /\ Len(s) > 0 /\ DOMAIN s = 1 .. Len(s)
      /\ Len(new) = Len(s) - 1 /\ DOMAIN new = 1 .. Len(s) - 1
      /\ \A i \in 1 .. Len(s) - 1 : new[i] = s[i + 1]
      /\ Head(s) = s[1]
  BY HeadTailProperties, EmptySeq
<1> HIDE DEF new
<1>2. ToSet(s) = ToSet(new) \cup {Head(s)}
  <2>1. ASSUME NEW i \in 1 .. Len(s) PROVE s[i] \in ToSet(new) \cup {Head(s)}
    <3>1. CASE i = 1
      BY <1>1, <3>1
    <3>2. CASE i # 1
      <4>1. i - 1 \in 1 .. Len(s) - 1 /\ new[i - 1] = s[(i - 1) + 1]
        BY <1>1, <3>2
      <4>2. new[i - 1] = s[i]
        BY <4>1
      <4> QED
        BY <1>1, <4>1, <4>2 DEF ToSet
    <3> QED
      BY <3>1, <3>2
  <2>2. \A i \in 1 .. Len(s) - 1 : i + 1 \in 1 .. Len(s) /\ 1 \in 1 .. Len(s)
    BY <1>1
  <2>3. ToSet(new) \cup {Head(s)} \subseteq ToSet(s)
    <3>1. \A i \in 1 .. Len(s) - 1 : new[i] \in ToSet(s)
      BY <1>1, <2>2 DEF ToSet
    <3>2. Head(s) \in ToSet(s)
      BY <1>1 DEF ToSet
    <3>3. ToSet(new) = {new[i] : i \in 1 .. Len(s) - 1}
      BY <1>1 DEF ToSet
    <3> QED
      BY <3>1, <3>2, <3>3
  <2> QED
    BY <1>1, <2>1, <2>3 DEF ToSet
<1>3. ASSUME NEW i \in DOMAIN new, new[i] \notin but, Head(s) \notin but
      PROVE  Rank(Head(s)) < Rank(new[i])
  <2>1. i + 1 \in DOMAIN s /\ 1 \in DOMAIN s /\ 1 < i + 1 /\ new[i] = s[i + 1]
    BY <1>1
  <2> QED
    BY <1>1, <1>3, <2>1 DEF InOrder
<1>4. Head(s) \notin but => Head(s) \notin Heed(new, but)
  BY <1>3 DEF Heed, ToSet, Rank
<1>5. Heed(new, but) = Heed(s, but) \ {Head(s)}
  BY <1>2, <1>4 DEF Heed
<1>6. ASSUME NEW i \in DOMAIN new, NEW j \in DOMAIN new, i < j,
             new[i] \notin but, new[j] \notin but
      PROVE  Rank(new[i]) < Rank(new[j])
  <2>1. /\ i + 1 \in DOMAIN s /\ j + 1 \in DOMAIN s /\ i + 1 < j + 1
        /\ new[i] = s[i + 1] /\ new[j] = s[j + 1]
    BY <1>1, <1>6
  <2> QED
    BY <1>6, <2>1 DEF InOrder
<1>7. InOrder(new, but)
  BY <1>6 DEF InOrder
<1>8. Head(s) \in Heed(s, but) \/ Head(s) \in but
  BY <1>2 DEF Heed
<1>9. Head(s) \notin but =>
        \A l \in Heed(s, but) : l = Head(s) \/ Rank(Head(s)) < Rank(l)
  BY <1>2, <1>3 DEF Heed, ToSet
<1> QED
  BY <1>5, <1>7, <1>8, <1>9 DEF new

\* No line under way.
LEMMA NoHeed ==
  ASSUME NEW but
  PROVE  Heed(<<>>, but) = {} /\ InOrder(<<>>, but)
BY DEF Heed, InOrder, ToSet

\* Such a line is in a queue of lines just if it is heeded.
LEMMA ContainsHeeded ==
  ASSUME NEW s, NEW but, NEW line, line \notin but
  PROVE  Contains(s, line) <=> line \in Heed(s, but)
BY DEF Contains, Heed, ToSet

----------------------------------------------------------------------------
(* Types.                                                                  *)

Inboxes == [Clients -> Seq(ServerLines)]
Outboxes == [Clients -> Seq(ClientLines)]

\* Lines that are sent, said and heard leave queues of lines.
LEMMA SendTypes ==
  ASSUME TypeOK, NEW line \in ServerLines
  PROVE  /\ \A c \in Clients : SendTo(c, line) => inbox' \in Inboxes
         /\ \A s : SendAll(s, line) => inbox' \in Inboxes
<1>1. inbox \in Inboxes
  BY DEF TypeOK, Inboxes
<1>2. ASSUME NEW c \in Clients, SendTo(c, line) PROVE inbox' \in Inboxes
  BY <1>1, <1>2 DEF SendTo, Deliver, Inboxes
<1>3. ASSUME NEW s, SendAll(s, line) PROVE inbox' \in Inboxes
  BY <1>1, <1>3 DEF SendAll, Inboxes
<1> QED
  BY <1>2, <1>3

\* A line that is said is at the end of one queue.
LEMMA SayTypes ==
  ASSUME TypeOK, NEW c \in Clients, NEW line \in ClientLines, Say(c, line)
  PROVE  /\ outbox' \in Outboxes
         /\ outbox'[c] = Append(outbox[c], line)
         /\ \A x \in Clients : x # c => outbox'[x] = outbox[x]
BY DEF TypeOK, Say, Outboxes

\* One that is heard was at the head of one.
LEMMA HearTypes ==
  ASSUME TypeOK, NEW c \in Clients, NEW loop, NEW line, Hears(c, loop, line)
  PROVE  /\ outbox' \in Outboxes
         /\ outbox'[c] = Tail(outbox[c])
         /\ outbox[c] \in Seq(ClientLines) /\ outbox[c] # <<>>
         /\ \A x \in Clients : x # c => outbox'[x] = outbox[x]
BY HeadTailProperties DEF TypeOK, Hears, Outboxes

\* find_session_by_token returns a session or none.
LEMMA FoundType ==
  ASSUME TypeOK, NEW c \in Clients
  PROVE  FindSession(c) \in Rooms \cup {NoRoom}
<1>1. CASE SlotsOf(c) = {}
  BY <1>1 DEF FindSession
<1>2. CASE SlotsOf(c) # {}
  <2>1. SlotsOf(c) \subseteq Slots /\ SlotsOf(c) \subseteq Nat
    BY DEF SlotsOf, Slots
  <2>2. \E i \in SlotsOf(c) : \A j \in SlotsOf(c) : i <= j
    BY <1>2, <2>1, LeastOf
  <2> DEFINE i == CHOOSE i \in SlotsOf(c) : \A j \in SlotsOf(c) : i <= j
  <2>3. i \in SlotsOf(c)
    BY <2>2
  <2>4. FindSession(c) = ongoing_sessions[i]
    BY <1>2 DEF FindSession
  <2> HIDE DEF i
  <2> QED
    BY <2>1, <2>3, <2>4 DEF TypeOK
<1> QED
  BY <1>1, <1>2

\* The program, its connection thread and a room's thread keep the types.
LEMMA ClientTypes ==
  ASSUME TypeOK, NEW c \in Clients, Client(c)
  PROVE  TypeOK'
<1> USE DEF queueVars, readyVars, roomVars
<1>1. /\ inbox \in Inboxes /\ outbox \in Outboxes
      /\ program \in [Clients -> {"lobby", "waiting", "summoned",
                                  "cancelling", "playing", "gone"}]
  BY DEF TypeOK, Inboxes, Outboxes
<1>2. \A line : line \in {"QUERY_WAIT", "MATCHING_CANCEL", "READY_TO_GO",
                          "SESSION_READY", "GAME_QUIT", "EOF"}
                  => line \in ClientLines
  BY DEF ClientLines
<1>3. inbox[c] # <<>> => [inbox EXCEPT ![c] = Tail(@)] \in Inboxes
  BY <1>1, HeadTailProperties DEF Inboxes
<1>4. CASE PressMatch(c)
  BY <1>4, <1>2, SayTypes DEF PressMatch, Show, TypeOK, Outboxes
<1>5. CASE ReadWaiting(c)
  <2>1. outbox' \in Outboxes
    BY <1>1, <1>2, <1>5, SayTypes DEF ReadWaiting
  <2>2. inbox' \in Inboxes
    BY <1>3, <1>5 DEF ReadWaiting
  <2>3. program' \in [Clients -> {"lobby", "waiting", "summoned",
                                  "cancelling", "playing", "gone"}]
    BY <1>1, <1>5 DEF ReadWaiting, Show
  <2> QED
    BY <1>5, <2>1, <2>2, <2>3 DEF ReadWaiting, TypeOK, Inboxes, Outboxes
<1>6. CASE PressCancel(c)
  BY <1>6, <1>2, SayTypes DEF PressCancel, Show, TypeOK, Outboxes
<1>7. CASE ReadCancelAnswer(c)
  <2>1. PICK n \in 0 .. Len(inbox[c]) :
          inbox' = [inbox EXCEPT ![c] = SubSeq(@, n + 1, Len(@))]
    BY <1>7 DEF ReadCancelAnswer
  <2>2. inbox[c] \in Seq(ServerLines) /\ Len(inbox[c]) \in Nat
    BY <1>1 DEF Inboxes
  <2>3. SubSeq(inbox[c], n + 1, Len(inbox[c])) \in Seq(ServerLines)
    BY <2>2
  <2>4. inbox' \in Inboxes
    BY <1>1, <2>1, <2>3 DEF Inboxes
  <2> QED
    BY <1>7, <2>4 DEF ReadCancelAnswer, Show, TypeOK, Inboxes
<1>8. CASE ReadPlaying(c)
  <2>1. outbox' \in Outboxes
    BY <1>1, <1>2, <1>8, SayTypes DEF ReadPlaying
  <2>2. inbox' \in Inboxes
    BY <1>3, <1>8 DEF ReadPlaying
  <2>3. program' \in [Clients -> {"lobby", "waiting", "summoned",
                                  "cancelling", "playing", "gone"}]
    BY <1>1, <1>8 DEF ReadPlaying, Show
  <2> QED
    BY <1>8, <2>1, <2>2, <2>3 DEF ReadPlaying, TypeOK, Inboxes, Outboxes
<1>9. CASE Disconnect(c)
  <2>1. inbox' \in Inboxes
    BY <1>1, <1>9 DEF Disconnect, Inboxes
  <2> QED
    BY <1>9, <1>2, <2>1, SayTypes DEF Disconnect, Show, TypeOK, Inboxes, Outboxes
<1> QED
  BY <1>4, <1>5, <1>6, <1>7, <1>8, <1>9 DEF Client

\* The connection thread.
LEMMA ConnectionTypes ==
  ASSUME TypeOK, NEW c \in Clients, Connection(c)
  PROVE  TypeOK'
<1> USE DEF queueVars, readyVars, roomVars
<1>1. /\ conn \in [Clients -> {"lobby", "filling", "loop", "closed"}]
      /\ session \in [Clients -> Rooms \cup {NoRoom}]
      /\ waiting_queue \in Seq(Clients)
      /\ \A x \in Clients : Append(waiting_queue, x) \in Seq(Clients)
      /\ RemoveFirst(waiting_queue, c) \in Seq(Clients)
  BY RemoveFirstShortens DEF TypeOK
<1>2. \A loop \in {"lobby", "filling", "loop", "closed"} :
        Enter(c, loop) =>
          /\ conn' \in [Clients -> {"lobby", "filling", "loop", "closed"}]
          /\ session' \in [Clients -> Rooms \cup {NoRoom}]
  BY <1>1 DEF Enter
<1>3. \A line \in {"QUEUE_FULL", "SESSION_ACK", "SESSION_NOT_FOUND",
                   "CANCEL_OK"} : line \in ServerLines
  BY DEF ServerLines
<1>4. CASE Enqueue(c)
  BY <1>1, <1>2, <1>4, HearTypes DEF Enqueue, TypeOK, Outboxes
<1>5. ASSUME NEW r \in Rooms, FillRoom(c, r) PROVE TypeOK'
  <2>1. /\ waiting_queue' \in Seq(Clients)
        /\ roomPc' \in [Rooms -> RoomStates]
        /\ seats' \in [Rooms -> Seq(Clients)]
        /\ filling' \in Rooms \cup {NoRoom}
    BY <1>1, <1>5 DEF FillRoom, TypeOK, RoomStates
  <2> QED
    BY <1>2, <1>5, <2>1, HearTypes DEF FillRoom, TypeOK, Outboxes
<1>6. CASE AnnounceFull(c)
  <2>1. inbox' \in Inboxes /\ <<>> \in Seq(Clients)
    BY <1>3, <1>6, SendTypes, EmptySeq DEF AnnounceFull
  <2> QED
    BY <1>2, <1>6, <2>1 DEF AnnounceFull, TypeOK, Inboxes
<1>7. CASE CountReady(c)
  <2>1. ready_phase1' \in 0 .. RoomSize /\ ready_phase2' \in 0 .. MaxReady
    BY <1>7, MatchAssumption DEF CountReady, TypeOK
  <2> QED
    BY <1>7, <2>1, HearTypes DEF CountReady, TypeOK, Outboxes
<1>8. CASE BindSession(c)
  <2>1. session' \in [Clients -> Rooms \cup {NoRoom}]
    BY <1>1, <1>8, FoundType DEF BindSession
  <2> QED
    BY <1>8, <2>1 DEF BindSession, TypeOK
<1>8a. CASE AckSession(c) \/ RefuseSession(c)
  <2>1. inbox' \in Inboxes
    BY <1>3, <1>8a, SendTypes DEF AckSession, RefuseSession
  <2> QED
    BY <1>8a, <2>1, HearTypes
       DEF AckSession, RefuseSession, TypeOK, Inboxes, Outboxes
<1>9. CASE CancelMatch(c)
  <2>1. inbox' \in Inboxes
    BY <1>3, <1>9, SendTypes DEF CancelMatch
  <2> QED
    BY <1>1, <1>2, <1>9, <2>1, HearTypes
       DEF CancelMatch, LeaveQueue, TypeOK, Inboxes, Outboxes
<1>10. CASE QuitGame(c)
  BY <1>2, <1>10, HearTypes DEF QuitGame, TypeOK, Outboxes
<1>11. CASE LoseClient(c)
  BY <1>1, <1>2, <1>11, HearTypes DEF LoseClient, LeaveQueue, TypeOK, Outboxes
<1> QED
  BY <1>4, <1>5, <1>6, <1>7, <1>8, <1>8a, <1>9, <1>10, <1>11 DEF Connection

\* The threads of a room and its game.
LEMMA RoomTypes ==
  ASSUME TypeOK, NEW r \in Rooms,
         RoomThread(r) \/ AnnounceOver(r) \/ FreeSession(r)
  PROVE  TypeOK'
<1> USE DEF queueVars, readyVars, roomVars
<1>1. \A from, to \in RoomStates :
        Goes(r, from, to) => roomPc' \in [Rooms -> RoomStates]
  BY DEF TypeOK, Goes
<1>2. /\ \A pc \in {"phase1", "phase2", "create", "registered", "started",
                    "playing", "over", "ended", "failed"} : pc \in RoomStates
      /\ \A line \in {"GAME_INIT", "GAME_START", "GAME_FAILED",
                      "GAME_OVER"} : line \in ServerLines
  BY DEF RoomStates, ServerLines
<1>3. CASE PassPhase1(r)
  BY <1>1, <1>2, <1>3, SendTypes DEF PassPhase1, TypeOK, Inboxes
<1>4. CASE PassPhase2(r)
  BY <1>1, <1>2, <1>4 DEF PassPhase2, TypeOK
<1>5. CASE FailCards(r)
  BY <1>1, <1>2, <1>5, SendTypes DEF FailCards, TypeOK, Inboxes
<1>6. CASE Register(r)
  BY <1>1, <1>2, <1>6 DEF Register, TypeOK
<1>7. CASE FailRegister(r)
  BY <1>1, <1>2, <1>7 DEF FailRegister, TypeOK
<1>8. CASE StartGame(r)
  BY <1>1, <1>2, <1>8, SendTypes DEF StartGame, TypeOK, Inboxes
<1>9. CASE ResetReady(r)
  BY <1>1, <1>2, <1>9, MatchAssumption DEF ResetReady, TypeOK
<1>10. CASE AnnounceOver(r)
  BY <1>1, <1>2, <1>10, SendTypes DEF AnnounceOver, TypeOK, Inboxes
<1>11. CASE FreeSession(r)
  BY <1>1, <1>2, <1>11 DEF FreeSession, TypeOK
<1> QED
  BY <1>3, <1>4, <1>5, <1>6, <1>7, <1>8, <1>9, <1>10, <1>11 DEF RoomThread
----------------------------------------------------------------------------
(* The waiting queue and the registry.                                     *)

\* Whatever joins and leaves, the queue is full only while it is being
\* emptied, and is then the room's.
LEMMA QueueStep ==
  ASSUME TypeOK, QueueHasPlace, Next
  PROVE  QueueHasPlace'
<1> USE DEF queueVars, readyVars, roomVars
<1>0. /\ waiting_queue \in Seq(Clients) /\ Len(waiting_queue) \in Nat
      /\ RoomSize \in Nat \ {0} /\ NoRoom \notin Rooms
      /\ seats \in [Rooms -> Seq(Clients)] /\ filling \in Rooms \cup {NoRoom}
  BY MatchAssumption DEF TypeOK
<1>1. ASSUME UNCHANGED <<queueVars, seats>> PROVE QueueHasPlace'
  BY <1>1 DEF QueueHasPlace
<1>2. ASSUME NEW c \in Clients, LeaveQueue(c), UNCHANGED <<filling, seats>>
      PROVE  QueueHasPlace'
  <2>1. Len(waiting_queue') <= Len(waiting_queue)
        /\ waiting_queue' \in Seq(Clients)
    BY <1>0, <1>2, RemoveFirstShortens DEF LeaveQueue
  <2> QED
    BY <1>0, <1>2, <2>1 DEF LeaveQueue, QueueHasPlace
<1>3. ASSUME NEW c \in Clients, Client(c) PROVE QueueHasPlace'
  BY <1>1, <1>3 DEF Client, PressMatch, ReadWaiting, PressCancel,
                    ReadCancelAnswer, ReadPlaying, Disconnect
<1>4. ASSUME NEW c \in Clients, Connection(c) PROVE QueueHasPlace'
  <2>1. CASE Enqueue(c)
    BY <2>1 DEF Enqueue, QueueHasPlace
  <2>2. ASSUME NEW r \in Rooms, FillRoom(c, r) PROVE QueueHasPlace'
    <3>1. seats'[r] = waiting_queue' /\ filling' = r /\ r # NoRoom
      BY <1>0, <2>2 DEF FillRoom
    <3> QED
      BY <3>1 DEF QueueHasPlace
  <2>3. CASE AnnounceFull(c)
    <3>1. Len(waiting_queue') = 0 /\ filling' = NoRoom
      BY <2>3 DEF AnnounceFull
    <3> QED
      BY <1>0, <3>1 DEF QueueHasPlace
  <2>4. CASE \/ CountReady(c) \/ BindSession(c) \/ AckSession(c)
             \/ RefuseSession(c) \/ QuitGame(c)
    BY <1>1, <2>4 DEF CountReady, BindSession, AckSession, RefuseSession, QuitGame
  <2>5. CASE CancelMatch(c)
    BY <1>2, <2>5 DEF CancelMatch
  <2>6. CASE LoseClient(c)
    BY <1>1, <1>2, <2>6 DEF LoseClient
  <2> QED
    BY <1>4, <2>1, <2>2, <2>3, <2>4, <2>5, <2>6 DEF Connection
<1>5. ASSUME NEW r \in Rooms,
             RoomThread(r) \/ AnnounceOver(r) \/ FreeSession(r)
      PROVE  QueueHasPlace'
  BY <1>1, <1>5 DEF RoomThread, PassPhase1, PassPhase2, FailCards, Register,
                    FailRegister, StartGame, ResetReady, AnnounceOver,
                    FreeSession
<1> QED
  BY <1>3, <1>4, <1>5 DEF Next

Announced == {"registered", "started", "playing", "over"}

Holds(r) == {i \in Slots : ongoing_sessions[i] = r}

\* A room that goes on without entering or leaving the registry.
LEMMA GoesOn ==
  ASSUME TypeOK, RegistryExact, NEW r \in Rooms,
         NEW from, NEW to \in RoomStates, Goes(r, from, to),
         from \in Announced <=> to \in Announced, UNCHANGED ongoing_sessions
  PROVE  RegistryExact'
<1>1. /\ roomPc[r] = from /\ roomPc'[r] = to
      /\ \A x \in Rooms : x # r => roomPc'[x] = roomPc[x]
  BY DEF TypeOK, Goes
<1>2. \A x \in Rooms : roomPc'[x] \in Announced <=> roomPc[x] \in Announced
  BY <1>1
<1> QED
  BY <1>2 DEF RegistryExact, Announced

\* A session is in the registry from its announcement to its end, in one
\* slot.
LEMMA RegistryStep ==
  ASSUME TypeOK, RegistryExact, Next
  PROVE  RegistryExact'
<1> USE DEF queueVars, readyVars, roomVars
<1>0. /\ roomPc \in [Rooms -> RoomStates]
      /\ ongoing_sessions \in [Slots -> Rooms \cup {NoRoom}]
      /\ NoRoom \notin Rooms
      /\ Announced = {"registered", "started", "playing", "over"}
      /\ \A pc \in {"phase1", "phase2", "create", "registered", "started",
                    "playing", "over", "ended", "failed"} : pc \in RoomStates
  BY MatchAssumption DEF TypeOK, Announced, RoomStates
<1>1. ASSUME UNCHANGED <<ongoing_sessions, roomPc>> PROVE RegistryExact'
  BY <1>1 DEF RegistryExact
<1>2. ASSUME NEW c \in Clients, Client(c) PROVE RegistryExact'
  BY <1>1, <1>2 DEF Client, PressMatch, ReadWaiting, PressCancel,
                    ReadCancelAnswer, ReadPlaying, Disconnect
<1>3. ASSUME NEW c \in Clients, Connection(c) PROVE RegistryExact'
  <2>1. ASSUME NEW r \in Rooms, FillRoom(c, r) PROVE RegistryExact'
    <3>1. /\ Goes(r, roomPc[r], "phase1") /\ roomPc[r] \notin Announced
          /\ UNCHANGED ongoing_sessions
      BY <1>0, <2>1 DEF FillRoom, Free, Goes
    <3> QED
      BY <1>0, <3>1, GoesOn
  <2>2. CASE \/ Enqueue(c) \/ AnnounceFull(c) \/ CountReady(c)
             \/ BindSession(c) \/ AckSession(c) \/ RefuseSession(c)
             \/ CancelMatch(c) \/ QuitGame(c) \/ LoseClient(c)
    BY <1>1, <2>2 DEF Enqueue, AnnounceFull, CountReady, BindSession, AckSession,
                      RefuseSession, CancelMatch, QuitGame, LoseClient
  <2> QED
    BY <1>3, <2>1, <2>2 DEF Connection
<1>4. ASSUME NEW r \in Rooms, Register(r) PROVE RegistryExact'
  <2> DEFINE i == CHOOSE i \in FreeSlots : \A j \in FreeSlots : i <= j
  <2>1. FreeSlots # {} /\ FreeSlots \subseteq Nat
    BY <1>4 DEF Register, FreeSlots, Slots
  <2>2. \E k \in FreeSlots : \A j \in FreeSlots : k <= j
    BY <2>1, LeastOf
  <2>3. i \in FreeSlots
    BY <2>2
  <2>4. ongoing_sessions' = [ongoing_sessions EXCEPT ![i] = r]
    BY <1>4 DEF Register
  <2> HIDE DEF i
  <2>5. /\ i \in Slots /\ ongoing_sessions[i] = NoRoom
        /\ ongoing_sessions'[i] = r
        /\ \A j \in Slots : j # i => ongoing_sessions'[j] = ongoing_sessions[j]
    BY <1>0, <2>3, <2>4 DEF FreeSlots
  <2>6. /\ roomPc[r] = "create" /\ roomPc'[r] = "registered"
        /\ \A x \in Rooms : x # r => roomPc'[x] = roomPc[x]
    BY <1>0, <1>4 DEF Register, Goes
  <2>7. Holds(r) = {}
    BY <2>6 DEF RegistryExact, Holds
  <2>8. Holds(r)' = {i}
    BY <2>5, <2>7 DEF Holds
  <2>9. \A x \in Rooms : x # r => Holds(x)' = Holds(x)
    BY <1>0, <2>5 DEF Holds
  <2> QED
    BY <2>5, <2>6, <2>8, <2>9 DEF RegistryExact, Holds
<1>5. ASSUME NEW r \in Rooms, FreeSession(r) PROVE RegistryExact'
  <2>1. /\ roomPc'[r] = "ended"
        /\ \A x \in Rooms : x # r => roomPc'[x] = roomPc[x]
    BY <1>0, <1>5 DEF FreeSession, Goes
  <2>2. Holds(r)' = {} /\ \A x \in Rooms : x # r => Holds(x)' = Holds(x)
    BY <1>0, <1>5 DEF FreeSession, Holds
  <2> QED
    BY <2>1, <2>2 DEF RegistryExact, Holds
<1>6. ASSUME NEW r \in Rooms,
             \/ PassPhase1(r) \/ PassPhase2(r) \/ FailCards(r)
             \/ FailRegister(r) \/ StartGame(r) \/ ResetReady(r)
             \/ AnnounceOver(r)
      PROVE  RegistryExact'
  <2>1. UNCHANGED ongoing_sessions
    BY <1>6 DEF PassPhase1, PassPhase2, FailCards, FailRegister, StartGame,
                ResetReady, AnnounceOver
  <2>2. \/ Goes(r, "phase1", "phase2") \/ Goes(r, "phase2", "create")
        \/ Goes(r, "create", "failed") \/ Goes(r, "registered", "started")
        \/ Goes(r, "started", "playing") \/ Goes(r, "playing", "over")
    BY <1>6 DEF PassPhase1, PassPhase2, FailCards, FailRegister, StartGame,
                ResetReady, AnnounceOver
  <2> QED
    BY <1>0, <2>1, <2>2, GoesOn
<1> QED
  BY <1>2, <1>3, <1>4, <1>5, <1>6 DEF Next, RoomThread

\* find_session_by_token finds a session that is announced or played, and
\* finds none only where there is none.
LEMMA FoundInRegistry ==
  ASSUME MInv, NEW c \in Clients
  PROVE  /\ FindSession(c) # NoRoom =>
              /\ FindSession(c) \in Rooms /\ c \in Players(FindSession(c))
              /\ roomPc[FindSession(c)] \in Announced
         /\ FindSession(c) = NoRoom =>
              \A r \in Rooms : c \in Players(r) => roomPc[r] \notin Announced
<1>1. /\ ongoing_sessions \in [Slots -> Rooms \cup {NoRoom}]
      /\ NoRoom \notin Rooms
  BY MatchAssumption DEF MInv, TypeOK
<1>2. ASSUME NEW r \in Rooms
      PROVE  IF roomPc[r] \in Announced THEN \E i \in Slots : Holds(r) = {i}
             ELSE Holds(r) = {}
  BY DEF MInv, RegistryExact, Announced, Holds
<1>3. CASE SlotsOf(c) = {}
  <2>1. FindSession(c) = NoRoom
    BY <1>3 DEF FindSession
  <2>2. ASSUME NEW r \in Rooms, c \in Players(r), roomPc[r] \in Announced
        PROVE  FALSE
    <3>1. PICK i \in Slots : i \in Holds(r)
      BY <1>2, <2>2
    <3> QED
      BY <1>1, <1>3, <2>2, <3>1 DEF Holds, SlotsOf
  <2> QED
    BY <2>1, <2>2
<1>4. CASE SlotsOf(c) # {}
  <2>1. SlotsOf(c) \subseteq Nat
    BY DEF SlotsOf, Slots
  <2>2. \E i \in SlotsOf(c) : \A j \in SlotsOf(c) : i <= j
    BY <1>4, <2>1, LeastOf
  <2> DEFINE k == CHOOSE i \in SlotsOf(c) : \A j \in SlotsOf(c) : i <= j
  <2>3. k \in SlotsOf(c)
    BY <2>2
  <2>4. FindSession(c) = ongoing_sessions[k]
    BY <1>4 DEF FindSession
  <2> HIDE DEF k
  <2>5. /\ k \in Slots /\ FindSession(c) # NoRoom
        /\ c \in Players(FindSession(c))
    BY <2>3, <2>4 DEF SlotsOf
  <2>6. FindSession(c) \in Rooms /\ k \in Holds(FindSession(c))
    BY <1>1, <2>4, <2>5 DEF Holds
  <2> QED
    BY <1>2, <2>5, <2>6
<1> QED
  BY <1>3, <1>4

----------------------------------------------------------------------------
(* The two ends of a connection.                                           *)

\* Only the connection of c is concerned.
Own(c) ==
  \A x \in Clients :
    x # c => /\ program'[x] = program[x] /\ conn'[x] = conn[x]
             /\ outbox'[x] = outbox[x]

\* A step of one connection that keeps it in step keeps all of them.
LEMMA OwnStep ==
  ASSUME AllInStep, NEW c \in Clients, Own(c),
         InStep(program'[c], Loop(conn'[c]), outbox'[c])
  PROVE  AllInStep'
BY DEF AllInStep, Own

\* A line said to the right loop.
LEMMA SayStep ==
  ASSUME TypeOK, AllInStep, NEW c \in Clients, NEW line \in ClientLines,
         Say(c, line), UNCHANGED conn, LoopOf(program[c]) \in Needs(line),
         \A x \in Clients : x # c => program'[x] = program[x],
         LoopOf(program'[c]) = Leads(line)
  PROVE  AllInStep'
<1>1. /\ outbox'[c] = Append(outbox[c], line)
      /\ outbox[c] \in Seq(ClientLines)
      /\ Own(c)
  BY SayTypes DEF TypeOK, Own
<1>2. InStep(program[c], Loop(conn[c]), outbox[c])
  BY DEF AllInStep
<1>3. InStep(program'[c], Loop(conn'[c]), outbox'[c])
  BY <1>1, <1>2, SayKeepsStep
<1> QED
  BY <1>1, <1>3, OwnStep

\* A line heard, and the loop it leads to entered.
LEMMA HearStep ==
  ASSUME TypeOK, AllInStep, NEW c \in Clients, NEW loop, NEW line,
         Hears(c, loop, line), UNCHANGED program,
         \A x \in Clients : x # c => conn'[x] = conn[x],
         Loop(conn'[c]) = Leads(line)
  PROVE  AllInStep'
<1>1. /\ outbox'[c] = Tail(outbox[c]) /\ outbox[c] # <<>>
      /\ outbox[c] \in Seq(ClientLines)
      /\ Own(c)
  BY HearTypes DEF Own
<1>2. Head(outbox[c]) = line
  BY DEF Hears
<1>3. InStep(program[c], Loop(conn[c]), outbox[c])
  BY DEF AllInStep
<1>4. InStep(program'[c], Loop(conn'[c]), outbox'[c])
  BY <1>1, <1>2, <1>3, HearKeepsStep
<1> QED
  BY <1>1, <1>4, OwnStep

\* However the lines cross: every line is understood in the loop in which it
\* will be read.
LEMMA InStepStep ==
  ASSUME TypeOK, AllInStep, Next
  PROVE  AllInStep'
<1> USE DEF queueVars, readyVars, roomVars
<1>0. /\ conn \in [Clients -> {"lobby", "filling", "loop", "closed"}]
      /\ program \in [Clients -> {"lobby", "waiting", "summoned",
                                  "cancelling", "playing", "gone"}]
  BY DEF TypeOK
<1>1. ASSUME UNCHANGED <<program, conn, outbox>> PROVE AllInStep'
  BY <1>1 DEF AllInStep
<1>2. \A line : line \in {"QUERY_WAIT", "MATCHING_CANCEL", "READY_TO_GO",
                          "SESSION_READY", "GAME_QUIT", "EOF"}
                  => line \in ClientLines
  BY DEF ClientLines
<1>3. ASSUME NEW c \in Clients, Client(c) PROVE AllInStep'
  <2>0. \A screen : Show(c, screen) =>
          /\ program'[c] = screen
          /\ \A x \in Clients : x # c => program'[x] = program[x]
    BY <1>0 DEF Show
  <2>1. CASE PressMatch(c)
    BY <1>2, <2>0, <2>1, SayStep DEF PressMatch, LoopOf, Needs, Leads
  <2>2. CASE ReadWaiting(c)
    <3>1. LoopOf(program[c]) = "loop" /\ UNCHANGED conn
      BY <2>2 DEF ReadWaiting, LoopOf
    <3>2. \/ /\ Show(c, "summoned") /\ Say(c, "READY_TO_GO")
          \/ /\ UNCHANGED program /\ Say(c, "READY_TO_GO")
          \/ /\ Show(c, "playing") /\ Say(c, "SESSION_READY")
          \/ UNCHANGED <<program, outbox>>
      BY <2>2 DEF ReadWaiting
    <3>3. CASE Show(c, "summoned") /\ Say(c, "READY_TO_GO")
      BY <1>2, <2>0, <3>1, <3>3, SayStep DEF LoopOf, Needs, Leads
    <3>4. CASE UNCHANGED program /\ Say(c, "READY_TO_GO")
      BY <1>2, <3>1, <3>4, SayStep DEF Needs, Leads
    <3>5. CASE Show(c, "playing") /\ Say(c, "SESSION_READY")
      BY <1>2, <2>0, <3>1, <3>5, SayStep DEF LoopOf, Needs, Leads
    <3> QED
      BY <1>1, <3>1, <3>2, <3>3, <3>4, <3>5
  <2>3. CASE PressCancel(c)
    BY <1>2, <2>0, <2>3, SayStep DEF PressCancel, LoopOf, Needs, Leads
  <2>4. CASE ReadCancelAnswer(c)
    <3>1. /\ program[c] = "cancelling" /\ program'[c] = "lobby"
          /\ UNCHANGED <<conn, outbox>> /\ Own(c)
      BY <2>0, <2>4 DEF ReadCancelAnswer, Own
    <3>2. InStep(program'[c], Loop(conn'[c]), outbox'[c])
      BY <3>1 DEF AllInStep, InStep, LoopOf
    <3> QED
      BY <3>1, <3>2, OwnStep
  <2>5. CASE ReadPlaying(c)
    <3>1. program[c] = "playing" /\ UNCHANGED conn
      BY <2>5 DEF ReadPlaying
    <3>2. \/ Show(c, "lobby") /\ Say(c, "GAME_QUIT")
          \/ UNCHANGED <<program, outbox>>
      BY <2>5 DEF ReadPlaying
    <3>3. CASE Show(c, "lobby") /\ Say(c, "GAME_QUIT")
      BY <1>2, <2>0, <3>1, <3>3, SayStep DEF LoopOf, Needs, Leads
    <3> QED
      BY <1>1, <3>1, <3>2, <3>3
  <2>6. CASE Disconnect(c)
    <3>1. LoopOf(program[c]) \in {"lobby", "loop"}
      BY <2>6 DEF Disconnect, LoopOf
    <3> QED
      BY <1>2, <2>0, <2>6, <3>1, SayStep DEF Disconnect, LoopOf, Needs, Leads
  <2> QED
    BY <1>3, <2>1, <2>2, <2>3, <2>4, <2>5, <2>6 DEF Client
<1>4. ASSUME NEW c \in Clients, Connection(c) PROVE AllInStep'
  <2>0. \A loop : Enter(c, loop) =>
          /\ conn'[c] = loop
          /\ \A x \in Clients : x # c => conn'[x] = conn[x]
    BY <1>0 DEF Enter
  <2>1. CASE Enqueue(c)
    BY <2>0, <2>1, HearStep DEF Enqueue, Leads, Loop
  <2>2. ASSUME NEW r \in Rooms, FillRoom(c, r) PROVE AllInStep'
    BY <2>0, <2>2, HearStep DEF FillRoom, Leads, Loop
  <2>3. CASE AnnounceFull(c)
    <3>1. /\ conn[c] = "filling" /\ conn'[c] = "loop"
          /\ UNCHANGED <<program, outbox>> /\ Own(c)
      BY <2>0, <2>3 DEF AnnounceFull, Own
    <3>2. InStep(program'[c], Loop(conn'[c]), outbox'[c])
      BY <3>1 DEF AllInStep, Loop
    <3> QED
      BY <3>1, <3>2, OwnStep
  <2>4. CASE CountReady(c)
    <3>1. Loop(conn'[c]) = "loop" /\ UNCHANGED <<program, conn>>
      BY <2>4 DEF CountReady, Hears, Loop
    <3> QED
      BY <2>4, <3>1, HearStep DEF CountReady, Leads
  <2>5. CASE BindSession(c)
    BY <1>1, <2>5 DEF BindSession
  <2>5a. CASE AckSession(c) \/ RefuseSession(c)
    <3>1. /\ Loop(conn'[c]) = "loop" /\ UNCHANGED <<program, conn>>
          /\ Hears(c, "loop", "SESSION_READY")
      BY <2>5a DEF AckSession, RefuseSession, Hears, Loop
    <3> QED
      BY <3>1, HearStep DEF Leads
  <2>6. CASE CancelMatch(c)
    BY <2>0, <2>6, HearStep DEF CancelMatch, Leads, Loop
  <2>7. CASE QuitGame(c)
    BY <2>0, <2>7, HearStep DEF QuitGame, Leads, Loop
  <2>8. CASE LoseClient(c)
    <3>1. Hears(c, "loop", "EOF") \/ Hears(c, "lobby", "EOF")
      BY <2>8 DEF LoseClient
    <3>2. Loop(conn'[c]) = Leads("EOF")
      BY <2>0, <2>8 DEF LoseClient, Leads, Loop
    <3> QED
      BY <2>0, <2>8, <3>1, <3>2, HearStep DEF LoseClient
  <2> QED
    BY <1>4, <2>1, <2>2, <2>3, <2>4, <2>5, <2>5a, <2>6, <2>7, <2>8
       DEF Connection
<1>5. ASSUME NEW r \in Rooms,
             RoomThread(r) \/ AnnounceOver(r) \/ FreeSession(r)
      PROVE  AllInStep'
  BY <1>1, <1>5 DEF RoomThread, PassPhase1, PassPhase2, FailCards, Register,
                    FailRegister, StartGame, ResetReady, AnnounceOver,
                    FreeSession
<1> QED
  BY <1>3, <1>4, <1>5 DEF Next

----------------------------------------------------------------------------
(* The theorems.                                                           *)

\* At the start nothing is under way.
LEMMA MInit == Init => MInv
<1> SUFFICES ASSUME Init PROVE MInv
  OBVIOUS
<1>1. TypeOK
  <2>1. 0 \in 0 .. RoomSize /\ 0 \in 0 .. MaxReady
    BY MatchAssumption
  <2> QED
    BY <2>1, EmptySeq DEF Init, TypeOK, RoomStates
<1>2. QueueHasPlace
  BY MatchAssumption DEF Init, QueueHasPlace
<1>3. RegistryExact
  BY MatchAssumption DEF Init, RegistryExact
<1>4. AllInStep
  <2> SUFFICES ASSUME NEW c \in Clients
               PROVE  InStep(program[c], Loop(conn[c]), outbox[c])
    BY DEF AllInStep
  <2>1. program[c] = "lobby" /\ conn[c] = "lobby" /\ outbox[c] = <<>>
    BY DEF Init
  <2> QED
    BY <2>1 DEF InStep, Loop, LoopOf
<1> QED
  BY <1>1, <1>2, <1>3, <1>4 DEF MInv

\* Every step keeps all parts.
LEMMA MNext == MInv /\ [Next]_vars => MInv'
<1> SUFFICES ASSUME MInv, [Next]_vars PROVE MInv'
  OBVIOUS
<1>1. TypeOK /\ QueueHasPlace /\ RegistryExact /\ AllInStep
  BY DEF MInv
<1>2. CASE Next
  <2>1. TypeOK'
    BY <1>1, <1>2, ClientTypes, ConnectionTypes, RoomTypes DEF Next
  <2> QED
    BY <1>1, <1>2, <2>1, QueueStep, RegistryStep, InStepStep DEF MInv
<1>3. CASE UNCHANGED vars
  <2>1. UNCHANGED <<waiting_queue, filling, ready_phase1, ready_phase2,
                    ongoing_sessions, roomPc, seats, conn, session, program,
                    inbox, outbox>>
    BY <1>3 DEF vars, queueVars, readyVars, roomVars
  <2>2. TypeOK'
    BY <1>1, <2>1 DEF TypeOK
  <2>3. QueueHasPlace'
    BY <1>1, <2>1 DEF QueueHasPlace
  <2>4. RegistryExact'
    BY <1>1, <2>1 DEF RegistryExact
  <2>5. AllInStep'
    BY <1>1, <2>1 DEF AllInStep, InStep, Loop, LoopOf
  <2> QED
    BY <2>2, <2>3, <2>4, <2>5 DEF MInv
<1> QED
  BY <1>2, <1>3

\* The thread goes to another loop, and lets its session go.
LEMMA Entering ==
  ASSUME MInv, NEW c \in Clients, NEW loop, Enter(c, loop)
  PROVE  /\ conn'[c] = loop /\ session'[c] = NoRoom
         /\ \A x \in Clients : x # c => /\ conn'[x] = conn[x]
                                        /\ session'[x] = session[x]
BY DEF Enter, MInv, TypeOK

\* The invariant of the proof: types, queue, registry, and connections whose
\* two ends are in step.
THEOREM MatchInvariance == Spec => []MInv
  BY MInit, MNext, PTL DEF Spec

\* The state of server and clients has its types for any number of clients,
\* rooms and slots.
THEOREM MatchTypeCorrect == Spec => []TypeOK
<1>1. MInv => TypeOK
  BY DEF MInv
<1> QED
  BY <1>1, MatchInvariance, PTL

\* handle_waiting_command (room_manager.c:30) always finds a place, and what
\* it announces is the room it has created.
THEOREM QueueHasPlaceCorrect == Spec => []QueueHasPlace
<1>1. MInv => QueueHasPlace
  BY DEF MInv
<1> QED
  BY <1>1, MatchInvariance, PTL

\* No session is lost to the registry, registered twice, or found after its
\* end (room_manager.c:658-697).
THEOREM RegistryExactCorrect == Spec => []RegistryExact
<1>1. MInv => RegistryExact
  BY DEF MInv
<1> QED
  BY <1>1, MatchInvariance, PTL

\* No line of a client reaches the loop of its connection thread that does
\* not know it, however cancel, end of the game and loss of the connection
\* cross with what the server sends.
THEOREM NoLineMisheardCorrect == Spec => []NoLineMisheard
<1>1. MInv => NoLineMisheard
  <2> SUFFICES ASSUME MInv, NEW c \in Clients, outbox[c] # <<>>
               PROVE  LET line == Head(outbox[c])
                      IN  /\ conn[c] = "lobby" => line \in {"QUERY_WAIT", "EOF"}
                          /\ conn[c] = "loop" => line # "QUERY_WAIT"
    BY DEF NoLineMisheard
  <2>1. outbox[c] \in Seq(ClientLines)
    BY DEF MInv, TypeOK
  <2>2. Head(outbox[c]) = outbox[c][1]
    BY <2>1
  <2>3. Loop(conn[c]) \in Needs(Head(outbox[c]))
    BY <2>2 DEF MInv, AllInStep, InStep
  <2> QED
    BY <2>3 DEF Needs, Loop
<1> QED
  BY <1>1, MatchInvariance, PTL
=============================================================================
