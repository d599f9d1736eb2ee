---------------------------- MODULE ClientProofs ---------------------------
(***************************************************************************)
(* Theorems about the page of Client.tla, for any players, rules, window   *)
(* and lag: every lost match is announced and once, saving one rule leaves *)
(* the others alone, who was told it is out stays out, and every absence   *)
(* is told once.                                                           *)
(*                                                                         *)
(* The page shows states of the past, in the order in which they were      *)
(* sent. So each invariant says something of the room, of every message    *)
(* under way and of what the page made of the last one it was shown.       *)
(***************************************************************************)
EXTENDS Client, TLAPS, WellFoundedInduction, FiniteSetTheorems

----------------------------------------------------------------------------
(* Sequences and their last places.                                        *)

\* The least and the greatest of a set of naturals.
LEMMA LeastIn ==
  ASSUME NEW S \in SUBSET Nat, S # {}
  PROVE  \E n \in S : \A m \in S : n <= m
<1> DEFINE R == OpToRel(<, Nat)
<1>1. \A x, y \in Nat : x < y => <<x, y>> \in R
  BY Zenon DEF OpToRel
<1>2. PICK n \in S : \A m \in S : ~ (<<m, n>> \in R)
  BY NatLessThanWellFounded, WFMin, Zenon
<1> HIDE DEF R
<1>3. ASSUME NEW m \in S
      PROVE  n <= m
  <2>1. ~(m < n)
    BY <1>1, <1>2, Zenon
  <2> QED BY <2>1
<1> QED BY <1>3

LEMMA GreatestIn ==
  ASSUME NEW b \in Nat, NEW S \in SUBSET (0..b), S # {}
  PROVE  \E n \in S : \A m \in S : m <= n
<1> DEFINE T == {b - n : n \in S}
<1>1. T \in SUBSET Nat /\ T # {}
  <2>1. \A n \in S : b - n \in Nat
    OBVIOUS
  <2> QED BY <2>1
<1>2. PICK k \in T : \A m \in T : k <= m
  <2> HIDE DEF T
  <2> QED BY <1>1, LeastIn
<1>3. PICK n \in S : k = b - n
  BY <1>2
<1>4. \A m \in S : m <= n
  BY <1>2, <1>3
<1> QED BY <1>4

\* A sequence, of whatever.
Listed(s) == s \in Seq({s[i] : i \in DOMAIN s})

LEMMA ListedSeq ==
  ASSUME NEW S, NEW s \in Seq(S)
  PROVE  Listed(s)
BY DEF Listed

LEMMA ListedAppend ==
  ASSUME NEW s, Listed(s), NEW m
  PROVE  LET t == Append(s, m)
         IN  /\ Listed(t) /\ Len(s) \in Nat /\ Len(t) = Len(s) + 1 /\ t # <<>>
             /\ t[Len(t)] = m /\ DOMAIN s = 1..Len(s) /\ DOMAIN t = 1..(Len(s) + 1)
             /\ \A i \in 1..Len(s) : t[i] = s[i]
<1> DEFINE S == {s[i] : i \in DOMAIN s}
           T == S \cup {m}
           t == Append(s, m)
<1>1. s \in Seq(S) /\ S \subseteq T
  BY DEF Listed
<1> HIDE DEF S
<1>2. s \in Seq(T) /\ m \in T
  BY <1>1
<1> HIDE DEF T
<1>3. t \in Seq(T)
  BY <1>2
<1>4. Listed(t)
  BY <1>3, ListedSeq
<1> QED BY <1>2, <1>4

LEMMA ListedTail ==
  ASSUME NEW s, Listed(s), s # <<>>
  PROVE  /\ Listed(Tail(s)) /\ Len(s) \in Nat /\ Len(s) >= 1 /\ Len(Tail(s)) = Len(s) - 1
         /\ Head(s) = s[1] /\ DOMAIN s = 1..Len(s) /\ DOMAIN Tail(s) = 1..(Len(s) - 1)
         /\ \A i \in 1..(Len(s) - 1) : Tail(s)[i] = s[i + 1]
<1> DEFINE S == {s[i] : i \in DOMAIN s}
<1>1. s \in Seq(S)
  BY DEF Listed
<1> HIDE DEF S
<1>2. Tail(s) \in Seq(S)
  BY <1>1
<1>3. Listed(Tail(s))
  BY <1>2, ListedSeq
<1> QED BY <1>1, <1>3

\* A handler sends one message or two.
LEMMA ListedSent ==
  ASSUME NEW s, Listed(s), NEW m, NEW o
  PROVE  s \o <<m>> = Append(s, m) /\ s \o <<m, o>> = Append(Append(s, m), o)
<1> DEFINE S == {s[i] : i \in DOMAIN s}
           T == S \cup {m, o}
<1>1. s \in Seq(S) /\ S \subseteq T
  BY DEF Listed
<1> HIDE DEF S
<1>2. s \in Seq(T) /\ m \in T /\ o \in T
  BY <1>1
<1> HIDE DEF T
<1> QED BY <1>2

----------------------------------------------------------------------------
(* The journal on the wire.                                                *)

LEMMA EventAt ==
  ASSUME NEW log \in Seq(Event), NEW i \in DOMAIN log
  PROVE  /\ log[i] \in Event /\ log[i].n \in Nat /\ log[i].key \in Key
         /\ log[i].name \in Player /\ log[i].count \in 0..2
<1>1. log[i] \in Event
  OBVIOUS
<1>2. \A e \in Event : e.n \in Nat /\ e.key \in Key /\ e.name \in Player /\ e.count \in 0..2
  BY DEF Event
<1> QED BY <1>1, <1>2

\* Its newest event of some kinds is the last of them.
LEMMA NewestIs ==
  ASSUME NEW log \in Seq(Event), NEW keys, Places(log, keys) # {}
  PROVE  \E i \in Places(log, keys) :
           /\ Newest(log, keys) = log[i] /\ log[i] \in Event /\ log[i].key \in keys
           /\ i \in DOMAIN log /\ \A j \in Places(log, keys) : j <= i
<1> DEFINE P == Places(log, keys)
           last == CHOOSE i \in P : \A j \in P : j <= i
<1>1. P \in SUBSET (0..Len(log)) /\ Len(log) \in Nat /\ P # {}
  BY DEF Places
<1>2. last \in P /\ \A j \in P : j <= last
  <2>1. \E i \in P : \A j \in P : j <= i
    <3> HIDE DEF P
    <3> QED BY <1>1, GreatestIn
  <2> HIDE DEF P
  <2> QED BY <2>1
<1>3. Newest(log, keys) = log[last]
  BY DEF Newest
<1>4. log[last] \in Event /\ log[last].key \in keys /\ last \in DOMAIN log
  BY <1>2 DEF Places
<1> HIDE DEF last
<1> QED BY <1>2, <1>3, <1>4

LEMMA NewestIsAt ==
  ASSUME NEW log \in Seq(Event), NEW keys, NEW i \in Places(log, keys),
         \A j \in Places(log, keys) : j <= i
  PROVE  Newest(log, keys) = log[i]
<1>1. PICK k \in Places(log, keys) :
        Newest(log, keys) = log[k] /\ \A j \in Places(log, keys) : j <= k
  BY NewestIs
<1>2. i \in Nat /\ k \in Nat
  BY DEF Places
<1> QED BY <1>1, <1>2

LEMMA NewestType ==
  ASSUME NEW log \in Seq(Event), NEW keys
  PROVE  /\ Newest(log, keys) = Nobody <=> Places(log, keys) = {}
         /\ Newest(log, keys) # Nobody => Newest(log, keys) \in Event /\ Newest(log, keys).key \in keys
BY NewestIs, NobodyAssumption DEF Newest

\* What is sent is the end of the journal, with its last event.
LEMMA SentIs ==
  ASSUME NEW log \in Seq(Event)
  PROVE  /\ Sent(log) \in Seq(Event)
         /\ \E d \in Nat : /\ d <= Len(log) /\ Len(Sent(log)) = Len(log) - d
                           /\ log # <<>> => d < Len(log)
                           /\ \A i \in 1..(Len(log) - d) : Sent(log)[i] = log[i + d]
<1>1. CASE Len(log) > Window
  <2> DEFINE d == Len(log) - Window
  <2>1. Sent(log) = SubSeq(log, d + 1, Len(log))
    BY <1>1, JournalAssumption DEF Sent, Recent
  <2>2. d \in Nat /\ d < Len(log)
    BY <1>1, JournalAssumption
  <2> HIDE DEF d
  <2>3. /\ SubSeq(log, d + 1, Len(log)) \in Seq(Event)
        /\ Len(SubSeq(log, d + 1, Len(log))) = Len(log) - d
        /\ \A i \in 1..(Len(log) - d) : SubSeq(log, d + 1, Len(log))[i] = log[i + d]
    BY <2>2
  <2> QED BY <2>1, <2>2, <2>3
<1>2. CASE ~(Len(log) > Window)
  BY <1>2 DEF Sent
<1> QED BY <1>1, <1>2

\* The newest event of some kinds is the one just logged, the one it was before,
\* or none, when that one is no longer sent.
LEMMA NewestAfter ==
  ASSUME NEW log \in Seq(Event), NEW e \in Event, NEW keys
  PROVE  LET t == Sent(Append(log, e))
         IN  /\ t \in Seq(Event)
             /\ e.key \in keys => Newest(t, keys) = e
             /\ e.key \notin keys => Newest(t, keys) \in {Nobody, Newest(log, keys)}
<1> DEFINE l == Append(log, e)
           t == Sent(l)
<1>1. l \in Seq(Event) /\ Len(l) = Len(log) + 1 /\ l # <<>> /\ l[Len(log) + 1] = e
      /\ Len(log) \in Nat /\ \A i \in 1..Len(log) : l[i] = log[i]
  OBVIOUS
<1> HIDE DEF l
<1>2. t \in Seq(Event)
  BY <1>1, SentIs
<1>3. PICK d \in Nat : /\ d < Len(l) /\ Len(t) = Len(l) - d
                       /\ \A i \in 1..(Len(l) - d) : t[i] = l[i + d]
  BY <1>1, SentIs
<1> HIDE DEF t
<1>4. Len(t) \in 1..Len(t) /\ t[Len(t)] = e /\ DOMAIN t = 1..Len(t) /\ Len(t) \in Nat
  BY <1>1, <1>2, <1>3
<1>5. e.key \in keys => Newest(t, keys) = e
  <2> SUFFICES ASSUME e.key \in keys PROVE Newest(t, keys) = e
    OBVIOUS
  <2>1. Len(t) \in Places(t, keys) /\ \A j \in Places(t, keys) : j <= Len(t)
    BY <1>4 DEF Places
  <2> QED BY <1>2, <1>4, <2>1, NewestIsAt
<1>6. ASSUME e.key \notin keys, Places(t, keys) # {}
      PROVE  Newest(t, keys) = Newest(log, keys)
  <2>1. PICK i \in Places(t, keys) :
          Newest(t, keys) = t[i] /\ \A j \in Places(t, keys) : j <= i
    BY <1>2, <1>6, NewestIs
  <2>2. i \in 1..Len(t) /\ t[i].key \in keys
    BY <1>4, <2>1, SMTT(30) DEF Places
  <2>3. i # Len(t)
    BY <1>4, <1>6, <2>2
  <2>4. i + d \in 1..Len(log) /\ t[i] = log[i + d]
    BY <1>1, <1>3, <2>2, <2>3
  <2>5. i + d \in Places(log, keys)
    BY <2>2, <2>4 DEF Places
  <2>6. ASSUME NEW j \in Places(log, keys)
        PROVE  j <= i + d
    <3>1. j \in 1..Len(log) /\ log[j].key \in keys
      BY DEF Places
    <3>2. CASE j > d
      <4>1. j - d \in 1..Len(t) /\ t[j - d] = log[j]
        BY <1>1, <1>3, <3>1, <3>2
      <4>2. j - d \in Places(t, keys)
        BY <1>4, <3>1, <4>1 DEF Places
      <4> QED BY <2>1, <2>2, <3>1, <4>2
    <3> QED BY <2>2, <3>1, <3>2
  <2> QED BY <2>1, <2>4, <2>5, <2>6, NewestIsAt
<1>7. Places(t, keys) = {} => Newest(t, keys) = Nobody
  BY DEF Newest
<1> QED BY <1>2, <1>5, <1>6, <1>7 DEF t, l

----------------------------------------------------------------------------
(* The room.                                                               *)

\* The fields of a room; the plays of the cycle are read by no property here.
Shaped(r) ==
  r = [log |-> r.log, plays |-> r.plays, players |-> r.players, losses |-> r.losses,
       phase |-> r.phase, rules |-> r.rules, pending |-> r.pending, open |-> r.open, n |-> r.n,
       away |-> r.away]

\* Events are numbered in their order.
Numbered(log, n) ==
  /\ \A i \in DOMAIN log : log[i].n <= n
  /\ \A i, j \in DOMAIN log : i < j => log[i].n < log[j].n

RoomOK(r) ==
  /\ Shaped(r) /\ r.log \in Seq(Event) /\ r.n \in Nat /\ Numbered(r.log, r.n)
  /\ r.players \subseteq Player /\ r.losses \in [Player -> 0..1]
  /\ r.rules \in [Field -> Value] /\ r.pending \in [Field -> Value \cup {Unset}]

SameRest(r, h) ==
  /\ h.players = r.players /\ h.losses = r.losses
  /\ h.rules = r.rules /\ h.pending = r.pending

\* h is r with one more event.
Adds(r, h, e) ==
  /\ e \in Event /\ e.n = r.n + 1 /\ h.n = e.n /\ h.log = Sent(Append(r.log, e))

LEMMA NumberedSent ==
  ASSUME NEW log \in Seq(Event), NEW n \in Nat, Numbered(log, n), NEW e \in Event, e.n = n + 1
  PROVE  Numbered(Sent(Append(log, e)), n + 1)
<1> DEFINE l == Append(log, e)
<1>1. l \in Seq(Event) /\ Len(l) = Len(log) + 1 /\ l # <<>> /\ l[Len(log) + 1] = e
      /\ Len(log) \in Nat /\ DOMAIN l = 1..(Len(log) + 1) /\ DOMAIN log = 1..Len(log)
      /\ \A i \in 1..Len(log) : l[i] = log[i]
  BY ListedSeq, ListedAppend
<1> HIDE DEF l
<1>2. \A i \in DOMAIN log : log[i] \in Event /\ log[i].n \in Nat
  BY EventAt
<1>3. Numbered(l, n + 1)
  <2>1. ASSUME NEW i \in DOMAIN l
        PROVE  l[i].n <= n + 1
    <3>1. CASE i \in DOMAIN log
      BY <1>1, <1>2, <3>1 DEF Numbered
    <3>2. CASE i = Len(log) + 1
      BY <1>1, <3>2
    <3> QED BY <1>1, <3>1, <3>2
  <2>2. ASSUME NEW i \in DOMAIN l, NEW j \in DOMAIN l, i < j
        PROVE  l[i].n < l[j].n
    <3>1. i \in DOMAIN log
      BY <1>1, <2>2
    <3>2. l[i] = log[i] /\ log[i].n \in Nat /\ log[i].n <= n
      BY <1>1, <1>2, <3>1 DEF Numbered
    <3>3. CASE j \in DOMAIN log
      <4>1. l[j] = log[j] /\ log[i].n < log[j].n
        BY <1>1, <2>2, <3>1, <3>3 DEF Numbered
      <4> QED BY <3>2, <4>1
    <3>4. CASE j = Len(log) + 1
      BY <1>1, <3>2, <3>4
    <3> QED BY <1>1, <3>3, <3>4
  <2> QED BY <2>1, <2>2 DEF Numbered
<1>4. PICK d \in Nat : /\ d <= Len(l) /\ Len(Sent(l)) = Len(l) - d
                       /\ \A i \in 1..(Len(l) - d) : Sent(l)[i] = l[i + d]
  BY <1>1, SentIs
<1>5. Sent(l) \in Seq(Event)
  BY <1>1, SentIs
<1> DEFINE t == Sent(l)
<1>6. DOMAIN t = 1..(Len(l) - d) /\ Len(l) \in Nat
  BY <1>1, <1>4, <1>5
<1> HIDE DEF t
<1>7. \A i \in DOMAIN t : i \in Nat /\ i + d \in DOMAIN l /\ t[i] = l[i + d]
  BY <1>1, <1>4, <1>6 DEF t
<1>8. \A i, j \in DOMAIN t : i < j => i + d < j + d
  BY <1>7
<1> QED BY <1>3, <1>7, <1>8 DEF Numbered, t, l

LEMMA LoggedIs ==
  ASSUME NEW r, RoomOK(r), NEW key \in Key, NEW p \in Player, NEW count \in 0..2
  PROVE  LET h == Logged(r, key, p, count)
             e == [key |-> key, name |-> p, count |-> count, n |-> r.n + 1]
         IN  /\ Adds(r, h, e) /\ RoomOK(h) /\ SameRest(r, h)
             /\ e.key = key /\ e.name = p /\ e.count = count
<1> DEFINE h == Logged(r, key, p, count)
           e == [key |-> key, name |-> p, count |-> count, n |-> r.n + 1]
<1>1. e \in Event /\ e.n = r.n + 1 /\ e.key = key /\ e.name = p /\ e.count = count
  BY DEF RoomOK, Event
<1>2. h = [r EXCEPT !.n = r.n + 1, !.log = Sent(Append(r.log, e))]
  BY DEF Logged
<1> HIDE DEF e, h
<1>3. /\ Shaped(h) /\ h.n = r.n + 1 /\ h.log = Sent(Append(r.log, e)) /\ SameRest(r, h)
  BY <1>2 DEF RoomOK, Shaped, SameRest
<1>4. h.log \in Seq(Event) /\ Numbered(h.log, h.n)
  BY <1>1, <1>3, NewestAfter, NumberedSent DEF RoomOK
<1>5. RoomOK(h)
  BY <1>3, <1>4 DEF RoomOK, SameRest
<1> QED BY <1>1, <1>3, <1>5 DEF Adds, h, e

LEMMA KeyNames ==
  /\ "turn" \in Key /\ "afk_turn" \in Key /\ "takeover" \in Key /\ "handback" \in Key
  /\ "return" \in Key /\ "evicted" \in Key /\ "match_lost" \in Key /\ 0 \in 0..2
BY DEF Key

----------------------------------------------------------------------------
(* What a handler of the server does to the room and sends.                *)

\* The rule in force or, when one is queued, the one queued.
SameRules(r, h) == \A f \in Field : Effective(h, f) = Effective(r, f)

\* The journal stays, gets one event that is no lost match, or loses its last
\* one, which is none either.
TellsNoLoss(r, h) ==
  /\ h.losses = r.losses
  /\ \/ h.log = r.log
     \/ \E e : Adds(r, h, e) /\ e.key # "match_lost"
     \/ r.log # <<>> /\ Last(r.log).key # "match_lost" /\ h.log = Front(r.log)
\* A match is lost and counted.
TellsLoss(r, h) ==
  \E e : /\ Adds(r, h, e) /\ e.key = "match_lost" /\ e.count = r.losses[e.name] + 1
         /\ h.losses = IF e.count = 2 THEN [p \in Player |-> 0]
                       ELSE [r.losses EXCEPT ![e.name] = 1]
\* One of these, after another event when the bot takes over and plays.
Tells(r, h) ==
  \E mid : RoomOK(mid) /\ TellsNoLoss(r, mid) /\ (TellsNoLoss(mid, h) \/ TellsLoss(mid, h))

NoticeTypes == {"kicked", "room_dissolved", "eviction_warning", "player_evicted_afk", "close"}

\* A notice about nobody's eviction, or about one that has left the room h.
Notice(m, h) ==
  /\ m.type \in NoticeTypes
  /\ m.type = "player_evicted_afk" => (m.player = Me => Me \notin h.players)

\* From room r to room h with these messages.
Serves(r, h, msgs) ==
  /\ RoomOK(h) /\ Me \in r.players /\ h.players \subseteq r.players
  /\ SameRules(r, h) /\ Tells(r, h)
  /\ \/ msgs = <<>> /\ TellsNoLoss(r, h)
     \/ msgs = <<StateMsg(h)>>
     \/ \E m : Notice(m, h) /\ msgs = <<m, StateMsg(h)>>
     \/ /\ h.log = r.log /\ h.losses = r.losses
        /\ \E m : Notice(m, h) /\ msgs = <<m>>
     \/ /\ h.log = r.log /\ h.losses = r.losses
        /\ \E m, o : Notice(m, h) /\ Notice(o, h) /\ o.type = "close" /\ msgs = <<m, o>>

LEMMA TellsAtOnce ==
  ASSUME NEW r, RoomOK(r), NEW h, TellsNoLoss(r, h) \/ TellsLoss(r, h)
  PROVE  Tells(r, h)
BY DEF Tells, TellsNoLoss

\* A room whose journal, losses and rules stay, and whose players may go.
LEMMA QuietRoom ==
  ASSUME NEW r, RoomOK(r), NEW h, Shaped(h), h.log = r.log, h.n \in Nat, h.n >= r.n,
         h.players \subseteq r.players, h.losses = r.losses, h.rules = r.rules,
         h.pending = r.pending
  PROVE  RoomOK(h) /\ SameRules(r, h) /\ Tells(r, h)
<1>1. \A i \in DOMAIN r.log : r.log[i].n \in Nat
  BY EventAt DEF RoomOK
<1>2. Numbered(h.log, h.n)
  BY <1>1 DEF RoomOK, Numbered
<1>3. TellsNoLoss(r, h)
  BY DEF TellsNoLoss
<1> QED BY <1>2, <1>3, TellsAtOnce DEF RoomOK, SameRules, Effective

\* One event that is no lost match.
LEMMA EventServes ==
  ASSUME RoomOK(room), NEW kind, Running(kind),
         NEW key \in Key \ {"match_lost"}, NEW p \in Player,
         NEW h, Shaped(h), h.log = Logged(room, key, p, 0).log, h.n = Logged(room, key, p, 0).n,
         h.players \subseteq room.players, h.losses = room.losses, h.rules = room.rules,
         h.pending = room.pending
  PROVE  /\ RoomOK(h) /\ Me \in room.players /\ h.players \subseteq room.players
         /\ SameRules(room, h) /\ Tells(room, h)
<1> DEFINE l == Logged(room, key, p, 0)
           e == [key |-> key, name |-> p, count |-> 0, n |-> room.n + 1]
<1>1. Adds(room, l, e) /\ RoomOK(l) /\ e.key = key
  BY LoggedIs, KeyNames
<1> HIDE DEF l, e
<1>2. h.log = l.log /\ h.n = l.n
  BY DEF l
<1>3. RoomOK(h)
  BY <1>1, <1>2 DEF RoomOK
<1>4. TellsNoLoss(room, h)
  BY <1>1, <1>2 DEF TellsNoLoss, Adds
<1> QED BY <1>3, <1>4, TellsAtOnce DEF Running, SameRules, Effective

\* Scheduling the next player touches nothing but who is away.
LEMMA ScheduledIs ==
  ASSUME NEW h, RoomOK(h), NEW s \in Scheduled(h)
  PROVE  /\ RoomOK(s) /\ s.log = h.log /\ s.n = h.n /\ SameRest(h, s)
         /\ StateMsg(s) = StateMsg(h)
<1>1. CASE s = h
  BY <1>1 DEF SameRest
<1>2. ASSUME NEW q \in Player, s = [h EXCEPT !.away = @ \ {q}]
      PROVE  /\ RoomOK(s) /\ s.log = h.log /\ s.n = h.n /\ SameRest(h, s)
             /\ StateMsg(s) = StateMsg(h)
  <2>1. /\ Shaped(s) /\ s.log = h.log /\ s.n = h.n /\ SameRest(h, s)
        /\ s.plays = h.plays /\ s.phase = h.phase
    BY <1>2 DEF RoomOK, Shaped, SameRest
  <2>2. RoomOK(s)
    BY <2>1 DEF RoomOK, SameRest
  <2>3. StateMsg(s) = StateMsg(h)
    BY <2>1 DEF StateMsg, StateOf, SameRest
  <2> QED BY <2>1, <2>2, <2>3
<1> QED BY <1>1, <1>2 DEF Scheduled

LEMMA ScheduledServes ==
  ASSUME NEW r, NEW h, NEW msgs, Serves(r, h, msgs), NEW s \in Scheduled(h)
  PROVE  Serves(r, s, msgs)
<1>1. /\ RoomOK(s) /\ s.log = h.log /\ s.n = h.n /\ SameRest(h, s)
      /\ StateMsg(s) = StateMsg(h)
  BY ScheduledIs DEF Serves
<1>2. s.players = h.players /\ s.losses = h.losses /\ SameRules(r, s)
  BY <1>1 DEF SameRest, SameRules, Effective, Serves
<1>3. \A m : Notice(m, h) => Notice(m, s)
  BY <1>2 DEF Notice
<1>4. \A t : (TellsNoLoss(t, h) => TellsNoLoss(t, s)) /\ (TellsLoss(t, h) => TellsLoss(t, s))
  BY <1>1, <1>2 DEF TellsNoLoss, TellsLoss, Adds
<1>5. Tells(r, s)
  BY <1>4 DEF Tells, Serves
<1> QED BY <1>1, <1>2, <1>3, <1>4, <1>5 DEF Serves

\* The journal without its last event.
LEMMA FrontIs ==
  ASSUME NEW log \in Seq(Event), log # <<>>
  PROVE  /\ Front(log) \in Seq(Event) /\ Len(log) \in Nat \ {0} /\ Last(log) = log[Len(log)]
         /\ DOMAIN log = 1..Len(log) /\ DOMAIN Front(log) = 1..(Len(log) - 1)
         /\ \A i \in 1..(Len(log) - 1) : Front(log)[i] = log[i]
BY DEF Front, Last

LEMMA FrontNumbered ==
  ASSUME NEW log \in Seq(Event), log # <<>>, NEW n \in Nat, Numbered(log, n)
  PROVE  Numbered(Front(log), n)
<1> DEFINE f == Front(log)
<1>1. /\ Len(log) \in Nat /\ DOMAIN log = 1..Len(log) /\ DOMAIN f = 1..(Len(log) - 1)
      /\ \A i \in 1..(Len(log) - 1) : f[i] = log[i]
  BY FrontIs
<1> HIDE DEF f
<1>2. \A i \in DOMAIN f : i \in DOMAIN log /\ f[i] = log[i]
  BY <1>1
<1>3. Numbered(f, n)
  BY <1>2 DEF Numbered
<1> QED BY <1>3 DEF f

LEMMA TurnServes ==
  ASSUME RoomOK(room), NEW p \in Player, ServerTurn(p)
  PROVE  Serves(room, room', <<StateMsg(room')>>) /\ inbox' = inbox \o <<StateMsg(room')>>
<1> DEFINE l == Logged(room, "turn", p, 0)
<1>1. Running("play") /\ room' = [l EXCEPT !.plays = Append(@, p)]
      /\ inbox' = inbox \o <<StateMsg(room')>>
  BY DEF ServerTurn, Send
<1>2. RoomOK(l) /\ SameRest(room, l)
  BY LoggedIs, KeyNames
<1> HIDE DEF l
<1>3. Shaped(room') /\ room'.log = l.log /\ room'.n = l.n /\ SameRest(room, room')
  BY <1>1, <1>2 DEF RoomOK, Shaped, SameRest
<1>4. /\ RoomOK(room') /\ Me \in room.players /\ room'.players \subseteq room.players
      /\ SameRules(room, room') /\ Tells(room, room')
  BY <1>1, <1>3, KeyNames, EventServes DEF SameRest, l
<1> QED BY <1>1, <1>4 DEF Serves

LEMMA HandbackServes ==
  ASSUME RoomOK(room), NEW p \in Player, ServerHandback(p)
  PROVE  Serves(room, room', <<StateMsg(room')>>) /\ inbox' = inbox \o <<StateMsg(room')>>
<1> DEFINE cut == IF Last(room.log).key = "return" THEN Front(room.log) ELSE room.log
           kept == [room EXCEPT !.log = cut]
           l == Logged(kept, "handback", p, 0)
           e == [key |-> "handback", name |-> p, count |-> 0, n |-> kept.n + 1]
<1>1. /\ Running("absence") /\ room.log # <<>>
      /\ room' = [l EXCEPT !.plays = Front(@), !.away = @ \ {p}]
      /\ inbox' = inbox \o <<StateMsg(room')>>
  BY DEF ServerHandback, Send
<1>2. cut \in Seq(Event) /\ Numbered(cut, room.n)
  BY <1>1, FrontIs, FrontNumbered DEF RoomOK
<1>3. \/ cut = room.log
      \/ room.log # <<>> /\ Last(room.log).key # "match_lost" /\ cut = Front(room.log)
  <2>1. CASE Last(room.log).key = "return"
    <3>1. Last(room.log).key # "match_lost" /\ cut = Front(room.log)
      BY <2>1
    <3> QED BY <1>1, <3>1
  <2>2. CASE Last(room.log).key # "return"
    BY <2>2
  <2> QED BY <2>1, <2>2
<1> HIDE DEF cut
<1>4. Shaped(kept) /\ kept.log = cut /\ kept.n = room.n /\ SameRest(room, kept)
  BY DEF RoomOK, Shaped, SameRest
<1>5. RoomOK(kept) /\ TellsNoLoss(room, kept)
  BY <1>2, <1>3, <1>4 DEF RoomOK, SameRest, TellsNoLoss
<1> HIDE DEF kept
<1>6. RoomOK(l) /\ SameRest(kept, l) /\ Adds(kept, l, e) /\ e.key = "handback"
  BY <1>5, LoggedIs, KeyNames
<1> HIDE DEF l, e
<1>7. Shaped(room') /\ room'.log = l.log /\ room'.n = l.n /\ SameRest(l, room')
  BY <1>1, <1>6 DEF RoomOK, Shaped, SameRest
<1>8. RoomOK(room') /\ TellsNoLoss(kept, room')
  BY <1>6, <1>7 DEF RoomOK, SameRest, TellsNoLoss, Adds
<1>9. SameRules(room, room') /\ room'.players = room.players
  BY <1>4, <1>6, <1>7 DEF SameRest, SameRules, Effective
<1> QED BY <1>1, <1>5, <1>8, <1>9 DEF Serves, Tells, Running

\* A player is back: the return is logged, and a state is sent or none.
LEMMA ReturnServes ==
  ASSUME RoomOK(room), NEW p \in Player, ServerReturn(p)
  PROVE  \E msgs : Serves(room, room', msgs) /\ inbox' = inbox \o msgs
<1> DEFINE l == Logged(room, "return", p, 0)
           e == [key |-> "return", name |-> p, count |-> 0, n |-> room.n + 1]
<1>1. /\ Running("absence") /\ room' = [l EXCEPT !.away = @ \ {p}]
      /\ inbox' = inbox \o <<StateMsg(room')>> \/ inbox' = inbox \o <<>>
  BY DEF ServerReturn, Send
<1>2. RoomOK(l) /\ SameRest(room, l) /\ Adds(room, l, e) /\ e.key = "return"
  BY LoggedIs, KeyNames
<1> HIDE DEF l, e
<1>3. Shaped(room') /\ room'.log = l.log /\ room'.n = l.n /\ SameRest(room, room')
  BY <1>1, <1>2 DEF RoomOK, Shaped, SameRest
<1>4. RoomOK(room') /\ TellsNoLoss(room, room')
  BY <1>2, <1>3 DEF RoomOK, SameRest, TellsNoLoss, Adds
<1>5. /\ Me \in room.players /\ room'.players \subseteq room.players
      /\ SameRules(room, room') /\ Tells(room, room')
  BY <1>1, <1>3, <1>4, TellsAtOnce DEF SameRest, SameRules, Effective, Running
<1>6. Serves(room, room', <<StateMsg(room')>>) /\ Serves(room, room', <<>>)
  BY <1>4, <1>5 DEF Serves
<1> QED BY <1>1, <1>6

LEMMA BotTurnServes ==
  ASSUME RoomOK(room), NEW p \in Player, ServerBotTurn(p)
  PROVE  Serves(room, room', <<StateMsg(room')>>) /\ inbox' = inbox \o <<StateMsg(room')>>
<1> DEFINE mid == Logged(room, "takeover", p, 0)
           l == Logged(mid, "afk_turn", p, 0)
           d == [key |-> "takeover", name |-> p, count |-> 0, n |-> room.n + 1]
           e == [key |-> "afk_turn", name |-> p, count |-> 0, n |-> mid.n + 1]
<1>1. /\ Running("absence") /\ inbox' = inbox \o <<StateMsg(room')>>
      /\ room' = [l EXCEPT !.plays = Append(@, p), !.away = @ \cup {p}]
  BY DEF ServerBotTurn, Send
<1>2. RoomOK(mid) /\ SameRest(room, mid) /\ Adds(room, mid, d) /\ d.key = "takeover"
  BY LoggedIs, KeyNames
<1> HIDE DEF mid, d
<1>3. RoomOK(l) /\ SameRest(mid, l) /\ Adds(mid, l, e) /\ e.key = "afk_turn"
  BY <1>2, LoggedIs, KeyNames
<1> HIDE DEF l, e
<1>4. Shaped(room') /\ room'.log = l.log /\ room'.n = l.n /\ SameRest(l, room')
  BY <1>1, <1>3 DEF RoomOK, Shaped, SameRest
<1>5. RoomOK(room')
  BY <1>3, <1>4 DEF RoomOK, SameRest
<1>6. TellsNoLoss(room, mid) /\ TellsNoLoss(mid, room')
  BY <1>2, <1>3, <1>4 DEF TellsNoLoss, SameRest, Adds
<1>7. SameRules(room, room') /\ room'.players = room.players
  BY <1>2, <1>3, <1>4 DEF SameRest, SameRules, Effective
<1> QED BY <1>1, <1>2, <1>5, <1>6, <1>7 DEF Serves, Tells, Running

\* The end of a cycle; a second lost match puts the queued rules in force.
LEMMA CycleServes ==
  ASSUME RoomOK(room), NEW p \in Player, ServerCycle(p)
  PROVE  Serves(room, room', <<StateMsg(room')>>) /\ inbox' = inbox \o <<StateMsg(room')>>
<1> DEFINE count == room.losses[p] + 1
           settled == [room EXCEPT !.plays = <<>>]
           l == Logged(settled, "match_lost", p, count)
           e == [key |-> "match_lost", name |-> p, count |-> count, n |-> settled.n + 1]
           los == IF count = 2 THEN [q \in Player |-> 0] ELSE [room.losses EXCEPT ![p] = 1]
           rules == IF count = 2
                    THEN [f \in Field |-> IF room.pending[f] = Unset THEN room.rules[f]
                                          ELSE room.pending[f]]
                    ELSE room.rules
           pending == IF count = 2 THEN [f \in Field |-> Unset] ELSE room.pending
<1>1. Shaped(settled) /\ settled.log = room.log /\ settled.n = room.n /\ SameRest(room, settled)
  BY DEF RoomOK, Shaped, SameRest
<1>2. RoomOK(settled)
  BY <1>1 DEF RoomOK, SameRest
<1>3. count \in 0..2
  BY DEF RoomOK
<1>4. RoomOK(l) /\ SameRest(settled, l) /\ Adds(settled, l, e) /\ e.key = "match_lost"
      /\ e.name = p /\ e.count = count
  <2> HIDE DEF settled, count
  <2> QED BY <1>2, <1>3, LoggedIs, KeyNames
<1>5. PICK h :
      /\ Running("play") /\ room' \in Scheduled(h) /\ inbox' = inbox \o <<StateMsg(room')>>
      /\ h = settled \/ h = [l EXCEPT !.losses = IF count = 2 THEN [q \in Player |-> 0]
                                                       ELSE [@ EXCEPT ![p] = 1],
                                    !.rules = IF count = 2
                                              THEN [f \in Field |-> IF room.pending[f] = Unset
                                                                    THEN @[f] ELSE room.pending[f]]
                                              ELSE @,
                                    !.pending = IF count = 2 THEN [f \in Field |-> Unset] ELSE @]
  BY DEF ServerCycle, Send
<1>6. l.losses = room.losses /\ l.rules = room.rules /\ l.pending = room.pending
      /\ l.players = room.players
  BY <1>1, <1>4 DEF SameRest
<1>7. Adds(room, l, e)
  BY <1>1, <1>4 DEF Adds
<1>8. ASSUME h = settled PROVE Serves(room, h, <<StateMsg(h)>>)
  <2>1. RoomOK(h) /\ SameRules(room, h) /\ Tells(room, h)
    <3>1. room.n \in Nat /\ settled.n >= room.n
      BY <1>1 DEF RoomOK
    <3> HIDE DEF settled
    <3> QED BY <1>1, <1>8, <3>1, QuietRoom DEF SameRest
  <2> QED BY <1>1, <1>5, <1>8, <2>1 DEF Serves, SameRest, Running
<1> HIDE DEF settled, e
<1>9. ASSUME h = [l EXCEPT !.losses = los, !.rules = rules, !.pending = pending]
      PROVE  Serves(room, h, <<StateMsg(h)>>)
  <2> HIDE DEF l, count, los, rules, pending
  <2>1. /\ Shaped(h) /\ h.log = l.log /\ h.n = l.n /\ h.players = room.players
        /\ h.losses = los /\ h.rules = rules /\ h.pending = pending
    BY <1>4, <1>6, <1>9 DEF RoomOK, Shaped
  <2>2. /\ los \in [Player -> 0..1] /\ rules \in [Field -> Value]
        /\ pending \in [Field -> Value \cup {Unset}]
    BY DEF RoomOK, los, rules, pending
  <2>3. RoomOK(h)
    BY <1>4, <2>1, <2>2 DEF RoomOK
  <2>4. SameRules(room, h)
    BY <2>1 DEF SameRules, Effective, rules, pending, RoomOK
  <2>5. TellsLoss(room, h)
    BY <1>4, <1>7, <2>1 DEF TellsLoss, Adds, los, count
  <2> QED BY <1>5, <2>1, <2>3, <2>4, <2>5, TellsAtOnce DEF Serves, Running
<1>10. Serves(room, h, <<StateMsg(h)>>)
  BY <1>5, <1>6, <1>8, <1>9
<1>11. StateMsg(room') = StateMsg(h)
  BY <1>5, <1>10, ScheduledIs DEF Serves
<1> QED BY <1>5, <1>10, <1>11, ScheduledServes

LEMMA TiebreakServes ==
  ASSUME RoomOK(room), ServerTiebreak
  PROVE  Serves(room, room', <<StateMsg(room')>>) /\ inbox' = inbox \o <<StateMsg(room')>>
<1>1. PICK h :
        /\ Running("tiebreak") /\ room' \in Scheduled(h)
        /\ inbox' = inbox \o <<StateMsg(room')>>
        /\ h = [room EXCEPT !.phase = IF InPlay THEN "tiebreak" ELSE "charge", !.n = @ + 1]
  BY DEF ServerTiebreak, Send
<1>2. /\ Shaped(h) /\ h.log = room.log /\ h.n = room.n + 1 /\ SameRest(room, h)
      /\ room.n \in Nat
  BY <1>1 DEF RoomOK, Shaped, SameRest
<1>3. RoomOK(h) /\ SameRules(room, h) /\ Tells(room, h)
  BY <1>2, QuietRoom DEF SameRest
<1>4. Serves(room, h, <<StateMsg(h)>>)
  BY <1>1, <1>2, <1>3 DEF Serves, SameRest, Running
<1>5. StateMsg(room') = StateMsg(h)
  BY <1>1, <1>3, ScheduledIs
<1> QED BY <1>1, <1>4, <1>5, ScheduledServes

\* A turn is advanced.
LEMMA AdvancesServes ==
  ASSUME RoomOK(room), ServerAdvances
  PROVE  Serves(room, room', <<StateMsg(room')>>) /\ inbox' = inbox \o <<StateMsg(room')>>
<1>1. /\ Running("absence") /\ room' \in Scheduled(room)
      /\ inbox' = inbox \o <<StateMsg(room')>>
  BY DEF ServerAdvances, Send
<1>2. Tells(room, room)
  BY TellsAtOnce DEF TellsNoLoss
<1>3. Serves(room, room, <<StateMsg(room)>>)
  BY <1>1, <1>2 DEF Serves, SameRules, Running
<1>4. StateMsg(room') = StateMsg(room)
  BY <1>1, ScheduledIs
<1> QED BY <1>1, <1>3, <1>4, ScheduledServes

\* Some player goes, and may be logged as evicted.
LEMMA GoneIs ==
  ASSUME RoomOK(room), NEW kind, Running(kind), NEW p \in Player, NEW h, Shaped(h),
         h.players = room.players \ {p}, h.losses = room.losses, h.rules = room.rules,
         h.pending = room.pending,
         \/ h.log = room.log /\ h.n = room.n + 1
         \/ h.log = Logged(room, "evicted", p, 0).log /\ h.n = Logged(room, "evicted", p, 0).n
  PROVE  /\ RoomOK(h) /\ Me \in room.players /\ h.players \subseteq room.players
         /\ SameRules(room, h) /\ Tells(room, h)
<1>1. CASE h.log = room.log /\ h.n = room.n + 1
  <2>1. room.n \in Nat
    BY DEF RoomOK
  <2>2. RoomOK(h) /\ SameRules(room, h) /\ Tells(room, h)
    BY <1>1, <2>1, QuietRoom
  <2> QED BY <2>2 DEF Running
<1>2. CASE h.log = Logged(room, "evicted", p, 0).log /\ h.n = Logged(room, "evicted", p, 0).n
  <2>1. h.players \subseteq room.players
    OBVIOUS
  <2>2. "evicted" \in Key \ {"match_lost"}
    BY DEF Key
  <2> QED BY <1>2, <2>1, <2>2, EventServes
<1> QED BY <1>1, <1>2

LEMMA GoesServes ==
  ASSUME RoomOK(room), NEW p \in Player, NEW e \in BOOLEAN, ServerGoes(p, e)
  PROVE  \E msgs : Serves(room, room', msgs) /\ inbox' = inbox \o msgs
<1> DEFINE m == NoteMsg("player_evicted_afk", p)
<1>1. PICK left, gone, h :
        /\ Running("goes") /\ p # Me
        /\ gone = [room EXCEPT !.players = @ \ {p}, !.n = @ + 1, !.plays = left,
                                !.away = @ \ {p}]
        /\ h = IF e THEN Logged(gone, "evicted", p, 0) ELSE gone
        /\ room' \in Scheduled(h)
        /\ inbox' = inbox \o ((IF e THEN <<m>> ELSE <<>>) \o <<StateMsg(room')>>)
  BY DEF ServerGoes, Send
<1> DEFINE l == Logged(gone, "evicted", p, 0)
           d == [key |-> "evicted", name |-> p, count |-> 0, n |-> gone.n + 1]
<1>2. Shaped(gone) /\ gone.log = room.log /\ gone.n = room.n + 1
      /\ gone.players = room.players \ {p} /\ gone.losses = room.losses
      /\ gone.rules = room.rules /\ gone.pending = room.pending
  <2>1. gone = [room EXCEPT !.players = @ \ {p}, !.n = @ + 1, !.plays = left, !.away = @ \ {p}]
    BY <1>1
  <2>2. Shaped(gone) /\ gone.log = room.log /\ gone.n = room.n + 1
    BY <2>1 DEF RoomOK, Shaped
  <2>3. gone.players = room.players \ {p} /\ gone.losses = room.losses
    BY <2>1 DEF RoomOK, Shaped
  <2>4. gone.rules = room.rules /\ gone.pending = room.pending
    BY <2>1 DEF RoomOK, Shaped
  <2> QED BY <2>2, <2>3, <2>4
<1>3. /\ RoomOK(gone) /\ Me \in room.players /\ gone.players \subseteq room.players
      /\ SameRules(room, gone) /\ Tells(room, gone)
  BY <1>1, <1>2, GoneIs
<1>4. CASE ~e
  <2>1. h = gone /\ inbox' = inbox \o (<<>> \o <<StateMsg(room')>>)
    BY <1>1, <1>4
  <2>2. inbox' = inbox \o <<StateMsg(room')>>
    BY <2>1
  <2>3. Serves(room, h, <<StateMsg(h)>>)
    BY <1>3, <2>1 DEF Serves
  <2>4. StateMsg(room') = StateMsg(h)
    BY <1>1, <2>3, ScheduledIs DEF Serves
  <2>5. Serves(room, room', <<StateMsg(room')>>)
    BY <1>1, <2>3, <2>4, ScheduledServes
  <2> QED BY <2>2, <2>5
<1>5. CASE e
  <2>1. h = l /\ inbox' = inbox \o (<<m>> \o <<StateMsg(room')>>)
    BY <1>1, <1>5
  <2>2. inbox' = inbox \o <<m, StateMsg(room')>>
    BY <2>1
  <2>3. Adds(gone, l, d) /\ RoomOK(l) /\ SameRest(gone, l) /\ d.key = "evicted"
    BY <1>3, LoggedIs, KeyNames
  <2> HIDE DEF l, d
  <2>4. TellsNoLoss(room, gone) /\ TellsNoLoss(gone, l)
    BY <1>2, <2>3 DEF TellsNoLoss, SameRest
  <2>5. Tells(room, l) /\ SameRules(room, l) /\ l.players = gone.players
    BY <1>2, <1>3, <2>3, <2>4 DEF Tells, SameRules, Effective, SameRest
  <2>6. Notice(m, l)
    BY <1>1 DEF Notice, NoteMsg, NoticeTypes
  <2> HIDE DEF m
  <2>7. Serves(room, h, <<m, StateMsg(h)>>)
    BY <1>3, <2>1, <2>3, <2>5, <2>6 DEF Serves
  <2>8. StateMsg(room') = StateMsg(h)
    BY <1>1, <2>7, ScheduledIs DEF Serves
  <2>9. Serves(room, room', <<m, StateMsg(room')>>)
    BY <1>1, <2>7, <2>8, ScheduledServes
  <2> QED BY <2>2, <2>9
<1> QED BY <1>4, <1>5

\* Notices to this player.
LEMMA WarnServes ==
  ASSUME RoomOK(room), ServerWarns
  PROVE  \E msgs : Serves(room, room', msgs) /\ inbox' = inbox \o msgs
<1> DEFINE m == NoteMsg("eviction_warning", Me)
<1>1. Running("notice") /\ room' = [room EXCEPT !.n = @ + 1] /\ inbox' = inbox \o <<m>>
  BY DEF ServerWarns, Send
<1>2. Shaped(room') /\ room'.log = room.log /\ room'.n = room.n + 1 /\ SameRest(room, room')
      /\ room.n \in Nat
  BY <1>1 DEF RoomOK, Shaped, SameRest
<1>3. RoomOK(room') /\ SameRules(room, room') /\ Tells(room, room')
  BY <1>2, QuietRoom DEF SameRest
<1>4. Notice(m, room')
  BY DEF Notice, NoteMsg, NoticeTypes
<1> HIDE DEF m
<1>5. Serves(room, room', <<m>>)
  BY <1>1, <1>2, <1>3, <1>4 DEF Serves, SameRest, Running
<1> QED BY <1>1, <1>5

LEMMA EvictServes ==
  ASSUME RoomOK(room), ServerEvictsMe
  PROVE  \E msgs : Serves(room, room', msgs) /\ inbox' = inbox \o msgs
<1> DEFINE m == NoteMsg("player_evicted_afk", Me)
           l == Logged(room, "evicted", Me, 0)
<1>1. /\ Running("notice") /\ room' = [l EXCEPT !.players = @ \ {Me}]
      /\ inbox' = inbox \o <<m, StateMsg(room')>>
  BY DEF ServerEvictsMe, Send
<1>2. RoomOK(l) /\ SameRest(room, l)
  BY LoggedIs, KeyNames, TabAssumption
<1> HIDE DEF l
<1>3. /\ Shaped(room') /\ room'.log = l.log /\ room'.n = l.n
      /\ room'.players = room.players \ {Me} /\ room'.losses = room.losses
      /\ room'.rules = room.rules /\ room'.pending = room.pending
  BY <1>1, <1>2 DEF RoomOK, Shaped, SameRest
<1>4. /\ RoomOK(room') /\ Me \in room.players /\ room'.players \subseteq room.players
      /\ SameRules(room, room') /\ Tells(room, room')
  BY <1>1, <1>3, GoneIs, TabAssumption DEF l
<1>5. Notice(m, room')
  BY <1>3 DEF Notice, NoteMsg, NoticeTypes
<1> HIDE DEF m
<1>6. Serves(room, room', <<m, StateMsg(room')>>)
  BY <1>4, <1>5 DEF Serves
<1> QED BY <1>1, <1>6

LEMMA KickServes ==
  ASSUME RoomOK(room), ServerKicksMe
  PROVE  \E msgs : Serves(room, room', msgs) /\ inbox' = inbox \o msgs
<1> DEFINE m == NoteMsg("kicked", Me)
<1>1. /\ Running("notice") /\ room' = [room EXCEPT !.players = @ \ {Me}, !.n = @ + 1]
      /\ inbox' = inbox \o <<m, StateMsg(room')>>
  BY DEF ServerKicksMe, Send
<1>2. /\ Shaped(room') /\ room'.log = room.log /\ room'.n = room.n + 1
      /\ room'.players = room.players \ {Me} /\ room'.losses = room.losses
      /\ room'.rules = room.rules /\ room'.pending = room.pending
  BY <1>1 DEF RoomOK, Shaped
<1>3. /\ RoomOK(room') /\ Me \in room.players /\ room'.players \subseteq room.players
      /\ SameRules(room, room') /\ Tells(room, room')
  BY <1>1, <1>2, GoneIs, TabAssumption
<1>4. Notice(m, room')
  BY DEF Notice, NoteMsg, NoticeTypes
<1> HIDE DEF m
<1>5. Serves(room, room', <<m, StateMsg(room')>>)
  BY <1>3, <1>4 DEF Serves
<1> QED BY <1>1, <1>5

LEMMA CloseServes ==
  ASSUME RoomOK(room), ServerDissolves \/ Drop
  PROVE  \E msgs : Serves(room, room', msgs) /\ inbox' = inbox \o msgs
<1> DEFINE m == NoteMsg("room_dissolved", Me)
           o == NoteMsg("close", Me)
<1>1. /\ Running("notice") /\ room' = [room EXCEPT !.open = FALSE]
      /\ inbox' = inbox \o <<m, o>> \/ inbox' = inbox \o <<o>>
  BY DEF ServerDissolves, Drop, Send
<1>2. Shaped(room') /\ room'.log = room.log /\ room'.n = room.n /\ SameRest(room, room')
      /\ room.n \in Nat
  BY <1>1 DEF RoomOK, Shaped, SameRest
<1>3. RoomOK(room') /\ SameRules(room, room') /\ Tells(room, room')
  BY <1>2, QuietRoom DEF SameRest
<1>4. Notice(m, room') /\ Notice(o, room') /\ o.type = "close"
  BY DEF Notice, NoteMsg, NoticeTypes
<1> HIDE DEF m, o
<1>5. Serves(room, room', <<m, o>>) /\ Serves(room, room', <<o>>)
  BY <1>1, <1>2, <1>3, <1>4 DEF Serves, SameRest, Running
<1> QED BY <1>1, <1>5

\* Every handler.
LEMMA ServerServes ==
  ASSUME RoomOK(room), Server
  PROVE  /\ \E msgs : Serves(room, room', msgs) /\ inbox' = inbox \o msgs
         /\ UNCHANGED serverVars
<1>1. UNCHANGED serverVars
  BY DEF Server, ServerTurn, ServerBotTurn, ServerHandback, ServerCycle, ServerGoes,
         ServerReturn, ServerAdvances, ServerTiebreak, ServerWarns, ServerEvictsMe,
         ServerKicksMe, ServerDissolves, Drop, Send
<1>2. ASSUME NEW p \in Player,
             ServerTurn(p) \/ ServerBotTurn(p) \/ ServerHandback(p) \/ ServerCycle(p)
      PROVE  \E msgs : Serves(room, room', msgs) /\ inbox' = inbox \o msgs
  <2>1. Serves(room, room', <<StateMsg(room')>>) /\ inbox' = inbox \o <<StateMsg(room')>>
    BY <1>2, TurnServes, BotTurnServes, HandbackServes, CycleServes
  <2> QED BY <2>1
<1>3. ASSUME NEW p \in Player, NEW e \in BOOLEAN, ServerGoes(p, e)
      PROVE  \E msgs : Serves(room, room', msgs) /\ inbox' = inbox \o msgs
  BY <1>3, GoesServes
<1>4. ASSUME ServerTiebreak \/ ServerAdvances
      PROVE  \E msgs : Serves(room, room', msgs) /\ inbox' = inbox \o msgs
  <2>1. Serves(room, room', <<StateMsg(room')>>) /\ inbox' = inbox \o <<StateMsg(room')>>
    BY <1>4, TiebreakServes, AdvancesServes
  <2> QED BY <2>1
<1> QED BY <1>1, <1>2, <1>3, <1>4, ReturnServes, WarnServes, EvictServes, KickServes,
           CloseServes, SMTT(30) DEF Server

----------------------------------------------------------------------------
(* What is under way, and what the page holds.                             *)

Ordered(log) == \A i, j \in DOMAIN log : i < j => log[i].n < log[j].n
ViewOK(v) ==
  /\ v.log \in Seq(Event) /\ Ordered(v.log)
  /\ v.rules \in [Field -> Value] /\ v.pending \in [Field -> Value \cup {Unset}]

IsState(m, h) == m.type = "state" /\ m.state = StateOf(h)
MsgOK(m) ==
  \/ m.type = "state" /\ ViewOK(m.state)
  \/ m.type \in NoticeTypes

SaveOK(s) == s.diff \in [Field -> Value \cup {Unset}]
PanelOK ==
  /\ panel = [open |-> panel.open, edit |-> panel.edit, draft |-> panel.draft,
              touched |-> panel.touched, fresh |-> panel.fresh]
  /\ panel.draft \in [Field -> Value]
NotesOK ==
  notes = [connected |-> notes.connected, kicked |-> notes.kicked, dissolved |-> notes.dissolved,
           warned |-> notes.warned, evicted |-> notes.evicted]

InboxOK == Listed(inbox) /\ \A i \in DOMAIN inbox : MsgOK(inbox[i])
PageInv ==
  /\ RoomOK(room) /\ InboxOK /\ ViewOK(view) /\ PanelOK /\ NotesOK
  /\ saves = <<>> \/ \E s : saves = <<s>> /\ SaveOK(s)

LEMMA StateOfRoom ==
  ASSUME NEW r, RoomOK(r)
  PROVE  /\ ViewOK(StateOf(r)) /\ IsState(StateMsg(r), r) /\ MsgOK(StateMsg(r))
         /\ StateOf(r).log = r.log /\ StateOf(r).rules = r.rules /\ StateOf(r).pending = r.pending
BY DEF RoomOK, ViewOK, StateOf, StateMsg, IsState, MsgOK, Numbered, Ordered

\* What a handler adds: states of the room it leaves, and its notices; of two
\* messages one at most is about an eviction.
Grows(h, s, t) ==
  /\ Listed(t) /\ Len(s) \in Nat /\ Len(t) \in Nat /\ Len(t) >= Len(s)
  /\ DOMAIN s = 1..Len(s) /\ DOMAIN t = 1..Len(t)
  /\ \A i \in 1..Len(s) : t[i] = s[i]
  /\ \A i \in DOMAIN t : i > Len(s) => IsState(t[i], h) \/ Notice(t[i], h)
  /\ \A i, j \in DOMAIN t :
       i > Len(s) /\ j > i => ~(t[i].type = "player_evicted_afk" /\ t[j].type = "player_evicted_afk")

LEMMA GrowsOne ==
  ASSUME NEW s, Listed(s), NEW m, NEW h, IsState(m, h) \/ Notice(m, h)
  PROVE  Grows(h, s, s \o <<m>>) /\ Len(s \o <<m>>) = Len(s) + 1 /\ (s \o <<m>>)[Len(s) + 1] = m
<1> DEFINE t == s \o <<m>>
<1>1. t = Append(s, m)
  BY ListedSent
<1> HIDE DEF t
<1>2. /\ Listed(t) /\ Len(s) \in Nat /\ Len(t) = Len(s) + 1 /\ t[Len(t)] = m
      /\ DOMAIN s = 1..Len(s) /\ DOMAIN t = 1..(Len(s) + 1)
      /\ \A i \in 1..Len(s) : t[i] = s[i]
  BY <1>1, ListedAppend
<1>3. \A i \in DOMAIN t : i > Len(s) => i = Len(s) + 1
  BY <1>2
<1>4. Grows(h, s, t) /\ Len(t) = Len(s) + 1 /\ t[Len(s) + 1] = m
  BY <1>2, <1>3 DEF Grows
<1> QED BY <1>4 DEF t

LEMMA GrowsTwo ==
  ASSUME NEW s, Listed(s), NEW m, NEW o, NEW h, IsState(m, h) \/ Notice(m, h),
         IsState(o, h) \/ Notice(o, h), o.type # "player_evicted_afk"
  PROVE  /\ Grows(h, s, s \o <<m, o>>) /\ Len(s \o <<m, o>>) = Len(s) + 2
         /\ (s \o <<m, o>>)[Len(s) + 1] = m /\ (s \o <<m, o>>)[Len(s) + 2] = o
<1> DEFINE u == Append(s, m)
           t == s \o <<m, o>>
<1>1. t = Append(u, o)
  BY ListedSent
<1>2. /\ Listed(u) /\ Len(s) \in Nat /\ Len(u) = Len(s) + 1 /\ u[Len(u)] = m
      /\ DOMAIN s = 1..Len(s) /\ \A i \in 1..Len(s) : u[i] = s[i]
  BY ListedAppend
<1> HIDE DEF u, t
<1>3. /\ Listed(t) /\ Len(t) = Len(u) + 1 /\ t[Len(t)] = o /\ DOMAIN t = 1..(Len(u) + 1)
      /\ \A i \in 1..Len(u) : t[i] = u[i]
  BY <1>1, <1>2, ListedAppend
<1>4. /\ Len(t) = Len(s) + 2 /\ DOMAIN t = 1..Len(t) /\ t[Len(s) + 1] = m /\ t[Len(s) + 2] = o
      /\ \A i \in 1..Len(s) : t[i] = s[i]
  BY <1>2, <1>3
<1>5. \A i \in DOMAIN t : i > Len(s) => i = Len(s) + 1 \/ i = Len(s) + 2
  BY <1>2, <1>4
<1>6. \A i, j \in DOMAIN t : i > Len(s) /\ j > i => j = Len(s) + 2
  BY <1>2, <1>4
<1>7. Grows(h, s, t)
  BY <1>2, <1>3, <1>4, <1>5, <1>6 DEF Grows
<1> QED BY <1>4, <1>7 DEF t

LEMMA ServesGrows ==
  ASSUME NEW r, NEW h, NEW msgs, Serves(r, h, msgs), NEW s, Listed(s)
  PROVE  Grows(h, s, s \o msgs)
<1>1. IsState(StateMsg(h), h) /\ StateMsg(h).type # "player_evicted_afk"
  BY DEF StateMsg, IsState
<1>6. CASE msgs = <<>>
  <2>1. s \o msgs = s /\ Len(s) \in Nat /\ DOMAIN s = 1..Len(s)
    BY <1>6, ListedSent, ListedAppend DEF Listed
  <2> QED BY <2>1 DEF Grows
<1>2. CASE msgs = <<StateMsg(h)>>
  BY <1>1, <1>2, GrowsOne
<1>3. CASE \E m : Notice(m, h) /\ msgs = <<m, StateMsg(h)>>
  BY <1>1, <1>3, GrowsTwo
<1>4. CASE \E m : Notice(m, h) /\ msgs = <<m>>
  BY <1>4, GrowsOne
<1>5. CASE \E m, o : Notice(m, h) /\ Notice(o, h) /\ o.type = "close" /\ msgs = <<m, o>>
  <2>1. PICK m, o : Notice(m, h) /\ Notice(o, h) /\ o.type = "close" /\ msgs = <<m, o>>
    BY <1>5
  <2>2. o.type # "player_evicted_afk"
    BY <2>1
  <2> QED BY <2>1, <2>2, GrowsTwo
<1> QED BY <1>2, <1>3, <1>4, <1>5, <1>6 DEF Serves

\* A save is taken in.
LEMMA SaveServes ==
  ASSUME PageInv, ReceiveSave
  PROVE  /\ RoomOK(room') /\ Grows(room', inbox, inbox') /\ saves' = <<>>
         /\ room'.log = room.log /\ room'.players = room.players /\ room'.rules = room.rules
         /\ room'.losses = room.losses /\ inbox' = Append(inbox, StateMsg(room'))
         /\ room'.pending = [f \in Field |->
              CASE saves[1].diff[f] = Unset -> room.pending[f]
                [] saves[1].diff[f] = room.rules[f] -> Unset
                [] OTHER -> saves[1].diff[f]]
<1>1. PICK s : saves = <<s>> /\ SaveOK(s)
  BY DEF ReceiveSave, PageInv
<1>2. Head(saves) = s /\ saves[1] = s /\ Tail(saves) = <<>>
  BY <1>1
<1> DEFINE pending == [f \in Field |->
              CASE s.diff[f] = Unset -> room.pending[f]
                [] s.diff[f] = room.rules[f] -> Unset
                [] OTHER -> s.diff[f]]
<1>3. /\ room' = [room EXCEPT !.pending = [f \in Field |->
                CASE s.diff[f] = Unset -> @[f]
                  [] s.diff[f] = room.rules[f] -> Unset
                  [] OTHER -> s.diff[f]]]
      /\ inbox' = Append(inbox, StateMsg(room')) /\ saves' = <<>>
  BY <1>2 DEF ReceiveSave
<1>4. room' = [room EXCEPT !.pending = pending]
  BY <1>3
<1>5. pending \in [Field -> Value \cup {Unset}]
  BY <1>1 DEF PageInv, RoomOK, SaveOK
<1>6. room'.pending = pending
  <2> HIDE DEF pending
  <2> QED BY <1>4 DEF PageInv, RoomOK, Shaped
<1>7. /\ Shaped(room') /\ room'.log = room.log /\ room'.players = room.players
      /\ room'.rules = room.rules /\ room'.losses = room.losses /\ room'.n = room.n
  <2> HIDE DEF pending
  <2> QED BY <1>4 DEF PageInv, RoomOK, Shaped
<1>8. RoomOK(room')
  BY <1>5, <1>6, <1>7 DEF PageInv, RoomOK
<1>9. Grows(room', inbox, inbox')
  <2>1. IsState(StateMsg(room'), room') /\ Listed(inbox)
    BY <1>8, StateOfRoom DEF PageInv, InboxOK
  <2>2. inbox' = inbox \o <<StateMsg(room')>>
    BY <1>3, <2>1, ListedSent
  <2> QED BY <2>1, <2>2, GrowsOne
<1> QED BY <1>2, <1>3, <1>6, <1>7, <1>8, <1>9

LEMMA InboxGrows ==
  ASSUME InboxOK, NEW h, RoomOK(h), NEW t, Grows(h, inbox, t)
  PROVE  Listed(t) /\ \A i \in DOMAIN t : MsgOK(t[i])
<1>1. ASSUME NEW i \in DOMAIN t
      PROVE  MsgOK(t[i])
  <2>1. CASE i > Len(inbox)
    <3>1. ViewOK(StateOf(h))
      BY StateOfRoom
    <3> QED BY <2>1, <3>1 DEF Grows, IsState, Notice, MsgOK
  <2>2. CASE ~(i > Len(inbox))
    <3>1. i \in DOMAIN inbox /\ t[i] = inbox[i]
      BY <2>2 DEF Grows
    <3> QED BY <3>1 DEF InboxOK
  <2> QED BY <2>1, <2>2
<1> QED BY <1>1 DEF Grows

LEMMA SeededOK ==
  ASSUME NEW v, v.rules \in [Field -> Value], v.pending \in [Field -> Value \cup {Unset}]
  PROVE  Seed(v) \in [Field -> Value]
BY DEF Seed, Effective

LEMMA ClosedOK ==
  /\ Closed.draft \in [Field -> Value]
  /\ \A o : [Closed EXCEPT !.open = o].draft \in [Field -> Value]
  /\ \A o : [Closed EXCEPT !.open = o]
              = [open |-> o, edit |-> FALSE, draft |-> Closed.draft, touched |-> {}, fresh |-> TRUE]
  /\ Closed = [open |-> FALSE, edit |-> FALSE, draft |-> Closed.draft, touched |-> {}, fresh |-> TRUE]
<1> DEFINE draft == [f \in Field |-> 1]
<1>1. draft \in [Field -> Value]
  BY DEF Value
<1>2. Closed = [open |-> FALSE, edit |-> FALSE, draft |-> draft, touched |-> {}, fresh |-> TRUE]
  BY DEF Closed
<1> HIDE DEF draft
<1>3. Closed.draft = draft
  BY <1>2
<1>4. ASSUME NEW o
      PROVE  [Closed EXCEPT !.open = o]
               = [open |-> o, edit |-> FALSE, draft |-> draft, touched |-> {}, fresh |-> TRUE]
  <2>1. ASSUME NEW c, c = [Closed EXCEPT !.open = o]
        PROVE  c = [open |-> o, edit |-> FALSE, draft |-> draft, touched |-> {}, fresh |-> TRUE]
    BY <1>2, <2>1
  <2> QED BY <2>1
<1>5. ASSUME NEW o
      PROVE  [Closed EXCEPT !.open = o].draft = draft
  BY <1>2
<1> QED BY <1>1, <1>2, <1>3, <1>4, <1>5

LEMMA RoomInit ==
  ASSUME Init
  PROVE  RoomOK(room) /\ room.log = <<>>
<1> DEFINE seats == SetToSeq(Player)
           los == [p \in Player |-> 1]
<1>1. room = [NewRoom EXCEPT !.losses = los, !.plays = seats]
  BY DEF Init
<1>2. los \in [Player -> 0..1]
  OBVIOUS
<1> HIDE DEF seats, los
<1>3. Shaped(room) /\ room.log = <<>> /\ room.n = 0 /\ room.players = Player
      /\ room.losses = los /\ room.rules = [f \in Field |-> 1]
      /\ room.pending = [f \in Field |-> Unset]
  BY <1>1 DEF Shaped, NewRoom
<1> QED BY <1>2, <1>3 DEF RoomOK, Numbered, Value

LEMMA PageInit == Init => PageInv
<1> SUFFICES ASSUME Init PROVE PageInv
  OBVIOUS
<1>1. RoomOK(room)
  BY RoomInit
<1>2. InboxOK
  <2>1. inbox = <<StateMsg(room)>> /\ MsgOK(StateMsg(room))
    BY <1>1, StateOfRoom DEF Init
  <2> DEFINE m == StateMsg(room)
  <2> HIDE DEF m
  <2>2. <<m>> \in Seq({m}) /\ \A i \in DOMAIN <<m>> : <<m>>[i] = m
    OBVIOUS
  <2>3. Listed(<<m>>)
    BY <2>2, ListedSeq
  <2> QED BY <2>1, <2>2, <2>3 DEF InboxOK, m
<1>3. ViewOK(view)
  BY DEF Init, NoView, ViewOK, Ordered, Value
<1>4. PanelOK
  BY ClosedOK DEF Init, PanelOK
<1>5. NotesOK /\ saves = <<>>
  BY DEF Init, NotesOK, NoNotes
<1> QED BY <1>1, <1>2, <1>3, <1>4, <1>5 DEF PageInv

\* What a step of the panel does to the panel and the saves.
LEMMA PanelStays ==
  ASSUME PageInv, Panel
  PROVE  /\ PanelOK' /\ UNCHANGED <<room, inbox, view, notes, banner, own, opp, mobile, mix>>
         /\ saves' = <<>> \/ saves' = saves \/ \E s : saves' = <<s>> /\ SaveOK(s)
<1>1. UNCHANGED <<room, inbox, view, notes, banner, own, opp, mobile, mix>>
  BY DEF Panel, OpenPanel, ClosePanel, StartEdit, SetDraft, CloseEdit, SaveEdit, Use, Put
<1>2. CASE OpenPanel \/ ClosePanel \/ CloseEdit
  <2>1. saves' = saves /\ (panel' = Closed \/ panel' = [Closed EXCEPT !.open = TRUE])
    BY <1>2 DEF OpenPanel, ClosePanel, CloseEdit, Put
  <2>2. PanelOK'
    BY <2>1, ClosedOK DEF PanelOK
  <2> QED BY <1>1, <2>1, <2>2
<1>3. CASE StartEdit
  <2>1. PICK b : panel' = [panel EXCEPT !.edit = TRUE, !.draft = Seed(view), !.fresh = b]
    BY <1>3 DEF StartEdit, Use, Put
  <2>2. Seed(view) \in [Field -> Value]
    BY SeededOK DEF PageInv, ViewOK
  <2> DEFINE draft == Seed(view)
  <2> HIDE DEF draft
  <2>3. PanelOK'
    BY <2>1, <2>2 DEF PanelOK, PageInv, draft
  <2>4. saves' = saves
    BY <1>3 DEF StartEdit
  <2> QED BY <1>1, <2>3, <2>4
<1>4. ASSUME NEW f \in Field, NEW x \in Value, SetDraft(f, x)
      PROVE  PanelOK' /\ saves' = saves
  <2>1. panel' = [panel EXCEPT !.draft[f] = x, !.touched = @ \cup {f}] /\ saves' = saves
    BY <1>4 DEF SetDraft, Use, Put
  <2>2. PanelOK'
    BY <2>1 DEF PanelOK, PageInv
  <2> QED BY <2>1, <2>2
<1>5. CASE SaveEdit
  <2>1. panel' = [Closed EXCEPT !.open = TRUE]
    BY <1>5 DEF SaveEdit, Use, Put
  <2>2. PanelOK'
    BY <2>1, ClosedOK DEF PanelOK
  <2> DEFINE s == [diff |-> Diff(panel.draft), draft |-> panel.draft,
                   touched |-> panel.touched, fresh |-> panel.fresh]
  <2>3. saves' = saves \/ saves' = <<s>>
    BY <1>5 DEF SaveEdit
  <2>4. Diff(panel.draft) \in [Field -> Value \cup {Unset}]
    BY DEF Diff, PageInv, PanelOK
  <2>5. SaveOK(s)
    BY <2>4 DEF SaveOK
  <2> QED BY <1>1, <2>2, <2>3, <2>5
<1> QED BY <1>1, <1>2, <1>3, <1>4, <1>5 DEF Panel

\* A message is shown.
LEMMA InboxShown ==
  ASSUME InboxOK, inbox # <<>>, inbox' = Tail(inbox)
  PROVE  /\ InboxOK' /\ Head(inbox) = inbox[1] /\ MsgOK(inbox[1])
         /\ Len(inbox) \in Nat \ {0} /\ DOMAIN inbox = 1..Len(inbox)
         /\ Len(inbox') = Len(inbox) - 1 /\ DOMAIN inbox' = 1..(Len(inbox) - 1)
         /\ \A i \in DOMAIN inbox' : i + 1 \in DOMAIN inbox /\ inbox'[i] = inbox[i + 1]
<1>1. Listed(inbox)
  BY DEF InboxOK
<1>2. /\ Listed(inbox') /\ Len(inbox) \in Nat /\ Len(inbox) >= 1
      /\ Len(inbox') = Len(inbox) - 1 /\ DOMAIN inbox' = 1..(Len(inbox) - 1)
      /\ Head(inbox) = inbox[1] /\ DOMAIN inbox = 1..Len(inbox)
      /\ \A i \in 1..(Len(inbox) - 1) : inbox'[i] = inbox[i + 1]
  BY <1>1, ListedTail
<1>3. \A i \in DOMAIN inbox' : i + 1 \in DOMAIN inbox /\ inbox'[i] = inbox[i + 1]
  BY <1>2
<1>4. 1 \in DOMAIN inbox
  BY <1>2
<1> QED BY <1>2, <1>3, <1>4 DEF InboxOK

LEMMA PageStep == PageInv /\ [Next]_clientVars => PageInv'
<1> SUFFICES ASSUME PageInv, [Next]_clientVars PROVE PageInv'
  OBVIOUS
<1> DEFINE Rest == ViewOK(view) /\ PanelOK /\ NotesOK /\ (saves = <<>> \/ \E s : saves = <<s>> /\ SaveOK(s))
<1>1. CASE Server
  <2>1. PICK msgs : Serves(room, room', msgs) /\ inbox' = inbox \o msgs
    BY <1>1, ServerServes DEF PageInv
  <2>2. UNCHANGED serverVars
    BY <1>1, ServerServes DEF PageInv
  <2>3. RoomOK(room') /\ Grows(room', inbox, inbox')
    BY <2>1, ServesGrows DEF PageInv, InboxOK, Serves
  <2>4. InboxOK'
    BY <2>3, InboxGrows DEF PageInv, InboxOK
  <2> QED BY <2>2, <2>3, <2>4 DEF PageInv, serverVars, PanelOK, NotesOK
<1>2. CASE ReceiveSave
  <2>1. RoomOK(room') /\ Grows(room', inbox, inbox') /\ saves' = <<>>
    BY <1>2, SaveServes
  <2>2. InboxOK'
    BY <2>1, InboxGrows DEF PageInv, InboxOK
  <2>3. UNCHANGED <<view, panel, notes>>
    BY <1>2 DEF ReceiveSave
  <2> QED BY <2>1, <2>2, <2>3 DEF PageInv, PanelOK, NotesOK
<1>3. CASE ShowState
  <2>1. InboxOK' /\ MsgOK(inbox[1]) /\ Head(inbox) = inbox[1]
    BY <1>3, InboxShown DEF ShowState, PageInv
  <2>2. /\ inbox[1].type = "state" /\ view' = inbox[1].state /\ notes' = Kept(notes)
        /\ panel' = NextPanel(inbox[1].state) /\ UNCHANGED <<room, saves>>
    BY <1>3, <2>1 DEF ShowState
  <2>3. ViewOK(view')
    BY <2>1, <2>2 DEF MsgOK, NoticeTypes
  <2>4. NotesOK'
    BY <2>2 DEF NotesOK, Kept, PageInv
  <2>5. PanelOK'
    BY <2>2, ClosedOK DEF PanelOK, NextPanel, PageInv
  <2> QED BY <2>1, <2>2, <2>3, <2>4, <2>5 DEF PageInv
<1>4. CASE ShowNotice
  <2>1. InboxOK' /\ MsgOK(inbox[1]) /\ Head(inbox) = inbox[1]
    BY <1>4, InboxShown DEF ShowNotice, PageInv
  <2>2. /\ inbox[1].type \in NoticeTypes /\ notes' = Noted(notes, inbox[1])
        /\ UNCHANGED <<room, saves, view, panel>>
    BY <1>4, <2>1 DEF ShowNotice, MsgOK
  <2>3. NotesOK'
    BY <2>2 DEF NotesOK, Noted, PageInv, NoticeTypes
  <2> QED BY <2>1, <2>2, <2>3 DEF PageInv, PanelOK
<1>5. CASE DismissWarning
  <2>1. notes' = [notes EXCEPT !.warned = FALSE] /\ UNCHANGED <<room, inbox, saves, view, panel>>
    BY <1>5 DEF DismissWarning
  <2>2. NotesOK'
    BY <2>1 DEF NotesOK, PageInv
  <2> QED BY <2>1, <2>2 DEF PageInv, PanelOK, InboxOK
<1>6. CASE Panel
  BY <1>6, PanelStays DEF PageInv, InboxOK, NotesOK
<1>7. CASE BannerTimeout \/ OwnToastTimeout \/ OpponentToastTimeout \/ UNCHANGED clientVars
  <2>1. UNCHANGED <<room, inbox, saves, view, panel, notes>>
    BY <1>7 DEF BannerTimeout, OwnToastTimeout, OpponentToastTimeout, clientVars
  <2> QED BY <2>1 DEF PageInv, InboxOK, PanelOK, NotesOK
<1> QED BY <1>1, <1>2, <1>3, <1>4, <1>5, <1>6, <1>7 DEF Next

----------------------------------------------------------------------------
(* Who was told it is out.                                                 *)

Evicts(m) == m.type = "player_evicted_afk"

\* Once this player is announced as evicted it is not in the room, whose
\* handlers then send nothing more: no eviction of another follows.
OutInv ==
  /\ \A i \in DOMAIN inbox : Evicts(inbox[i]) /\ inbox[i].player = Me =>
       Me \notin room.players /\ \A j \in DOMAIN inbox : j > i => ~Evicts(inbox[j])
  /\ notes.evicted = Me =>
       Me \notin room.players /\ \A i \in DOMAIN inbox : ~Evicts(inbox[i])

LEMMA OutInit == Init => OutInv
<1> SUFFICES ASSUME Init PROVE OutInv
  OBVIOUS
<1>1. \A i \in DOMAIN inbox : ~Evicts(inbox[i])
  <2>1. inbox = <<StateMsg(room)>> /\ ~Evicts(StateMsg(room))
    BY DEF Init, StateMsg, Evicts
  <2> QED BY <2>1
<1>2. notes.evicted # Me
  BY TabAssumption, NobodyAssumption DEF Init, NoNotes
<1> QED BY <1>1, <1>2 DEF OutInv

LEMMA OutStep == PageInv /\ OutInv /\ [Next]_clientVars => OutInv'
<1> SUFFICES ASSUME PageInv, OutInv, [Next]_clientVars PROVE OutInv'
  OBVIOUS
<1>1. CASE Server
  <2>1. PICK msgs : Serves(room, room', msgs) /\ inbox' = inbox \o msgs
    BY <1>1, ServerServes DEF PageInv
  <2>2. notes' = notes
    BY <1>1, ServerServes DEF PageInv, serverVars
  <2>3. Grows(room', inbox, inbox') /\ Me \in room.players
    BY <2>1, ServesGrows DEF PageInv, InboxOK, Serves
  <2>4. notes'.evicted # Me /\ \A i \in DOMAIN inbox : ~(Evicts(inbox[i]) /\ inbox[i].player = Me)
    BY <2>2, <2>3 DEF OutInv
  <2>5. ASSUME NEW i \in DOMAIN inbox', Evicts(inbox'[i]), inbox'[i].player = Me
        PROVE  Me \notin room'.players /\ \A j \in DOMAIN inbox' : j > i => ~Evicts(inbox'[j])
    <3>1. i > Len(inbox)
      BY <2>3, <2>4, <2>5 DEF Grows
    <3>2. Notice(inbox'[i], room')
      BY <2>3, <2>5, <3>1 DEF Grows, IsState, Evicts
    <3>3. Me \notin room'.players
      BY <2>5, <3>2 DEF Notice, Evicts
    <3>4. \A j \in DOMAIN inbox' : j > i => ~Evicts(inbox'[j])
      BY <2>3, <2>5, <3>1 DEF Grows, Evicts
    <3> QED BY <3>3, <3>4
  <2> QED BY <2>4, <2>5 DEF OutInv
<1>2. CASE ReceiveSave
  <2>1. inbox' = Append(inbox, StateMsg(room')) /\ room'.players = room.players
    BY <1>2, SaveServes
  <2>2. notes' = notes
    BY <1>2 DEF ReceiveSave
  <2> DEFINE m == StateMsg(room')
  <2>3. ~Evicts(m)
    BY DEF StateMsg, Evicts
  <2> HIDE DEF m
  <2>4. /\ Len(inbox) \in Nat /\ DOMAIN inbox = 1..Len(inbox)
        /\ DOMAIN inbox' = 1..(Len(inbox) + 1) /\ Len(inbox') = Len(inbox) + 1
        /\ inbox'[Len(inbox')] = m /\ \A i \in 1..Len(inbox) : inbox'[i] = inbox[i]
    BY <2>1, ListedAppend DEF PageInv, InboxOK, m
  <2>5. \A i \in DOMAIN inbox' : (i \in DOMAIN inbox /\ inbox'[i] = inbox[i]) \/ ~Evicts(inbox'[i])
    BY <2>3, <2>4
  <2> QED BY <2>1, <2>2, <2>5 DEF OutInv
<1>3. CASE ShowState \/ ShowNotice
  <2>1. /\ Head(inbox) = inbox[1] /\ MsgOK(inbox[1]) /\ 1 \in DOMAIN inbox
        /\ DOMAIN inbox \subseteq Nat /\ DOMAIN inbox' \subseteq Nat
        /\ \A i \in DOMAIN inbox' : i + 1 \in DOMAIN inbox /\ inbox'[i] = inbox[i + 1]
    BY <1>3, InboxShown DEF ShowState, ShowNotice, PageInv
  <2>2. room' = room
    BY <1>3 DEF ShowState, ShowNotice
  <2>3. \A i \in DOMAIN inbox' : Evicts(inbox'[i]) /\ inbox'[i].player = Me =>
          Me \notin room'.players /\ \A j \in DOMAIN inbox' : j > i => ~Evicts(inbox'[j])
    BY <2>1, <2>2 DEF OutInv
  <2>4. ASSUME notes'.evicted = Me
        PROVE  Me \notin room'.players /\ \A i \in DOMAIN inbox' : ~Evicts(inbox'[i])
    <3>1. notes.evicted = Me \/ (Evicts(inbox[1]) /\ inbox[1].player = Me)
      <4>1. CASE ShowState
        <5>1. notes'.evicted = notes.evicted
          BY <4>1 DEF ShowState, Kept, PageInv, NotesOK
        <5> QED BY <2>4, <5>1
      <4>2. CASE ShowNotice
        <5>1. inbox[1].type \in NoticeTypes /\ notes' = Noted(notes, inbox[1])
          BY <4>2, <2>1 DEF ShowNotice, MsgOK
        <5> QED BY <2>4, <5>1 DEF Noted, NoticeTypes, PageInv, NotesOK, Evicts
      <4> QED BY <1>3, <4>1, <4>2
    <3>2. CASE notes.evicted = Me
      BY <2>1, <2>2, <3>2 DEF OutInv
    <3>3. CASE Evicts(inbox[1]) /\ inbox[1].player = Me
      <4>1. Me \notin room.players /\ \A j \in DOMAIN inbox : j > 1 => ~Evicts(inbox[j])
        BY <2>1, <3>3 DEF OutInv
      <4>2. DOMAIN inbox' = 1..(Len(inbox) - 1) /\ Len(inbox) \in Nat \ {0}
        BY <1>3, InboxShown DEF ShowState, ShowNotice, PageInv
      <4>3. \A i \in DOMAIN inbox' : i + 1 > 1
        BY <4>2
      <4> QED BY <2>1, <2>2, <4>1, <4>3
    <3> QED BY <3>1, <3>2, <3>3
  <2> QED BY <2>3, <2>4 DEF OutInv
<1>4. CASE DismissWarning
  <2>1. notes' = [notes EXCEPT !.warned = FALSE] /\ UNCHANGED <<room, inbox>>
    BY <1>4 DEF DismissWarning
  <2>2. notes'.evicted = notes.evicted
    BY <2>1 DEF PageInv, NotesOK
  <2> QED BY <2>1, <2>2 DEF OutInv
<1>5. CASE Panel
  BY <1>5, PanelStays DEF OutInv
<1>6. CASE BannerTimeout \/ OwnToastTimeout \/ OpponentToastTimeout \/ UNCHANGED clientVars
  <2>1. UNCHANGED <<room, inbox, notes>>
    BY <1>6 DEF BannerTimeout, OwnToastTimeout, OpponentToastTimeout, clientVars
  <2> QED BY <2>1 DEF OutInv
<1> QED BY <1>1, <1>2, <1>3, <1>4, <1>5, <1>6 DEF Next

\* Who was told it is out of the game (kicked, evicted, or the room dissolved)
\* is told so for good: no state that arrives later, nothing else that is
\* announced and no click takes it back.
THEOREM OutIsKept == Spec => OutStaysOut
<1> DEFINE Stays == /\ notes.kicked => notes'.kicked
                    /\ notes.dissolved => notes'.dissolved
                    /\ notes.evicted = Me => notes'.evicted = Me
<1>1. Init => PageInv /\ OutInv
  BY PageInit, OutInit
<1>2. PageInv /\ OutInv /\ [Next]_clientVars => (PageInv /\ OutInv)'
  BY PageStep, OutStep
<1>3. PageInv /\ OutInv /\ [Next]_clientVars => [Stays]_clientVars
  <2> SUFFICES ASSUME PageInv, OutInv, Next PROVE Stays
    OBVIOUS
  <2>1. CASE ShowState
    <3>1. notes' = Kept(notes)
      BY <2>1 DEF ShowState
    <3> QED BY <3>1 DEF Kept, PageInv, NotesOK
  <2>2. CASE ShowNotice
    <3>1. /\ Head(inbox) = inbox[1] /\ MsgOK(inbox[1]) /\ 1 \in DOMAIN inbox
      BY <2>2, InboxShown DEF ShowNotice, PageInv
    <3>2. inbox[1].type \in NoticeTypes /\ notes' = Noted(notes, inbox[1])
      BY <2>2, <3>1 DEF ShowNotice, MsgOK
    <3>3. notes.evicted = Me => ~Evicts(inbox[1])
      BY <3>1 DEF OutInv
    <3> QED BY <3>2, <3>3 DEF Noted, NoticeTypes, PageInv, NotesOK, Evicts
  <2>3. CASE DismissWarning
    <3>1. notes' = [notes EXCEPT !.warned = FALSE]
      BY <2>3 DEF DismissWarning
    <3> QED BY <3>1 DEF PageInv, NotesOK
  <2>4. CASE Server
    BY <2>4, ServerServes DEF PageInv, serverVars
  <2>5. CASE Panel
    BY <2>5, PanelStays
  <2>6. CASE ReceiveSave \/ BannerTimeout \/ OwnToastTimeout \/ OpponentToastTimeout
    <3>1. notes' = notes
      BY <2>6 DEF ReceiveSave, BannerTimeout, OwnToastTimeout, OpponentToastTimeout
    <3> QED BY <3>1
  <2> QED BY <2>1, <2>2, <2>3, <2>4, <2>5, <2>6 DEF Next
<1>4. OutStaysOut <=> [][Stays]_clientVars
  BY DEF OutStaysOut
<1> QED BY <1>1, <1>2, <1>3, <1>4, PTL DEF Spec

----------------------------------------------------------------------------
(* The rules a form leaves alone.                                          *)

\* In a form opened on an up-to-date view the fields nobody set are what is in
\* force or queued on the server: nothing but a save changes that, and none is
\* under way. What is sent of them is that or nothing.
RulesInv ==
  /\ panel.edit /\ panel.fresh =>
       \A f \in Field : saves = <<>> /\ (f \notin panel.touched =>
                                           panel.draft[f] = Effective(room, f))
  /\ \A s : saves = <<s>> /\ s.fresh =>
       \A f \in Field \ s.touched : s.diff[f] = Unset \/ s.diff[f] = Effective(room, f)

LEMMA RulesKept ==
  ASSUME RulesInv, SameRules(room, room'), panel' = panel, saves' = saves
  PROVE  RulesInv'
BY DEF RulesInv, SameRules

\* Taking a save in changes none of them.
LEMMA SaveKeeps ==
  ASSUME PageInv, RulesInv, ReceiveSave, Head(saves).fresh
  PROVE  \A f \in Field \ Head(saves).touched : Effective(room', f) = Effective(room, f)
<1>1. PICK s : saves = <<s>> /\ SaveOK(s)
  BY DEF ReceiveSave, PageInv
<1>2. Head(saves) = s /\ saves[1] = s
  BY <1>1
<1>3. /\ room'.rules = room.rules
      /\ room'.pending = [f \in Field |->
              CASE s.diff[f] = Unset -> room.pending[f]
                [] s.diff[f] = room.rules[f] -> Unset
                [] OTHER -> s.diff[f]]
  BY <1>2, SaveServes
<1>4. ASSUME NEW f \in Field \ s.touched
      PROVE  Effective(room', f) = Effective(room, f)
  <2>1. s.diff[f] = Unset \/ s.diff[f] = Effective(room, f)
    BY <1>1, <1>2 DEF RulesInv
  <2>2. room'.pending[f] = CASE s.diff[f] = Unset -> room.pending[f]
                             [] s.diff[f] = room.rules[f] -> Unset
                             [] OTHER -> s.diff[f]
    BY <1>3
  <2>3. room.rules[f] # Unset
    BY DEF PageInv, RoomOK, Value, Unset
  <2>4. CASE s.diff[f] = Unset
    BY <1>3, <2>2, <2>3, <2>4 DEF Effective
  <2>5. CASE s.diff[f] # Unset /\ s.diff[f] = room.rules[f]
    BY <1>3, <2>1, <2>2, <2>5 DEF Effective
  <2>6. CASE s.diff[f] # Unset /\ s.diff[f] # room.rules[f]
    <3>1. room'.pending[f] = s.diff[f]
      BY <2>2, <2>6
    <3> QED BY <1>3, <2>1, <2>6, <3>1 DEF Effective
  <2> QED BY <2>4, <2>5, <2>6
<1> QED BY <1>2, <1>4

LEMMA RulesStep == PageInv /\ RulesInv /\ [Next]_clientVars => RulesInv'
<1> SUFFICES ASSUME PageInv, RulesInv, [Next]_clientVars PROVE RulesInv'
  OBVIOUS
<1>1. CASE Server
  <2>1. SameRules(room, room')
    BY <1>1, ServerServes DEF PageInv, Serves
  <2>2. panel' = panel /\ saves' = saves
    BY <1>1, ServerServes DEF PageInv, serverVars
  <2> QED BY <2>1, <2>2, RulesKept
<1>2. CASE ReceiveSave
  <2>1. saves # <<>> /\ saves' = <<>> /\ panel' = panel
    BY <1>2, SaveServes DEF ReceiveSave
  <2>2. ~(\E s : saves' = <<s>>)
    BY <2>1
  <2>3. panel.edit /\ panel.fresh => Field = {}
    BY <2>1 DEF RulesInv
  <2> QED BY <2>1, <2>2, <2>3 DEF RulesInv
<1>3. CASE ShowState
  <2>1. saves' = saves /\ room' = room /\ panel' = NextPanel(Head(inbox).state)
    BY <1>3 DEF ShowState
  <2>2. panel' = panel \/ ~panel'.edit
    BY <2>1, ClosedOK DEF NextPanel
  <2> QED BY <2>1, <2>2 DEF RulesInv
<1>4. CASE OpenPanel \/ ClosePanel \/ CloseEdit
  <2>1. /\ saves' = saves /\ room' = room
        /\ panel' = Closed \/ panel' = [Closed EXCEPT !.open = TRUE]
    BY <1>4 DEF OpenPanel, ClosePanel, CloseEdit, Put
  <2>2. ~panel'.edit
    BY <2>1, ClosedOK
  <2> QED BY <2>1, <2>2 DEF RulesInv
<1>5. CASE StartEdit
  <2> DEFINE fresh == \A f \in Field : Effective(view, f) = Effective(room, f) /\ saves = <<>>
  <2>1. /\ panel' = [panel EXCEPT !.edit = TRUE, !.draft = Seed(view), !.fresh = fresh]
        /\ saves' = saves /\ room' = room
    BY <1>5 DEF StartEdit, Use, Put
  <2>2. fresh \in BOOLEAN
    OBVIOUS
  <2> HIDE DEF fresh
  <2>3. panel'.draft = Seed(view) /\ panel'.fresh = fresh
    BY <2>1 DEF PageInv, PanelOK
  <2>4. panel'.fresh => \A f \in Field : saves = <<>> /\ panel'.draft[f] = Effective(room, f)
    BY <2>2, <2>3 DEF Seed, fresh
  <2> QED BY <2>1, <2>4 DEF RulesInv
<1>6. ASSUME NEW g \in Field, NEW x \in Value, SetDraft(g, x)
      PROVE  RulesInv'
  <2>1. /\ panel' = [panel EXCEPT !.draft[g] = x, !.touched = @ \cup {g}]
        /\ saves' = saves /\ room' = room
    BY <1>6 DEF SetDraft, Use, Put
  <2>2. /\ panel'.edit = panel.edit /\ panel'.fresh = panel.fresh
        /\ panel'.touched = panel.touched \cup {g}
        /\ panel'.draft = [panel.draft EXCEPT ![g] = x]
    BY <2>1 DEF PageInv, PanelOK
  <2>3. \A f \in Field : f \notin panel'.touched =>
          f \notin panel.touched /\ panel'.draft[f] = panel.draft[f]
    BY <2>2 DEF PageInv, PanelOK
  <2> QED BY <2>1, <2>2, <2>3 DEF RulesInv
<1>7. CASE SaveEdit
  <2> DEFINE d == Diff(panel.draft)
             s == [diff |-> d, draft |-> panel.draft,
                   touched |-> panel.touched, fresh |-> panel.fresh]
  <2>1. /\ panel.edit /\ panel' = [Closed EXCEPT !.open = TRUE] /\ room' = room
        /\ saves = <<>> /\ (saves' = saves \/ saves' = <<s>>)
    BY <1>7 DEF SaveEdit, Use, Put
  <2>2. ~panel'.edit
    BY <2>1, ClosedOK
  <2>3. ASSUME NEW f \in Field
        PROVE  d[f] = Unset \/ d[f] = panel.draft[f]
    BY DEF Diff
  <2> HIDE DEF d
  <2>4. ASSUME panel.fresh, NEW f \in Field \ panel.touched
        PROVE  d[f] = Unset \/ d[f] = Effective(room, f)
    BY <2>1, <2>3, <2>4 DEF RulesInv
  <2>5. s.diff = d /\ s.touched = panel.touched /\ s.fresh = panel.fresh
    OBVIOUS
  <2> HIDE DEF s
  <2>6. s.fresh => \A f \in Field \ s.touched : s.diff[f] = Unset \/ s.diff[f] = Effective(room, f)
    BY <2>4, <2>5
  <2>7. \A t : saves' = <<t>> => t = s
    BY <2>1
  <2> QED BY <2>1, <2>2, <2>6, <2>7 DEF RulesInv
<1>8. CASE ShowNotice \/ BannerTimeout \/ OwnToastTimeout \/ OpponentToastTimeout
           \/ DismissWarning \/ UNCHANGED clientVars
  <2>1. UNCHANGED <<room, panel, saves>>
    BY <1>8 DEF ShowNotice, BannerTimeout, OwnToastTimeout, OpponentToastTimeout,
                DismissWarning, clientVars
  <2> QED BY <2>1 DEF RulesInv
<1> QED BY <1>1, <1>2, <1>3, <1>4, <1>5, <1>6, <1>7, <1>8 DEF Next, Panel

\* Saving one rule leaves the others alone: a form that was opened on an
\* up-to-date view changes no rule the host did not set in it, in force or
\* queued, whatever took effect while it was open or while it was on its way.
THEOREM OtherRulesStay == Spec => RulesNotEditedStay
<1> DEFINE Stays == saves # <<>> /\ saves' = <<>> /\ Head(saves).fresh =>
                      \A f \in Field \ Head(saves).touched :
                        Effective(room', f) = Effective(room, f)
<1>1. Init => PageInv /\ RulesInv
  <2>1. Init => RulesInv
    BY ClosedOK DEF Init, RulesInv
  <2> QED BY <2>1, PageInit
<1>2. PageInv /\ RulesInv /\ [Next]_clientVars => (PageInv /\ RulesInv)'
  BY PageStep, RulesStep
<1>3. PageInv /\ RulesInv /\ [Next]_clientVars => [Stays]_clientVars
  <2> SUFFICES ASSUME PageInv, RulesInv, Next, saves # <<>>, saves' = <<>>, Head(saves).fresh
               PROVE  \A f \in Field \ Head(saves).touched :
                        Effective(room', f) = Effective(room, f)
    OBVIOUS
  <2>1. CASE ReceiveSave
    BY <2>1, SaveKeeps
  <2>2. CASE Server
    BY <2>2, ServerServes DEF PageInv, serverVars
  <2>3. CASE Panel
    <3>1. saves' = saves \/ saves = <<>>
      BY <2>3 DEF Panel, OpenPanel, ClosePanel, StartEdit, SetDraft, CloseEdit, SaveEdit
    <3> QED BY <3>1
  <2>4. CASE ShowState \/ ShowNotice \/ BannerTimeout \/ OwnToastTimeout
             \/ OpponentToastTimeout \/ DismissWarning
    <3>1. saves' = saves
      BY <2>4 DEF ShowState, ShowNotice, BannerTimeout, OwnToastTimeout, OpponentToastTimeout,
                  DismissWarning
    <3> QED BY <3>1
  <2> QED BY <2>1, <2>2, <2>3, <2>4 DEF Next
<1>4. RulesNotEditedStay <=> [][Stays]_clientVars
  BY DEF RulesNotEditedStay
<1> QED BY <1>1, <1>2, <1>3, <1>4, PTL DEF Spec

----------------------------------------------------------------------------
(* The lost matches.                                                       *)

Loss(log) == Newest(log, {"match_lost"})

\* The fingerprint kept once a journal was shown.
Told(fp, log) == IF Loss(log) = Nobody THEN fp ELSE Fingerprint(Loss(log))
\* It is that of the newest loss the journal shows.
Knows(fp, log) == Loss(log) # Nobody => fp = Fingerprint(Loss(log))
\* It is that of the last loss counted, whose next one has another count: one
\* in the round so far, or the second, which ended the round.
Fits(fp, losses) ==
  \/ fp = <<>>
  \/ \E p \in Player : \/ fp = <<p, 1>> /\ losses[p] = 1
                       \/ fp = <<p, 2>> /\ losses[p] = 0
\* After the journal "old", "new" has the same newest loss, none, or one that
\* is not taken for the last.
News(fp, old, new) ==
  Loss(new) \in {Nobody, Loss(old)} \/ Fingerprint(Loss(new)) # fp

LEMMA FrontLoss ==
  ASSUME NEW log \in Seq(Event), log # <<>>, Last(log).key # "match_lost"
  PROVE  Loss(Front(log)) = Loss(log)
<1> DEFINE f == Front(log)
<1>1. /\ f \in Seq(Event) /\ Len(log) \in Nat \ {0} /\ log[Len(log)].key # "match_lost"
      /\ DOMAIN log = 1..Len(log) /\ DOMAIN f = 1..(Len(log) - 1)
      /\ \A i \in 1..(Len(log) - 1) : f[i] = log[i]
  BY FrontIs
<1> HIDE DEF f
<1>2. Places(f, {"match_lost"}) = Places(log, {"match_lost"})
  BY <1>1 DEF Places
<1>3. CASE Places(log, {"match_lost"}) = {}
  BY <1>2, <1>3 DEF Loss, Newest, f
<1>4. CASE Places(log, {"match_lost"}) # {}
  <2>1. PICK i \in Places(log, {"match_lost"}) :
          Newest(log, {"match_lost"}) = log[i] /\ \A j \in Places(log, {"match_lost"}) : j <= i
    BY <1>4, NewestIs
  <2>2. i \in Places(f, {"match_lost"}) /\ \A j \in Places(f, {"match_lost"}) : j <= i
    BY <1>2, <2>1
  <2>3. Newest(f, {"match_lost"}) = f[i]
    BY <1>1, <2>2, NewestIsAt
  <2>4. f[i] = log[i]
    BY <1>1, <2>2 DEF Places
  <2> QED BY <2>1, <2>3, <2>4 DEF Loss, f
<1> QED BY <1>3, <1>4

LEMMA NoLossNews ==
  ASSUME NEW r, RoomOK(r), NEW h, TellsNoLoss(r, h)
  PROVE  Loss(h.log) \in {Nobody, Loss(r.log)}
<1>1. ASSUME NEW e, Adds(r, h, e), e.key # "match_lost"
      PROVE  Loss(h.log) \in {Nobody, Loss(r.log)}
  <2>1. h.log = Sent(Append(r.log, e)) /\ e \in Event /\ r.log \in Seq(Event)
    BY <1>1 DEF Adds, RoomOK
  <2>2. e.key \notin {"match_lost"}
    BY <1>1
  <2> QED BY <2>1, <2>2, NewestAfter DEF Loss
<1>2. ASSUME r.log # <<>>, Last(r.log).key # "match_lost", h.log = Front(r.log)
      PROVE  Loss(h.log) = Loss(r.log)
  BY <1>2, FrontLoss DEF RoomOK
<1> QED BY <1>1, <1>2 DEF TellsNoLoss

LEMMA LossNews ==
  ASSUME NEW r, RoomOK(r), NEW h, TellsLoss(r, h), NEW fp, Fits(fp, r.losses)
  PROVE  /\ Loss(h.log) # Nobody /\ Fingerprint(Loss(h.log)) # fp
         /\ Fits(Fingerprint(Loss(h.log)), h.losses)
<1>1. PICK e : /\ Adds(r, h, e) /\ e.key = "match_lost" /\ e.count = r.losses[e.name] + 1
               /\ h.losses = IF e.count = 2 THEN [p \in Player |-> 0]
                             ELSE [r.losses EXCEPT ![e.name] = 1]
  BY DEF TellsLoss
<1>2. h.log = Sent(Append(r.log, e)) /\ e \in Event /\ r.log \in Seq(Event)
      /\ e.key \in {"match_lost"}
  BY <1>1 DEF Adds, RoomOK
<1>3. Loss(h.log) = e /\ e # Nobody
  BY <1>2, NewestAfter, NobodyAssumption DEF Loss
<1>4. e.name \in Player /\ r.losses \in [Player -> 0..1]
  BY <1>2 DEF Event, RoomOK
<1>5. r.losses[e.name] \in 0..1
  BY <1>4
<1>6. Fingerprint(e) = <<e.name, r.losses[e.name] + 1>>
  BY <1>1 DEF Fingerprint
<1>7. Fingerprint(e) # fp
  <2>1. CASE fp = <<>>
    BY <1>6, <2>1
  <2>2. ASSUME NEW p \in Player, fp = <<p, 1>> /\ r.losses[p] = 1
        PROVE  Fingerprint(e) # fp
    BY <1>6, <2>2
  <2>3. ASSUME NEW p \in Player, fp = <<p, 2>> /\ r.losses[p] = 0
        PROVE  Fingerprint(e) # fp
    BY <1>6, <2>3
  <2> QED BY <2>1, <2>2, <2>3 DEF Fits
<1>8. Fits(Fingerprint(e), h.losses)
  <2>1. CASE r.losses[e.name] = 0
    <3>1. h.losses = [r.losses EXCEPT ![e.name] = 1]
      BY <1>1, <2>1
    <3>2. h.losses[e.name] = 1
      BY <1>4, <3>1
    <3>3. Fingerprint(e) = <<e.name, 1>>
      BY <1>6, <2>1
    <3> QED BY <1>4, <3>2, <3>3 DEF Fits
  <2>2. CASE r.losses[e.name] = 1
    <3>1. h.losses = [p \in Player |-> 0]
      BY <1>1, <2>2
    <3>2. h.losses[e.name] = 0
      BY <1>4, <3>1
    <3>3. Fingerprint(e) = <<e.name, 2>>
      BY <1>6, <2>2
    <3> QED BY <1>4, <3>2, <3>3 DEF Fits
  <2> QED BY <1>5, <2>1, <2>2
<1> QED BY <1>3, <1>7, <1>8

\* What a handler makes of the journal and of the losses.
LEMMA TellsNews ==
  ASSUME NEW r, RoomOK(r), NEW h, RoomOK(h), Tells(r, h),
         NEW fp, Knows(fp, r.log), Fits(fp, r.losses)
  PROVE  News(fp, r.log, h.log) /\ Fits(Told(fp, h.log), h.losses)
<1>1. PICK mid : /\ RoomOK(mid) /\ TellsNoLoss(r, mid)
                 /\ TellsNoLoss(mid, h) \/ TellsLoss(mid, h)
  BY DEF Tells
<1>2. Loss(mid.log) \in {Nobody, Loss(r.log)} /\ mid.losses = r.losses
  BY <1>1, NoLossNews DEF TellsNoLoss
<1>3. CASE TellsNoLoss(mid, h)
  <2>1. Loss(h.log) \in {Nobody, Loss(mid.log)} /\ h.losses = r.losses
    BY <1>1, <1>2, <1>3, NoLossNews DEF TellsNoLoss
  <2>2. Loss(h.log) \in {Nobody, Loss(r.log)}
    BY <1>2, <2>1
  <2>3. Told(fp, h.log) = fp
    BY <2>2 DEF Told, Knows
  <2> QED BY <2>1, <2>2, <2>3 DEF News
<1>4. CASE TellsLoss(mid, h)
  <2>1. /\ Loss(h.log) # Nobody /\ Fingerprint(Loss(h.log)) # fp
        /\ Fits(Fingerprint(Loss(h.log)), h.losses)
    BY <1>1, <1>2, <1>4, LossNews
  <2> QED BY <2>1 DEF News, Told
<1> QED BY <1>1, <1>3, <1>4

\* From the journal last shown and its fingerprint to the journal of the room,
\* message by message: L are the journals shown, F the fingerprints kept.
ChainOf(L, F, shown, fp, msgs, log, losses) ==
  /\ L[0] = shown /\ F[0] = fp /\ L[Len(msgs)] = log /\ Fits(F[Len(msgs)], losses)
  /\ \A i \in 0..Len(msgs) : Knows(F[i], L[i])
  /\ \A i \in 1..Len(msgs) :
       /\ L[i] = IF msgs[i].type = "state" THEN msgs[i].state.log ELSE L[i - 1]
       /\ F[i] = Told(F[i - 1], L[i])
       /\ News(F[i - 1], L[i - 1], L[i])
Chain(shown, fp, msgs, log, losses) == \E L, F : ChainOf(L, F, shown, fp, msgs, log, losses)

LEMMA ToldKnows ==
  ASSUME NEW fp, NEW log
  PROVE  /\ Knows(Told(fp, log), log) /\ News(fp, log, log)
         /\ Knows(fp, log) => Told(fp, log) = fp
BY DEF Told, Knows, News

LEMMA ChainAdds ==
  ASSUME NEW shown, NEW fp, NEW s, Listed(s), NEW log, NEW losses,
         Chain(shown, fp, s, log, losses), NEW m, NEW new, NEW los,
         new = IF m.type = "state" THEN m.state.log ELSE log,
         \A f : Knows(f, log) /\ Fits(f, losses) => News(f, log, new) /\ Fits(Told(f, new), los)
  PROVE  Chain(shown, fp, Append(s, m), new, los)
<1> DEFINE t == Append(s, m)
           n == Len(s)
<1>1. /\ n \in Nat /\ Len(t) = n + 1 /\ t[n + 1] = m /\ \A i \in 1..n : t[i] = s[i]
  BY ListedAppend
<1> HIDE DEF t, n
<1>2. PICK L, F : ChainOf(L, F, shown, fp, s, log, losses)
  BY DEF Chain
<1> DEFINE M == [i \in 0..(n + 1) |-> IF i = n + 1 THEN new ELSE L[i]]
           G == [i \in 0..(n + 1) |-> IF i = n + 1 THEN Told(F[n], new) ELSE F[i]]
<1>3. /\ M[n + 1] = new /\ G[n + 1] = Told(F[n], new)
      /\ \A i \in 0..n : M[i] = L[i] /\ G[i] = F[i]
  BY <1>1
<1> HIDE DEF M, G
<1>4. /\ L[0] = shown /\ F[0] = fp /\ L[n] = log /\ Fits(F[n], losses) /\ Knows(F[n], log)
      /\ \A i \in 0..n : Knows(F[i], L[i])
      /\ \A i \in 1..n : /\ L[i] = IF s[i].type = "state" THEN s[i].state.log ELSE L[i - 1]
                         /\ F[i] = Told(F[i - 1], L[i]) /\ News(F[i - 1], L[i - 1], L[i])
  BY <1>1, <1>2 DEF ChainOf, n
<1>5. News(F[n], log, new) /\ Fits(Told(F[n], new), los) /\ Knows(Told(F[n], new), new)
  BY <1>4, ToldKnows
<1>6. ASSUME NEW i \in 0..(n + 1)
      PROVE  Knows(G[i], M[i])
  <2>1. CASE i \in 0..n
    BY <1>3, <1>4, <2>1
  <2>2. CASE i = n + 1
    BY <1>3, <1>5, <2>2
  <2> QED BY <1>1, <2>1, <2>2
<1>7. ASSUME NEW i \in 1..(n + 1)
      PROVE  /\ M[i] = IF t[i].type = "state" THEN t[i].state.log ELSE M[i - 1]
             /\ G[i] = Told(G[i - 1], M[i]) /\ News(G[i - 1], M[i - 1], M[i])
  <2>1. CASE i \in 1..n
    <3>1. i \in 0..n /\ i - 1 \in 0..n
      BY <1>1, <2>1
    <3> QED BY <1>1, <1>3, <1>4, <2>1, <3>1
  <2>2. CASE i = n + 1
    <3>1. i - 1 = n /\ n \in 0..n
      BY <1>1, <2>2
    <3> QED BY <1>1, <1>3, <1>4, <1>5, <2>2, <3>1
  <2> QED BY <1>1, <2>1, <2>2
<1>8. M[0] = shown /\ G[0] = fp
  BY <1>1, <1>3, <1>4
<1>9. ChainOf(M, G, shown, fp, t, new, los)
  BY <1>1, <1>3, <1>5, <1>6, <1>7, <1>8 DEF ChainOf
<1> QED BY <1>9 DEF Chain, t

\* Showing the next message.
LEMMA ChainShown ==
  ASSUME NEW shown, NEW fp, NEW s, Listed(s), s # <<>>, NEW log, NEW losses,
         Chain(shown, fp, s, log, losses)
  PROVE  LET new == IF s[1].type = "state" THEN s[1].state.log ELSE shown
         IN  /\ Chain(new, Told(fp, new), Tail(s), log, losses)
             /\ News(fp, shown, new) /\ Knows(fp, shown)
<1> DEFINE t == Tail(s)
           n == Len(s)
           new == IF s[1].type = "state" THEN s[1].state.log ELSE shown
<1>1. /\ n \in Nat /\ n >= 1 /\ Len(t) = n - 1 /\ \A i \in 1..(n - 1) : t[i] = s[i + 1]
  BY ListedTail
<1> HIDE DEF t, n
<1>2. PICK L, F : ChainOf(L, F, shown, fp, s, log, losses)
  BY DEF Chain
<1> DEFINE M == [i \in 0..(n - 1) |-> L[i + 1]]
           G == [i \in 0..(n - 1) |-> F[i + 1]]
<1>3. \A i \in 0..(n - 1) : M[i] = L[i + 1] /\ G[i] = F[i + 1]
  OBVIOUS
<1> HIDE DEF M, G
<1>4. /\ L[0] = shown /\ F[0] = fp /\ L[n] = log /\ Fits(F[n], losses)
      /\ \A i \in 0..n : Knows(F[i], L[i])
      /\ \A i \in 1..n : /\ L[i] = IF s[i].type = "state" THEN s[i].state.log ELSE L[i - 1]
                         /\ F[i] = Told(F[i - 1], L[i]) /\ News(F[i - 1], L[i - 1], L[i])
  BY <1>1, <1>2 DEF ChainOf, n
<1> HIDE DEF new
<1>5. L[1] = new /\ F[1] = Told(fp, new) /\ News(fp, shown, new) /\ Knows(fp, shown)
  BY <1>1, <1>4 DEF new
<1>6. M[0] = new /\ G[0] = Told(fp, new) /\ M[n - 1] = log /\ Fits(G[n - 1], losses)
  BY <1>1, <1>3, <1>4, <1>5
<1>7. \A i \in 0..(n - 1) : Knows(G[i], M[i])
  BY <1>1, <1>3, <1>4
<1>8. ASSUME NEW i \in 1..(n - 1)
      PROVE  /\ M[i] = IF t[i].type = "state" THEN t[i].state.log ELSE M[i - 1]
             /\ G[i] = Told(G[i - 1], M[i]) /\ News(G[i - 1], M[i - 1], M[i])
  <2>1. /\ i \in 0..(n - 1) /\ i - 1 \in 0..(n - 1) /\ i + 1 \in 1..n
        /\ (i - 1) + 1 = i /\ (i + 1) - 1 = i
    BY <1>1
  <2>2. M[i] = L[i + 1] /\ G[i] = F[i + 1] /\ M[i - 1] = L[i] /\ G[i - 1] = F[i] /\ t[i] = s[i + 1]
    BY <1>1, <1>3, <2>1
  <2> QED BY <1>4, <2>1, <2>2
<1>9. ChainOf(M, G, new, Told(fp, new), t, log, losses)
  BY <1>1, <1>6, <1>7, <1>8 DEF ChainOf
<1>10. Chain(new, Told(fp, new), t, log, losses)
  BY <1>9 DEF Chain
<1> QED BY <1>5, <1>10 DEF t, new

\* The messages lead to the room, whose journal may have changed since the last
\* state was sent, by no lost match.
Reaches(shown, fp, msgs, log, losses) ==
  \E sent : Chain(shown, fp, msgs, sent, losses) /\ Loss(log) \in {Nobody, Loss(sent)}

\* The page knows the last loss it was shown, and so on to the room.
LossInv ==
  /\ banner = [shown |-> banner.shown, fp |-> banner.fp]
  /\ Reaches(view.log, banner.fp, inbox, room.log, room.losses)

LEMMA ReachesShown ==
  ASSUME NEW shown, NEW fp, NEW s, Listed(s), s # <<>>, NEW log, NEW losses,
         Reaches(shown, fp, s, log, losses)
  PROVE  LET new == IF s[1].type = "state" THEN s[1].state.log ELSE shown
         IN  /\ Reaches(new, Told(fp, new), Tail(s), log, losses)
             /\ News(fp, shown, new) /\ Knows(fp, shown)
<1>1. PICK sent : Chain(shown, fp, s, sent, losses) /\ Loss(log) \in {Nobody, Loss(sent)}
  BY DEF Reaches
<1> DEFINE new == IF s[1].type = "state" THEN s[1].state.log ELSE shown
<1>2. Chain(new, Told(fp, new), Tail(s), sent, losses) /\ News(fp, shown, new) /\ Knows(fp, shown)
  BY <1>1, ChainShown
<1> HIDE DEF new
<1>3. Reaches(new, Told(fp, new), Tail(s), log, losses)
  BY <1>1, <1>2 DEF Reaches
<1> QED BY <1>2, <1>3 DEF new

LEMMA StateChain ==
  ASSUME NEW shown, NEW fp, NEW s, Listed(s), NEW r, RoomOK(r), NEW h, RoomOK(h), Tells(r, h),
         Reaches(shown, fp, s, r.log, r.losses)
  PROVE  Reaches(shown, fp, Append(s, StateMsg(h)), h.log, h.losses)
<1> DEFINE m == StateMsg(h)
<1>1. m.type = "state" /\ m.state.log = h.log
  BY DEF StateMsg, StateOf
<1> HIDE DEF m
<1>2. PICK sent : Chain(shown, fp, s, sent, r.losses) /\ Loss(r.log) \in {Nobody, Loss(sent)}
  BY DEF Reaches
<1>3. ASSUME NEW f, Knows(f, sent), Fits(f, r.losses)
      PROVE  News(f, sent, h.log) /\ Fits(Told(f, h.log), h.losses)
  <2>1. Knows(f, r.log)
    BY <1>2, <1>3 DEF Knows
  <2>2. News(f, r.log, h.log) /\ Fits(Told(f, h.log), h.losses)
    BY <1>3, <2>1, TellsNews
  <2> QED BY <1>2, <2>2 DEF News
<1>4. h.log = IF m.type = "state" THEN m.state.log ELSE sent
  BY <1>1
<1>5. Chain(shown, fp, Append(s, m), h.log, h.losses)
  BY <1>2, <1>3, <1>4, ChainAdds
<1> QED BY <1>5 DEF Reaches, m

LEMMA NoticeChain ==
  ASSUME NEW shown, NEW fp, NEW s, Listed(s), NEW log, NEW losses,
         Reaches(shown, fp, s, log, losses), NEW m, NEW h, Notice(m, h)
  PROVE  Reaches(shown, fp, Append(s, m), log, losses)
<1>1. PICK sent : Chain(shown, fp, s, sent, losses) /\ Loss(log) \in {Nobody, Loss(sent)}
  BY DEF Reaches
<1>2. sent = IF m.type = "state" THEN m.state.log ELSE sent
  BY DEF Notice, NoticeTypes
<1>3. \A f : Knows(f, sent) /\ Fits(f, losses) => News(f, sent, sent) /\ Fits(Told(f, sent), losses)
  BY ToldKnows
<1>4. Chain(shown, fp, Append(s, m), sent, losses)
  BY <1>1, <1>2, <1>3, ChainAdds
<1> QED BY <1>1, <1>4 DEF Reaches

LEMMA ServesChain ==
  ASSUME NEW shown, NEW fp, NEW s, Listed(s), NEW r, RoomOK(r), NEW h, NEW msgs,
         Serves(r, h, msgs), Reaches(shown, fp, s, r.log, r.losses)
  PROVE  Reaches(shown, fp, s \o msgs, h.log, h.losses)
<1>1. RoomOK(h) /\ Tells(r, h)
  BY DEF Serves
<1> DEFINE last == StateMsg(h)
<1>2. CASE msgs = <<last>>
  <2>1. Reaches(shown, fp, Append(s, last), h.log, h.losses)
    BY <1>1, StateChain
  <2> HIDE DEF last
  <2>2. s \o msgs = Append(s, last)
    BY <1>2, ListedSent
  <2> QED BY <2>1, <2>2
<1>3. ASSUME NEW m, Notice(m, h), msgs = <<m, last>>
      PROVE  Reaches(shown, fp, s \o msgs, h.log, h.losses)
  <2>1. Reaches(shown, fp, Append(s, m), r.log, r.losses) /\ Listed(Append(s, m))
    BY <1>3, NoticeChain, ListedAppend
  <2>2. Reaches(shown, fp, Append(Append(s, m), last), h.log, h.losses)
    BY <1>1, <2>1, StateChain
  <2> HIDE DEF last
  <2>3. s \o msgs = Append(Append(s, m), last)
    BY <1>3, ListedSent
  <2> QED BY <2>2, <2>3
<1>4. ASSUME h.log = r.log, h.losses = r.losses, NEW m, Notice(m, h), msgs = <<m>>
      PROVE  Reaches(shown, fp, s \o msgs, h.log, h.losses)
  <2>1. Reaches(shown, fp, Append(s, m), r.log, r.losses)
    BY <1>4, NoticeChain
  <2> QED BY <1>4, <2>1, ListedSent
<1>5. ASSUME h.log = r.log, h.losses = r.losses, NEW m, NEW o, Notice(m, h), Notice(o, h),
             msgs = <<m, o>>
      PROVE  Reaches(shown, fp, s \o msgs, h.log, h.losses)
  <2>1. Reaches(shown, fp, Append(s, m), r.log, r.losses) /\ Listed(Append(s, m))
    BY <1>5, NoticeChain, ListedAppend
  <2>2. Reaches(shown, fp, Append(Append(s, m), o), r.log, r.losses)
    BY <1>5, <2>1, NoticeChain
  <2>3. s \o msgs = Append(Append(s, m), o)
    BY <1>5, ListedSent
  <2> QED BY <1>5, <2>2, <2>3
<1>6. ASSUME msgs = <<>>, TellsNoLoss(r, h)
      PROVE  Reaches(shown, fp, s \o msgs, h.log, h.losses)
  <2>1. PICK sent : Chain(shown, fp, s, sent, r.losses) /\ Loss(r.log) \in {Nobody, Loss(sent)}
    BY DEF Reaches
  <2>2. Loss(h.log) \in {Nobody, Loss(r.log)} /\ h.losses = r.losses
    BY <1>6, NoLossNews DEF TellsNoLoss
  <2>3. Loss(h.log) \in {Nobody, Loss(sent)}
    BY <2>1, <2>2
  <2>4. s \o msgs = s
    BY <1>6 DEF Listed
  <2> QED BY <2>1, <2>2, <2>3, <2>4 DEF Reaches
<1> QED BY <1>2, <1>3, <1>4, <1>5, <1>6 DEF Serves

LEMMA LossInit == Init => LossInv
<1> SUFFICES ASSUME Init PROVE LossInv
  OBVIOUS
<1>1. banner = [shown |-> Nobody, fp |-> <<>>] /\ view.log = <<>> /\ inbox = <<StateMsg(room)>>
  BY DEF Init, NoBanner, NoView
<1>2. RoomOK(room) /\ room.log = <<>>
  BY RoomInit
<1> DEFINE none == [i \in 0..0 |-> <<>>]
<1>3. Loss(<<>>) = Nobody
  <2>1. Places(<<>>, {"match_lost"}) = {}
    BY DEF Places
  <2> QED BY <2>1 DEF Loss, Newest
<1>4. Len(<<>>) = 0 /\ none[0] = <<>> /\ 0..0 = {0} /\ 1..0 = {}
  OBVIOUS
<1> HIDE DEF none
<1>5. ChainOf(none, none, <<>>, <<>>, <<>>, <<>>, room.losses)
  BY <1>3, <1>4 DEF ChainOf, Knows, Fits
<1>6. Reaches(<<>>, <<>>, <<>>, room.log, room.losses)
  BY <1>2, <1>5 DEF Chain, Reaches
<1>7. Listed(<<>>) /\ Tells(room, room)
  <2>1. TellsNoLoss(room, room)
    BY DEF TellsNoLoss
  <2>2. <<>> \in Seq(Nat)
    OBVIOUS
  <2> QED BY <1>2, <2>1, <2>2, TellsAtOnce, ListedSeq
<1>8. Reaches(<<>>, <<>>, Append(<<>>, StateMsg(room)), room.log, room.losses)
  BY <1>2, <1>6, <1>7, StateChain
<1>9. Append(<<>>, StateMsg(room)) = <<StateMsg(room)>>
  OBVIOUS
<1>10. banner.fp = <<>> /\ banner = [shown |-> banner.shown, fp |-> banner.fp]
  BY <1>1
<1> QED BY <1>1, <1>8, <1>9, <1>10 DEF LossInv

\* What the banner becomes when a state is shown.
LEMMA BannerIs ==
  ASSUME LossInv, NEW log
  PROVE  /\ Announce(banner, log).fp = Told(banner.fp, log)
         /\ Announce(banner, log) = [shown |-> Announce(banner, log).shown,
                                     fp |-> Announce(banner, log).fp]
         /\ Announce(banner, log).shown =
              IF Loss(log) = Nobody \/ Fingerprint(Loss(log)) = banner.fp
              THEN banner.shown ELSE Loss(log)
BY DEF Announce, LossInv, Told, Loss

LEMMA LossStep == PageInv /\ LossInv /\ [Next]_clientVars => LossInv'
<1> SUFFICES ASSUME PageInv, LossInv, [Next]_clientVars PROVE LossInv'
  OBVIOUS
<1>1. CASE Server
  <2>1. PICK msgs : Serves(room, room', msgs) /\ inbox' = inbox \o msgs
    BY <1>1, ServerServes DEF PageInv
  <2>2. view' = view /\ banner' = banner
    BY <1>1, ServerServes DEF PageInv, serverVars
  <2>3. Reaches(view.log, banner.fp, inbox', room'.log, room'.losses)
    BY <2>1, ServesChain DEF PageInv, InboxOK, LossInv
  <2> QED BY <2>2, <2>3 DEF LossInv
<1>2. CASE ReceiveSave
  <2>1. /\ RoomOK(room') /\ room'.log = room.log /\ room'.losses = room.losses
        /\ inbox' = Append(inbox, StateMsg(room'))
    BY <1>2, SaveServes
  <2>2. view' = view /\ banner' = banner
    BY <1>2 DEF ReceiveSave
  <2>3. Tells(room, room')
    BY <2>1, TellsAtOnce DEF TellsNoLoss, PageInv
  <2>4. Reaches(view.log, banner.fp, inbox', room'.log, room'.losses)
    BY <2>1, <2>3, StateChain DEF PageInv, InboxOK, LossInv
  <2> QED BY <2>2, <2>4 DEF LossInv
<1>3. CASE ShowState
  <2>1. Head(inbox) = inbox[1] /\ Listed(inbox) /\ inbox # <<>>
    BY <1>3, InboxShown DEF ShowState, PageInv, InboxOK
  <2>2. /\ inbox[1].type = "state" /\ view'.log = inbox[1].state.log
        /\ banner' = Announce(banner, view'.log) /\ inbox' = Tail(inbox) /\ room' = room
    BY <1>3, <2>1 DEF ShowState
  <2>3. Reaches(view'.log, Told(banner.fp, view'.log), Tail(inbox), room.log, room.losses)
    BY <2>1, <2>2, ReachesShown DEF LossInv
  <2>4. banner'.fp = Told(banner.fp, view'.log) /\ banner' = [shown |-> banner'.shown, fp |-> banner'.fp]
    BY <2>2, BannerIs
  <2> QED BY <2>2, <2>3, <2>4 DEF LossInv
<1>4. CASE ShowNotice
  <2>1. Head(inbox) = inbox[1] /\ Listed(inbox) /\ inbox # <<>>
    BY <1>4, InboxShown DEF ShowNotice, PageInv, InboxOK
  <2>2. /\ inbox[1].type # "state" /\ view' = view /\ banner' = banner
        /\ inbox' = Tail(inbox) /\ room' = room
    BY <1>4, <2>1 DEF ShowNotice
  <2>3. /\ Reaches(view.log, Told(banner.fp, view.log), Tail(inbox), room.log, room.losses)
        /\ Knows(banner.fp, view.log)
    BY <2>1, <2>2, ReachesShown DEF LossInv
  <2>4. Told(banner.fp, view.log) = banner.fp
    BY <2>3, ToldKnows
  <2> QED BY <2>2, <2>3, <2>4 DEF LossInv
<1>5. CASE BannerTimeout
  <2>1. banner' = [banner EXCEPT !.shown = Nobody] /\ UNCHANGED <<room, inbox, view>>
    BY <1>5 DEF BannerTimeout
  <2>2. banner'.fp = banner.fp /\ banner' = [shown |-> banner'.shown, fp |-> banner'.fp]
    BY <2>1 DEF LossInv
  <2> QED BY <2>1, <2>2 DEF LossInv
<1>6. CASE Panel
  BY <1>6, PanelStays DEF LossInv
<1>7. CASE OwnToastTimeout \/ OpponentToastTimeout \/ DismissWarning \/ UNCHANGED clientVars
  <2>1. UNCHANGED <<room, inbox, view, banner>>
    BY <1>7 DEF OwnToastTimeout, OpponentToastTimeout, DismissWarning, clientVars
  <2> QED BY <2>1 DEF LossInv
<1> QED BY <1>1, <1>2, <1>3, <1>4, <1>5, <1>6, <1>7 DEF Next

\* Every lost match is announced as it arrives, and once: the state that brings
\* a loss the page was not shown puts its banner up, whatever banner was there,
\* and every other state leaves the banner as it is.
THEOREM LossesAnnouncedOnce == Spec => LossesAreAnnounced
<1> DEFINE Told1 == ShowState =>
              banner'.shown = IF NewestLoss(view') \in {Nobody, NewestLoss(view)}
                              THEN banner.shown ELSE NewestLoss(view')
<1>1. Init => PageInv /\ LossInv
  BY PageInit, LossInit
<1>2. PageInv /\ LossInv /\ [Next]_clientVars => (PageInv /\ LossInv)'
  BY PageStep, LossStep
<1>3. PageInv /\ LossInv /\ [Next]_clientVars => [Told1]_clientVars
  <2> SUFFICES ASSUME PageInv, LossInv, ShowState
               PROVE  banner'.shown = IF NewestLoss(view') \in {Nobody, NewestLoss(view)}
                                      THEN banner.shown ELSE NewestLoss(view')
    OBVIOUS
  <2>1. Head(inbox) = inbox[1] /\ Listed(inbox) /\ inbox # <<>>
    BY InboxShown DEF ShowState, PageInv, InboxOK
  <2>2. /\ inbox[1].type = "state" /\ view'.log = inbox[1].state.log
        /\ banner' = Announce(banner, view'.log)
    BY <2>1 DEF ShowState
  <2>3. News(banner.fp, view.log, view'.log) /\ Knows(banner.fp, view.log)
    BY <2>1, <2>2, ReachesShown DEF LossInv
  <2>4. banner'.shown = IF Loss(view'.log) = Nobody \/ Fingerprint(Loss(view'.log)) = banner.fp
                        THEN banner.shown ELSE Loss(view'.log)
    BY <2>2, BannerIs
  <2>5. NewestLoss(view') = Loss(view'.log) /\ NewestLoss(view) = Loss(view.log)
    BY DEF NewestLoss, Loss
  <2> QED BY <2>3, <2>4, <2>5 DEF News, Knows
<1>4. LossesAreAnnounced <=> [][Told1]_clientVars
  BY DEF LossesAreAnnounced
<1> QED BY <1>1, <1>2, <1>3, <1>4, PTL DEF Spec

----------------------------------------------------------------------------
(* The cards of the ticker, headline by headline.  FoldLeft is a recursive *)
(* function on the sets of places of a sequence; its values on the first   *)
(* places are those of the loop.                                           *)

\* The cards made of the headlines at the places s, given those of fewer.
CardStep(h, iter, s) == IF s = {} THEN <<>> ELSE AddCard(iter[s \ {Max(s)}], h[Max(s)])
IsFold(iter, h, S) == iter = [s \in SUBSET S |-> CardStep(h, iter, s)]
FoldOf(h, S) == CHOOSE iter : IsFold(iter, h, S)

LEMMA CardsAreFold ==
  ASSUME NEW log
  PROVE  Cards(log) = FoldOf(Headlines(log), DOMAIN Headlines(log))[DOMAIN Headlines(log)]
BY DEF Cards, FoldLeft, MapThenFoldSet, FoldOf, IsFold, CardStep

LEMMA MaxIn ==
  ASSUME NEW b \in Nat, NEW s \in SUBSET (1..b), s # {}
  PROVE  Max(s) \in s /\ \A x \in s : x <= Max(s)
<1>1. s \in SUBSET (0..b)
  OBVIOUS
<1>2. \E x \in s : \A y \in s : y <= x
  BY <1>1, GreatestIn
<1>3. \E x \in s : \A y \in s : x >= y
  BY <1>2
<1>4. Max(s) \in s /\ \A y \in s : Max(s) >= y
  BY <1>3 DEF Max
<1> QED BY <1>4

\* The recursion defines a function.
LEMMA FoldExists ==
  ASSUME NEW b \in Nat, NEW h
  PROVE  IsFold(FoldOf(h, 1..b), h, 1..b)
<1> DEFINE S == 1..b
           Upto(g, n) == \A s \in SUBSET S : (\A x \in s : x <= n) => g[s] = CardStep(h, g, s)
           bad == {n \in Nat : ~ \E g : Upto(g, n)}
<1>1. Upto([s \in SUBSET S |-> <<>>], 0)
  <2> SUFFICES ASSUME NEW s \in SUBSET S, \A x \in s : x <= 0
               PROVE  [r \in SUBSET S |-> <<>>][s] = CardStep(h, [r \in SUBSET S |-> <<>>], s)
    OBVIOUS
  <2>1. s = {}
    OBVIOUS
  <2> QED BY <2>1 DEF CardStep
<1>2. ASSUME NEW n \in Nat, NEW g, Upto(g, n)
      PROVE  \E k : Upto(k, n + 1)
  <2> DEFINE k == [s \in SUBSET S |-> CardStep(h, g, s)]
  <2>1. ASSUME NEW s \in SUBSET S, \A x \in s : x <= n + 1, s # {}
        PROVE  k[s \ {Max(s)}] = g[s \ {Max(s)}]
    <3> DEFINE top == Max(s)
               r == s \ {top}
    <3>1. top \in s /\ \A x \in s : x <= top
      BY <2>1, MaxIn
    <3> HIDE DEF top
    <3>2. r \in SUBSET S /\ \A x \in r : x <= n
      <4>1. ASSUME NEW x \in r
            PROVE  x <= n
        <5>1. x \in s /\ x # top /\ x \in Nat /\ top \in Nat
          BY <3>1
        <5>2. x <= top /\ top <= n + 1
          BY <2>1, <3>1, <5>1
        <5> QED BY <1>2, <5>1, <5>2
      <4> QED BY <4>1
    <3>3. g[r] = CardStep(h, g, r)
      BY <1>2, <3>2
    <3>4. k[r] = g[r]
      BY <3>2, <3>3
    <3> QED BY <3>4 DEF top
  <2>2. Upto(k, n + 1)
    BY <2>1 DEF CardStep
  <2> QED BY <2>2
<1>3. bad = {}
  <2>1. 0 \notin bad
    BY <1>1
  <2>2. \A n \in Nat : n \notin bad => n + 1 \notin bad
    BY <1>2
  <2>3. bad \in SUBSET Nat
    OBVIOUS
  <2> HIDE DEF bad
  <2> SUFFICES ASSUME bad # {} PROVE FALSE
    OBVIOUS
  <2>4. PICK n \in bad : \A m \in bad : n <= m
    BY <2>3, LeastIn
  <2>5. n - 1 \in Nat /\ n - 1 \notin bad
    BY <2>1, <2>3, <2>4
  <2>6. (n - 1) + 1 = n
    BY <2>3, <2>4
  <2> DEFINE m == n - 1
  <2>7. m \in Nat /\ m \notin bad /\ m + 1 = n
    BY <2>5, <2>6
  <2> HIDE DEF m
  <2> QED BY <2>2, <2>4, <2>7
<1>4. PICK g : Upto(g, b)
  BY <1>3
<1> DEFINE iter == [s \in SUBSET S |-> g[s]]
<1>5. IsFold(iter, h, S)
  <2>1. ASSUME NEW s \in SUBSET S
        PROVE  g[s] = CardStep(h, iter, s)
    <3>1. \A x \in s : x <= b
      OBVIOUS
    <3>2. g[s] = CardStep(h, g, s)
      BY <1>4, <3>1
    <3>3. s \ {Max(s)} \in SUBSET S
      OBVIOUS
    <3> QED BY <3>2, <3>3 DEF CardStep
  <2> QED BY <2>1 DEF IsFold
<1> QED BY <1>5 DEF FoldOf

\* The cards of the first m headlines.
CardsOf(h, m) == FoldOf(h, DOMAIN h)[1..m]

LEMMA CardsUnfold ==
  ASSUME NEW b \in Nat, NEW h, DOMAIN h = 1..b
  PROVE  /\ CardsOf(h, 0) = <<>>
         /\ \A m \in 1..b : CardsOf(h, m) = AddCard(CardsOf(h, m - 1), h[m])
<1> DEFINE S == 1..b
           iter == FoldOf(h, S)
<1>1. iter = [s \in SUBSET S |-> CardStep(h, iter, s)]
  BY FoldExists DEF IsFold
<1> HIDE DEF iter
<1>2. \A s \in SUBSET S : iter[s] = CardStep(h, iter, s)
  BY <1>1
<1>3. 1..0 = {} /\ {} \in SUBSET S
  OBVIOUS
<1>4. iter[1..0] = <<>>
  BY <1>2, <1>3 DEF CardStep
<1>5. ASSUME NEW m \in 1..b
      PROVE  iter[1..m] = AddCard(iter[1..(m - 1)], h[m])
  <2> DEFINE s == 1..m
  <2>1. s \in SUBSET S /\ m \in s /\ s # {}
    BY SMTT(30)
  <2>2. Max(s) \in s /\ \A x \in s : x <= Max(s)
    BY <2>1, MaxIn
  <2>3. Max(s) = m
    BY <2>1, <2>2
  <2>4. s \ {m} = 1..(m - 1)
    OBVIOUS
  <2>5. iter[s] = CardStep(h, iter, s)
    BY <1>2, <2>1
  <2> HIDE DEF s
  <2>6. CardStep(h, iter, s) = AddCard(iter[s \ {m}], h[m])
    BY <2>1, <2>3 DEF CardStep
  <2> QED BY <2>4, <2>5, <2>6 DEF s
<1> QED BY <1>4, <1>5 DEF CardsOf, iter

CardType == [event : Event, repeat : Nat]

\* Headlines as the journal gives them: of different events, and never twice in
\* a row that the same player was taken over.
Tellable(h, n) ==
  /\ \A x \in 1..n : h[x] \in Event
  /\ \A x, y \in 1..n : x # y => h[x] # h[y]
  /\ \A x \in 1..n : x + 1 \in 1..n /\ h[x].key = "takeover" => DedupKey(h[x + 1]) # DedupKey(h[x])

\* The cards of the first m headlines: each tells one of them, no two the same,
\* a takeover's stands for it alone; and while there is room every takeover
\* has one and the last card is about the last headline.
CardsInv(h, m, c) ==
  /\ c \in Seq(CardType)
  /\ \A k \in 1..Len(c) : \E x \in 1..m : c[k].event = h[x]
  /\ \A j, k \in 1..Len(c) : j # k => c[j].event # c[k].event
  /\ \A k \in 1..Len(c) : c[k].event.key = "takeover" => c[k].repeat = 1
  /\ Len(c) < MaxCards =>
       /\ \A x \in 1..m : h[x].key = "takeover" => \E k \in 1..Len(c) : c[k].event = h[x]
       /\ m > 0 => c # <<>> /\ DedupKey(Last(c).event) = DedupKey(h[m])

LEMMA CardFull ==
  ASSUME NEW h, NEW m \in Nat, NEW c, CardsInv(h, m, c), Len(c) >= MaxCards
  PROVE  CardsInv(h, m + 1, c)
<1>1. 1..m \subseteq 1..(m + 1)
  OBVIOUS
<1>2. ~(Len(c) < MaxCards)
  BY JournalAssumption DEF CardsInv
<1> QED BY <1>1, <1>2 DEF CardsInv

LEMMA CardRepeats ==
  ASSUME NEW h, NEW n \in Nat, Tellable(h, n), NEW m \in Nat, m + 1 \in 1..n,
         NEW c, CardsInv(h, m, c), Len(c) < MaxCards, c # <<>>,
         DedupKey(Last(c).event) = DedupKey(h[m + 1])
  PROVE  CardsInv(h, m + 1, [c EXCEPT ![Len(c)].repeat = @ + 1])
<1> DEFINE l == Len(c)
           last == [c[l] EXCEPT !.repeat = @ + 1]
           d == [c EXCEPT ![l] = last]
<1>1. c \in Seq(CardType) /\ l \in Nat /\ l \in 1..l /\ Last(c) = c[l]
  BY DEF CardsInv, Last
<1>2. c[l] \in CardType
  BY <1>1
<1>3. last \in CardType /\ last.event = c[l].event
  BY <1>2 DEF CardType
<1>4. [c EXCEPT ![Len(c)].repeat = @ + 1] = d
  OBVIOUS
<1> HIDE DEF last
<1>5. d \in Seq(CardType) /\ Len(d) = l /\ d[l] = last /\ \A k \in 1..l : k # l => d[k] = c[k]
  BY <1>1, <1>3
<1> HIDE DEF d, l
<1>6. \A k \in 1..l : d[k].event = c[k].event
  BY <1>3, <1>5
\* The headline before this one is no takeover: two in a row of one player.
<1>7. h[m + 1].key # "takeover"
  <2> SUFFICES ASSUME h[m + 1].key = "takeover" PROVE FALSE
    OBVIOUS
  <2>1. PICK x \in 1..m : c[l].event = h[x]
    BY <1>1 DEF CardsInv, l
  <2>2. m > 0 /\ m \in 1..n
    BY <2>1
  <2>3. DedupKey(h[m]) = DedupKey(h[m + 1])
    BY <2>2 DEF CardsInv, l
  <2>4. h[m].key = "takeover"
    BY <2>3 DEF DedupKey
  <2> QED BY <2>2, <2>3, <2>4 DEF Tellable
<1>8. c[l].event.key # "takeover"
  BY <1>1, <1>7 DEF DedupKey
<1>9. 1..m \subseteq 1..(m + 1) /\ m + 1 > 0 /\ \A x \in 1..(m + 1) : x \in 1..m \/ x = m + 1
  OBVIOUS
<1>10. d \in Seq(CardType) /\ \A k \in 1..Len(d) : \E x \in 1..(m + 1) : d[k].event = h[x]
  BY <1>5, <1>6, <1>9 DEF CardsInv, l
<1>11. \A j, k \in 1..Len(d) : j # k => d[j].event # d[k].event
  BY <1>5, <1>6 DEF CardsInv, l
<1>12. \A k \in 1..Len(d) : d[k].event.key = "takeover" => d[k].repeat = 1
  BY <1>5, <1>6, <1>8 DEF CardsInv, l
<1>13. \A x \in 1..(m + 1) : h[x].key = "takeover" => \E k \in 1..Len(d) : d[k].event = h[x]
  BY <1>5, <1>6, <1>7, <1>9 DEF CardsInv, l
<1>14. d # <<>> /\ DedupKey(Last(d).event) = DedupKey(h[m + 1])
  BY <1>1, <1>3, <1>5 DEF Last
<1>15. CardsInv(h, m + 1, d)
  BY <1>10, <1>11, <1>12, <1>13, <1>14 DEF CardsInv
<1> QED BY <1>4, <1>15 DEF l

LEMMA CardNew ==
  ASSUME NEW h, NEW n \in Nat, Tellable(h, n), NEW m \in Nat, m + 1 \in 1..n,
         NEW c, CardsInv(h, m, c)
  PROVE  CardsInv(h, m + 1, Append(c, Card(h[m + 1])))
<1> DEFINE l == Len(c)
           e == h[m + 1]
           d == Append(c, Card(e))
<1>1. c \in Seq(CardType) /\ l \in Nat
  BY DEF CardsInv
<1>2. e \in Event
  BY DEF Tellable
<1>3. Card(e) \in CardType /\ Card(e).event = e /\ Card(e).repeat = 1
  BY <1>2 DEF Card, CardType
<1> HIDE DEF e
<1>4. d \in Seq(CardType) /\ Len(d) = l + 1 /\ d[l + 1] = Card(e) /\ \A k \in 1..l : d[k] = c[k]
  BY <1>1, <1>3
<1> HIDE DEF d, l
<1>5. \A k \in 1..(l + 1) : k \in 1..l \/ k = l + 1
  BY <1>1
<1>6. \A k \in 1..l : \E x \in 1..m : c[k].event = h[x]
  BY DEF CardsInv, l
<1>7. \A x \in 1..m : h[x] # e
  BY DEF Tellable, e
<1>8. /\ 1..m \subseteq 1..(m + 1) /\ m + 1 > 0
      /\ \A x \in 1..(m + 1) : x \in 1..m \/ x = m + 1
      /\ m + 1 \in 1..(m + 1)
  OBVIOUS
<1>9. \A k \in 1..l : d[k].event = c[k].event /\ d[k].event # e
  BY <1>4, <1>6, <1>7
<1>10. \A k \in 1..Len(d) : \E x \in 1..(m + 1) : d[k].event = h[x]
  <2>1. ASSUME NEW k \in 1..l
        PROVE  \E x \in 1..(m + 1) : d[k].event = h[x]
    BY <1>6, <1>8, <1>9
  <2>2. d[l + 1].event = h[m + 1]
    BY <1>3, <1>4 DEF e
  <2> QED BY <1>4, <1>5, <1>8, <2>1, <2>2
<1>11. ASSUME NEW j \in 1..Len(d), NEW k \in 1..Len(d), j # k
       PROVE  d[j].event # d[k].event
  <2>1. CASE j \in 1..l /\ k \in 1..l
    BY <1>9, <1>11, <2>1 DEF CardsInv, l
  <2>2. CASE j = l + 1 /\ k \in 1..l
    BY <1>3, <1>4, <1>9, <2>2
  <2>3. CASE k = l + 1 /\ j \in 1..l
    BY <1>3, <1>4, <1>9, <2>3
  <2> QED BY <1>4, <1>5, <1>11, <2>1, <2>2, <2>3
<1>12. \A k \in 1..Len(d) : d[k].event.key = "takeover" => d[k].repeat = 1
  BY <1>3, <1>4, <1>5, <1>9 DEF CardsInv, l
<1>13. ASSUME Len(d) < MaxCards, NEW x \in 1..(m + 1), h[x].key = "takeover"
       PROVE  \E k \in 1..Len(d) : d[k].event = h[x]
  <2>1. CASE x \in 1..m
    <3>1. Len(c) < MaxCards
      BY <1>1, <1>4, <1>13, JournalAssumption DEF l
    <3>2. PICK k \in 1..l : c[k].event = h[x]
      BY <1>13, <2>1, <3>1 DEF CardsInv, l
    <3>3. k \in 1..Len(d) /\ d[k].event = h[x]
      BY <1>1, <1>4, <1>9, <3>2
    <3> QED BY <3>3
  <2>2. CASE x = m + 1
    <3>1. l + 1 \in 1..Len(d) /\ d[l + 1].event = h[x]
      BY <1>1, <1>3, <1>4, <2>2 DEF e
    <3> QED BY <3>1
  <2> QED BY <1>8, <2>1, <2>2
<1>14. d # <<>> /\ DedupKey(Last(d).event) = DedupKey(h[m + 1])
  BY <1>1, <1>3, <1>4 DEF Last, e
<1>15. CardsInv(h, m + 1, d)
  BY <1>4, <1>10, <1>11, <1>12, <1>13, <1>14 DEF CardsInv
<1> QED BY <1>15 DEF d, e

\* Every prefix, up to all of them.
LEMMA CardsStep ==
  ASSUME NEW h, NEW n \in Nat, DOMAIN h = 1..n, Tellable(h, n)
  PROVE  CardsInv(h, n, CardsOf(h, n))
<1> DEFINE bad == {m \in 0..n : ~CardsInv(h, m, CardsOf(h, m))}
<1>1. CardsInv(h, 0, CardsOf(h, 0))
  <2>1. CardsOf(h, 0) = <<>>
    BY CardsUnfold
  <2>2. <<>> \in Seq(CardType) /\ Len(<<>>) = 0 /\ 1..0 = {} /\ ~(0 > 0)
    OBVIOUS
  <2>3. CardsInv(h, 0, <<>>)
    BY <2>2 DEF CardsInv
  <2> QED BY <2>1, <2>3
<1>2. ASSUME NEW m \in Nat, m + 1 \in 1..n, CardsInv(h, m, CardsOf(h, m))
      PROVE  CardsInv(h, m + 1, CardsOf(h, m + 1))
  <2> DEFINE c == CardsOf(h, m)
  <2>1. CardsOf(h, m + 1) = AddCard(c, h[m + 1])
    <3>1. (m + 1) - 1 = m
      OBVIOUS
    <3>2. CardsOf(h, m + 1) = AddCard(CardsOf(h, (m + 1) - 1), h[m + 1])
      BY <1>2, CardsUnfold
    <3> QED BY <3>1, <3>2
  <2> HIDE DEF c
  <2>2. CardsInv(h, m, c) /\ Len(c) \in Nat
    BY <1>2 DEF c, CardsInv
  <2>3. CASE Len(c) >= MaxCards
    <3>1. AddCard(c, h[m + 1]) = c
      BY <2>3 DEF AddCard
    <3> QED BY <2>1, <2>2, <2>3, <3>1, CardFull
  <2>4. CASE /\ ~(Len(c) >= MaxCards) /\ c # <<>>
             /\ DedupKey(Last(c).event) = DedupKey(h[m + 1])
    <3>1. AddCard(c, h[m + 1]) = [c EXCEPT ![Len(c)].repeat = @ + 1]
      BY <2>4 DEF AddCard
    <3>2. Len(c) < MaxCards
      BY <2>2, <2>4, JournalAssumption
    <3> QED BY <1>2, <2>1, <2>2, <2>4, <3>1, <3>2, CardRepeats
  <2>5. CASE /\ ~(Len(c) >= MaxCards)
             /\ ~(c # <<>> /\ DedupKey(Last(c).event) = DedupKey(h[m + 1]))
    <3>1. AddCard(c, h[m + 1]) = Append(c, Card(h[m + 1]))
      BY <2>5 DEF AddCard
    <3> QED BY <1>2, <2>1, <2>2, <3>1, CardNew
  <2> QED BY <2>3, <2>4, <2>5
<1>3. bad = {}
  <2> SUFFICES ASSUME bad # {} PROVE FALSE
    OBVIOUS
  <2>1. bad \in SUBSET Nat
    OBVIOUS
  <2>2. PICK m \in bad : \A k \in bad : m <= k
    <3> HIDE DEF bad
    <3> QED BY <2>1, LeastIn
  <2>3. m \in 1..n
    BY <1>1
  <2>4. PICK k \in Nat : m = k + 1
    BY <2>3
  <2>5. k \in 0..n /\ k \notin bad
    BY <2>2, <2>3, <2>4
  <2>6. CardsInv(h, k + 1, CardsOf(h, k + 1))
    BY <1>2, <2>3, <2>4, <2>5
  <2> QED BY <2>4, <2>6
<1> QED BY <1>3

----------------------------------------------------------------------------
(* The headlines: the places told of, from the last to the first.          *)

Above(S, i) == {j \in S : j > i}
At(S, k) == CHOOSE i \in S : Cardinality(Above(S, i)) = k - 1

LEMMA AboveIs ==
  ASSUME NEW b \in Nat, NEW S \in SUBSET (1..b)
  PROVE  /\ IsFiniteSet(S) /\ Cardinality(S) \in Nat
         /\ \A i \in S : Cardinality(Above(S, i)) + 1 \in 1..Cardinality(S)
         /\ \A i, j \in S : i < j => Cardinality(Above(S, j)) < Cardinality(Above(S, i))
<1>1. IsFiniteSet(1..b)
  BY FS_Interval
<1>2. IsFiniteSet(S) /\ Cardinality(S) \in Nat
  BY <1>1, FS_Subset, FS_CardinalityType
<1>3. \A T \in SUBSET S : IsFiniteSet(T) /\ Cardinality(T) \in Nat
  BY <1>2, FS_Subset, FS_CardinalityType
<1>4. ASSUME NEW i \in S
      PROVE  Cardinality(Above(S, i)) + 1 \in 1..Cardinality(S)
  <2>1. Above(S, i) \in SUBSET (S \ {i})
    BY DEF Above
  <2>2. IsFiniteSet(S \ {i}) /\ Cardinality(S \ {i}) = Cardinality(S) - 1
    BY <1>2, FS_RemoveElement
  <2>3. Cardinality(Above(S, i)) <= Cardinality(S \ {i})
    BY <2>1, <2>2, FS_Subset
  <2>4. Cardinality(Above(S, i)) \in Nat
    BY <1>3, <2>1
  <2> QED BY <1>2, <2>2, <2>3, <2>4
<1>5. ASSUME NEW i \in S, NEW j \in S, i < j
      PROVE  Cardinality(Above(S, j)) < Cardinality(Above(S, i))
  <2>1. Above(S, j) \in SUBSET S /\ Above(S, i) \in SUBSET S
    BY DEF Above
  <2>2. j \notin Above(S, j)
    BY DEF Above
  <2>3. Above(S, j) \cup {j} \in SUBSET Above(S, i)
    <3>1. i \in Nat /\ j \in Nat /\ \A k \in S : k \in Nat
      OBVIOUS
    <3>2. \A k \in S : k > j => k > i
      BY <1>5, <3>1
    <3> QED BY <1>5, <3>1, <3>2 DEF Above
  <2>4. Cardinality(Above(S, j) \cup {j}) = Cardinality(Above(S, j)) + 1
    BY <1>3, <2>1, <2>2, FS_AddElement
  <2>5. Cardinality(Above(S, j) \cup {j}) <= Cardinality(Above(S, i))
    BY <1>3, <2>1, <2>3, FS_Subset
  <2>6. Cardinality(Above(S, j)) \in Nat /\ Cardinality(Above(S, i)) \in Nat
    BY <1>3, <2>1
  <2> QED BY <2>4, <2>5, <2>6
<1> QED BY <1>2, <1>4, <1>5

\* They are all counted, each at its rank.
LEMMA AtIs ==
  ASSUME NEW b \in Nat, NEW S \in SUBSET (1..b)
  PROVE  /\ Cardinality(S) \in Nat
         /\ \A x \in 1..Cardinality(S) : At(S, x) \in S
         /\ \A x, y \in 1..Cardinality(S) : x < y => At(S, y) < At(S, x)
         /\ \A i \in S : \E x \in 1..Cardinality(S) : At(S, x) = i
<1> DEFINE n == Cardinality(S)
           rank == [i \in S |-> Cardinality(Above(S, i)) + 1]
<1>1. /\ IsFiniteSet(S) /\ n \in Nat
      /\ \A i \in S : Cardinality(Above(S, i)) + 1 \in 1..n
      /\ \A i, j \in S : i < j => Cardinality(Above(S, j)) < Cardinality(Above(S, i))
  BY AboveIs
<1>2. rank \in [S -> 1..n]
  BY <1>1
<1>3. \A i \in S : i \in Nat /\ rank[i] \in Nat /\ Cardinality(Above(S, i)) = rank[i] - 1
                   /\ Cardinality(Above(S, i)) \in Int
  <2> SUFFICES ASSUME NEW i \in S
               PROVE  i \in Nat /\ rank[i] \in Nat /\ Cardinality(Above(S, i)) = rank[i] - 1
                      /\ Cardinality(Above(S, i)) \in Int
    OBVIOUS
  <2>1. Above(S, i) \in SUBSET S
    BY DEF Above
  <2>2. Cardinality(Above(S, i)) \in Nat
    BY <1>1, <2>1, FS_Subset, FS_CardinalityType
  <2> QED BY <2>2
<1> HIDE DEF rank, n
<1>4. \A i, j \in S : i < j => rank[j] < rank[i]
  BY <1>1, <1>3
<1>5. \A i, j \in S : rank[i] = rank[j] => i = j
  <2> SUFFICES ASSUME NEW i \in S, NEW j \in S, rank[i] = rank[j], i # j PROVE FALSE
    OBVIOUS
  <2>1. i < j \/ j < i
    BY <1>3
  <2> QED BY <1>3, <1>4, <2>1
<1>6. rank \in Injection(S, 1..n)
  BY <1>2, <1>5 DEF Injection, IsInjective
<1>7. IsFiniteSet(1..n) /\ Cardinality(1..n) = n
  BY <1>1, FS_Interval
<1>8. rank \in Surjection(S, 1..n)
  BY <1>1, <1>6, <1>7, FS_Injection DEF n
<1>9. \A x \in 1..n : \E i \in S : rank[i] = x
  BY <1>8 DEF Surjection
<1>10. ASSUME NEW x \in 1..n
       PROVE  At(S, x) \in S /\ rank[At(S, x)] = x
  <2>1. \E i \in S : Cardinality(Above(S, i)) = x - 1
    BY <1>3, <1>9
  <2>2. At(S, x) \in S /\ Cardinality(Above(S, At(S, x))) = x - 1
    BY <2>1 DEF At
  <2> DEFINE i == At(S, x)
  <2>3. i \in S /\ Cardinality(Above(S, i)) = x - 1
    BY <2>2
  <2> HIDE DEF i
  <2>4. rank[i] \in Nat /\ x \in Int /\ rank[i] - 1 = x - 1
    BY <1>1, <1>3, <2>3
  <2>5. rank[i] = x
    BY <2>4
  <2> QED BY <2>3, <2>5 DEF i
<1>11. ASSUME NEW x \in 1..n, NEW y \in 1..n, x < y
       PROVE  At(S, y) < At(S, x)
  <2>1. /\ At(S, x) \in S /\ rank[At(S, x)] = x /\ At(S, x) \in Nat
        /\ At(S, y) \in S /\ rank[At(S, y)] = y /\ At(S, y) \in Nat
    BY <1>3, <1>10
  <2>2. At(S, x) # At(S, y) /\ ~(At(S, x) < At(S, y))
    BY <1>4, <1>11, <2>1
  <2> QED BY <2>1, <2>2
<1>12. ASSUME NEW i \in S
       PROVE  \E x \in 1..n : At(S, x) = i
  <2>1. rank[i] \in 1..n
    BY <1>2
  <2>2. At(S, rank[i]) \in S /\ rank[At(S, rank[i])] = rank[i]
    BY <1>10, <2>1
  <2>3. At(S, rank[i]) = i
    BY <1>5, <2>2
  <2> QED BY <2>1, <2>3
<1> QED BY <1>1, <1>10, <1>11, <1>12 DEF n

\* The places the ticker tells of.
Spoken(log) == {i \in Places(log, Headline) : i \notin Repeated(log)}

LEMMA EventsDiffer ==
  ASSUME NEW log \in Seq(Event), Ordered(log), NEW i \in DOMAIN log, NEW j \in DOMAIN log, i # j
  PROVE  log[i] # log[j]
<1>1. i \in Nat /\ j \in Nat /\ log[i].n \in Nat /\ log[j].n \in Nat
  BY EventAt
<1>2. i < j \/ j < i
  BY <1>1
<1>3. log[i].n < log[j].n \/ log[j].n < log[i].n
  BY <1>2 DEF Ordered
<1> QED BY <1>1, <1>3

\* Between two takeovers of a player that are both told it came back.
LEMMA BackBetween ==
  ASSUME NEW log \in Seq(Event), NEW i \in Spoken(log), NEW j \in Spoken(log), i < j,
         log[i].key = "takeover", log[j].key = "takeover", log[i].name = log[j].name
  PROVE  \E k \in Spoken(log) : /\ i < k /\ k < j
                                /\ log[k].key \in BackKey /\ log[k].name = log[j].name
<1>1. i \in 1..Len(log) /\ j \in 1..Len(log) /\ Len(log) \in Nat /\ DOMAIN log = 1..Len(log)
  BY DEF Spoken, Places
<1>2. j \in Places(log, {"takeover"}) /\ j \notin Repeated(log) /\ i \in 1..(j - 1)
  BY <1>1 DEF Spoken, Places
<1>3. PICK k \in i..j : log[k].key \in BackKey /\ log[k].name = log[j].name
  BY <1>2 DEF Repeated
<1>4. k # i /\ k # j /\ k \in 1..Len(log)
  BY <1>1, <1>3 DEF BackKey
<1>5. i < k /\ k < j
  BY <1>1, <1>3, <1>4
<1>6. k \in Spoken(log)
  BY <1>1, <1>3, <1>4 DEF Spoken, Places, Headline, BackKey, Repeated
<1> QED BY <1>3, <1>5, <1>6

LEMMA HeadlinesAre ==
  ASSUME NEW log \in Seq(Event), Ordered(log)
  PROVE  LET h == Headlines(log)
             n == Cardinality(Spoken(log))
         IN  /\ n \in Nat /\ DOMAIN h = 1..n /\ Tellable(h, n)
             /\ \A x \in 1..n : At(Spoken(log), x) \in Spoken(log) /\ h[x] = log[At(Spoken(log), x)]
             /\ \A i \in Spoken(log) : \E x \in 1..n : At(Spoken(log), x) = i
<1> DEFINE S == Spoken(log)
           n == Cardinality(S)
           h == Headlines(log)
<1>1. S \in SUBSET (1..Len(log)) /\ Len(log) \in Nat /\ DOMAIN log = 1..Len(log)
  BY DEF Spoken, Places
<1>2. h = [k \in 1..n |-> log[At(S, k)]]
  BY DEF Headlines, Spoken, At, Above
<1> HIDE DEF S, h
<1>3. /\ n \in Nat /\ \A x \in 1..n : At(S, x) \in S
      /\ \A x, y \in 1..n : x < y => At(S, y) < At(S, x)
      /\ \A i \in S : \E x \in 1..n : At(S, x) = i
  BY <1>1, AtIs
<1> HIDE DEF n
<1>4. DOMAIN h = 1..n /\ \A x \in 1..n : h[x] = log[At(S, x)]
  BY <1>2
<1>5. \A x \in 1..n : At(S, x) \in DOMAIN log /\ At(S, x) \in Nat
  <2>1. \A i \in S : i \in DOMAIN log /\ i \in Nat
    BY <1>1
  <2> QED BY <1>3, <2>1, Zenon
<1>6. \A x \in 1..n : h[x] \in Event
  BY <1>4, <1>5
<1>7. ASSUME NEW x \in 1..n, NEW y \in 1..n, x # y
      PROVE  h[x] # h[y]
  <2>1. x < y \/ y < x
    BY <1>3, <1>7
  <2>2. At(S, x) # At(S, y)
    BY <1>3, <1>5, <2>1
  <2> QED BY <1>4, <1>5, <2>2, EventsDiffer
<1>8. ASSUME NEW x \in 1..n, x + 1 \in 1..n, h[x].key = "takeover",
             DedupKey(h[x + 1]) = DedupKey(h[x])
      PROVE  FALSE
  <2> DEFINE i == At(S, x + 1)
             j == At(S, x)
  <2>1. x < x + 1
    BY <1>3
  <2>2. i \in S /\ j \in S /\ i < j /\ h[x + 1] = log[i] /\ h[x] = log[j]
    BY <1>3, <1>4, <1>8, <2>1
  <2>3. log[i].key = "takeover" /\ log[j].key = "takeover" /\ log[i].name = log[j].name
    BY <1>8, <2>2 DEF DedupKey
  <2> HIDE DEF i, j
  <2>4. PICK k \in S : i < k /\ k < j
    BY <2>2, <2>3, BackBetween DEF S
  <2>5. PICK y \in 1..n : At(S, y) = k
    BY <1>3
  <2>6. i \in Nat /\ j \in Nat /\ k \in Nat /\ x \in Nat /\ y \in Nat
    BY <1>1, <1>3, <2>2
  <2>7. y < x \/ y = x \/ y = x + 1 \/ x + 1 < y
    BY <2>6
  <2>8. CASE y < x
    <3>1. j < k
      BY <1>3, <2>5, <2>8 DEF j
    <3> QED BY <2>4, <2>6, <3>1
  <2>9. CASE x + 1 < y
    <3>1. k < i
      BY <1>3, <1>8, <2>5, <2>9 DEF i
    <3> QED BY <2>4, <2>6, <3>1
  <2>10. CASE y = x \/ y = x + 1
    BY <2>4, <2>5, <2>6, <2>10 DEF i, j
  <2> QED BY <2>7, <2>8, <2>9, <2>10
<1>9. Tellable(h, n)
  BY <1>6, <1>7, <1>8 DEF Tellable
<1> QED BY <1>3, <1>4, <1>9 DEF S, n, h

----------------------------------------------------------------------------
(* Absences.                                                               *)

\* Two takeovers of one absence are not both told.
LEMMA OneIsTold ==
  ASSUME NEW log \in Seq(Event), NEW i \in Places(log, {"takeover"}),
         NEW j \in Absence(log, i), NEW k \in Absence(log, i),
         j \in Spoken(log), k \in Spoken(log)
  PROVE  j = k
<1>1. /\ i \in 1..Len(log) /\ j \in 1..Len(log) /\ k \in 1..Len(log) /\ Len(log) \in Nat
      /\ DOMAIN log = 1..Len(log)
      /\ log[i].key = "takeover" /\ log[j].key = "takeover" /\ log[k].key = "takeover"
      /\ log[j].name = log[i].name /\ log[k].name = log[i].name
  BY DEF Absence, Places
<1>2. ASSUME NEW a \in Absence(log, i), NEW b \in Absence(log, i), a \in Spoken(log),
             b \in Spoken(log), a < b
      PROVE  FALSE
  <2>1. /\ a \in 1..Len(log) /\ b \in 1..Len(log) /\ log[a].key = "takeover"
        /\ log[b].key = "takeover" /\ log[a].name = log[i].name /\ log[b].name = log[i].name
    BY <1>1 DEF Absence, Places
  <2>2. PICK m \in Spoken(log) : /\ a < m /\ m < b
                                 /\ log[m].key \in BackKey /\ log[m].name = log[b].name
    BY <1>2, <2>1, BackBetween
  <2>3. m \in DOMAIN log /\ m \in Nat /\ m # i
    BY <1>1, <2>2 DEF Spoken, Places, BackKey
  <2>4. (a < m /\ m < i) \/ (i < m /\ m < b)
    BY <1>1, <2>2, <2>3
  <2>5. ~(a < m /\ m < i)
    BY <2>1, <2>2, <2>3 DEF Absence
  <2>6. ~(i < m /\ m < b)
    BY <2>1, <2>2, <2>3 DEF Absence
  <2> QED BY <2>4, <2>5, <2>6
<1>3. j < k \/ k < j \/ j = k
  BY <1>1
<1> QED BY <1>2, <1>3

\* The first takeover of an absence is told.
LEMMA FirstIsTold ==
  ASSUME NEW log \in Seq(Event), NEW i \in Places(log, {"takeover"})
  PROVE  \E j \in Absence(log, i) : j \in Spoken(log)
<1>1. /\ i \in 1..Len(log) /\ Len(log) \in Nat /\ DOMAIN log = 1..Len(log)
      /\ log[i].key = "takeover"
  BY DEF Places
<1>2. i \in Absence(log, i) /\ Absence(log, i) \in SUBSET Nat
  BY <1>1 DEF Absence, Places
<1>3. PICK j \in Absence(log, i) : \A k \in Absence(log, i) : j <= k
  BY <1>2, LeastIn
<1>4. /\ j \in 1..Len(log) /\ log[j].key = "takeover" /\ log[j].name = log[i].name /\ j <= i
      /\ \A k \in DOMAIN log : log[k].key \in BackKey /\ log[k].name = log[i].name
                                 => ~(j < k /\ k < i)
  BY <1>1, <1>2, <1>3 DEF Absence, Places
<1>5. ASSUME j \in Repeated(log)
      PROVE  FALSE
  <2>1. PICK k \in 1..(j - 1) : /\ log[k].key = "takeover" /\ log[k].name = log[j].name
                                /\ ~\E m \in k..j : log[m].key \in BackKey /\ log[m].name = log[j].name
    BY <1>5 DEF Repeated
  <2>2. k \in 1..Len(log) /\ k < j /\ k < i
    BY <1>1, <1>4, <2>1
  <2>3. ASSUME NEW m \in DOMAIN log, log[m].key \in BackKey, log[m].name = log[i].name
        PROVE  ~(i < m /\ m < k) /\ ~(k < m /\ m < i)
    <3>1. m \in Nat /\ m # j /\ m # k
      BY <1>1, <1>4, <2>1, <2>3 DEF BackKey
    <3>2. ~(m \in k..j)
      BY <1>4, <2>1, <2>3
    <3>3. ~(j < m /\ m < i)
      BY <1>4, <2>3
    <3> QED BY <1>1, <1>4, <2>2, <3>1, <3>2, <3>3
  <2>4. k \in Absence(log, i)
    BY <1>1, <1>4, <2>1, <2>2, <2>3 DEF Absence, Places
  <2>5. j <= k
    BY <1>3, <2>4
  <2> QED BY <1>4, <2>2, <2>5
<1>6. j \in Spoken(log)
  BY <1>1, <1>4, <1>5 DEF Spoken, Places, Headline
<1> QED BY <1>6

\* The cards that tell of an absence.
Telling(log, i) ==
  {k \in DOMAIN Cards(log) : \E j \in Absence(log, i) : Cards(log)[k].event = log[j]}

LEMMA ToldOnce ==
  ASSUME NEW log \in Seq(Event), Ordered(log), NEW i \in Places(log, {"takeover"})
  PROVE  /\ Cardinality(Telling(log, i)) <= 1
         /\ \A k \in Telling(log, i) : Cards(log)[k].repeat = 1
         /\ Len(Cards(log)) < MaxCards => Telling(log, i) # {}
<1> DEFINE S == Spoken(log)
           h == Headlines(log)
           n == Cardinality(S)
           c == Cards(log)
<1>1. /\ n \in Nat /\ DOMAIN h = 1..n /\ Tellable(h, n)
      /\ \A x \in 1..n : At(S, x) \in S /\ h[x] = log[At(S, x)]
      /\ \A j \in S : \E x \in 1..n : At(S, x) = j
  BY HeadlinesAre
<1>2. c = CardsOf(h, n)
  BY <1>1, CardsAreFold DEF CardsOf
<1>3. CardsInv(h, n, c)
  BY <1>1, <1>2, CardsStep
<1>4. c \in Seq(CardType) /\ Len(c) \in Nat /\ DOMAIN c = 1..Len(c)
  BY <1>3 DEF CardsInv
<1> HIDE DEF c, h, n, S
<1>5. S \subseteq DOMAIN log
  BY DEF S, Spoken, Places
\* A card that tells of it stands for a takeover of it that is told.
<1>6. ASSUME NEW k \in Telling(log, i)
      PROVE  /\ k \in 1..Len(c) /\ c[k].event.key = "takeover"
             /\ \E j \in Absence(log, i) : j \in S /\ c[k].event = log[j]
  <2>1. k \in 1..Len(c) /\ \E j \in Absence(log, i) : c[k].event = log[j]
    BY <1>4 DEF Telling, c
  <2>2. PICK j \in Absence(log, i) : c[k].event = log[j]
    BY <2>1
  <2>3. PICK x \in 1..n : c[k].event = h[x]
    BY <1>3, <2>1 DEF CardsInv
  <2>4. j \in DOMAIN log /\ log[j].key = "takeover"
    BY DEF Absence, Places
  <2>5. At(S, x) \in S /\ At(S, x) \in DOMAIN log /\ log[At(S, x)] = log[j]
    BY <1>1, <1>5, <2>2, <2>3
  <2>6. At(S, x) = j
    BY <2>4, <2>5, EventsDiffer
  <2> QED BY <2>1, <2>2, <2>4, <2>5, <2>6
<1>7. ASSUME NEW k \in Telling(log, i), NEW m \in Telling(log, i)
      PROVE  k = m
  <2>1. PICK j \in Absence(log, i) : j \in S /\ c[k].event = log[j]
    BY <1>6
  <2>2. PICK l \in Absence(log, i) : l \in S /\ c[m].event = log[l]
    BY <1>6
  <2>3. j = l
    BY <2>1, <2>2, OneIsTold DEF S
  <2>4. k \in 1..Len(c) /\ m \in 1..Len(c) /\ c[k].event = c[m].event
    BY <1>6, <2>1, <2>2, <2>3
  <2> QED BY <1>3, <2>4 DEF CardsInv
<1>8. Cardinality(Telling(log, i)) <= 1
  <2>1. CASE Telling(log, i) = {}
    BY <2>1, FS_EmptySet
  <2>2. CASE Telling(log, i) # {}
    <3>1. PICK k \in Telling(log, i) : TRUE
      BY <2>2
    <3>2. Telling(log, i) = {k}
      BY <1>7, <3>1
    <3>3. Cardinality({k}) = 1
      BY FS_Singleton
    <3> QED BY <3>2, <3>3
  <2> QED BY <2>1, <2>2
<1>9. \A k \in Telling(log, i) : c[k].repeat = 1
  BY <1>3, <1>6 DEF CardsInv
<1>10. ASSUME Len(c) < MaxCards
       PROVE  Telling(log, i) # {}
  <2>1. PICK j \in Absence(log, i) : j \in S
    BY FirstIsTold DEF S
  <2>2. PICK x \in 1..n : At(S, x) = j
    BY <1>1, <2>1
  <2>3. h[x] = log[j] /\ log[j].key = "takeover"
    BY <1>1, <2>2 DEF Absence, Places
  <2>4. PICK k \in 1..Len(c) : c[k].event = h[x]
    BY <1>3, <1>10, <2>3 DEF CardsInv
  <2>5. k \in Telling(log, i)
    BY <1>4, <2>1, <2>3, <2>4 DEF Telling, c
  <2> QED BY <2>5
<1> QED BY <1>8, <1>9, <1>10 DEF c

\* The ticker tells every absence once, whatever journal is sent: the takeovers
\* of one absence, however many turns the bot plays, are on one card that counts
\* one, and each absence has its card as long as there is room.
THEOREM AbsencesToldOnce == Spec => []AbsenceIsToldOnce
<1>1. PageInv => AbsenceIsToldOnce
  <2> SUFFICES ASSUME PageInv PROVE AbsenceIsToldOnce
    OBVIOUS
  <2>1. view.log \in Seq(Event) /\ Ordered(view.log)
    BY DEF PageInv, ViewOK
  <2>2. \A i \in Places(view.log, {"takeover"}) :
          /\ Cardinality(Telling(view.log, i)) <= 1
          /\ \A k \in Telling(view.log, i) : Cards(view.log)[k].repeat = 1
          /\ Len(Cards(view.log)) < MaxCards => Telling(view.log, i) # {}
    BY <2>1, ToldOnce
  <2> QED BY <2>2 DEF AbsenceIsToldOnce, Telling
<1>2. Spec => []PageInv
  BY PageInit, PageStep, PTL DEF Spec
<1> QED BY <1>1, <1>2, PTL
=============================================================================
