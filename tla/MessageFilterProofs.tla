------------------------- MODULE MessageFilterProofs -------------------------
(* Theorems about MessageFilter, for every set of messages, every access     *)
(* policy and every length of the deduplication window.                      *)
EXTENDS MessageFilter, TLAPS

-----------------------------------------------------------------------------
(* The inductive invariant.                                                  *)

\* As long as a message was accepted within the window, its stamp key is
\* remembered from that acceptance on or from later.
Windows ==
  \A m \in Msg : accepted[m] # <<>> =>
    LET a == accepted[m][Len(accepted[m])] IN
    /\ StampKey(m) \in DedupeKey
    /\ \/ now - a > TTL
       \/ dedupe[StampKey(m)] # None /\ a <= dedupe[StampKey(m)]

\* What a remembered key tells about the message it belongs to. The stamp is
\* tried last, and so recorded by fresh events only. The event id may be recorded
\* by a duplicate, found by the stamp: that is up to one TTL later. The client
\* id is never remembered without, or for longer than, the event id before it.
Remembers(k) == k \in DedupeKey /\ dedupe[k] # None

Trails ==
  \A m \in Msg :
    /\ Remembers(StampKey(m)) =>
         judged[m] # None /\ dedupe[StampKey(m)] <= judged[m]
    /\ \A v \in Variant : Remembers(EventKey(m, v)) =>
         judged[m] # None /\ dedupe[EventKey(m, v)] <= judged[m] + TTL
    /\ Remembers(ClientKey(m)) =>
         /\ Remembers(EventKey(m, "message"))
         /\ dedupe[ClientKey(m)] <= dedupe[EventKey(m, "message")]

\* What is on its way to the scheduler is of a thread the policy admits: the
\* session its verdict was about may be gone by the time it is enqueued.
DispatchInPolicy == dispatching # None => InPolicy(Thread(dispatching))

IInv ==
  /\ TypeOK
  /\ Windows
  /\ Trails
  /\ AcceptedOncePerWindow
  /\ DuplicatesWereJudged
  /\ SessionsStayInPolicy
  /\ DispatchInPolicy

-----------------------------------------------------------------------------
(* The keys of an event.                                                     *)

LEMMA KeysDistinct ==
  ASSUME NEW m \in Msg, NEW n \in Msg, NEW u \in Variant, NEW v \in Variant
  PROVE  /\ EventKey(m, v) = EventKey(n, u) => m = n /\ u = v
         /\ ClientKey(m) = ClientKey(n) => m = n
         /\ StampKey(m) = StampKey(n) => m = n
         /\ EventKey(m, v) # ClientKey(n) /\ EventKey(m, v) # StampKey(n)
         /\ ClientKey(m) # StampKey(n)
<1>1. /\ EventKey(m, v) = EventKey(n, u) => m = n /\ u = v
      /\ ClientKey(m) = ClientKey(n) => m = n
  BY DEF EventKey, ClientKey
<1>2. EventKey(m, v) # StampKey(n)
  BY DEF EventKey, StampKey
<1>3. StampKey(m) = StampKey(n) => m = n
  BY InfoAssumption DEF StampKey
<1>4. EventKey(m, v) # ClientKey(n) /\ ClientKey(m) # StampKey(n)
  <2>1. Len(EventKey(m, v)) = 3 /\ Len(ClientKey(n)) = 2
    BY DEF EventKey, ClientKey
  <2>2. Len(ClientKey(m)) = 2 /\ Len(StampKey(n)) = 3
    BY DEF ClientKey, StampKey
  <2>. QED
    BY <2>1, <2>2
<1>. QED
  BY <1>1, <1>2, <1>3, <1>4

\* The keys of an event, one after the other.
LEMMA KeysAre ==
  ASSUME NEW m \in Msg, NEW v \in Variant
  PROVE  /\ v = "message" =>
              /\ Len(Keys(m, v)) = 3
              /\ Keys(m, v)[1] = EventKey(m, v)
              /\ Keys(m, v)[2] = ClientKey(m)
              /\ Keys(m, v)[3] = StampKey(m)
         /\ v # "message" =>
              /\ Len(Keys(m, v)) = 2
              /\ Keys(m, v)[1] = EventKey(m, v)
              /\ Keys(m, v)[2] = StampKey(m)
BY DEF Keys

LEMMA ArrivingKeys ==
  ASSUME NEW m \in Msg, NEW v \in Variant, Arrives(m, v)
  PROVE  /\ \A i \in 1..Len(Keys(m, v)) : Keys(m, v)[i] \in DedupeKey
         /\ EventKey(m, v) \in DedupeKey /\ StampKey(m) \in DedupeKey
         /\ v = "message" => ClientKey(m) \in DedupeKey
<1>1. \A i \in 1..Len(Keys(m, v)) : Keys(m, v)[i] \in KeysOf(m, v)
  BY DEF KeysOf
<1>2. KeysOf(m, v) \subseteq DedupeKey
  BY DEF DedupeKey
<1>3. \A i \in 1..Len(Keys(m, v)) : Keys(m, v)[i] \in DedupeKey
  BY <1>1, <1>2
<1>. QED
  BY <1>3, KeysAre

\* ShouldProcess records the keys it tries before the first known one.
LEMMA RecordedKeys ==
  ASSUME NEW m \in Msg, NEW v \in Variant
  PROVE  LET new == Recorded(Keys(m, v)) IN
         /\ EventKey(m, v) \in new <=> ~Known(EventKey(m, v))
         /\ v = "message" =>
              (ClientKey(m) \in new <=> ~Known(EventKey(m, v)) /\ ~Known(ClientKey(m)))
         /\ StampKey(m) \in new <=> ~IsDuplicate(Keys(m, v))
         /\ \A k \in new : \/ k \in {EventKey(m, v), StampKey(m)}
                           \/ v = "message" /\ k = ClientKey(m)
<1> DEFINE ks == Keys(m, v)
           e == EventKey(m, v)
           c == ClientKey(m)
           s == StampKey(m)
<1>1. e # c /\ e # s /\ c # s
  BY KeysDistinct
<1>2. CASE v = "message"
  <2>1. Len(ks) = 3 /\ ks[1] = e /\ ks[2] = c /\ ks[3] = s
    BY <1>2, KeysAre
  <2> HIDE DEF ks, e, c, s
  <2>2. \A i \in 1..3 : i = 1 \/ i = 2 \/ i = 3
    OBVIOUS
  <2>3. Recorded(ks) = {ks[i] : i \in {i \in 1..3 : \A h \in 1..i : ~Known(ks[h])}}
    BY <2>1 DEF Recorded
  <2>4. /\ e \in Recorded(ks) <=> ~Known(e)
        /\ c \in Recorded(ks) <=> ~Known(e) /\ ~Known(c)
        /\ s \in Recorded(ks) <=> ~Known(e) /\ ~Known(c) /\ ~Known(s)
        /\ \A k \in Recorded(ks) : k \in {e, c, s}
    BY <1>1, <2>1, <2>2, <2>3
  <2>5. IsDuplicate(ks) <=> Known(e) \/ Known(c) \/ Known(s)
    BY <2>1, <2>2 DEF IsDuplicate
  <2>. QED
    BY <1>2, <2>4, <2>5 DEF ks, e, c, s
<1>3. CASE v # "message"
  <2>1. Len(ks) = 2 /\ ks[1] = e /\ ks[2] = s
    BY <1>3, KeysAre
  <2> HIDE DEF ks, e, c, s
  <2>2. \A i \in 1..2 : i = 1 \/ i = 2
    OBVIOUS
  <2>3. Recorded(ks) = {ks[i] : i \in {i \in 1..2 : \A h \in 1..i : ~Known(ks[h])}}
    BY <2>1 DEF Recorded
  <2>4. /\ e \in Recorded(ks) <=> ~Known(e)
        /\ s \in Recorded(ks) <=> ~Known(e) /\ ~Known(s)
        /\ \A k \in Recorded(ks) : k \in {e, s}
    BY <1>1, <2>1, <2>2, <2>3
  <2>5. IsDuplicate(ks) <=> Known(e) \/ Known(s)
    BY <2>1, <2>2 DEF IsDuplicate
  <2>. QED
    BY <1>3, <2>4, <2>5 DEF ks, e, c, s
<1>. QED
  BY <1>2, <1>3

\* What becomes of the deduper's map: entries are stamped anew, kept, or dropped.
LEMMA RememberedKeys ==
  ASSUME TypeOK, NEW m \in Msg, NEW v \in Variant, dedupe' = Remembered(Keys(m, v))
  PROVE  LET new == Recorded(Keys(m, v)) IN
         /\ dedupe' \in [DedupeKey -> 0..now \cup {None}]
         /\ \A k \in DedupeKey :
              /\ k \in new => dedupe'[k] = now
              /\ k \notin new /\ Known(k) => dedupe'[k] = dedupe[k]
              /\ k \notin new /\ ~Known(k) => dedupe'[k] = None
<1>1. dedupe \in [DedupeKey -> 0..now \cup {None}] /\ now \in Nat
  BY TimeAssumption DEF TypeOK, Time
<1>2. DOMAIN dedupe = DedupeKey
  BY <1>1
<1> DEFINE new == Recorded(Keys(m, v))
<1>3. dedupe' = [k \in DedupeKey |-> IF k \in new THEN now
                                     ELSE IF Known(k) THEN dedupe[k] ELSE None]
  BY <1>2 DEF Remembered
<1> HIDE DEF new
<1>. QED
  BY <1>1, <1>3 DEF new

\* Every rule of the access policy comes to a verdict, and what it accepts is
\* allowed, or follows up on a thread that has a session.
LEMMA Verdicts ==
  ASSUME NEW m \in Msg
  PROVE  /\ Reason(m) \in Accepting \cup Rejecting /\ Reason(m) # "dedupe"
         /\ Reason(m) \in Accepting =>
              IF Info[m].im THEN Info[m].user \in AllowedDM
              ELSE ChannelAllowed(m) \/ Bound(m)
<1>1. Info[m].im \in BOOLEAN
  BY InfoAssumption DEF MsgInfo
<1>2. CASE Info[m].im
  BY <1>2 DEF Reason, Accepting, Rejecting
<1>3. CASE ~Info[m].im
  <2> DEFINE open == ChannelAllowed(m) \/ Bound(m)
  <2>1. CASE ~open
    BY <1>3, <2>1 DEF Reason, Accepting, Rejecting
  <2>2. CASE open /\ MentionMissing(m)
    BY <1>3, <2>2 DEF Reason, Accepting, Rejecting
  <2>3. CASE open /\ ~MentionMissing(m)
    BY <1>3, <2>3 DEF Reason, Accepting, Rejecting
  <2>. QED BY <2>1, <2>2, <2>3
<1>. QED
  BY <1>2, <1>3

-----------------------------------------------------------------------------
(* What an event does to the deduper.                                        *)

\* A duplicate leaves the trails of every message intact.
LEMMA TrailsKept ==
  ASSUME IInv, NEW m \in Msg, NEW v \in Variant, Arrives(m, v),
         dedupe' = Remembered(Keys(m, v)), UNCHANGED now,
         \/ IsDuplicate(Keys(m, v)) /\ UNCHANGED judged
         \/ ~IsDuplicate(Keys(m, v)) /\ judged' = [judged EXCEPT ![m] = now]
  PROVE  Trails'
<1> DEFINE new == Recorded(Keys(m, v))
           e == EventKey(m, v)
<1>1. TypeOK /\ Trails /\ now \in Nat /\ TTL \in Nat /\ None \notin Nat
  BY TimeAssumption, NoneAssumption DEF IInv, TypeOK, Time
<1>2. /\ dedupe \in [DedupeKey -> 0..now \cup {None}]
      /\ judged \in [Msg -> 0..now \cup {None}]
      /\ judged' \in [Msg -> 0..now \cup {None}]
      /\ \A n \in Msg : judged'[n] = judged[n] \/ judged'[n] = now
  <2>1. /\ dedupe \in [DedupeKey -> 0..now \cup {None}]
        /\ judged \in [Msg -> 0..now \cup {None}]
    BY <1>1 DEF TypeOK
  <2>2. CASE judged' = judged
    BY <2>1, <2>2
  <2>3. CASE judged' = [judged EXCEPT ![m] = now]
    BY <2>1, <2>3, <1>1
  <2>. QED BY <2>1, <2>2, <2>3
<1>3. \A k \in DedupeKey :
        /\ k \in new => dedupe'[k] = now
        /\ k \notin new /\ Known(k) => dedupe'[k] = dedupe[k]
        /\ k \notin new /\ ~Known(k) => dedupe'[k] = None
  BY <1>1, RememberedKeys
<1>4. \A k \in DedupeKey : dedupe[k] # None =>
        dedupe[k] \in 0..now /\ (Known(k) <=> now - dedupe[k] <= TTL)
  BY <1>2 DEF Known
<1>5. \A k \in DedupeKey : Known(k) => dedupe[k] # None
  BY DEF Known
<1>6. \A n \in Msg : judged[n] # None =>
        judged[n] \in Nat /\ judged'[n] \in Nat /\ judged'[n] >= judged[n]
  BY <1>1, <1>2
<1>7. \A n \in Msg : StampKey(n) \in new => n = m /\ ~IsDuplicate(Keys(m, v))
  BY RecordedKeys, KeysDistinct
<1>8. \A n \in Msg, u \in Variant : EventKey(n, u) \in new => n = m /\ u = v /\ ~Known(e)
  BY RecordedKeys, KeysDistinct
<1>9. \A n \in Msg : ClientKey(n) \in new => n = m /\ v = "message" /\ e \in new
  BY RecordedKeys, KeysDistinct
<1>10. IsDuplicate(Keys(m, v)) /\ ~Known(e) => Remembers(StampKey(m)) /\ Known(StampKey(m))
  <2> SUFFICES ASSUME IsDuplicate(Keys(m, v)), ~Known(e)
               PROVE  Remembers(StampKey(m)) /\ Known(StampKey(m))
    OBVIOUS
  <2>1. Known(StampKey(m)) \/ (v = "message" /\ Known(ClientKey(m)))
    <3>1. PICK i \in 1..Len(Keys(m, v)) : Known(Keys(m, v)[i])
      BY DEF IsDuplicate
    <3>2. CASE v = "message"
      <4>1. Len(Keys(m, v)) = 3
        BY <3>2, KeysAre
      <4>2. i = 1 \/ i = 2 \/ i = 3
        BY <4>1
      <4>. QED BY <4>2, <3>1, <3>2, KeysAre
    <3>3. CASE v # "message"
      <4>1. Len(Keys(m, v)) = 2
        BY <3>3, KeysAre
      <4>2. i = 1 \/ i = 2
        BY <4>1
      <4>. QED BY <4>2, <3>1, <3>3, KeysAre
    <3>. QED BY <3>2, <3>3
  <2>2. StampKey(m) \in DedupeKey /\ (v = "message" => ClientKey(m) \in DedupeKey)
    BY ArrivingKeys
  <2>3. v = "message" => ~Known(ClientKey(m))
    <3> SUFFICES ASSUME v = "message", Known(ClientKey(m)) PROVE FALSE
      OBVIOUS
    <3>1. Remembers(ClientKey(m))
      BY <2>2, <1>5 DEF Remembers
    <3>2. Remembers(e) /\ dedupe[ClientKey(m)] <= dedupe[e]
      BY <3>1, <1>1 DEF Trails
    <3>. QED
      BY <3>1, <3>2, <1>1, <1>4 DEF Remembers
  <2>. QED
    BY <2>1, <2>2, <2>3, <1>5 DEF Remembers
<1>11. ~IsDuplicate(Keys(m, v)) => judged'[m] = now
  BY <1>2
<1>12. (judged'[m] # None /\ now <= judged'[m] + TTL) \/ Known(e)
  <2>1. CASE ~IsDuplicate(Keys(m, v))
    BY <2>1, <1>1, <1>11
  <2>2. CASE IsDuplicate(Keys(m, v)) /\ ~Known(e)
    <3>1. Remembers(StampKey(m)) /\ Known(StampKey(m))
      BY <2>2, <1>10
    <3>2. judged[m] # None /\ dedupe[StampKey(m)] <= judged[m]
      BY <3>1, <1>1 DEF Trails
    <3>. QED
      BY <3>1, <3>2, <1>1, <1>4, <1>6 DEF Remembers
  <2>. QED BY <2>1, <2>2
<1> HIDE DEF new, e
<1>13. ASSUME NEW n \in Msg, Remembers(StampKey(n))'
       PROVE  judged'[n] # None /\ dedupe'[StampKey(n)] <= judged'[n]
  <2>1. StampKey(n) \in DedupeKey /\ dedupe'[StampKey(n)] # None
    BY <1>13 DEF Remembers, StampKey
  <2>2. CASE StampKey(n) \in new
    BY <2>1, <2>2, <1>1, <1>3, <1>7, <1>11
  <2>3. CASE StampKey(n) \notin new
    <3>1. Known(StampKey(n)) /\ dedupe'[StampKey(n)] = dedupe[StampKey(n)]
      BY <2>1, <2>3, <1>3
    <3>2. judged[n] # None /\ dedupe[StampKey(n)] <= judged[n]
      BY <3>1, <2>1, <1>1, <1>5 DEF Trails, Remembers
    <3>. QED
      BY <3>1, <3>2, <2>1, <1>1, <1>4, <1>5, <1>6
  <2>. QED BY <2>2, <2>3
<1>14. ASSUME NEW n \in Msg, NEW u \in Variant, Remembers(EventKey(n, u))'
       PROVE  judged'[n] # None /\ dedupe'[EventKey(n, u)] <= judged'[n] + TTL
  <2>1. EventKey(n, u) \in DedupeKey /\ dedupe'[EventKey(n, u)] # None
    BY <1>14 DEF Remembers, EventKey
  <2>2. CASE EventKey(n, u) \in new
    BY <2>1, <2>2, <1>3, <1>8, <1>12
  <2>3. CASE EventKey(n, u) \notin new
    <3>1. Known(EventKey(n, u)) /\ dedupe'[EventKey(n, u)] = dedupe[EventKey(n, u)]
      BY <2>1, <2>3, <1>3
    <3>2. judged[n] # None /\ dedupe[EventKey(n, u)] <= judged[n] + TTL
      BY <3>1, <2>1, <1>1, <1>5 DEF Trails, Remembers
    <3>. QED
      BY <3>1, <3>2, <2>1, <1>1, <1>4, <1>5, <1>6
  <2>. QED BY <2>2, <2>3
<1>15. ASSUME NEW n \in Msg, Remembers(ClientKey(n))'
       PROVE  /\ Remembers(EventKey(n, "message"))'
              /\ dedupe'[ClientKey(n)] <= dedupe'[EventKey(n, "message")]
  <2>1. ClientKey(n) \in DedupeKey /\ dedupe'[ClientKey(n)] # None
    BY <1>15 DEF Remembers, ClientKey
  <2>2. CASE ClientKey(n) \in new
    <3>1. e \in DedupeKey /\ e = EventKey(n, "message") /\ e \in new
      BY <2>2, <1>9, ArrivingKeys DEF e
    <3>2. dedupe'[e] = now /\ dedupe'[ClientKey(n)] = now
      BY <3>1, <2>1, <2>2, <1>3
    <3>. QED
      BY <3>1, <3>2, <1>1 DEF Remembers, EventKey
  <2>3. CASE ClientKey(n) \notin new
    <3>1. Known(ClientKey(n)) /\ dedupe'[ClientKey(n)] = dedupe[ClientKey(n)]
      BY <2>1, <2>3, <1>3
    <3>2. /\ Remembers(EventKey(n, "message"))
          /\ dedupe[ClientKey(n)] <= dedupe[EventKey(n, "message")]
      BY <3>1, <2>1, <1>1, <1>5 DEF Trails, Remembers
    <3>3. PICK k \in DedupeKey : k = EventKey(n, "message")
      BY <3>2 DEF Remembers
    <3>4. Known(k)
      BY <3>1, <3>2, <3>3, <2>1, <1>1, <1>4, <1>5 DEF Remembers
    <3>5. dedupe'[k] # None /\ dedupe[k] <= dedupe'[k]
      BY <3>4, <1>1, <1>3, <1>4, <1>5
    <3>6. dedupe'[ClientKey(n)] <= dedupe'[k]
      BY <3>1, <3>2, <3>3, <3>4, <3>5, <2>1, <1>1, <1>3, <1>4, <1>5
    <3>. QED
      BY <3>3, <3>5, <3>6 DEF Remembers, EventKey
  <2>. QED BY <2>2, <2>3
<1>. QED
  BY <1>13, <1>14, <1>15 DEF Trails, Remembers, EventKey, ClientKey, StampKey

\* Facts about histories.
LEMMA LastOf ==
  ASSUME NEW S, NEW s \in Seq(S), s # <<>>
  PROVE  Len(s) \in Nat \ {0} /\ s[Len(s)] \in S
OBVIOUS

LEMMA SeqWiden ==
  ASSUME NEW S, NEW T, S \subseteq T, NEW s \in Seq(S)
  PROVE  s \in Seq(T)
<1>1. Len(s) \in Nat /\ \A i \in 1..Len(s) : s[i] \in T
  OBVIOUS
<1>2. s = [i \in 1..Len(s) |-> s[i]]
  OBVIOUS
<1>. QED
  BY <1>1, <1>2

\* So does the acceptance of a message keep the windows: its stamp is recorded.
LEMMA WindowsKept ==
  ASSUME IInv, NEW m \in Msg, NEW v \in Variant, Arrives(m, v),
         dedupe' = Remembered(Keys(m, v)), UNCHANGED now,
         \/ UNCHANGED accepted
         \/ /\ ~IsDuplicate(Keys(m, v))
            /\ accepted' = [accepted EXCEPT ![m] = Append(@, now)]
  PROVE  Windows' /\ AcceptedOncePerWindow'
<1> DEFINE s(n) == StampKey(n)
           new == Recorded(Keys(m, v))
           a(n) == accepted[n]
<1>1. /\ TypeOK /\ Windows /\ AcceptedOncePerWindow
      /\ now \in Nat /\ TTL \in Nat /\ None \notin Nat
  BY TimeAssumption, NoneAssumption DEF IInv, TypeOK, Time
<1>2. /\ dedupe \in [DedupeKey -> 0..now \cup {None}]
      /\ accepted \in [Msg -> Seq(0..now)]
  BY <1>1 DEF TypeOK
<1>3. \A k \in DedupeKey :
        /\ k \in new => dedupe'[k] = now
        /\ k \notin new /\ Known(k) => dedupe'[k] = dedupe[k]
        /\ k \notin new /\ ~Known(k) => dedupe'[k] = None
  BY <1>1, RememberedKeys
<1>4. \A k \in DedupeKey : dedupe[k] # None =>
        dedupe[k] \in 0..now /\ (Known(k) <=> now - dedupe[k] <= TTL)
  BY <1>2 DEF Known
<1>5. \A n \in Msg : a(n) # <<>> =>
        Len(a(n)) \in Nat \ {0} /\ a(n)[Len(a(n))] \in 0..now
  <2> SUFFICES ASSUME NEW n \in Msg, a(n) # <<>>
               PROVE  Len(a(n)) \in Nat \ {0} /\ a(n)[Len(a(n))] \in 0..now
    OBVIOUS
  <2>1. a(n) \in Seq(0..now)
    BY <1>2
  <2>. QED
    BY <2>1, LastOf
<1>6. ASSUME NEW n \in Msg, a(n) # <<>>
      PROVE  /\ s(n) \in DedupeKey
             /\ \/ now - a(n)[Len(a(n))] > TTL
                \/ dedupe'[s(n)] # None /\ a(n)[Len(a(n))] <= dedupe'[s(n)]
  <2>1. /\ s(n) \in DedupeKey
        /\ \/ now - a(n)[Len(a(n))] > TTL
           \/ dedupe[s(n)] # None /\ a(n)[Len(a(n))] <= dedupe[s(n)]
    BY <1>1, <1>6 DEF Windows
  <2>2. PICK x \in 0..now : x = a(n)[Len(a(n))]
    BY <1>5, <1>6
  <2>3. PICK k \in DedupeKey : k = s(n)
    BY <2>1
  <2>4. \/ now - x > TTL
        \/ dedupe'[k] # None /\ x <= dedupe'[k]
    BY <2>1, <2>2, <2>3, <1>1, <1>3, <1>4 DEF Known
  <2>. QED
    BY <2>2, <2>3, <2>4
<1>7. CASE UNCHANGED accepted
  <2>1. Windows'
    BY <1>6, <1>7 DEF Windows, StampKey
  <2>2. AcceptedOncePerWindow'
    BY <1>1, <1>7 DEF AcceptedOncePerWindow
  <2>. QED BY <2>1, <2>2
<1>8. CASE /\ ~IsDuplicate(Keys(m, v))
           /\ accepted' = [accepted EXCEPT ![m] = Append(@, now)]
  <2> DEFINE q == Append(a(m), now)
  <2>1. /\ a(m) \in Seq(0..now) /\ Len(a(m)) \in Nat
        /\ Len(q) = Len(a(m)) + 1 /\ q[Len(a(m)) + 1] = now
        /\ \A i \in 1..Len(a(m)) : q[i] = a(m)[i]
        /\ \A i \in 1..Len(a(m)) : a(m)[i] \in 0..now
    BY <1>1, <1>2
  <2>2. accepted'[m] = q /\ \A n \in Msg : n # m => accepted'[n] = a(n)
    BY <1>2, <1>8
  <2>3. s(m) \in DedupeKey /\ s(m) \in new
    BY <1>8, ArrivingKeys, RecordedKeys
  <2>4. dedupe'[s(m)] = now
    BY <2>3, <1>3
  <2>5. a(m) # <<>> => now - a(m)[Len(a(m))] > TTL
    <3> SUFFICES ASSUME a(m) # <<>> PROVE now - a(m)[Len(a(m))] > TTL
      OBVIOUS
    <3>1. PICK x \in 0..now : x = a(m)[Len(a(m))]
      BY <1>5
    <3>2. now - x > TTL \/ (dedupe[s(m)] # None /\ x <= dedupe[s(m)])
      BY <3>1, <1>1 DEF Windows
    <3>3. ~Known(s(m))
      <4>1. CASE v = "message"
        <5>1. Len(Keys(m, v)) = 3 /\ Keys(m, v)[3] = s(m)
          BY <4>1, KeysAre
        <5>. QED BY <5>1, <1>8 DEF IsDuplicate
      <4>2. CASE v # "message"
        <5>1. Len(Keys(m, v)) = 2 /\ Keys(m, v)[2] = s(m)
          BY <4>2, KeysAre
        <5>. QED BY <5>1, <1>8 DEF IsDuplicate
      <4>. QED BY <4>1, <4>2
    <3>. QED
      BY <3>1, <3>2, <3>3, <2>3, <1>1, <1>4
  <2> HIDE DEF q, s, new
  <2>6. \A i \in 1..(Len(q) - 1) : q[i + 1] - q[i] > TTL
    <3> SUFFICES ASSUME NEW i \in 1..(Len(q) - 1) PROVE q[i + 1] - q[i] > TTL
      OBVIOUS
    <3>1. CASE i = Len(a(m))
      BY <3>1, <2>1, <2>5
    <3>2. CASE i # Len(a(m))
      <4>1. i \in 1..(Len(a(m)) - 1) /\ i + 1 \in 1..Len(a(m)) /\ i \in 1..Len(a(m))
        BY <3>2, <2>1
      <4>2. a(m)[i + 1] - a(m)[i] > TTL
        BY <4>1, <1>1 DEF AcceptedOncePerWindow
      <4>. QED
        BY <4>1, <4>2, <2>1
    <3>. QED BY <3>1, <3>2
  <2>7. AcceptedOncePerWindow'
    BY <2>2, <2>6, <1>1 DEF AcceptedOncePerWindow
  <2>8. Windows'
    <3> SUFFICES ASSUME NEW n \in Msg, accepted'[n] # <<>>
                 PROVE  LET b == accepted'[n][Len(accepted'[n])] IN
                        /\ s(n) \in DedupeKey
                        /\ now - b > TTL \/ (dedupe'[s(n)] # None /\ b <= dedupe'[s(n)])
      BY DEF Windows, s, StampKey
    <3>1. CASE n = m
      BY <3>1, <2>1, <2>2, <2>3, <2>4, <1>1
    <3>2. CASE n # m
      BY <3>2, <2>2, <1>6
    <3>. QED BY <3>1, <3>2
  <2>. QED BY <2>7, <2>8
<1>. QED
  BY <1>7, <1>8

-----------------------------------------------------------------------------
(* Every step keeps the invariant.                                           *)

LEMMA InitIInv == Init => IInv
<1> SUFFICES ASSUME Init PROVE IInv
  OBVIOUS
<1> USE TimeAssumption, NoneAssumption
<1>1. TypeOK
  BY DEF Init, TypeOK, Time, NoVerdict
<1>2. Windows /\ AcceptedOncePerWindow /\ SessionsStayInPolicy /\ DispatchInPolicy
  BY DEF Init, Windows, AcceptedOncePerWindow, SessionsStayInPolicy, DispatchInPolicy
<1>3. Trails
  BY DEF Init, Trails, Remembers
<1>4. DuplicatesWereJudged
  BY DEF Init, DuplicatesWereJudged, NoVerdict
<1>. QED
  BY <1>1, <1>2, <1>3, <1>4 DEF IInv

\* A step that binds and dispatches nothing keeps to the policy.
LEMMA PolicyKept ==
  ASSUME SessionsStayInPolicy, DispatchInPolicy, bound' \subseteq bound,
         UNCHANGED dispatching
  PROVE  SessionsStayInPolicy' /\ DispatchInPolicy'
<1>1. \A t \in bound' : InPolicy(t)
  BY DEF SessionsStayInPolicy
<1>. QED
  BY <1>1 DEF SessionsStayInPolicy, DispatchInPolicy, InPolicy, Thread, ChannelAllowed

LEMMA TickIInv == ASSUME IInv, Tick PROVE IInv'
<1> USE TimeAssumption, NoneAssumption
<1>1. /\ TypeOK /\ now \in Nat /\ now' = now + 1
      /\ UNCHANGED <<dedupe, bound, judged, accepted, dispatching>> /\ last' = NoVerdict
  BY DEF IInv, TypeOK, Time, Tick
<1>2. 0..now \subseteq 0..now'
  BY <1>1
<1>3. TypeOK'
  <2>1. now' \in Time
    BY <1>1 DEF Tick, TypeOK, Time
  <2>2. /\ dedupe' \in [DedupeKey -> 0..now' \cup {None}]
        /\ judged' \in [Msg -> 0..now' \cup {None}]
    BY <1>1, <1>2 DEF TypeOK
  <2>3. accepted' \in [Msg -> Seq(0..now')]
    <3>1. \A s \in Seq(0..now) : s \in Seq(0..now')
      BY <1>2, SeqWiden
    <3>. QED
      BY <1>1, <3>1 DEF TypeOK
  <2>4. last' \in [msg : Msg \cup {None}, reason : Accepting \cup Rejecting \cup {"none"},
                   bound : BOOLEAN]
    BY <1>1 DEF NoVerdict
  <2>. QED
    BY <2>1, <2>2, <2>3, <2>4, <1>1 DEF TypeOK
<1>4. Windows'
  <2> SUFFICES ASSUME NEW m \in Msg, accepted[m] # <<>>
               PROVE  LET a == accepted[m][Len(accepted[m])] IN
                      /\ StampKey(m) \in DedupeKey
                      /\ \/ now' - a > TTL
                         \/ dedupe[StampKey(m)] # None /\ a <= dedupe[StampKey(m)]
    BY <1>1 DEF Windows, StampKey
  <2>1. accepted[m][Len(accepted[m])] \in Nat
    BY <1>1 DEF TypeOK
  <2>. QED
    BY <2>1, <1>1 DEF IInv, Windows
<1>5. Trails' /\ AcceptedOncePerWindow'
  BY <1>1 DEF IInv, Trails, Remembers, AcceptedOncePerWindow, EventKey, ClientKey, StampKey
<1>6. DuplicatesWereJudged'
  BY <1>1 DEF DuplicatesWereJudged, NoVerdict
<1>7. SessionsStayInPolicy' /\ DispatchInPolicy'
  BY <1>1, PolicyKept DEF IInv
<1>. QED
  BY <1>3, <1>4, <1>5, <1>6, <1>7 DEF IInv

LEMMA SessionEndsIInv == ASSUME IInv, NEW t \in bound, SessionEnds(t) PROVE IInv'
<1>1. SessionsStayInPolicy' /\ DispatchInPolicy'
  BY PolicyKept DEF SessionEnds, IInv
<1>. QED
  BY <1>1 DEF SessionEnds, IInv, TypeOK, Windows, Trails, Remembers, AcceptedOncePerWindow,
              DuplicatesWereJudged

\* The thread of the message that is enqueued was found to be in the policy when
\* the message was dispatched, whether it has a session now or not.
LEMMA EnqueueIInv == ASSUME IInv, Enqueue PROVE IInv'
<1>1. dispatching \in Msg /\ InPolicy(Thread(dispatching)) /\ dispatching' = None
  BY NoneAssumption DEF Enqueue, IInv, TypeOK, DispatchInPolicy
<1>2. bound' = bound \cup {Thread(dispatching)}
  BY DEF Enqueue
<1>3. bound' \subseteq Threads
  BY <1>1, <1>2 DEF IInv, TypeOK, Threads
<1>4. SessionsStayInPolicy'
  <2>1. \A t \in bound' : InPolicy(t)
    BY <1>1, <1>2 DEF IInv, SessionsStayInPolicy
  <2>. QED
    BY <2>1 DEF SessionsStayInPolicy, InPolicy, Thread, ChannelAllowed
<1>5. DispatchInPolicy'
  BY <1>1 DEF DispatchInPolicy
<1>. QED
  BY <1>1, <1>3, <1>4, <1>5 DEF Enqueue, IInv, TypeOK, Windows, Trails, Remembers,
                                AcceptedOncePerWindow, DuplicatesWereJudged

LEMMA DeliverNoiseIInv == ASSUME IInv, NEW m \in Msg, DeliverNoise(m) PROVE IInv'
<1>1. TypeOK'
  BY DEF DeliverNoise, Verdict, Bound, IInv, TypeOK, Accepting, Rejecting
<1>2. DuplicatesWereJudged'
  BY DEF DeliverNoise, Verdict, DuplicatesWereJudged
<1>3. SessionsStayInPolicy' /\ DispatchInPolicy'
  BY PolicyKept DEF DeliverNoise, IInv
<1>. QED
  BY <1>1, <1>2, <1>3 DEF DeliverNoise, IInv, Windows, Trails, Remembers,
                          AcceptedOncePerWindow

LEMMA DeliverDuplicateIInv ==
  ASSUME IInv, NEW m \in Msg, NEW v \in Variant, DeliverDuplicate(m, v)
  PROVE  IInv'
<1> USE TimeAssumption, NoneAssumption
<1>1. /\ TypeOK /\ Trails /\ now \in Nat
      /\ UNCHANGED <<now, bound, judged, accepted, dispatching>>
      /\ Arrives(m, v) /\ IsDuplicate(Keys(m, v))
      /\ dedupe' = Remembered(Keys(m, v))
  BY DEF DeliverDuplicate, IInv, TypeOK, Time
<1>2. last' = [msg |-> m, reason |-> "dedupe", bound |-> Bound(m)]
  BY DEF DeliverDuplicate, Verdict
<1>3. TypeOK'
  <2>1. dedupe' \in [DedupeKey -> 0..now \cup {None}]
    BY <1>1, RememberedKeys
  <2>2. Bound(m) \in BOOLEAN
    BY DEF Bound
  <2>3. last' \in [msg : Msg \cup {None}, reason : Accepting \cup Rejecting \cup {"none"},
                   bound : BOOLEAN]
    BY <1>2, <2>2 DEF Rejecting
  <2>. QED
    BY <2>1, <2>3, <1>1 DEF TypeOK
<1>4. Windows' /\ AcceptedOncePerWindow' /\ Trails'
  BY <1>1, WindowsKept, TrailsKept
<1>5. DuplicatesWereJudged'
  <2>1. PICK i \in 1..Len(Keys(m, v)) : Known(Keys(m, v)[i])
    BY <1>1 DEF IsDuplicate
  <2>2. PICK k \in DedupeKey : k = Keys(m, v)[i]
    BY <1>1, ArrivingKeys
  <2>3. Remembers(k) /\ now - dedupe[k] <= TTL /\ dedupe[k] \in Nat
    BY <2>1, <2>2, <1>1 DEF Known, Remembers, TypeOK
  <2>4. \/ k = EventKey(m, v) \/ k = StampKey(m)
        \/ v = "message" /\ k = ClientKey(m)
    <3>1. CASE v = "message"
      <4>1. Len(Keys(m, v)) = 3
        BY <3>1, KeysAre
      <4>2. i = 1 \/ i = 2 \/ i = 3
        BY <4>1
      <4>. QED BY <4>2, <3>1, <2>2, KeysAre
    <3>2. CASE v # "message"
      <4>1. Len(Keys(m, v)) = 2
        BY <3>2, KeysAre
      <4>2. i = 1 \/ i = 2
        BY <4>1
      <4>. QED BY <4>2, <3>2, <2>2, KeysAre
    <3>. QED BY <3>1, <3>2
  <2>5. judged[m] # None /\ dedupe[k] <= judged[m] + TTL
    <3>1. judged[m] # None => judged[m] \in Nat
      BY <1>1 DEF TypeOK
    <3>2. CASE k = EventKey(m, v)
      BY <3>2, <2>3, <1>1 DEF Trails
    <3>3. CASE k = StampKey(m)
      BY <3>1, <3>3, <2>3, <1>1 DEF Trails
    <3>4. CASE v = "message" /\ k = ClientKey(m)
      <4>1. PICK e : e = EventKey(m, "message")
        OBVIOUS
      <4>2. Remembers(e) /\ dedupe[k] <= dedupe[e]
        BY <3>4, <4>1, <2>3, <1>1 DEF Trails
      <4>3. judged[m] # None /\ dedupe[e] <= judged[m] + TTL
        BY <4>1, <4>2, <3>4, <1>1 DEF Trails
      <4>4. dedupe[e] \in Nat
        BY <4>2, <1>1 DEF Remembers, TypeOK
      <4>. QED
        BY <4>2, <4>3, <4>4, <3>1, <2>3
    <3>. QED BY <3>2, <3>3, <3>4, <2>4
  <2>6. now - judged[m] <= 2 * TTL
    BY <2>3, <2>5, <1>1 DEF TypeOK
  <2>. QED
    BY <2>5, <2>6, <1>1, <1>2 DEF DuplicatesWereJudged
<1>6. SessionsStayInPolicy' /\ DispatchInPolicy'
  BY <1>1, PolicyKept DEF IInv
<1>. QED
  BY <1>3, <1>4, <1>5, <1>6 DEF IInv

LEMMA DeliverFreshIInv ==
  ASSUME IInv, NEW m \in Msg, NEW v \in Variant, DeliverFresh(m, v)
  PROVE  IInv'
<1> USE TimeAssumption, NoneAssumption
<1>1. /\ TypeOK /\ now \in Nat
      /\ UNCHANGED <<now, bound>>
      /\ Arrives(m, v) /\ ~IsDuplicate(Keys(m, v))
      /\ dedupe' = Remembered(Keys(m, v))
      /\ judged' = [judged EXCEPT ![m] = now]
  BY DEF DeliverFresh, IInv, TypeOK, Time
<1>2. last' = [msg |-> m, reason |-> Reason(m), bound |-> Bound(m)]
  BY DEF DeliverFresh, Verdict
<1>3. /\ accepted' = accepted \/ accepted' = [accepted EXCEPT ![m] = Append(@, now)]
      /\ dispatching' = None \/ (dispatching' = m /\ Reason(m) \in Accepting)
  BY DEF DeliverFresh
<1>4. TypeOK'
  <2>1. dedupe' \in [DedupeKey -> 0..now \cup {None}]
    BY <1>1, RememberedKeys
  <2>2. judged' \in [Msg -> 0..now \cup {None}]
    BY <1>1 DEF TypeOK
  <2>3. accepted' \in [Msg -> Seq(0..now)]
    <3>1. accepted[m] \in Seq(0..now) /\ now \in 0..now
      BY <1>1 DEF TypeOK
    <3>2. Append(accepted[m], now) \in Seq(0..now)
      BY <3>1
    <3>. QED
      BY <3>2, <1>1, <1>3 DEF TypeOK
  <2>4. bound' \subseteq Threads /\ dispatching' \in Msg \cup {None}
    BY <1>1, <1>3 DEF TypeOK
  <2>5. Bound(m) \in BOOLEAN
    BY DEF Bound
  <2>6. last' \in [msg : Msg \cup {None}, reason : Accepting \cup Rejecting \cup {"none"},
                   bound : BOOLEAN]
    BY <1>2, <2>5, Verdicts
  <2>. QED
    BY <2>1, <2>2, <2>3, <2>4, <2>6, <1>1 DEF TypeOK
<1>5. Windows' /\ AcceptedOncePerWindow' /\ Trails'
  BY <1>1, <1>3, WindowsKept, TrailsKept
<1>6. DuplicatesWereJudged'
  BY <1>2, Verdicts DEF DuplicatesWereJudged
<1>7. SessionsStayInPolicy'
  <2>1. \A t \in bound' : InPolicy(t)
    BY <1>1 DEF IInv, SessionsStayInPolicy
  <2>. QED
    BY <2>1 DEF SessionsStayInPolicy, InPolicy, Thread, ChannelAllowed
<1>8. DispatchInPolicy'
  <2>1. CASE dispatching' = None
    BY <2>1 DEF DispatchInPolicy
  <2>2. CASE dispatching' = m /\ Reason(m) \in Accepting
    <3>1. \/ Thread(m) \in bound
          \/ IF Info[m].im THEN Info[m].user \in AllowedDM ELSE ChannelAllowed(m)
      BY <2>2, Verdicts DEF Bound
    <3>2. InPolicy(Thread(m))
      BY <3>1 DEF IInv, SessionsStayInPolicy, InPolicy
    <3>. QED
      BY <2>2, <3>2 DEF DispatchInPolicy, InPolicy, Thread, ChannelAllowed
  <2>. QED BY <2>1, <2>2, <1>3
<1>. QED
  BY <1>4, <1>5, <1>6, <1>7, <1>8 DEF IInv

LEMMA NextIInv == IInv /\ [Next]_vars => IInv'
<1> SUFFICES ASSUME IInv, [Next]_vars PROVE IInv'
  OBVIOUS
<1>1. CASE UNCHANGED vars
  BY <1>1 DEF vars, IInv, TypeOK, Windows, Trails, Remembers, AcceptedOncePerWindow,
              DuplicatesWereJudged, SessionsStayInPolicy, DispatchInPolicy
<1>. QED
  BY <1>1, TickIInv, SessionEndsIInv, EnqueueIInv, DeliverNoiseIInv, DeliverDuplicateIInv,
     DeliverFreshIInv DEF Next

THEOREM Invariance == Spec => []IInv
BY InitIInv, NextIInv, PTL DEF Spec

-----------------------------------------------------------------------------
(* Results.                                                                  *)

\* Every variable of the filter keeps its type, and neither the deduper nor a
\* history ever holds a time in the future.
THEOREM TypeCorrect == Spec => []TypeOK
BY Invariance, PTL DEF IInv

\* However long the window, and however often, in whatever order and in which
\* of its two forms Slack delivers a message, Filter.ShouldProcess accepts it
\* at most once per window.
THEOREM OncePerWindow == Spec => []AcceptedOncePerWindow
BY Invariance, PTL DEF IInv

\* The deduper swallows no message: one it calls a duplicate was put before the
\* access policy itself, no longer than twice the window ago.
THEOREM NothingSwallowed == Spec => []DuplicatesWereJudged
BY Invariance, PTL DEF IInv

\* No order of messages and session ends opens a session outside the policy:
\* the exception for bound threads never widens it.
THEOREM PolicyNeverWidens == Spec => []SessionsStayInPolicy
BY Invariance, PTL DEF IInv
=============================================================================
