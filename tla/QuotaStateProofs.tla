-------------------------- MODULE QuotaStateProofs --------------------------
(***************************************************************************)
(* Proofs about the quota counters, for any number of clients and any      *)
(* length of a day.  A counter never exceeds what was sent less what is    *)
(* still under way, and until its period has been over for a while it      *)
(* holds all that was executed.                                            *)
(***************************************************************************)
EXTENDS QuotaState, FiniteSets, FiniteSetTheorems, TLAPS

Key == [n: Nat, expires: Nat]
Steps == {"idle", "sent", "lost", "counted", "rpm", "tokens", "hash", "answered"}
Calls == [step: Steps, at: 0..Horizon, delta: Delta, rpm: Nat, tokens: Nat,
          miss: BOOLEAN, floor: Nat \X Nat]

QuotaTypeOK ==
    /\ now \in 0..Horizon
    /\ rpm \in [Buckets -> Key] /\ tokens \in [Days -> Key]
    /\ hash \in [window: Nat, n: Nat, tokens: Nat, day: Days, expires: Nat]
    /\ sent \in [Buckets -> Nat] /\ acked \in [Buckets -> Nat]
    /\ tokensSent \in [Days -> Nat] /\ tokensAcked \in [Days -> Nat]
    /\ call \in [Clients -> Calls]

(* Increments on their way, and those executed but not confirmed: of a     *)
(* minute, and of a day those that carry a token.                          *)
UnderWay(b) == {c \in Clients : /\ call[c].step \in {"sent", "lost"}
                                /\ BucketOf(call[c].at) = b}
Executed(b) == {c \in Clients : /\ call[c].step = "counted"
                                /\ BucketOf(call[c].at) = b}
TokensUnderWay(d) == {c \in Clients : /\ call[c].step \in {"sent", "lost"}
                                      /\ DayOf(call[c].at) = d
                                      /\ call[c].delta = 1}
TokensExecuted(d) == {c \in Clients : /\ call[c].step = "counted"
                                      /\ DayOf(call[c].at) = d
                                      /\ call[c].delta = 1}
Busy == {c \in Clients : call[c].step # "idle"}

(* A key that was set in its period is there at least until this tick.     *)
MinuteHeld(b) == b * Minute + RpmTtl
DayHeld(d) == d * Day + TokensTtl

CounterFits(t, key, all, confirmed, away, executed, held) ==
    /\ key.n + Cardinality(away) <= all
    /\ t < held => confirmed + Cardinality(executed) <= key.n
    /\ key.n > 0 => key.expires >= held

MinuteFits(b) == CounterFits(now, rpm[b], sent[b], acked[b], UnderWay(b),
                             Executed(b), MinuteHeld(b))
DayFits(d) == CounterFits(now, tokens[d], tokensSent[d], tokensAcked[d],
                          TokensUnderWay(d), TokensExecuted(d), DayHeld(d))

HashFits ==
    /\ \E b \in Buckets : /\ hash.window = b * Minute
                          /\ b <= BucketOf(now) /\ hash.n <= sent[b]
    /\ hash.tokens <= tokensSent[hash.day]

Current(c) ==
    LET b == BucketOf(call[c].at)
        d == DayOf(call[c].at)
    IN /\ call[c].floor[1] <= call[c].rpm
       /\ \E k \in b..BucketOf(now) : call[c].rpm <= sent[k]
       /\ call[c].floor[2] <= call[c].tokens
       /\ call[c].tokens <= tokensSent[d]

(* What a reading knows at each of its steps. *)
ReadingFits(c) ==
    LET b == BucketOf(call[c].at)
        d == DayOf(call[c].at)
    IN /\ call[c].at <= now
       /\ call[c].step = "rpm" => call[c].floor[1] <= acked[b]
       /\ call[c].step = "tokens" =>
            /\ call[c].floor[1] <= call[c].rpm /\ call[c].rpm <= sent[b]
            /\ call[c].miss => call[c].floor[1] = 0
       /\ call[c].step \in {"rpm", "tokens"} => call[c].floor[2] <= tokensAcked[d]
       /\ call[c].step = "hash" => call[c].floor = <<0, 0>>
       /\ call[c].step = "answered" => Current(c)

QuotaInv ==
    /\ QuotaTypeOK
    /\ IsFiniteSet(Busy)
    /\ \A b \in Buckets : MinuteFits(b)
    /\ \A d \in Days : DayFits(d)
    /\ HashFits
    /\ \A c \in Clients : ReadingFits(c)

-----------------------------------------------------------------------------
(* Minutes and days of the clock. *)
LEMMA MinuteOfClock ==
    ASSUME NEW t \in 0..Horizon
    PROVE  /\ BucketOf(t) \in Buckets
           /\ BucketOf(t) * Minute <= t /\ t < BucketOf(t) * Minute + Minute
BY QuotaAssumption DEF BucketOf, Buckets, Minute

LEMMA MinutesInOrder ==
    ASSUME NEW t \in Nat, NEW u \in Nat, t <= u
    PROVE  BucketOf(t) <= BucketOf(u) /\ BucketOf(t) \in Nat
BY DEF BucketOf, Minute

LEMMA Division ==
    ASSUME NEW t \in Nat, NEW n \in Nat, n > 0
    PROVE  /\ t \div n \in Nat
           /\ (t \div n) * n <= t /\ t < (t \div n) * n + n
OBVIOUS

LEMMA DayOfClock ==
    ASSUME NEW t \in 0..Horizon
    PROVE  /\ DayOf(t) \in Days /\ DayOf(t) \in Nat
           /\ DayOf(t) * Day \in Nat
           /\ DayOf(t) * Day <= t /\ t < DayOf(t) * Day + Day
<1>1. /\ t \div Day \in Nat
      /\ (t \div Day) * Day <= t /\ t < (t \div Day) * Day + Day
  BY Division, QuotaAssumption
<1>2. /\ Horizon \div Day \in Nat
      /\ Horizon < (Horizon \div Day) * Day + Day
  BY Division, QuotaAssumption
<1>3. t \div Day <= Horizon \div Day
  <2> DEFINE x == t \div Day  y == Horizon \div Day
  <2>1. /\ x \in Nat /\ y \in Nat /\ Day \in Nat /\ t <= Horizon
        /\ t \in Nat /\ Horizon \in Nat
        /\ x * Day <= t /\ Horizon < y * Day + Day
    BY <1>1, <1>2, QuotaAssumption
  <2> HIDE DEF x, y
  <2>2. ASSUME x >= y + 1 PROVE FALSE
    <3>1. x * Day >= (y + 1) * Day
      BY <2>1, <2>2
    <3>2. (y + 1) * Day = y * Day + Day
      BY <2>1
    <3>3. x * Day \in Nat /\ y * Day \in Nat
      BY <2>1
    <3> QED BY <2>1, <3>1, <3>2, <3>3
  <2>3. x <= y
    BY <2>1, <2>2
  <2> QED BY <2>3 DEF x, y
<1>4. (t \div Day) * Day \in Nat
  BY <1>1, QuotaAssumption
<1> QED BY <1>1, <1>3, <1>4, QuotaAssumption DEF DayOf, Days

(* A reader that is in time finds a key of its minute and of its day still *)
(* held.                                                                   *)
LEMMA HeldWhileReading ==
    ASSUME NEW at \in 0..Horizon, NEW t \in 0..Horizon, at <= t
    PROVE  /\ MinuteHeld(BucketOf(at)) \in Nat /\ DayHeld(DayOf(at)) \in Nat
           /\ MinuteHeld(BucketOf(at)) <= t + RpmTtl
           /\ DayHeld(DayOf(at)) <= t + TokensTtl
           /\ t <= at + Patience =>
                t < MinuteHeld(BucketOf(at)) /\ t < DayHeld(DayOf(at))
<1>1. /\ BucketOf(at) \in Nat
      /\ BucketOf(at) * Minute <= at /\ at < BucketOf(at) * Minute + Minute
  BY MinuteOfClock DEF Buckets
<1>2. /\ DayOf(at) * Day \in Nat
      /\ DayOf(at) * Day <= at /\ at < DayOf(at) * Day + Day
  BY DayOfClock
<1>3. /\ MinuteHeld(BucketOf(at)) = BucketOf(at) * Minute + 2
      /\ Minute = 1 /\ RpmTtl = 2 /\ Patience = 1
  BY DEF MinuteHeld, RpmTtl, Minute, Patience
<1>4. DayHeld(DayOf(at)) = DayOf(at) * Day + 2 * Day /\ TokensTtl = 2 * Day
  BY DEF DayHeld, TokensTtl
<1>5. Day \in Nat /\ Day >= 2
  BY QuotaAssumption
<1> DEFINE start == DayOf(at) * Day
<1>6. start \in Nat /\ start <= at /\ at < start + Day
  BY <1>2
<1>7. DayHeld(DayOf(at)) = start + 2 * Day
  BY <1>4
<1> HIDE DEF start
<1>8. /\ DayHeld(DayOf(at)) \in Nat /\ DayHeld(DayOf(at)) <= t + TokensTtl
      /\ t <= at + Patience => t < DayHeld(DayOf(at))
  BY <1>3, <1>4, <1>5, <1>6, <1>7
<1>9. /\ MinuteHeld(BucketOf(at)) \in Nat
      /\ MinuteHeld(BucketOf(at)) <= t + RpmTtl
      /\ t <= at + Patience => t < MinuteHeld(BucketOf(at))
  BY <1>1, <1>3
<1> QED BY <1>8, <1>9

-----------------------------------------------------------------------------
(* One counter: what a send, a script, a confirmation and the passing of   *)
(* time do to it.                                                          *)
LEMMA CounterRests ==
    ASSUME NEW t \in Nat, NEW u \in Nat, t <= u, NEW key \in Key,
           NEW all \in Nat, NEW confirmed \in Nat, NEW held \in Nat,
           NEW away, IsFiniteSet(away), NEW executed, IsFiniteSet(executed),
           NEW away2 \in SUBSET away, NEW executed2 \in SUBSET executed,
           CounterFits(t, key, all, confirmed, away, executed, held)
    PROVE  CounterFits(u, key, all, confirmed, away2, executed2, held)
<1>1. /\ Cardinality(away2) <= Cardinality(away)
      /\ Cardinality(executed2) <= Cardinality(executed)
      /\ Cardinality(away) \in Nat /\ Cardinality(executed) \in Nat
      /\ Cardinality(away2) \in Nat /\ Cardinality(executed2) \in Nat
  BY FS_Subset, FS_CardinalityType
<1> QED BY <1>1 DEF CounterFits, Key

LEMMA CounterSends ==
    ASSUME NEW t \in Nat, NEW key \in Key,
           NEW all \in Nat, NEW confirmed \in Nat, NEW held \in Nat,
           NEW away, IsFiniteSet(away), NEW executed, NEW c, c \notin away,
           CounterFits(t, key, all, confirmed, away, executed, held)
    PROVE  CounterFits(t, key, all + 1, confirmed, away \cup {c}, executed, held)
<1>1. /\ Cardinality(away \cup {c}) = Cardinality(away) + 1
      /\ Cardinality(away) \in Nat
  BY FS_AddElement, FS_CardinalityType
<1> QED BY <1>1 DEF CounterFits, Key

LEMMA CounterConfirms ==
    ASSUME NEW t \in Nat, NEW key \in Key,
           NEW all \in Nat, NEW confirmed \in Nat, NEW held \in Nat,
           NEW executed, IsFiniteSet(executed), NEW away, NEW c \in executed,
           CounterFits(t, key, all, confirmed, away, executed, held)
    PROVE  CounterFits(t, key, all, confirmed + 1, away, executed \ {c}, held)
<1>1. /\ Cardinality(executed \ {c}) = Cardinality(executed) - 1
      /\ Cardinality(executed) \in Nat
  BY FS_RemoveElement, FS_CardinalityType
<1> QED BY <1>1 DEF CounterFits, Key

(* What a counter holds is a number, and no more than it held before and   *)
(* the increment; within the period nothing of it is lost.                 *)
LEMMA CountedKey ==
    ASSUME now \in Nat, NEW key \in Key, NEW delta \in Delta, NEW ttl \in Nat,
           NEW held \in Nat, held <= now + ttl, key.n > 0 => key.expires >= held
    PROVE  LET r == Counted(key, delta, ttl)
           IN /\ r \in Key
              /\ r.n <= key.n + delta
              /\ now < held => r.n = key.n + delta
              /\ r.n > 0 => r.expires >= held
<1> DEFINE base == IF Alive(key) THEN key.n ELSE 0
           ends == IF base + delta = delta THEN now + ttl ELSE key.expires
           r == Counted(key, delta, ttl)
<1>1. /\ key.n \in Nat /\ key.expires \in Nat
  BY DEF Key
<1>2. delta \in Nat
  BY DEF Delta
<1>3. /\ base \in Nat /\ base <= key.n
      /\ now < held => base = key.n
      /\ base > 0 => key.expires >= held
  BY <1>1 DEF Alive
<1>4. r = [n |-> base + delta, expires |-> ends]
  BY DEF Counted
<1> HIDE DEF base
<1>5. ends \in Nat /\ (base + delta > 0 => ends >= held)
  BY <1>1, <1>2, <1>3
<1> HIDE DEF ends
<1>6. r.n = base + delta /\ r.expires = ends /\ r \in Key
  BY <1>2, <1>3, <1>4, <1>5 DEF Key
<1> HIDE DEF r
<1>7. /\ r \in Key /\ r.n <= key.n + delta
      /\ now < held => r.n = key.n + delta
      /\ r.n > 0 => r.expires >= held
  BY <1>1, <1>2, <1>3, <1>5, <1>6
<1> QED BY <1>7 DEF r

LEMMA CounterCounts ==
    ASSUME now \in Nat, NEW key \in Key, NEW ttl \in Nat,
           NEW all \in Nat, NEW confirmed \in Nat, NEW held \in Nat,
           held <= now + ttl,
           NEW away, IsFiniteSet(away), NEW executed, IsFiniteSet(executed),
           NEW c \in away, NEW seen \in SUBSET {c},
           CounterFits(now, key, all, confirmed, away, executed, held)
    PROVE  CounterFits(now, Counted(key, 1, ttl), all, confirmed, away \ {c},
                       executed \cup seen, held)
<1> DEFINE r == Counted(key, 1, ttl)
<1>1. key.n > 0 => key.expires >= held
  BY DEF CounterFits
<1>2. 1 \in Delta
  BY DEF Delta
<1>3. /\ r \in Key /\ r.n <= key.n + 1
      /\ now < held => r.n = key.n + 1
      /\ r.n > 0 => r.expires >= held
  BY <1>1, <1>2, CountedKey
<1> HIDE DEF r
<1>4. /\ Cardinality(away \ {c}) = Cardinality(away) - 1
      /\ Cardinality(away) \in Nat /\ Cardinality(executed) \in Nat
  BY FS_RemoveElement, FS_CardinalityType
<1>5. /\ Cardinality(executed \cup seen) <= Cardinality(executed) + 1
      /\ Cardinality(executed \cup seen) \in Nat
  <2>1. Cardinality(executed \cup {c})
          = IF c \in executed THEN Cardinality(executed) ELSE Cardinality(executed) + 1
    BY FS_AddElement
  <2>2. CASE seen = {}
    <3>1. executed \cup seen = executed
      BY <2>2
    <3>2. Cardinality(executed \cup seen) = Cardinality(executed)
      BY <3>1, Zenon
    <3> QED BY <1>4, <3>2
  <2>3. CASE seen = {c}
    <3>1. executed \cup seen = executed \cup {c}
      BY <2>3
    <3>2. \/ Cardinality(executed \cup {c}) = Cardinality(executed)
          \/ Cardinality(executed \cup {c}) = Cardinality(executed) + 1
      BY <2>1
    <3>3. Cardinality(executed \cup seen) = Cardinality(executed \cup {c})
      BY <3>1, Zenon
    <3> QED BY <1>4, <3>2, <3>3
  <2>4. seen = {} \/ seen = {c}
    OBVIOUS
  <2> QED BY <2>2, <2>3, <2>4
<1>6. CounterFits(now, r, all, confirmed, away \ {c},
                  executed \cup seen, held)
  BY <1>3, <1>4, <1>5 DEF CounterFits, Key
<1> QED BY <1>6 DEF r

LEMMA CounterTouched ==
    ASSUME now \in Nat, NEW key \in Key, NEW ttl \in Nat,
           NEW all \in Nat, NEW confirmed \in Nat, NEW held \in Nat,
           held <= now + ttl,
           NEW away, IsFiniteSet(away), NEW executed, IsFiniteSet(executed),
           CounterFits(now, key, all, confirmed, away, executed, held)
    PROVE  CounterFits(now, Counted(key, 0, ttl), all, confirmed, away, executed,
                       held)
<1> DEFINE r == Counted(key, 0, ttl)
<1>1. key.n > 0 => key.expires >= held
  BY DEF CounterFits
<1>2. 0 \in Delta
  BY DEF Delta
<1>3. /\ r \in Key /\ r.n <= key.n + 0
      /\ now < held => r.n = key.n + 0
      /\ r.n > 0 => r.expires >= held
  BY <1>1, <1>2, CountedKey
<1> HIDE DEF r
<1>4. Cardinality(away) \in Nat /\ Cardinality(executed) \in Nat
  BY FS_CardinalityType
<1>5. CounterFits(now, r, all, confirmed, away, executed, held)
  BY <1>3, <1>4 DEF CounterFits, Key
<1> QED BY <1>5 DEF r

-----------------------------------------------------------------------------
LEMMA NoCallIsCall == NoCall \in Calls
BY QuotaAssumption DEF NoCall, Calls, Steps, Delta

LEMMA PeriodsAreNumbers ==
    /\ \A b \in Buckets : b \in Nat /\ MinuteHeld(b) \in Nat
    /\ \A d \in Days : d \in Nat /\ DayHeld(d) \in Nat
<1>1. Horizon \div Minute \in Nat /\ Horizon \div Day \in Nat
  BY MinuteOfClock, DayOfClock, QuotaAssumption DEF Buckets, Days, Minute
<1>2. \A b \in Buckets : b \in Nat /\ MinuteHeld(b) \in Nat
  BY <1>1 DEF Buckets, MinuteHeld, Minute, RpmTtl
<1>3. \A d \in Days : d \in Nat /\ DayHeld(d) \in Nat
  BY <1>1, QuotaAssumption DEF Days, DayHeld, TokensTtl
<1> QED BY <1>2, <1>3

LEMMA InitQuota == QuotaInit => QuotaInv
<1> SUFFICES ASSUME QuotaInit PROVE QuotaInv
  OBVIOUS
<1>1. 0 \in Buckets /\ 0 \in Days /\ BucketOf(0) = 0
  <2>1. 0 \in 0..Horizon
    BY QuotaAssumption
  <2>2. BucketOf(0) \in Buckets /\ DayOf(0) \in Days
    BY <2>1, MinuteOfClock, DayOfClock
  <2>3. BucketOf(0) = 0
    BY <2>1, MinuteOfClock, PeriodsAreNumbers DEF Minute
  <2>4. DayOf(0) \in Nat /\ Horizon \div Day \in Nat
    BY <2>1, DayOfClock, Division, QuotaAssumption
  <2> QED BY <2>2, <2>3, <2>4 DEF Days
<1>2. QuotaTypeOK
  BY <1>1, NoCallIsCall, QuotaAssumption
     DEF QuotaInit, QuotaTypeOK, Key, NoKey, NoHash
<1>3. \A c \in Clients : call[c] = NoCall /\ call[c].step = "idle"
  BY DEF QuotaInit, NoCall
<1>4. Busy = {} /\ \A k : /\ UnderWay(k) = {} /\ Executed(k) = {}
                          /\ TokensUnderWay(k) = {} /\ TokensExecuted(k) = {}
  BY <1>3 DEF Busy, UnderWay, Executed, TokensUnderWay, TokensExecuted
<1>5. IsFiniteSet({}) /\ Cardinality({}) = 0
  BY FS_EmptySet
<1>6. ASSUME NEW b \in Buckets PROVE MinuteFits(b)
  <2>1. rpm[b].n = 0 /\ sent[b] = 0 /\ acked[b] = 0
    BY DEF QuotaInit, NoKey
  <2> QED BY <1>4, <1>5, <2>1 DEF MinuteFits, CounterFits
<1>7. ASSUME NEW d \in Days PROVE DayFits(d)
  <2>1. tokens[d].n = 0 /\ tokensSent[d] = 0 /\ tokensAcked[d] = 0
    BY DEF QuotaInit, NoKey
  <2> QED BY <1>4, <1>5, <2>1 DEF DayFits, CounterFits
<1>8. HashFits
  <2>1. /\ hash.window = 0 * Minute /\ hash.n = 0 /\ hash.tokens = 0
        /\ hash.day = 0 /\ sent[0] = 0 /\ tokensSent[0] = 0 /\ now = 0
    BY <1>1 DEF QuotaInit, NoHash, Minute
  <2> QED BY <1>1, <2>1 DEF HashFits
<1>9. ASSUME NEW c \in Clients PROVE ReadingFits(c)
  BY <1>3 DEF ReadingFits, NoCall, QuotaInit
<1> QED BY <1>2, <1>4, <1>5, <1>6, <1>7, <1>8, <1>9 DEF QuotaInv

-----------------------------------------------------------------------------
(* The calls of an invariant state. *)
LEMMA CallFacts ==
    ASSUME QuotaInv, NEW c \in Clients
    PROVE  /\ call[c] \in Calls /\ call[c].at \in 0..Horizon
           /\ call[c].at <= now
           /\ now \in Nat /\ now \in 0..Horizon
           /\ BucketOf(call[c].at) \in Buckets /\ DayOf(call[c].at) \in Days
           /\ BucketOf(call[c].at) <= BucketOf(now)
<1>1. call[c] \in Calls /\ now \in 0..Horizon
  BY DEF QuotaInv, QuotaTypeOK
<1>2. call[c].at \in 0..Horizon
  BY <1>1 DEF Calls
<1>3. call[c].at <= now
  BY DEF QuotaInv, ReadingFits
<1>4. now \in Nat /\ call[c].at \in Nat
  BY <1>1, <1>2, QuotaAssumption
<1> QED BY <1>1, <1>2, <1>3, <1>4, MinuteOfClock, DayOfClock, MinutesInOrder

LEMMA SetsAreFinite ==
    ASSUME QuotaInv, NEW k
    PROVE  /\ IsFiniteSet(UnderWay(k)) /\ IsFiniteSet(Executed(k))
           /\ IsFiniteSet(TokensUnderWay(k)) /\ IsFiniteSet(TokensExecuted(k))
<1>1. /\ UnderWay(k) \subseteq Busy /\ Executed(k) \subseteq Busy
      /\ TokensUnderWay(k) \subseteq Busy /\ TokensExecuted(k) \subseteq Busy
  BY DEF UnderWay, Executed, TokensUnderWay, TokensExecuted, Busy
<1> QED BY <1>1, FS_Subset DEF QuotaInv

(* One client moves: one more is busy at most. *)
LEMMA StillFinite ==
    ASSUME QuotaInv, NEW c \in Clients, NEW mine \in Calls,
           call' = [call EXCEPT ![c] = mine]
    PROVE  /\ call' \in [Clients -> Calls] /\ call'[c] = mine
           /\ \A q \in Clients \ {c} : call'[q] = call[q]
           /\ IsFiniteSet(Busy')
<1>1. call \in [Clients -> Calls]
  BY DEF QuotaInv, QuotaTypeOK
<1>2. /\ call' \in [Clients -> Calls] /\ call'[c] = mine
      /\ \A q \in Clients \ {c} : call'[q] = call[q]
  BY <1>1
<1>3. Busy' \subseteq Busy \cup {c}
  BY <1>2 DEF Busy
<1>4. IsFiniteSet(Busy \cup {c})
  BY FS_AddElement DEF QuotaInv
<1> QED BY <1>2, <1>3, <1>4, FS_Subset

(* What a reading knows stays so while the clock, what was sent and what   *)
(* was confirmed only grow.                                                *)
LEMMA ReadingRests ==
    ASSUME QuotaInv, NEW q \in Clients, call'[q] = call[q],
           now' \in 0..Horizon, now <= now',
           sent' \in [Buckets -> Nat], acked' \in [Buckets -> Nat],
           tokensSent' \in [Days -> Nat], tokensAcked' \in [Days -> Nat],
           \A b \in Buckets : sent[b] <= sent'[b] /\ acked[b] <= acked'[b],
           \A d \in Days : /\ tokensSent[d] <= tokensSent'[d]
                           /\ tokensAcked[d] <= tokensAcked'[d]
    PROVE  ReadingFits(q)'
<1> DEFINE b == BucketOf(call[q].at)
           d == DayOf(call[q].at)
<1>1. /\ call[q] \in Calls /\ call[q].at \in 0..Horizon /\ call[q].at <= now
      /\ now \in Nat /\ now \in 0..Horizon /\ b \in Buckets /\ d \in Days
      /\ b <= BucketOf(now)
  BY CallFacts
<1>2. /\ sent[b] \in Nat /\ sent'[b] \in Nat /\ acked[b] \in Nat
      /\ acked'[b] \in Nat /\ tokensSent[d] \in Nat /\ tokensSent'[d] \in Nat
      /\ tokensAcked[d] \in Nat /\ tokensAcked'[d] \in Nat
      /\ sent[b] <= sent'[b] /\ acked[b] <= acked'[b]
      /\ tokensSent[d] <= tokensSent'[d] /\ tokensAcked[d] <= tokensAcked'[d]
  BY <1>1 DEF QuotaInv, QuotaTypeOK
<1>3. /\ call[q].rpm \in Nat /\ call[q].tokens \in Nat
      /\ call[q].floor \in Nat \X Nat /\ call[q].floor[1] \in Nat
      /\ call[q].floor[2] \in Nat
  BY <1>1 DEF Calls
<1>4. ReadingFits(q)
  BY DEF QuotaInv
<1>5. call[q].step = "answered" => Current(q)'
  <2> SUFFICES ASSUME call[q].step = "answered" PROVE Current(q)'
    OBVIOUS
  <2>1. Current(q)
    BY <1>4 DEF ReadingFits
  <2>2. PICK k \in b..BucketOf(now) : call[q].rpm <= sent[k]
    BY <2>1 DEF Current
  <2>3. BucketOf(now) <= BucketOf(now') /\ BucketOf(now') \in Buckets
        /\ BucketOf(now) \in Buckets
    BY <1>1, MinutesInOrder, MinuteOfClock, QuotaAssumption
  <2>4. k \in Buckets /\ k \in b..BucketOf(now')
    <3>1. /\ b \in Nat /\ BucketOf(now) \in Nat /\ BucketOf(now') \in Nat
          /\ Buckets = 0..(Horizon \div Minute) /\ Horizon \div Minute \in Nat
      BY <1>1, <2>3, PeriodsAreNumbers, QuotaAssumption DEF Buckets, Minute
    <3> HIDE DEF b
    <3> QED BY <1>1, <2>2, <2>3, <3>1
  <2>5. call[q].rpm <= sent'[k]
    BY <1>3, <2>2, <2>4 DEF QuotaInv, QuotaTypeOK
  <2>6. /\ call[q].floor[1] <= call[q].rpm /\ call[q].floor[2] <= call[q].tokens
        /\ call[q].tokens <= tokensSent'[d]
    BY <1>2, <1>3, <2>1 DEF Current
  <2> QED BY <2>4, <2>5, <2>6 DEF Current
<1>6. call[q].at <= now'
  BY <1>1, QuotaAssumption
<1>7. call[q].step = "rpm" => call[q].floor[1] <= acked'[b]
  BY <1>2, <1>3, <1>4 DEF ReadingFits
<1>8. call[q].step = "tokens" => /\ call[q].floor[1] <= call[q].rpm
                                 /\ call[q].rpm <= sent'[b]
                                 /\ call[q].miss => call[q].floor[1] = 0
  BY <1>2, <1>3, <1>4 DEF ReadingFits
<1>9. call[q].step \in {"rpm", "tokens"} => call[q].floor[2] <= tokensAcked'[d]
  BY <1>2, <1>3, <1>4 DEF ReadingFits
<1>10. call[q].step = "hash" => call[q].floor = <<0, 0>>
  BY <1>4 DEF ReadingFits
<1> QED BY <1>5, <1>6, <1>7, <1>8, <1>9, <1>10 DEF ReadingFits

-----------------------------------------------------------------------------
(* A step of one client that neither sends, executes nor confirms: it      *)
(* reads, answers or gives up.                                             *)
LEMMA CallerStep ==
    ASSUME QuotaInv, NEW c \in Clients, NEW mine \in Calls,
           call' = [call EXCEPT ![c] = mine],
           UNCHANGED <<now, redis, ghost>>,
           mine.step \in {"sent", "lost"} =>
              /\ call[c].step \in {"sent", "lost"}
              /\ mine.at = call[c].at /\ mine.delta = call[c].delta,
           mine.step # "counted",
           ReadingFits(c)'
    PROVE  QuotaInv'
<1>1. /\ call' \in [Clients -> Calls] /\ call'[c] = mine
      /\ \A q \in Clients \ {c} : call'[q] = call[q]
      /\ IsFiniteSet(Busy')
  BY StillFinite
<1>2. /\ now' = now /\ rpm' = rpm /\ tokens' = tokens /\ hash' = hash
      /\ sent' = sent /\ acked' = acked /\ tokensSent' = tokensSent
      /\ tokensAcked' = tokensAcked
  BY DEF redis, ghost
<1>3. QuotaTypeOK'
  BY <1>1, <1>2 DEF QuotaInv, QuotaTypeOK
<1>4. now \in Nat
  BY QuotaAssumption DEF QuotaInv, QuotaTypeOK
<1>5. \A k : /\ UnderWay(k)' \in SUBSET UnderWay(k)
             /\ Executed(k)' \in SUBSET Executed(k)
             /\ TokensUnderWay(k)' \in SUBSET TokensUnderWay(k)
             /\ TokensExecuted(k)' \in SUBSET TokensExecuted(k)
  BY <1>1 DEF UnderWay, Executed, TokensUnderWay, TokensExecuted
<1>6. ASSUME NEW b \in Buckets PROVE MinuteFits(b)'
  <2>1. /\ rpm[b] \in Key /\ sent[b] \in Nat /\ acked[b] \in Nat
        /\ MinuteHeld(b) \in Nat
    BY PeriodsAreNumbers DEF QuotaInv, QuotaTypeOK
  <2>2. CounterFits(now, rpm[b], sent[b], acked[b], UnderWay(b), Executed(b),
                    MinuteHeld(b))
    BY DEF QuotaInv, MinuteFits
  <2>3. CounterFits(now, rpm[b], sent[b], acked[b], UnderWay(b)', Executed(b)',
                    MinuteHeld(b))
    <3>1. /\ IsFiniteSet(UnderWay(b)) /\ IsFiniteSet(Executed(b))
          /\ UnderWay(b)' \in SUBSET UnderWay(b)
          /\ Executed(b)' \in SUBSET Executed(b)
          /\ now <= now
      BY <1>4, <1>5, SetsAreFinite
    <3> QED BY <1>4, <2>1, <2>2, <3>1, CounterRests
  <2> QED BY <1>2, <2>3 DEF MinuteFits
<1>7. ASSUME NEW d \in Days PROVE DayFits(d)'
  <2>1. /\ tokens[d] \in Key /\ tokensSent[d] \in Nat /\ tokensAcked[d] \in Nat
        /\ DayHeld(d) \in Nat
    BY PeriodsAreNumbers DEF QuotaInv, QuotaTypeOK
  <2>2. CounterFits(now, tokens[d], tokensSent[d], tokensAcked[d],
                    TokensUnderWay(d), TokensExecuted(d), DayHeld(d))
    BY DEF QuotaInv, DayFits
  <2>3. CounterFits(now, tokens[d], tokensSent[d], tokensAcked[d],
                    TokensUnderWay(d)', TokensExecuted(d)', DayHeld(d))
    <3>1. /\ IsFiniteSet(TokensUnderWay(d)) /\ IsFiniteSet(TokensExecuted(d))
          /\ TokensUnderWay(d)' \in SUBSET TokensUnderWay(d)
          /\ TokensExecuted(d)' \in SUBSET TokensExecuted(d)
          /\ now <= now
      BY <1>4, <1>5, SetsAreFinite
    <3> QED BY <1>4, <2>1, <2>2, <3>1, CounterRests
  <2> QED BY <1>2, <2>3 DEF DayFits
<1>8. HashFits'
  BY <1>2 DEF QuotaInv, HashFits
<1>9. ASSUME NEW q \in Clients PROVE ReadingFits(q)'
  <2>1. CASE q = c
    BY <2>1
  <2>2. CASE q # c
    <3>1. /\ \A b \in Buckets : sent[b] <= sent'[b] /\ acked[b] <= acked'[b]
          /\ \A d \in Days : /\ tokensSent[d] <= tokensSent'[d]
                            /\ tokensAcked[d] <= tokensAcked'[d]
          /\ now <= now'
      BY <1>2, <1>4 DEF QuotaInv, QuotaTypeOK
    <3>2. /\ now' \in 0..Horizon
          /\ sent' \in [Buckets -> Nat] /\ acked' \in [Buckets -> Nat]
          /\ tokensSent' \in [Days -> Nat] /\ tokensAcked' \in [Days -> Nat]
      BY <1>3 DEF QuotaTypeOK
    <3>3. call'[q] = call[q]
      BY <1>1, <2>2
    <3> QED BY <3>1, <3>2, <3>3, ReadingRests
  <2> QED BY <2>1, <2>2
<1> QED BY <1>1, <1>3, <1>6, <1>7, <1>8, <1>9 DEF QuotaInv

(* A client that has answered or given up knows nothing. *)
LEMMA Forgets ==
    ASSUME QuotaInv, NEW c \in Clients, call' = [call EXCEPT ![c] = NoCall],
           UNCHANGED <<now, redis, ghost>>
    PROVE  QuotaInv'
<1>1. NoCall.step = "idle" /\ NoCall.at = 0
  BY DEF NoCall
<1>2. call'[c] = NoCall /\ now' = now
  BY DEF QuotaInv, QuotaTypeOK
<1>3. now \in 0..Horizon /\ 0 <= now
  BY QuotaAssumption DEF QuotaInv, QuotaTypeOK
<1>4. ReadingFits(c)'
  BY <1>1, <1>2, <1>3 DEF ReadingFits
<1> QED BY <1>1, <1>4, NoCallIsCall, CallerStep

LEMMA GiveUpKeeps == ASSUME QuotaInv, NEW c \in Clients, GiveUp(c) PROVE QuotaInv'
<1>1. UNCHANGED <<now, redis, ghost>>
  BY DEF GiveUp
<1>2. CASE call[c].step = "sent"
  <2>1. PICK mine : mine = [call[c] EXCEPT !.step = "lost"]
    OBVIOUS
  <2>2. call' = [call EXCEPT ![c] = mine]
    BY <1>2, <2>1 DEF GiveUp
  <2>3. /\ mine \in Calls /\ mine.step = "lost" /\ mine.at = call[c].at
        /\ mine.delta = call[c].delta
    BY <2>1, CallFacts DEF Calls, Steps
  <2>4. call'[c] = mine /\ now' = now
    BY <1>1, <2>2 DEF QuotaInv, QuotaTypeOK
  <2>5. ReadingFits(c)'
    BY <2>3, <2>4, CallFacts DEF ReadingFits
  <2> QED BY <1>1, <1>2, <2>2, <2>3, <2>5, CallerStep
<1>3. CASE call[c].step # "sent"
  BY <1>1, <1>3, Forgets DEF GiveUp
<1> QED BY <1>2, <1>3

LEMMA AnswerKeeps == ASSUME QuotaInv, NEW c \in Clients, Answer(c) PROVE QuotaInv'
BY Forgets DEF Answer

LEMMA BeginReadingKeeps ==
    ASSUME QuotaInv, NEW c \in Clients, BeginReading(c)
    PROVE  QuotaInv'
<1>1. PICK mine : mine = [NoCall EXCEPT !.step = "rpm", !.at = now,
                    !.floor = <<acked[BucketOf(now)], tokensAcked[DayOf(now)]>>]
  OBVIOUS
<1>2. call' = [call EXCEPT ![c] = mine] /\ UNCHANGED <<now, redis, ghost>>
  BY <1>1 DEF BeginReading
<1>3. /\ now \in 0..Horizon /\ now \in Nat
      /\ BucketOf(now) \in Buckets /\ DayOf(now) \in Days
  <2>1. now \in 0..Horizon
    BY DEF QuotaInv, QuotaTypeOK
  <2> QED BY <2>1, QuotaAssumption, MinuteOfClock, DayOfClock
<1>4. acked[BucketOf(now)] \in Nat /\ tokensAcked[DayOf(now)] \in Nat
  BY <1>3 DEF QuotaInv, QuotaTypeOK
<1>5. /\ mine.step = "rpm" /\ mine.at = now
      /\ mine.floor[1] = acked[BucketOf(now)]
      /\ mine.floor[2] = tokensAcked[DayOf(now)]
  BY <1>1 DEF NoCall
<1>6. mine \in Calls
  BY <1>1, <1>3, <1>4, NoCallIsCall DEF Calls, Steps
<1>7. /\ call'[c] = mine /\ now' = now /\ acked' = acked
      /\ tokensAcked' = tokensAcked
  BY <1>2 DEF QuotaInv, QuotaTypeOK, ghost
<1>8. ReadingFits(c)'
  BY <1>3, <1>4, <1>5, <1>7 DEF ReadingFits
<1> QED BY <1>2, <1>5, <1>6, <1>8, CallerStep

(* A reader that is in time finds all that was confirmed when it began.    *)
LEMMA InTimeFinds ==
    ASSUME QuotaInv, NEW c \in Clients, InTime(c)
    PROVE  LET b == BucketOf(call[c].at)
               d == DayOf(call[c].at)
           IN /\ Value(rpm[b]) \in Nat /\ Value(rpm[b]) <= sent[b]
              /\ acked[b] <= Value(rpm[b]) /\ (~Alive(rpm[b]) => acked[b] = 0)
              /\ Value(tokens[d]) \in Nat /\ Value(tokens[d]) <= tokensSent[d]
              /\ tokensAcked[d] <= Value(tokens[d])
              /\ ~Alive(tokens[d]) => tokensAcked[d] = 0
<1>1. PICK b, d : b = BucketOf(call[c].at) /\ d = DayOf(call[c].at)
  OBVIOUS
<1>2. /\ call[c].at \in 0..Horizon /\ call[c].at <= now
      /\ now \in Nat /\ now \in 0..Horizon /\ b \in Buckets /\ d \in Days
  BY <1>1, CallFacts
<1>3. now < MinuteHeld(b) /\ now < DayHeld(d)
  BY <1>1, <1>2, HeldWhileReading DEF InTime
<1>4. /\ MinuteHeld(b) \in Nat /\ DayHeld(d) \in Nat
      /\ rpm[b] \in Key /\ sent[b] \in Nat /\ acked[b] \in Nat
      /\ tokens[d] \in Key /\ tokensSent[d] \in Nat /\ tokensAcked[d] \in Nat
  BY <1>2, PeriodsAreNumbers DEF QuotaInv, QuotaTypeOK
<1>5. /\ Cardinality(UnderWay(b)) \in Nat /\ Cardinality(Executed(b)) \in Nat
      /\ Cardinality(TokensUnderWay(d)) \in Nat
      /\ Cardinality(TokensExecuted(d)) \in Nat
  BY SetsAreFinite, FS_CardinalityType
<1>6. ASSUME NEW key \in Key, NEW all \in Nat, NEW confirmed \in Nat,
             NEW away, Cardinality(away) \in Nat,
             NEW executed, Cardinality(executed) \in Nat,
             NEW held \in Nat, now < held,
             CounterFits(now, key, all, confirmed, away, executed, held)
      PROVE  /\ Value(key) \in Nat /\ Value(key) <= all
             /\ confirmed <= Value(key) /\ (~Alive(key) => confirmed = 0)
  BY <1>2, <1>6 DEF CounterFits, Value, Alive, Key
<1>7. MinuteFits(b) /\ DayFits(d)
  BY <1>2 DEF QuotaInv
<1>8. /\ Value(rpm[b]) \in Nat /\ Value(rpm[b]) <= sent[b]
      /\ acked[b] <= Value(rpm[b]) /\ (~Alive(rpm[b]) => acked[b] = 0)
  BY <1>3, <1>4, <1>5, <1>6, <1>7 DEF MinuteFits
<1>9. /\ Value(tokens[d]) \in Nat /\ Value(tokens[d]) <= tokensSent[d]
      /\ tokensAcked[d] <= Value(tokens[d])
      /\ ~Alive(tokens[d]) => tokensAcked[d] = 0
  BY <1>3, <1>4, <1>5, <1>6, <1>7 DEF DayFits
<1> QED BY <1>1, <1>8, <1>9

LEMMA ReadRpmKeeps == ASSUME QuotaInv, NEW c \in Clients, ReadRpm(c) PROVE QuotaInv'
<1> DEFINE b == BucketOf(call[c].at)
           d == DayOf(call[c].at)
<1>0. PICK gone \in BOOLEAN : gone = ~Alive(rpm[b])
  BY DEF Alive
<1>1. PICK mine : mine = [call[c] EXCEPT !.step = "tokens", !.rpm = Value(rpm[b]),
                                         !.miss = gone]
  OBVIOUS
<1>2. /\ call' = [call EXCEPT ![c] = mine] /\ UNCHANGED <<now, redis, ghost>>
      /\ call[c].step = "rpm" /\ InTime(c)
  BY <1>0, <1>1 DEF ReadRpm
<1>3. call[c] \in Calls /\ call[c].at <= now
  BY CallFacts
<1>4. /\ Value(rpm[b]) \in Nat /\ Value(rpm[b]) <= sent[b]
      /\ acked[b] <= Value(rpm[b]) /\ (~Alive(rpm[b]) => acked[b] = 0)
      /\ b \in Buckets
  BY <1>2, InTimeFinds, CallFacts
<1>5. gone => acked[b] = 0
  BY <1>0, <1>4
<1>6. /\ mine \in Calls /\ mine.step = "tokens" /\ mine.at = call[c].at
      /\ mine.floor = call[c].floor /\ mine.rpm = Value(rpm[b])
      /\ mine.miss = gone
  BY <1>1, <1>3, <1>4 DEF Calls, Steps
<1>7. /\ call[c].floor[1] <= acked[b] /\ call[c].floor[2] <= tokensAcked[d]
      /\ call[c].floor[1] \in Nat /\ acked[b] \in Nat
  BY <1>2, <1>3, <1>4 DEF QuotaInv, QuotaTypeOK, ReadingFits, Calls
<1>8. /\ mine.floor[1] <= mine.rpm /\ mine.rpm <= sent[b]
      /\ mine.miss => mine.floor[1] = 0
  BY <1>4, <1>5, <1>6, <1>7
<1>9. /\ call'[c] = mine /\ now' = now /\ sent' = sent
      /\ tokensAcked' = tokensAcked
  BY <1>2 DEF QuotaInv, QuotaTypeOK, ghost
<1>10. ReadingFits(c)'
  BY <1>3, <1>6, <1>7, <1>8, <1>9 DEF ReadingFits
<1> QED BY <1>2, <1>6, <1>10, CallerStep

LEMMA ReadTokensKeeps ==
    ASSUME QuotaInv, NEW c \in Clients, ReadTokens(c)
    PROVE  QuotaInv'
<1> DEFINE b == BucketOf(call[c].at)
           d == DayOf(call[c].at)
           missed == call[c].miss /\ ~Alive(tokens[d])
<1>1. PICK mine : mine = [call[c] EXCEPT !.tokens = Value(tokens[d]),
                              !.step = IF missed THEN "hash" ELSE "answered"]
  OBVIOUS
<1>2. /\ call' = [call EXCEPT ![c] = mine] /\ UNCHANGED <<now, redis, ghost>>
      /\ call[c].step = "tokens" /\ InTime(c)
  BY <1>1 DEF ReadTokens
<1>3. /\ call[c] \in Calls /\ call[c].at <= now /\ now \in Nat
      /\ b \in Buckets /\ b <= BucketOf(now) /\ b \in Nat /\ BucketOf(now) \in Nat
      /\ d \in Days
  BY CallFacts, PeriodsAreNumbers, MinutesInOrder
<1>4. /\ Value(tokens[d]) \in Nat /\ Value(tokens[d]) <= tokensSent[d]
      /\ tokensAcked[d] <= Value(tokens[d])
      /\ ~Alive(tokens[d]) => tokensAcked[d] = 0
  BY <1>2, InTimeFinds
<1>5. /\ mine \in Calls /\ mine.at = call[c].at /\ mine.rpm = call[c].rpm
      /\ mine.step = (IF missed THEN "hash" ELSE "answered")
      /\ mine.floor = call[c].floor /\ mine.tokens = Value(tokens[d])
  BY <1>1, <1>3, <1>4 DEF Calls, Steps
<1>6. /\ call[c].floor[1] <= call[c].rpm /\ call[c].rpm <= sent[b]
      /\ call[c].miss => call[c].floor[1] = 0
      /\ call[c].floor[2] <= tokensAcked[d]
      /\ call[c].floor \in Nat \X Nat /\ tokensAcked[d] \in Nat
  BY <1>2, <1>3 DEF QuotaInv, QuotaTypeOK, ReadingFits, Calls
<1>7. missed => call[c].floor = <<0, 0>>
  <2>1. missed => call[c].floor[1] = 0 /\ call[c].floor[2] = 0
    BY <1>4, <1>6
  <2> QED BY <1>6, <2>1
<1>8. /\ call'[c] = mine /\ now' = now /\ sent' = sent
      /\ tokensSent' = tokensSent
  BY <1>2 DEF QuotaInv, QuotaTypeOK, ghost
<1>9. ~missed => Current(c)'
  <2>1. b \in b..BucketOf(now)
    BY <1>3
  <2>2. mine.floor[2] <= mine.tokens
    BY <1>4, <1>5, <1>6
  <2> HIDE DEF b, d
  <2>3. b = BucketOf(call'[c].at) /\ d = DayOf(call'[c].at)
    BY <1>5, <1>8 DEF b, d
  <2> QED BY <1>4, <1>5, <1>6, <1>8, <2>1, <2>2, <2>3 DEF Current
<1>10. ReadingFits(c)'
  BY <1>3, <1>5, <1>7, <1>8, <1>9 DEF ReadingFits
<1>11. mine.step \notin {"sent", "lost", "counted"}
  BY <1>5
<1> QED BY <1>2, <1>5, <1>10, <1>11, CallerStep

(* The older hash counts only when its window has not ended for the        *)
(* reader: then it is that of the reading's minute, or of a later one.     *)
LEMMA ReadHashKeeps ==
    ASSUME QuotaInv, NEW c \in Clients, ReadHash(c)
    PROVE  QuotaInv'
<1> DEFINE b == BucketOf(call[c].at)
           d == DayOf(call[c].at)
           requests == IF Alive(hash) THEN InWindow(call[c].at) ELSE 0
           spent == IF Alive(hash) /\ hash.day = d THEN hash.tokens ELSE 0
<1>1. PICK mine : mine = [call[c] EXCEPT !.step = "answered", !.rpm = requests,
                                         !.tokens = spent]
  OBVIOUS
<1>2. /\ call' = [call EXCEPT ![c] = mine] /\ UNCHANGED <<now, redis, ghost>>
      /\ call[c].step = "hash"
  BY <1>1 DEF ReadHash
<1>3. /\ call[c] \in Calls /\ call[c].at <= now /\ now \in Nat
      /\ call[c].at \in 0..Horizon
      /\ b \in Buckets /\ b <= BucketOf(now) /\ b \in Nat /\ BucketOf(now) \in Nat
      /\ d \in Days
  BY CallFacts, PeriodsAreNumbers, MinutesInOrder
<1>4. PICK w \in Buckets : /\ hash.window = w * Minute
                           /\ w <= BucketOf(now) /\ hash.n <= sent[w]
  BY DEF QuotaInv, HashFits
<1>5. /\ w \in Nat /\ sent[w] \in Nat /\ sent[b] \in Nat
      /\ hash.n \in Nat /\ hash.tokens \in Nat /\ tokensSent[d] \in Nat
      /\ hash.tokens <= tokensSent[hash.day]
  BY <1>3, <1>4, PeriodsAreNumbers DEF QuotaInv, QuotaTypeOK, HashFits
<1>6. requests \in Nat /\ \E k \in b..BucketOf(now) : requests <= sent[k]
  <2>1. CASE requests = 0
    <3>1. b \in b..BucketOf(now)
      BY <1>3
    <3> QED BY <1>5, <2>1, <3>1
  <2>2. CASE requests # 0
    <3>1. requests = hash.n /\ call[c].at - hash.window < Minute
      BY <1>3, <1>4, <1>5, <2>2 DEF InWindow, Minute
    <3>2. b * Minute <= call[c].at
      BY <1>3, MinuteOfClock
    <3>3. b <= w
      BY <1>3, <1>4, <1>5, <3>1, <3>2, QuotaAssumption DEF Minute
    <3>4. w \in b..BucketOf(now)
      BY <1>3, <1>4, <1>5, <3>3
    <3> HIDE DEF b, requests
    <3> QED BY <1>4, <1>5, <3>1, <3>4
  <2> QED BY <2>1, <2>2
<1>7. spent \in Nat /\ spent <= tokensSent[d]
  BY <1>5
<1> HIDE DEF requests, spent
<1>8. /\ mine \in Calls /\ mine.at = call[c].at /\ mine.rpm = requests
      /\ mine.step = "answered" /\ mine.tokens = spent
      /\ mine.floor = call[c].floor
  BY <1>1, <1>3, <1>6, <1>7 DEF Calls, Steps
<1>9. call[c].floor = <<0, 0>>
  BY <1>2 DEF QuotaInv, ReadingFits
<1>10. mine.floor[1] = 0 /\ mine.floor[2] = 0
  BY <1>8, <1>9
<1>11. /\ call'[c] = mine /\ now' = now /\ sent' = sent
       /\ tokensSent' = tokensSent
  BY <1>2 DEF QuotaInv, QuotaTypeOK, ghost
<1>12. Current(c)'
  <2>1. b = BucketOf(call'[c].at) /\ d = DayOf(call'[c].at)
    BY <1>8, <1>11
  <2> HIDE DEF b, d
  <2>2. /\ 0 <= requests /\ 0 <= spent
    BY <1>6, <1>7
  <2> QED BY <1>6, <1>7, <1>8, <1>10, <1>11, <2>1, <2>2 DEF Current
<1>13. ReadingFits(c)'
  BY <1>3, <1>8, <1>11, <1>12 DEF ReadingFits
<1> QED BY <1>2, <1>8, <1>13, CallerStep

-----------------------------------------------------------------------------
LEMMA TickKeeps == ASSUME QuotaInv, Tick PROVE QuotaInv'
<1>1. /\ now' \in 0..Horizon /\ now \in Nat /\ now' \in Nat /\ now <= now'
      /\ now \in 0..Horizon
  BY QuotaAssumption DEF Tick, QuotaInv, QuotaTypeOK
<1>2. /\ rpm' = rpm /\ tokens' = tokens /\ hash' = hash /\ call' = call
      /\ sent' = sent /\ acked' = acked /\ tokensSent' = tokensSent
      /\ tokensAcked' = tokensAcked
  BY DEF Tick, redis, ghost
<1>3. QuotaTypeOK'
  BY <1>1, <1>2 DEF QuotaInv, QuotaTypeOK
<1>4. \A k : /\ UnderWay(k)' = UnderWay(k) /\ Executed(k)' = Executed(k)
             /\ TokensUnderWay(k)' = TokensUnderWay(k)
             /\ TokensExecuted(k)' = TokensExecuted(k)
  BY <1>2 DEF UnderWay, Executed, TokensUnderWay, TokensExecuted
<1>5. IsFiniteSet(Busy')
  BY <1>2 DEF QuotaInv, Busy
<1>6. ASSUME NEW b \in Buckets PROVE MinuteFits(b)'
  <2>1. /\ rpm[b] \in Key /\ sent[b] \in Nat /\ acked[b] \in Nat
        /\ MinuteHeld(b) \in Nat
    BY PeriodsAreNumbers DEF QuotaInv, QuotaTypeOK
  <2>2. CounterFits(now, rpm[b], sent[b], acked[b], UnderWay(b), Executed(b),
                    MinuteHeld(b))
    BY DEF QuotaInv, MinuteFits
  <2>3. IsFiniteSet(UnderWay(b)) /\ IsFiniteSet(Executed(b))
    BY SetsAreFinite
  <2>4. CounterFits(now', rpm[b], sent[b], acked[b], UnderWay(b), Executed(b),
                    MinuteHeld(b))
    BY <1>1, <2>1, <2>2, <2>3, CounterRests
  <2> QED BY <1>2, <1>4, <2>4 DEF MinuteFits
<1>7. ASSUME NEW d \in Days PROVE DayFits(d)'
  <2>1. /\ tokens[d] \in Key /\ tokensSent[d] \in Nat /\ tokensAcked[d] \in Nat
        /\ DayHeld(d) \in Nat
    BY PeriodsAreNumbers DEF QuotaInv, QuotaTypeOK
  <2>2. CounterFits(now, tokens[d], tokensSent[d], tokensAcked[d],
                    TokensUnderWay(d), TokensExecuted(d), DayHeld(d))
    BY DEF QuotaInv, DayFits
  <2>3. IsFiniteSet(TokensUnderWay(d)) /\ IsFiniteSet(TokensExecuted(d))
    BY SetsAreFinite
  <2>4. CounterFits(now', tokens[d], tokensSent[d], tokensAcked[d],
                    TokensUnderWay(d), TokensExecuted(d), DayHeld(d))
    BY <1>1, <2>1, <2>2, <2>3, CounterRests
  <2> QED BY <1>2, <1>4, <2>4 DEF DayFits
<1>8. HashFits'
  <2>1. PICK b \in Buckets : /\ hash.window = b * Minute
                             /\ b <= BucketOf(now) /\ hash.n <= sent[b]
    BY DEF QuotaInv, HashFits
  <2>2. /\ BucketOf(now) <= BucketOf(now') /\ BucketOf(now) \in Nat
        /\ BucketOf(now') \in Nat /\ b \in Nat
    BY <1>1, MinutesInOrder, PeriodsAreNumbers
  <2>3. b <= BucketOf(now')
    BY <2>1, <2>2
  <2> QED BY <1>2, <2>1, <2>3 DEF QuotaInv, HashFits
<1>9. ASSUME NEW q \in Clients PROVE ReadingFits(q)'
  <2>1. /\ \A b \in Buckets : sent[b] <= sent'[b] /\ acked[b] <= acked'[b]
        /\ \A d \in Days : /\ tokensSent[d] <= tokensSent'[d]
                          /\ tokensAcked[d] <= tokensAcked'[d]
    BY <1>2 DEF QuotaInv, QuotaTypeOK
  <2>2. /\ sent' \in [Buckets -> Nat] /\ acked' \in [Buckets -> Nat]
        /\ tokensSent' \in [Days -> Nat] /\ tokensAcked' \in [Days -> Nat]
    BY <1>3 DEF QuotaTypeOK
  <2>3. call'[q] = call[q]
    BY <1>2
  <2> QED BY <1>1, <2>1, <2>2, <2>3, ReadingRests
<1> QED BY <1>3, <1>5, <1>6, <1>7, <1>8, <1>9 DEF QuotaInv

LEMMA SendKeeps == ASSUME QuotaInv, NEW c \in Clients, Send(c) PROVE QuotaInv'
<1>1. PICK delta \in Delta :
        /\ call' = [call EXCEPT ![c] = [NoCall EXCEPT !.step = "sent",
                                              !.at = now, !.delta = delta]]
        /\ tokensSent' = [tokensSent EXCEPT ![DayOf(now)] = @ + delta]
  BY DEF Send
<1>2. PICK mine : mine = [NoCall EXCEPT !.step = "sent", !.at = now,
                                        !.delta = delta]
  OBVIOUS
<1>3. PICK b0, d0 : b0 = BucketOf(now) /\ d0 = DayOf(now)
  OBVIOUS
<1>4. /\ now \in 0..Horizon /\ now \in Nat /\ b0 \in Buckets /\ d0 \in Days
      /\ delta \in {0, 1} /\ delta \in Nat
  <2>1. now \in 0..Horizon
    BY DEF QuotaInv, QuotaTypeOK
  <2> QED BY <1>3, <2>1, QuotaAssumption, MinuteOfClock, DayOfClock DEF Delta
<1>5. /\ mine \in Calls /\ mine.step = "sent" /\ mine.at = now
      /\ mine.delta = delta
  BY <1>2, <1>4, NoCallIsCall DEF Calls, Steps, NoCall, Delta
<1>6. call' = [call EXCEPT ![c] = mine] /\ call[c].step = "idle"
  BY <1>1, <1>2 DEF Send
<1>7. /\ call' \in [Clients -> Calls] /\ call'[c] = mine
      /\ \A q \in Clients \ {c} : call'[q] = call[q]
      /\ IsFiniteSet(Busy')
  BY <1>5, <1>6, StillFinite
<1>8. /\ now' = now /\ rpm' = rpm /\ tokens' = tokens /\ hash' = hash
      /\ acked' = acked /\ tokensAcked' = tokensAcked
      /\ sent' = [sent EXCEPT ![b0] = @ + 1]
      /\ tokensSent' = [tokensSent EXCEPT ![d0] = @ + delta]
  BY <1>1, <1>3 DEF Send, redis
<1>9. /\ sent' \in [Buckets -> Nat] /\ tokensSent' \in [Days -> Nat]
      /\ \A b \in Buckets : sent[b] <= sent'[b] /\ acked[b] <= acked'[b]
      /\ \A d \in Days : /\ tokensSent[d] <= tokensSent'[d]
                          /\ tokensAcked[d] <= tokensAcked'[d]
  BY <1>4, <1>8 DEF QuotaInv, QuotaTypeOK
<1>10. QuotaTypeOK'
  BY <1>7, <1>8, <1>9 DEF QuotaInv, QuotaTypeOK
<1>11. ASSUME NEW b \in Buckets PROVE MinuteFits(b)'
  <2>1. /\ rpm[b] \in Key /\ sent[b] \in Nat /\ acked[b] \in Nat
        /\ MinuteHeld(b) \in Nat /\ IsFiniteSet(UnderWay(b))
    BY PeriodsAreNumbers, SetsAreFinite DEF QuotaInv, QuotaTypeOK
  <2>2. CounterFits(now, rpm[b], sent[b], acked[b], UnderWay(b), Executed(b),
                    MinuteHeld(b))
    BY DEF QuotaInv, MinuteFits
  <2>3. Executed(b)' = Executed(b)
    BY <1>5, <1>6, <1>7 DEF Executed
  <2>4. CASE b = b0
    <3>1. /\ UnderWay(b)' = UnderWay(b) \cup {c} /\ c \notin UnderWay(b)
      BY <1>3, <1>5, <1>6, <1>7, <2>4 DEF UnderWay
    <3>2. sent'[b] = sent[b] + 1
      BY <1>8, <2>4 DEF QuotaInv, QuotaTypeOK
    <3>3. CounterFits(now, rpm[b], sent[b] + 1, acked[b], UnderWay(b) \cup {c},
                      Executed(b), MinuteHeld(b))
      BY <1>4, <2>1, <2>2, <3>1, CounterSends
    <3> QED BY <1>8, <2>3, <3>1, <3>2, <3>3 DEF MinuteFits
  <2>5. CASE b # b0
    <3>1. UnderWay(b)' = UnderWay(b)
      BY <1>3, <1>5, <1>6, <1>7, <2>5 DEF UnderWay
    <3>2. sent'[b] = sent[b]
      BY <1>8, <2>5 DEF QuotaInv, QuotaTypeOK
    <3> QED BY <1>8, <2>2, <2>3, <3>1, <3>2 DEF MinuteFits
  <2> QED BY <2>4, <2>5
<1>12. ASSUME NEW d \in Days PROVE DayFits(d)'
  <2>1. /\ tokens[d] \in Key /\ tokensSent[d] \in Nat /\ tokensAcked[d] \in Nat
        /\ DayHeld(d) \in Nat /\ IsFiniteSet(TokensUnderWay(d))
    BY PeriodsAreNumbers, SetsAreFinite DEF QuotaInv, QuotaTypeOK
  <2>2. CounterFits(now, tokens[d], tokensSent[d], tokensAcked[d],
                    TokensUnderWay(d), TokensExecuted(d), DayHeld(d))
    BY DEF QuotaInv, DayFits
  <2>3. TokensExecuted(d)' = TokensExecuted(d)
    BY <1>5, <1>6, <1>7 DEF TokensExecuted
  <2>4. CASE d = d0 /\ delta = 1
    <3>1. /\ TokensUnderWay(d)' = TokensUnderWay(d) \cup {c}
          /\ c \notin TokensUnderWay(d)
      BY <1>3, <1>5, <1>6, <1>7, <2>4 DEF TokensUnderWay
    <3>2. tokensSent'[d] = tokensSent[d] + 1
      BY <1>8, <2>4 DEF QuotaInv, QuotaTypeOK
    <3>3. CounterFits(now, tokens[d], tokensSent[d] + 1, tokensAcked[d],
                      TokensUnderWay(d) \cup {c}, TokensExecuted(d), DayHeld(d))
      BY <1>4, <2>1, <2>2, <3>1, CounterSends
    <3> QED BY <1>8, <2>3, <3>1, <3>2, <3>3 DEF DayFits
  <2>5. CASE ~(d = d0 /\ delta = 1)
    <3>1. TokensUnderWay(d)' = TokensUnderWay(d)
      BY <1>3, <1>5, <1>6, <1>7, <2>5 DEF TokensUnderWay
    <3>2. tokensSent'[d] = tokensSent[d]
      BY <1>4, <1>8, <2>1, <2>5 DEF QuotaInv, QuotaTypeOK
    <3> QED BY <1>8, <2>2, <2>3, <3>1, <3>2 DEF DayFits
  <2> QED BY <2>4, <2>5
<1>13. HashFits'
  <2>1. PICK b \in Buckets : /\ hash.window = b * Minute
                             /\ b <= BucketOf(now) /\ hash.n <= sent[b]
    BY DEF QuotaInv, HashFits
  <2>2. /\ hash.n \in Nat /\ hash.tokens \in Nat /\ hash.day \in Days
        /\ hash.tokens <= tokensSent[hash.day]
        /\ sent[b] \in Nat /\ sent'[b] \in Nat
        /\ tokensSent[hash.day] \in Nat /\ tokensSent'[hash.day] \in Nat
    BY <1>9 DEF QuotaInv, QuotaTypeOK, HashFits
  <2>3. hash.n <= sent'[b] /\ hash.tokens <= tokensSent'[hash.day]
    BY <1>9, <2>1, <2>2
  <2> QED BY <1>8, <2>1, <2>3 DEF HashFits
<1>14. ASSUME NEW q \in Clients PROVE ReadingFits(q)'
  <2>1. CASE q = c
    BY <1>4, <1>5, <1>7, <1>8, <2>1 DEF ReadingFits
  <2>2. CASE q # c
    <3>1. /\ call'[q] = call[q] /\ now' \in 0..Horizon /\ now <= now'
          /\ acked' \in [Buckets -> Nat] /\ tokensAcked' \in [Days -> Nat]
      BY <1>4, <1>7, <1>8, <2>2 DEF QuotaInv, QuotaTypeOK
    <3> QED BY <1>9, <3>1, ReadingRests
  <2> QED BY <2>1, <2>2
<1> QED BY <1>7, <1>10, <1>11, <1>12, <1>13, <1>14 DEF QuotaInv

(* The answer of the script reaches its client. *)
LEMMA ConfirmKeeps == ASSUME QuotaInv, NEW c \in Clients, Confirm(c) PROVE QuotaInv'
<1>1. PICK b0, d0, delta : /\ b0 = BucketOf(call[c].at) /\ d0 = DayOf(call[c].at)
                           /\ delta = call[c].delta
  OBVIOUS
<1>2. /\ call[c].step = "counted" /\ call' = [call EXCEPT ![c] = NoCall]
      /\ now' = now /\ rpm' = rpm /\ tokens' = tokens /\ hash' = hash
      /\ sent' = sent /\ tokensSent' = tokensSent
      /\ acked' = [acked EXCEPT ![b0] = @ + 1]
      /\ tokensAcked' = [tokensAcked EXCEPT ![d0] = @ + delta]
  BY <1>1 DEF Confirm, redis
<1>3. /\ now \in 0..Horizon /\ now \in Nat /\ b0 \in Buckets /\ d0 \in Days
      /\ delta \in {0, 1} /\ delta \in Nat
  BY <1>1, CallFacts DEF Calls, Delta
<1>4. /\ call' \in [Clients -> Calls] /\ call'[c] = NoCall
      /\ \A q \in Clients \ {c} : call'[q] = call[q]
      /\ IsFiniteSet(Busy')
  BY <1>2, NoCallIsCall, StillFinite
<1>5. NoCall.step = "idle" /\ NoCall.at = 0
  BY DEF NoCall
<1>6. /\ acked' \in [Buckets -> Nat] /\ tokensAcked' \in [Days -> Nat]
      /\ \A b \in Buckets : sent[b] <= sent'[b] /\ acked[b] <= acked'[b]
      /\ \A d \in Days : /\ tokensSent[d] <= tokensSent'[d]
                          /\ tokensAcked[d] <= tokensAcked'[d]
  BY <1>2, <1>3 DEF QuotaInv, QuotaTypeOK
<1>7. QuotaTypeOK'
  BY <1>2, <1>4, <1>6 DEF QuotaInv, QuotaTypeOK
<1>8. ASSUME NEW b \in Buckets PROVE MinuteFits(b)'
  <2>1. /\ rpm[b] \in Key /\ sent[b] \in Nat /\ acked[b] \in Nat
        /\ MinuteHeld(b) \in Nat /\ IsFiniteSet(Executed(b))
    BY PeriodsAreNumbers, SetsAreFinite DEF QuotaInv, QuotaTypeOK
  <2>2. CounterFits(now, rpm[b], sent[b], acked[b], UnderWay(b), Executed(b),
                    MinuteHeld(b))
    BY DEF QuotaInv, MinuteFits
  <2>3. UnderWay(b)' = UnderWay(b)
    BY <1>2, <1>4, <1>5 DEF UnderWay
  <2>4. CASE b = b0
    <3>1. /\ Executed(b)' = Executed(b) \ {c} /\ c \in Executed(b)
      BY <1>1, <1>2, <1>4, <1>5, <2>4 DEF Executed
    <3>2. acked'[b] = acked[b] + 1
      BY <1>2, <2>4 DEF QuotaInv, QuotaTypeOK
    <3>3. CounterFits(now, rpm[b], sent[b], acked[b] + 1, UnderWay(b),
                      Executed(b) \ {c}, MinuteHeld(b))
      BY <1>3, <2>1, <2>2, <3>1, CounterConfirms
    <3> QED BY <1>2, <2>3, <3>1, <3>2, <3>3 DEF MinuteFits
  <2>5. CASE b # b0
    <3>1. Executed(b)' = Executed(b)
      BY <1>1, <1>2, <1>4, <1>5, <2>5 DEF Executed
    <3>2. acked'[b] = acked[b]
      BY <1>2, <2>5 DEF QuotaInv, QuotaTypeOK
    <3> QED BY <1>2, <2>2, <2>3, <3>1, <3>2 DEF MinuteFits
  <2> QED BY <2>4, <2>5
<1>9. ASSUME NEW d \in Days PROVE DayFits(d)'
  <2>1. /\ tokens[d] \in Key /\ tokensSent[d] \in Nat /\ tokensAcked[d] \in Nat
        /\ DayHeld(d) \in Nat /\ IsFiniteSet(TokensExecuted(d))
    BY PeriodsAreNumbers, SetsAreFinite DEF QuotaInv, QuotaTypeOK
  <2>2. CounterFits(now, tokens[d], tokensSent[d], tokensAcked[d],
                    TokensUnderWay(d), TokensExecuted(d), DayHeld(d))
    BY DEF QuotaInv, DayFits
  <2>3. TokensUnderWay(d)' = TokensUnderWay(d)
    BY <1>2, <1>4, <1>5 DEF TokensUnderWay
  <2>4. CASE d = d0 /\ delta = 1
    <3>1. /\ TokensExecuted(d)' = TokensExecuted(d) \ {c}
          /\ c \in TokensExecuted(d)
      BY <1>1, <1>2, <1>4, <1>5, <2>4 DEF TokensExecuted
    <3>2. tokensAcked'[d] = tokensAcked[d] + 1
      BY <1>2, <2>4 DEF QuotaInv, QuotaTypeOK
    <3>3. CounterFits(now, tokens[d], tokensSent[d], tokensAcked[d] + 1,
                      TokensUnderWay(d), TokensExecuted(d) \ {c}, DayHeld(d))
      BY <1>3, <2>1, <2>2, <3>1, CounterConfirms
    <3> QED BY <1>2, <2>3, <3>1, <3>2, <3>3 DEF DayFits
  <2>5. CASE ~(d = d0 /\ delta = 1)
    <3>1. TokensExecuted(d)' = TokensExecuted(d)
      BY <1>1, <1>2, <1>4, <1>5, <2>5 DEF TokensExecuted
    <3>2. tokensAcked'[d] = tokensAcked[d]
      BY <1>2, <1>3, <2>1, <2>5 DEF QuotaInv, QuotaTypeOK
    <3> QED BY <1>2, <2>2, <2>3, <3>1, <3>2 DEF DayFits
  <2> QED BY <2>4, <2>5
<1>10. HashFits'
  BY <1>2 DEF QuotaInv, HashFits
<1>11. ASSUME NEW q \in Clients PROVE ReadingFits(q)'
  <2>1. CASE q = c
    <3>1. 0 <= now
      BY <1>3
    <3> QED BY <1>2, <1>4, <1>5, <2>1, <3>1 DEF ReadingFits
  <2>2. CASE q # c
    <3>1. /\ call'[q] = call[q] /\ now' \in 0..Horizon /\ now <= now'
          /\ sent' \in [Buckets -> Nat] /\ tokensSent' \in [Days -> Nat]
      BY <1>2, <1>3, <1>4, <2>2 DEF QuotaInv, QuotaTypeOK
    <3> QED BY <1>6, <3>1, ReadingRests
  <2> QED BY <2>1, <2>2
<1> QED BY <1>4, <1>7, <1>8, <1>9, <1>10, <1>11 DEF QuotaInv

(* The script runs: the increment leaves those under way, and is one of    *)
(* the executed ones if its client still waits.                            *)
LEMMA CountKeeps == ASSUME QuotaInv, NEW c \in Clients, Count(c) PROVE QuotaInv'
<1>1. PICK b0, d0, delta : /\ b0 = BucketOf(call[c].at) /\ d0 = DayOf(call[c].at)
                           /\ delta = call[c].delta
  OBVIOUS
<1>2. PICK r, t : /\ r = Counted(rpm[b0], 1, RpmTtl)
                 /\ t = Counted(tokens[d0], delta, TokensTtl)
  OBVIOUS
<1>3. PICK mine : mine = IF call[c].step = "sent"
                        THEN [call[c] EXCEPT !.step = "counted"] ELSE NoCall
  OBVIOUS
<1>4. /\ call[c].step \in {"sent", "lost"}
      /\ now' = now /\ sent' = sent /\ tokensSent' = tokensSent
      /\ acked' = acked /\ tokensAcked' = tokensAcked
      /\ rpm' = [rpm EXCEPT ![b0] = r] /\ tokens' = [tokens EXCEPT ![d0] = t]
      /\ hash' = [window |-> b0 * Minute, n |-> r.n, tokens |-> t.n, day |-> d0,
                  expires |-> now + TokensTtl]
  BY <1>1, <1>2 DEF Count, ghost
<1>5. call' = [call EXCEPT ![c] = mine]
  <2>1. CASE call[c].step = "sent"
    BY <1>3, <2>1 DEF Count, Now
  <2>2. CASE call[c].step # "sent"
    BY <1>3, <2>2 DEF Count
  <2> QED BY <2>1, <2>2
<1>6. /\ call[c] \in Calls /\ call[c].at \in 0..Horizon /\ call[c].at <= now
      /\ now \in 0..Horizon /\ now \in Nat /\ b0 \in Buckets /\ d0 \in Days
      /\ b0 <= BucketOf(now) /\ delta \in {0, 1} /\ delta \in Delta
  BY <1>1, CallFacts DEF Calls, Delta
<1>7. /\ mine \in Calls
      /\ \/ mine.step = "idle" /\ mine.at = 0
         \/ /\ mine.step = "counted" /\ mine.at = call[c].at
            /\ mine.delta = call[c].delta
  BY <1>3, <1>6, NoCallIsCall DEF Calls, Steps, NoCall
<1>8. /\ call' \in [Clients -> Calls] /\ call'[c] = mine
      /\ \A q \in Clients \ {c} : call'[q] = call[q]
      /\ IsFiniteSet(Busy')
  BY <1>5, <1>7, StillFinite
<1>9. /\ MinuteHeld(b0) \in Nat /\ DayHeld(d0) \in Nat
      /\ MinuteHeld(b0) <= now + RpmTtl /\ DayHeld(d0) <= now + TokensTtl
      /\ RpmTtl \in Nat /\ TokensTtl \in Nat
  BY <1>1, <1>6, HeldWhileReading, QuotaAssumption DEF RpmTtl, TokensTtl, Minute
<1>10. /\ rpm[b0] \in Key /\ tokens[d0] \in Key
       /\ sent[b0] \in Nat /\ tokensSent[d0] \in Nat
       /\ acked[b0] \in Nat /\ tokensAcked[d0] \in Nat
  BY <1>6 DEF QuotaInv, QuotaTypeOK
<1>11. /\ CounterFits(now, rpm[b0], sent[b0], acked[b0], UnderWay(b0),
                      Executed(b0), MinuteHeld(b0))
       /\ CounterFits(now, tokens[d0], tokensSent[d0], tokensAcked[d0],
                      TokensUnderWay(d0), TokensExecuted(d0), DayHeld(d0))
  BY <1>6 DEF QuotaInv, MinuteFits, DayFits
<1>12. /\ IsFiniteSet(UnderWay(b0)) /\ IsFiniteSet(Executed(b0))
       /\ IsFiniteSet(TokensUnderWay(d0)) /\ IsFiniteSet(TokensExecuted(d0))
  BY SetsAreFinite
<1>13. r \in Key /\ t \in Key
  <2>1. 1 \in Delta
    BY DEF Delta
  <2>2. /\ rpm[b0].n > 0 => rpm[b0].expires >= MinuteHeld(b0)
        /\ tokens[d0].n > 0 => tokens[d0].expires >= DayHeld(d0)
    BY <1>11 DEF CounterFits
  <2> QED BY <1>2, <1>6, <1>9, <1>10, <2>1, <2>2, CountedKey
<1>14. c \in UnderWay(b0) /\ UnderWay(b0)' = UnderWay(b0) \ {c}
  BY <1>1, <1>4, <1>7, <1>8 DEF UnderWay
<1>15. \E seen \in SUBSET {c} : Executed(b0)' = Executed(b0) \cup seen
  <2>1. CASE mine.step = "idle"
    <3>1. Executed(b0)' = Executed(b0) \cup {}
      BY <1>4, <1>7, <1>8, <2>1 DEF Executed
    <3> QED BY <3>1
  <2>2. CASE mine.step = "counted"
    <3>1. Executed(b0)' = Executed(b0) \cup {c}
      BY <1>1, <1>7, <1>8, <2>2 DEF Executed
    <3> QED BY <3>1
  <2> QED BY <1>7, <2>1, <2>2
<1>16. CounterFits(now, r, sent[b0], acked[b0], UnderWay(b0)', Executed(b0)',
                   MinuteHeld(b0))
  <2>1. c \in UnderWay(b0)
    BY <1>14
  <2>2. CounterFits(now, Counted(rpm[b0], 1, RpmTtl), sent[b0], acked[b0],
                    UnderWay(b0) \ {c}, Executed(b0)', MinuteHeld(b0))
    <3>1. PICK seen \in SUBSET {c} : Executed(b0)' = Executed(b0) \cup seen
      BY <1>15
    <3>2. CounterFits(now, Counted(rpm[b0], 1, RpmTtl), sent[b0], acked[b0],
                      UnderWay(b0) \ {c}, Executed(b0) \cup seen, MinuteHeld(b0))
      BY <1>6, <1>9, <1>10, <1>11, <1>12, <2>1, CounterCounts
    <3> QED BY <3>1, <3>2
  <2> QED BY <1>2, <1>14, <2>2
<1>17. CounterFits(now, t, tokensSent[d0], tokensAcked[d0], TokensUnderWay(d0)',
                   TokensExecuted(d0)', DayHeld(d0))
  <2>1. CASE delta = 1
    <3>1. /\ c \in TokensUnderWay(d0)
          /\ TokensUnderWay(d0)' = TokensUnderWay(d0) \ {c}
      BY <1>1, <1>4, <1>7, <1>8, <2>1 DEF TokensUnderWay
    <3>2. \E seen \in SUBSET {c} :
            TokensExecuted(d0)' = TokensExecuted(d0) \cup seen
      <4>1. CASE mine.step = "idle"
        <5>1. TokensExecuted(d0)' = TokensExecuted(d0) \cup {}
          BY <1>4, <1>7, <1>8, <4>1 DEF TokensExecuted
        <5> QED BY <5>1
      <4>2. CASE mine.step = "counted"
        <5>1. TokensExecuted(d0)' = TokensExecuted(d0) \cup {c}
          BY <1>1, <1>7, <1>8, <2>1, <4>2 DEF TokensExecuted
        <5> QED BY <5>1
      <4> QED BY <1>7, <4>1, <4>2
    <3>3. t = Counted(tokens[d0], 1, TokensTtl)
      BY <1>2, <2>1
    <3>4. CounterFits(now, Counted(tokens[d0], 1, TokensTtl), tokensSent[d0],
                      tokensAcked[d0], TokensUnderWay(d0) \ {c},
                      TokensExecuted(d0)', DayHeld(d0))
      <4>1. c \in TokensUnderWay(d0)
        BY <3>1
      <4>2. PICK seen \in SUBSET {c} :
              TokensExecuted(d0)' = TokensExecuted(d0) \cup seen
        BY <3>2
      <4>3. CounterFits(now, Counted(tokens[d0], 1, TokensTtl), tokensSent[d0],
                        tokensAcked[d0], TokensUnderWay(d0) \ {c},
                        TokensExecuted(d0) \cup seen, DayHeld(d0))
        BY <1>6, <1>9, <1>10, <1>11, <1>12, <4>1, CounterCounts
      <4> QED BY <4>2, <4>3
    <3> QED BY <3>1, <3>3, <3>4
  <2>2. CASE delta = 0
    <3>1. /\ TokensUnderWay(d0)' = TokensUnderWay(d0)
          /\ TokensExecuted(d0)' = TokensExecuted(d0)
      <4>1. call[c].delta = 0 /\ (mine.step = "counted" => mine.delta = 0)
        BY <1>1, <1>7, <2>2
      <4>2. TokensUnderWay(d0)' = TokensUnderWay(d0)
        BY <1>7, <1>8, <4>1 DEF TokensUnderWay
      <4>3. TokensExecuted(d0)' = TokensExecuted(d0)
        BY <1>4, <1>7, <1>8, <4>1 DEF TokensExecuted
      <4> QED BY <4>2, <4>3
    <3>2. t = Counted(tokens[d0], 0, TokensTtl)
      BY <1>2, <2>2
    <3> QED BY <1>6, <1>9, <1>10, <1>11, <1>12, <3>1, <3>2, CounterTouched
  <2> QED BY <1>6, <2>1, <2>2
<1>18. r.n \in Nat /\ t.n \in Nat /\ r.n <= sent[b0] /\ t.n <= tokensSent[d0]
  <2>1. /\ IsFiniteSet(UnderWay(b0)') /\ IsFiniteSet(TokensUnderWay(d0)')
    <3>1. /\ UnderWay(b0)' \subseteq UnderWay(b0)
          /\ TokensUnderWay(d0)' \subseteq TokensUnderWay(d0)
      BY <1>1, <1>4, <1>7, <1>8 DEF UnderWay, TokensUnderWay
    <3> QED BY <1>12, <3>1, FS_Subset
  <2>2. /\ Cardinality(UnderWay(b0)') \in Nat
        /\ Cardinality(TokensUnderWay(d0)') \in Nat
    BY <2>1, FS_CardinalityType
  <2> QED BY <1>10, <1>13, <1>16, <1>17, <2>2 DEF CounterFits, Key
<1>19. QuotaTypeOK'
  <2>1. /\ b0 * Minute \in Nat /\ now + TokensTtl \in Nat
    BY <1>6, <1>9, PeriodsAreNumbers DEF Minute
  <2>2. hash' \in [window: Nat, n: Nat, tokens: Nat, day: Days, expires: Nat]
    BY <1>4, <1>6, <1>18, <2>1
  <2>3. rpm' \in [Buckets -> Key] /\ tokens' \in [Days -> Key]
    BY <1>4, <1>13 DEF QuotaInv, QuotaTypeOK
  <2> QED BY <1>4, <1>8, <2>2, <2>3 DEF QuotaInv, QuotaTypeOK
<1>20. ASSUME NEW b \in Buckets PROVE MinuteFits(b)'
  <2>1. CASE b = b0
    <3>1. rpm'[b] = r
      BY <1>4, <2>1 DEF QuotaInv, QuotaTypeOK
    <3> QED BY <1>4, <1>16, <2>1, <3>1 DEF MinuteFits
  <2>2. CASE b # b0
    <3>1. UnderWay(b)' = UnderWay(b) /\ Executed(b)' = Executed(b)
      BY <1>1, <1>4, <1>7, <1>8, <2>2 DEF UnderWay, Executed
    <3>2. rpm'[b] = rpm[b]
      BY <1>4, <2>2 DEF QuotaInv, QuotaTypeOK
    <3>3. MinuteFits(b)
      BY DEF QuotaInv
    <3> QED BY <1>4, <3>1, <3>2, <3>3 DEF MinuteFits
  <2> QED BY <2>1, <2>2
<1>21. ASSUME NEW d \in Days PROVE DayFits(d)'
  <2>1. CASE d = d0
    <3>1. tokens'[d] = t
      BY <1>4, <2>1 DEF QuotaInv, QuotaTypeOK
    <3> QED BY <1>4, <1>17, <2>1, <3>1 DEF DayFits
  <2>2. CASE d # d0
    <3>1. /\ TokensUnderWay(d)' = TokensUnderWay(d)
          /\ TokensExecuted(d)' = TokensExecuted(d)
      BY <1>1, <1>4, <1>7, <1>8, <2>2 DEF TokensUnderWay, TokensExecuted
    <3>2. tokens'[d] = tokens[d]
      BY <1>4, <2>2 DEF QuotaInv, QuotaTypeOK
    <3>3. DayFits(d)
      BY DEF QuotaInv
    <3> QED BY <1>4, <3>1, <3>2, <3>3 DEF DayFits
  <2> QED BY <2>1, <2>2
<1>22. HashFits'
  <2>1. /\ hash'.window = b0 * Minute /\ hash'.n = r.n /\ hash'.tokens = t.n
        /\ hash'.day = d0
    BY <1>4
  <2> QED BY <1>4, <1>6, <1>18, <2>1 DEF HashFits
<1>23. ASSUME NEW q \in Clients PROVE ReadingFits(q)'
  <2>1. CASE q = c
    <3>1. 0 <= now
      BY <1>6
    <3> QED BY <1>4, <1>6, <1>7, <1>8, <2>1, <3>1 DEF ReadingFits
  <2>2. CASE q # c
    <3>1. /\ call'[q] = call[q] /\ now' \in 0..Horizon /\ now <= now'
          /\ sent' \in [Buckets -> Nat] /\ tokensSent' \in [Days -> Nat]
          /\ acked' \in [Buckets -> Nat] /\ tokensAcked' \in [Days -> Nat]
          /\ \A b \in Buckets : sent[b] <= sent'[b] /\ acked[b] <= acked'[b]
          /\ \A d \in Days : /\ tokensSent[d] <= tokensSent'[d]
                            /\ tokensAcked[d] <= tokensAcked'[d]
      BY <1>4, <1>6, <1>8, <2>2 DEF QuotaInv, QuotaTypeOK
    <3> QED BY <3>1, ReadingRests
  <2> QED BY <2>1, <2>2
<1> QED BY <1>8, <1>19, <1>20, <1>21, <1>22, <1>23 DEF QuotaInv

-----------------------------------------------------------------------------
LEMMA QuotaStep == QuotaInv /\ [QuotaNext]_quotaVars => QuotaInv'
<1>1. ASSUME QuotaInv, NEW c \in Clients,
             \/ Send(c) \/ Count(c) \/ Confirm(c) \/ BeginReading(c)
             \/ ReadRpm(c) \/ ReadTokens(c) \/ ReadHash(c) \/ Answer(c)
             \/ GiveUp(c)
      PROVE  QuotaInv'
  BY <1>1, SendKeeps, CountKeeps, ConfirmKeeps, BeginReadingKeeps, ReadRpmKeeps,
     ReadTokensKeeps, ReadHashKeeps, AnswerKeeps, GiveUpKeeps
<1>2. ASSUME QuotaInv, UNCHANGED quotaVars PROVE QuotaInv'
  <2>1. UNCHANGED <<now, rpm, tokens, hash, sent, acked, tokensSent, tokensAcked,
                    call>>
    BY <1>2 DEF quotaVars
  <2>2. QuotaTypeOK' /\ IsFiniteSet(Busy')
    BY <1>2, <2>1 DEF QuotaInv, QuotaTypeOK, Busy
  <2>3. /\ \A b \in Buckets : MinuteFits(b)'
        /\ \A d \in Days : DayFits(d)'
    BY <1>2, <2>1 DEF QuotaInv, MinuteFits, DayFits, UnderWay, Executed,
                      TokensUnderWay, TokensExecuted
  <2>4. HashFits' /\ \A c \in Clients : ReadingFits(c)'
    BY <1>2, <2>1 DEF QuotaInv, HashFits, ReadingFits, Current
  <2> QED BY <2>2, <2>3, <2>4 DEF QuotaInv
<1> QED BY <1>1, <1>2, TickKeeps DEF QuotaNext, Clients

(* Every counter and every call keeps its type. *)
THEOREM QuotaTypeCorrect == QuotaSpec => []QuotaTypeOK
<1>1. QuotaInv => QuotaTypeOK
  BY DEF QuotaInv
<1> QED BY InitQuota, QuotaStep, <1>1, PTL DEF QuotaSpec

(* A reading that succeeds misses no increment that was confirmed before   *)
(* it began and counts none that was not sent (read_quota_state beside     *)
(* incr_quota_counters), however many clients send, give up and read, and  *)
(* wherever minutes, days and expiries fall in between.                    *)
THEOREM ReadingIsCurrentHolds == QuotaSpec => []ReadingIsCurrent
<1>1. QuotaInv => ReadingIsCurrent
  BY DEF QuotaInv, ReadingFits, Current, ReadingIsCurrent
<1> QED BY InitQuota, QuotaStep, <1>1, PTL DEF QuotaSpec
=============================================================================
