----------------------------- MODULE QuotaState -----------------------------
(***************************************************************************)
(* Shared quota counters of a team in Redis: requests of the minute and    *)
(* tokens of the day, each a key of its own that expires, and the older    *)
(* hash that earlier readers use.  Clients increment all of them with one  *)
(* script; a governed request reads the counters, one command after        *)
(* another, and the hash when neither counter is there.  A client gives up *)
(* after its timeout; what it sent may be executed all the same.           *)
(*                                                                         *)
(* Time is counted in ticks of a minute.                                   *)
(***************************************************************************)
EXTENDS Integers, Functions

CONSTANTS
    Gateways,    \* calls that count usage, and
    Evaluators,  \* calls that read the counters for a governed request
    Day,         \* ticks of a day (scaled down)
    Horizon,     \* the last tick, and
    MaxSent      \* increments in all: bounds of model checking

ASSUME QuotaAssumption == Day \in Nat /\ Day >= 2 /\ Horizon \in Nat

ShortTtl == 1

Clients == Gateways \cup Evaluators

Minute == 1                  \* ticks of a minute
Delta == 0..1                \* tokens of one increment
RpmTtl == 2 * Minute         \* EXPIRE 120
TokensTtl == 2 * Day         \* EXPIRE 172800
Patience == 1                \* socket timeouts: a reading may end in the next minute

Buckets == 0..(Horizon \div Minute)
Days == 0..(Horizon \div Day)
BucketOf(t) == t \div Minute
DayOf(t) == t \div Day

VARIABLES
    now,
    rpm,         \* rpm[b]: the counter of minute b, and when it expires
    tokens,      \* tokens[d]: the counter of day d
    hash,        \* the older format: one window, one day
    sent, acked, \* history: increments of a minute sent, and confirmed
    tokensSent, tokensAcked,   \* and tokens of a day
    call         \* call[c]: what client c is doing

quotaVars == <<now, rpm, tokens, hash, sent, acked, tokensSent, tokensAcked, call>>

-----------------------------------------------------------------------------
NoKey == [n |-> 0, expires |-> 0]
NoHash == [window |-> 0, n |-> 0, tokens |-> 0, day |-> 0, expires |-> 0]

(* "at" is the client's clock when it built the keys; "floor" is history:  *)
(* what had been confirmed when a reading began.                           *)
NoCall == [step |-> "idle", at |-> 0, delta |-> 0, rpm |-> 0, tokens |-> 0,
           miss |-> FALSE, floor |-> <<0, 0>>]

QuotaInit == /\ now = 0
             /\ rpm = [b \in Buckets |-> NoKey]
             /\ tokens = [d \in Days |-> NoKey]
             /\ hash = NoHash
             /\ sent = [b \in Buckets |-> 0] /\ acked = sent
             /\ tokensSent = [d \in Days |-> 0] /\ tokensAcked = tokensSent
             /\ call = [c \in Clients |-> NoCall]

redis == <<rpm, tokens, hash>>
ghost == <<sent, acked, tokensSent, tokensAcked>>

Alive(key) == now < key.expires
InTime(c) == now <= call[c].at + Patience
Now(c, where) == call' = [call EXCEPT ![c].step = where]

-----------------------------------------------------------------------------
(* incr_quota_counters *)

(* The bound of model checking. *)
TotalSent == FoldFunction(+, 0, sent)
Room == TotalSent < MaxSent

Send(c) ==
    /\ call[c].step = "idle"
    /\ \E d \in Delta :
         /\ call' = [call EXCEPT ![c] = [NoCall EXCEPT !.step = "sent",
                                                       !.at = now, !.delta = d]]
         /\ tokensSent' = [tokensSent EXCEPT ![DayOf(now)] = @ + d]
    /\ Room
    /\ sent' = [sent EXCEPT ![BucketOf(now)] = @ + 1]
    /\ UNCHANGED <<now, redis, acked, tokensAcked>>

(* INCRBY on an absent key starts from zero; the script sets the time to   *)
(* live when the result shows that the key is new.                         *)
Counted(key, delta, ttl) ==
    LET n == (IF Alive(key) THEN key.n ELSE 0) + delta
    IN [n |-> n, expires |-> IF n = delta THEN now + ttl ELSE key.expires]

(* The script runs, for a client that waits or one that has given up.      *)
Count(c) ==
    LET b == BucketOf(call[c].at)
        d == DayOf(call[c].at)
        r == Counted(rpm[b], 1, RpmTtl)
        t == Counted(tokens[d], call[c].delta, TokensTtl)
    IN /\ call[c].step \in {"sent", "lost"}
       /\ rpm' = [rpm EXCEPT ![b] = r]
       /\ tokens' = [tokens EXCEPT ![d] = t]
       /\ hash' = [window |-> b * Minute, n |-> r.n, tokens |-> t.n, day |-> d,
                   expires |-> now + TokensTtl]
       /\ IF call[c].step = "sent" THEN Now(c, "counted")
          ELSE call' = [call EXCEPT ![c] = NoCall]
       /\ UNCHANGED <<now, ghost>>

Confirm(c) ==
    LET b == BucketOf(call[c].at)
        d == DayOf(call[c].at)
    IN /\ call[c].step = "counted"
       /\ acked' = [acked EXCEPT ![b] = @ + 1]
       /\ tokensAcked' = [tokensAcked EXCEPT ![d] = @ + call[c].delta]
       /\ call' = [call EXCEPT ![c] = NoCall]
       /\ UNCHANGED <<now, redis, sent, tokensSent>>

-----------------------------------------------------------------------------
(* read_quota_state: GET, GET, and the script over the hash if both miss   *)

BeginReading(c) ==
    /\ call[c].step = "idle"
    /\ call' = [call EXCEPT ![c] =
                  [NoCall EXCEPT !.step = "rpm", !.at = now,
                     !.floor = <<acked[BucketOf(now)], tokensAcked[DayOf(now)]>>]]
    /\ UNCHANGED <<now, redis, ghost>>

Value(key) == IF Alive(key) THEN key.n ELSE 0

ReadRpm(c) ==
    LET key == rpm[BucketOf(call[c].at)]
    IN /\ call[c].step = "rpm" /\ InTime(c)
       /\ call' = [call EXCEPT ![c] = [@ EXCEPT !.step = "tokens",
                                  !.rpm = Value(key), !.miss = ~Alive(key)]]
       /\ UNCHANGED <<now, redis, ghost>>

ReadTokens(c) ==
    LET key == tokens[DayOf(call[c].at)]
    IN /\ call[c].step = "tokens" /\ InTime(c)
       /\ call' = [call EXCEPT ![c] = [@ EXCEPT !.tokens = Value(key),
               !.step = IF call[c].miss /\ ~Alive(key) THEN "hash" ELSE "answered"]]
       /\ UNCHANGED <<now, redis, ghost>>

AnyWindow(t) == hash.n

(* The window slides by the reader's clock. *)
InWindow(t) == IF t - hash.window >= Minute THEN 0 ELSE hash.n

ReadHash(c) ==
    LET t == call[c].at
    IN /\ call[c].step = "hash" /\ InTime(c)
       /\ call' = [call EXCEPT ![c] = [@ EXCEPT !.step = "answered",
               !.rpm = IF Alive(hash) THEN InWindow(t) ELSE 0,
               !.tokens = IF Alive(hash) /\ hash.day = DayOf(t)
                          THEN hash.tokens ELSE 0]]
       /\ UNCHANGED <<now, redis, ghost>>

Answer(c) == /\ call[c].step = "answered"
             /\ call' = [call EXCEPT ![c] = NoCall]
             /\ UNCHANGED <<now, redis, ghost>>

(* Redis does not answer in time, or its answer is lost: the snapshot says *)
(* unavailable.  A script under way may still run.                         *)
GiveUp(c) == /\ call[c].step \in {"sent", "counted", "rpm", "tokens", "hash"}
             /\ call' = [call EXCEPT ![c] =
                           IF @.step = "sent" THEN [@ EXCEPT !.step = "lost"]
                           ELSE NoCall]
             /\ UNCHANGED <<now, redis, ghost>>

Tick == /\ now < Horizon
        /\ now' = now + 1
        /\ UNCHANGED <<redis, ghost, call>>

QuotaNext == \/ \E c \in Gateways : Send(c) \/ Count(c) \/ Confirm(c)
             \/ \E c \in Evaluators : \/ BeginReading(c) \/ ReadRpm(c)
                                      \/ ReadTokens(c) \/ ReadHash(c) \/ Answer(c)
             \/ \E c \in Clients : GiveUp(c)
             \/ Tick

QuotaSpec == QuotaInit /\ [][QuotaNext]_quotaVars

-----------------------------------------------------------------------------
(* A reading that succeeds misses no increment that was confirmed before   *)
(* it began, and counts nothing that was not sent by then in a minute (a   *)
(* day) that it overlapped: neither expiry nor the older hash nor a script *)
(* that ran after its client gave up shows through.                        *)
ReadingIsCurrent ==
    \A c \in Clients :
       call[c].step = "answered" =>
          LET b == BucketOf(call[c].at)
              d == DayOf(call[c].at)
          IN /\ call[c].floor[1] <= call[c].rpm
             /\ \E k \in b..BucketOf(now) : call[c].rpm <= sent[k]
             /\ call[c].floor[2] <= call[c].tokens
             /\ call[c].tokens <= tokensSent[d]
=============================================================================
