------------------------------- MODULE Gateway -------------------------------
(***************************************************************************)
(* The policy of the LLM gateway (homie-gateway): requests of virtual keys *)
(* pass a rate limit kept in memory and a daily quota summed up in the     *)
(* database, go upstream, and have their tokens recorded when the answer   *)
(* is there.  Requests run concurrently; each holds a lock only for one    *)
(* look or one statement, and is dropped at its await if its client hangs  *)
(* up.                                                                     *)
(*                                                                         *)
(* The clock counts minutes.  A database that fails refuses a request and  *)
(* loses a record.  Both limits are configured (zero switches one off).    *)
(* Models, prompts and the audit table are left out.                       *)
(***************************************************************************)
EXTENDS Integers, FiniteSets

CONSTANTS
  Keys,          \* virtual keys
  Reqs,          \* requests that can be under way at once
  RateLimit,     \* requests_per_minute
  DailyLimit,    \* daily_token_limit
  MaxTokens,     \* bound: tokens of an answer
  MinutesPerDay,
  MaxClock,      \* bound: minutes
  MaxRestart     \* bound: restarts of the gateway

\* What the constants must be.
GatewayConstants ==
  /\ {RateLimit, DailyLimit, MinutesPerDay} \subseteq Nat \ {0}
  /\ {MaxTokens, MaxClock, MaxRestart} \subseteq Nat /\ IsFiniteSet(Reqs)

VARIABLES
  keys,          \* GatewayApiKeyStore
  clock,
  windows,       \* RateLimiter: the minute of a key's window and its count
  usage,         \* gateway_usage: the tokens recorded for a key from the start of a day on
  req,           \* the requests
  let_in,        \* requests the limiter let in, by key and minute
  turned,        \* keys whose window was set back to an earlier minute
  restarts

gatewayVars == <<keys, clock, windows, usage, req, let_in, turned, restarts>>

Minutes == 0..MaxClock
Day(minute) == minute \div MinutesPerDay
Days == 0..Day(MaxClock)
NoWindow == [start |-> -1, count |-> 0]
Master == "master"
Free == [at |-> "free", key |-> Master, now |-> 0, tokens |-> 0]

TypeOK ==
  /\ keys \subseteq Keys /\ clock \in Minutes
  /\ windows \in [Keys -> [start : Minutes \cup {-1}, count : Nat]]
  /\ usage \in [Keys -> [Days -> Nat]]
  /\ req \in [Reqs -> [at : {"free", "policy", "rate", "quota", "upstream", "record"},
                       key : Keys \cup {Master}, now : Minutes, tokens : 0..MaxTokens]]
  /\ turned \subseteq Keys /\ restarts \in 0..MaxRestart

Init ==
  /\ keys = {} /\ clock = 0 /\ windows = [k \in Keys |-> NoWindow]
  /\ usage = [k \in Keys |-> [d \in Days |-> 0]] /\ req = [r \in Reqs |-> Free]
  /\ let_in = [k \in Keys |-> [m \in Minutes |-> 0]] /\ turned = {} /\ restarts = 0

-----------------------------------------------------------------------------
Step(r, from, to) == req[r].at = from /\ req' = [req EXCEPT ![r].at = to]
Drop(r) == req' = [req EXCEPT ![r] = Free]
Ghosts == UNCHANGED <<let_in, turned, restarts>>

\* The daemon mints a key for a session, and deletes it after it.
Create(k) == k \notin keys /\ keys' = keys \cup {k} /\ UNCHANGED <<clock, windows, usage, req>> /\ Ghosts
Delete(k) == k \in keys /\ keys' = keys \ {k} /\ UNCHANGED <<clock, windows, usage, req>> /\ Ghosts

\* authenticate: the policy is for virtual keys.
Authenticate(r) ==
  /\ req[r].at = "free"
  /\ \/ req' = [req EXCEPT ![r] = [Free EXCEPT !.at = "upstream"]]
     \/ \E k \in keys : req' = [req EXCEPT ![r] = [Free EXCEPT !.at = "policy", !.key = k]]
  /\ UNCHANGED <<keys, clock, windows, usage>> /\ Ghosts

\* check_policy reads the clock once, before it takes any lock.
ReadClock(r) ==
  /\ req[r].at = "policy" /\ req' = [req EXCEPT ![r].at = "rate", ![r].now = clock]
  /\ UNCHANGED <<keys, clock, windows, usage>> /\ Ghosts

\* Mutant: one more fits.
AllowedOneMore(w, now) == w.start # now \/ w.count <= RateLimit

\* RateLimiter::allow
Allowed(w, now) == w.start # now \/ w.count < RateLimit
Counted(w, now) == [start |-> now, count |-> IF w.start = now THEN w.count + 1 ELSE 1]

Rate(r) ==
  /\ req[r].at = "rate"
  /\ LET k == req[r].key  now == req[r].now  w == windows[k]
     IN \/ /\ Allowed(w, now) /\ Step(r, "rate", "quota")
           /\ windows' = [windows EXCEPT ![k] = Counted(w, now)]
           /\ let_in' = [let_in EXCEPT ![k][now] = @ + 1]
           /\ turned' = IF now < w.start THEN turned \cup {k} ELSE turned
        \/ ~Allowed(w, now) /\ Drop(r) /\ UNCHANGED <<windows, let_in, turned>>
  /\ UNCHANGED <<keys, clock, usage, restarts>>

\* sum_tokens_since: whatever is recorded from the start of that day on.
SumSince(k, day) == usage[k][day]

\* QuotaChecker::allow
WithinQuota(k, now) == SumSince(k, Day(now)) < DailyLimit

Quota(r) ==
  /\ req[r].at = "quota"
  /\ \/ WithinQuota(req[r].key, req[r].now) /\ Step(r, "quota", "upstream")
     \/ Drop(r)        \* over the quota, or the database failed
  /\ UNCHANGED <<keys, clock, windows, usage>> /\ Ghosts

\* forward: an answer, none of a stream's tokens counted, or an error.
Answer(r) ==
  /\ req[r].at = "upstream"
  /\ \/ \E t \in 0..MaxTokens : req' = [req EXCEPT ![r].at = "record", ![r].tokens = t]
     \/ Drop(r)        \* bad gateway, or the client hung up
  /\ UNCHANGED <<keys, clock, windows, usage>> /\ Ghosts

\* UsageStore::record, with a clock of its own.
Record(r) ==
  /\ req[r].at = "record" /\ Drop(r)
  /\ \/ /\ req[r].key # Master
        /\ usage' = [usage EXCEPT ![req[r].key] =
             [d \in Days |-> usage[req[r].key][d] + IF d <= Day(clock) THEN req[r].tokens ELSE 0]]
     \/ UNCHANGED usage
  /\ UNCHANGED <<keys, clock, windows>> /\ Ghosts

Tick == clock < MaxClock /\ clock' = clock + 1 /\ UNCHANGED <<keys, windows, usage, req>> /\ Ghosts

\* The windows are in memory, the usage in the database.
Restart ==
  /\ restarts < MaxRestart /\ restarts' = restarts + 1
  /\ windows' = [k \in Keys |-> NoWindow] /\ req' = [r \in Reqs |-> Free]
  /\ UNCHANGED <<keys, clock, usage, let_in, turned>>

Next ==
  \/ \E k \in Keys : Create(k) \/ Delete(k)
  \/ \E r \in Reqs : \/ Authenticate(r) \/ ReadClock(r) \/ Rate(r) \/ Quota(r)
                     \/ Answer(r) \/ Record(r)
  \/ Tick \/ Restart

Spec == Init /\ [][Next]_gatewayVars

-----------------------------------------------------------------------------
\* "Minute-grained, in-memory per-key request counter": in a minute no key gets
\* more requests in than its limit, unless the gateway was restarted, or a
\* request came to the lock with the clock of an earlier minute and set the
\* window back.
RateKept ==
  restarts = 0 =>
    \A k \in Keys \ turned : \A m \in Minutes : let_in[k][m] <= RateLimit

\* The tokens of one day.
UsedOn(k, d) == usage[k][d] - (IF d + 1 \in Days THEN usage[k][d + 1] ELSE 0)

\* The quota is checked before a request and charged after it: a day's usage is
\* over the quota by no more than what was under way when it was reached.
QuotaKept ==
  \A k \in Keys : \A d \in Days :
    UsedOn(k, d) <= DailyLimit - 1 + MaxTokens * Cardinality(Reqs)

\* Without the allowance: the limit holds whatever the order of the requests.
RateAlwaysKept ==
  restarts = 0 => \A k \in Keys, m \in Minutes : let_in[k][m] <= RateLimit

\* "still below daily_token_limit": a day's usage stops at the quota.
QuotaExact == \A k \in Keys, d \in Days : UsedOn(k, d) <= DailyLimit - 1 + MaxTokens

\* Both limits are kept, up to what is under way.
GatewayInv == TypeOK /\ RateKept /\ QuotaKept

=============================================================================
