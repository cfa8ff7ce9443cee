------------------------------ MODULE RateLimit ------------------------------
(***************************************************************************)
(* The per-alias sliding window that scripts/remote_mcp_proxy.py applies   *)
(* to device calls before it forwards them: rate_history, one deque of     *)
(* grant times per vault alias, pruned and extended by                     *)
(* _consume_rate_limit and pruned by _rate_status.  Both run on the main   *)
(* thread only.  The limit is read from the policy file again for every    *)
(* call, so the operator may change it between two calls.                  *)
(*                                                                         *)
(* Time is counted in ticks, Second ticks to the second, because           *)
(* time.monotonic() is finer than the whole seconds of retry_after.        *)
(***************************************************************************)
EXTENDS Integers, Sequences

CONSTANTS
  Aliases,    \* vault aliases of device targets
  Limits,     \* the rate_limit values the policy file may hold
  Second,     \* ticks per second
  MaxTime     \* bound on the clock

ASSUME LimitsAssumption ==
  Limits \subseteq [requests : Nat \ {0}, window : Nat]

ASSUME ClockAssumption == Second \in Nat \ {0} /\ MaxTime \in Nat

VARIABLES
  now,      \* time.monotonic()
  limit,    \* limit[a]: the rate_limit of alias a in the policy file
  history,  \* rate_history: times of the grants not yet pruned, oldest first
  shortest, \* shortest[a]: the shortest window a ever had
  granted,  \* every grant ever given, with the limit it was given under
  refused   \* refused[a]: the last RateLimitError of a while it still stands

vars == <<now, limit, history, shortest, granted, refused>>

Grant   == [at : Nat, requests : Nat \ {0}, window : Nat]
Refusal == [at : Nat, retry : Nat, crowded : BOOLEAN]
NoRefusal == [at |-> 0, retry |-> 0, crowded |-> FALSE]

TypeOK ==
  /\ now \in Nat
  /\ limit \in [Aliases -> Limits]
  /\ history \in [Aliases -> Seq(Nat)]
  /\ shortest \in [Aliases -> Nat]
  /\ granted \in [Aliases -> Seq(Grant)]
  /\ refused \in [Aliases -> Refusal]

Init ==
  /\ now = 0
  /\ limit \in [Aliases -> Limits]
  /\ history = [a \in Aliases |-> <<>>]
  /\ shortest = [a \in Aliases |-> limit[a].window]
  /\ granted = [a \in Aliases |-> <<>>]
  /\ refused = [a \in Aliases |-> NoRefusal]

-----------------------------------------------------------------------------

\* "while history and history[0] <= now - window: popleft()" pops k entries.
Expired(a, k) ==
  /\ \A i \in 1..k : history[a][i] <= now - limit[a].window
  /\ k < Len(history[a]) => history[a][k + 1] > now - limit[a].window

Live(a, k) == SubSeq(history[a], k + 1, Len(history[a]))

\* Mutant: the deque may hold one call more than the limit.
HasSlotOffByOne(a, k) == Len(history[a]) - k <= limit[a].requests

\* "len(history) >= limit" does not hold of what pruning k entries leaves.
HasSlot(a, k) == Len(history[a]) - k < limit[a].requests

\* Mutant: the wait is rounded down.
RetryAfterFloor(ticks) == IF ticks \div Second > 1 THEN ticks \div Second ELSE 1

\* max(1, math.ceil(seconds)) of a distance in ticks.
RetryAfter(ticks) ==
  LET seconds == (ticks + Second - 1) \div Second
  IN  IF seconds > 1 THEN seconds ELSE 1

GrantNow(a) == [at |-> now, requests |-> limit[a].requests, window |-> shortest[a]]

\* Mutant: the deque gets the boundary of the window instead of the time.
AdmitAtBoundary(a) ==
  \E k \in 0..Len(history[a]) :
    /\ Expired(a, k) /\ HasSlot(a, k)
    /\ history' = [history EXCEPT ![a] = Append(Live(a, k), now - limit[a].window)]
    /\ granted' = [granted EXCEPT ![a] = Append(@, GrantNow(a))]
    /\ refused' = [refused EXCEPT ![a] = NoRefusal]
    /\ UNCHANGED <<now, limit, shortest>>

\* _consume_rate_limit appends the call to the window ...
Admit(a) ==
  \E k \in 0..Len(history[a]) :
    /\ Expired(a, k) /\ HasSlot(a, k)
    /\ history' = [history EXCEPT ![a] = Append(Live(a, k), now)]
    /\ granted' = [granted EXCEPT ![a] = Append(@, GrantNow(a))]
    /\ refused' = [refused EXCEPT ![a] = NoRefusal]
    /\ UNCHANGED <<now, limit, shortest>>

\* Whether _consume_rate_limit would take a call now.
MayAdmit(a) == \E k \in 0..Len(history[a]) : Expired(a, k) /\ HasSlot(a, k)

\* ... or raises RateLimitError; what it pruned stays pruned.
Refuse(a) ==
  \E k \in 0..Len(history[a]) :
    /\ Expired(a, k) /\ ~HasSlot(a, k)
    /\ history' = [history EXCEPT ![a] = Live(a, k)]
    /\ refused' = [refused EXCEPT ![a] =
                     [at      |-> now,
                      retry   |-> RetryAfter(history[a][k + 1] + limit[a].window - now),
                      crowded |-> Len(history[a]) - k > limit[a].requests]]
    /\ UNCHANGED <<now, limit, shortest, granted>>

\* _rate_status, for helper_status and target_scope, prunes the same deque.
RateStatus(a) ==
  \E k \in 0..Len(history[a]) :
    /\ Expired(a, k)
    /\ history' = [history EXCEPT ![a] = Live(a, k)]
    /\ UNCHANGED <<now, limit, shortest, granted, refused>>

\* The operator saves another rate_limit for a in the policy file.
EditLimit(a) ==
  \E l \in Limits :
    /\ l # limit[a]
    /\ limit' = [limit EXCEPT ![a] = l]
    /\ shortest' = [shortest EXCEPT ![a] = IF l.window < @ THEN l.window ELSE @]
    /\ refused' = [refused EXCEPT ![a] = NoRefusal]
    /\ UNCHANGED <<now, history, granted>>

Tick ==
  /\ now < MaxTime
  /\ now' = now + 1
  /\ UNCHANGED <<limit, history, shortest, granted, refused>>

Next ==
  \/ Tick
  \/ \E a \in Aliases : Admit(a) \/ Refuse(a) \/ RateStatus(a) \/ EditLimit(a)

Spec == Init /\ [][Next]_vars

-----------------------------------------------------------------------------

\* A device call granted under a limit of r requests comes at least a whole
\* window after the r-th call before it, so no window ever holds more than r
\* grants.  After the operator lengthens a window the deque no longer knows
\* the calls that the shorter one let go: the promise is for the shortest
\* window the alias ever had.  (_consume_rate_limit)
WindowRespected ==
  \A a \in Aliases : \A j \in 1..Len(granted[a]) :
    LET r == granted[a][j].requests
    IN  j > r => granted[a][j - r].at + granted[a][j].window <= granted[a][j].at

\* A caller refused with retry_after_seconds that waits that long, while nobody
\* else uses the alias and the limit stays, is granted the call whatever
\* helper_status pruned meanwhile; and the wait is not padded either: a whole
\* second before its end the window is really still full.  After the operator
\* lowered the limit the window may hold more calls than it allows; the wait is
\* then for the oldest of them only, and too short.  (RateLimitError)
RetryAfterExact ==
  \A a \in Aliases : LET r == refused[a] IN
    /\ r.retry > 0 /\ ~r.crowded /\ now >= r.at + r.retry * Second => MayAdmit(a)
    /\ r.retry > 1 /\ now <= r.at + (r.retry - 1) * Second => ~MayAdmit(a)

=============================================================================
