----------------------------- MODULE RateLimit -----------------------------
(***************************************************************************)
(* The sliding-window rate limiter: RateLimitInterceptor and               *)
(* RateLimitService.checkAndIncrement.  A request is stamped with the      *)
(* clock of the API process that serves it, then runs one Redis pipeline   *)
(* on the window of its user and one on the window of its workspace, in    *)
(* any order and among the pipelines of other requests.                    *)
(*                                                                         *)
(* A window is a sorted set of requests scored by their stamps.  Redis     *)
(* runs the five commands of one pipeline back to back, so a pipeline is   *)
(* one step.  The limiter is "distributed": several API processes may      *)
(* share the Redis, so a pipeline may run up to Lag after its stamp and    *)
(* after pipelines stamped later; with one process Lag is 0.  Response     *)
(* headers are left out.                                                   *)
(***************************************************************************)
EXTENDS Integers, FiniteSets

CONSTANTS Requests,        \* ids of requests
          Users,           \* users, each the key of a window
          Workspaces,      \* workspaces, each the key of a window
          WorkspaceOf,     \* the workspace of each user
          UserLimit,       \* RATE_LIMIT_USER_PER_MINUTE
          WorkspaceLimit,  \* RATE_LIMIT_WORKSPACE_PER_MINUTE
          Window,          \* WINDOW_MS, in ticks
          Lag,             \* from a request's stamp to its pipelines, at most
          MaxTime,         \* bound: the clock
          MaxFaults        \* bound: failures of Redis

ASSUME RateLimitAssumption ==
    /\ IsFiniteSet(Requests)
    /\ Users # {} /\ Users \cap Workspaces = {}
    /\ WorkspaceOf \in [Users -> Workspaces]
    /\ UserLimit \in Nat /\ WorkspaceLimit \in Nat
    /\ Window \in Nat \ {0}
    /\ Lag \in Nat /\ Lag < Window
    /\ MaxTime \in Nat /\ MaxFaults \in Nat

VARIABLES
    now,      \* the clock
    user,     \* user[r]: who sent request r
    at,       \* at[r]: its stamp
    left,     \* left[r]: the windows it has still to be counted in
    passed,   \* passed[r]: the windows that counted it and let it through
    refused,  \* refused[r]: the windows that counted it and refused it
    stage,    \* stage[r]: "new", "checking" or "failed"
    window,   \* window[k]: the members of k's sorted set
    expires,  \* expires[k]: when Redis drops the sorted set
    faults    \* failures so far

limiterVars == <<now, user, at, left, passed, refused, stage, window, expires, faults>>

Keys == Users \cup Workspaces

LimiterTypeOK ==
    /\ now \in Nat
    /\ user \in [Requests -> Users]
    /\ at \in [Requests -> Nat]
    /\ left \in [Requests -> SUBSET Keys]
    /\ passed \in [Requests -> SUBSET Keys]
    /\ refused \in [Requests -> SUBSET Keys]
    /\ stage \in [Requests -> {"new", "checking", "failed"}]
    /\ window \in [Keys -> SUBSET Requests]
    /\ expires \in [Keys -> Nat]
    /\ faults \in Nat

LimiterInit ==
    /\ now = 0
    /\ user = [r \in Requests |-> CHOOSE u \in Users : TRUE]
    /\ at = [r \in Requests |-> 0]
    /\ left = [r \in Requests |-> {}]
    /\ passed = [r \in Requests |-> {}]
    /\ refused = [r \in Requests |-> {}]
    /\ stage = [r \in Requests |-> "new"]
    /\ window = [k \in Keys |-> {}]
    /\ expires = [k \in Keys |-> 0]
    /\ faults = 0

-----------------------------------------------------------------------------
(* checkAndIncrement                                                       *)

KeysOf(u) == {u, WorkspaceOf[u]}

Limit(k) == IF k \in Users THEN UserLimit ELSE WorkspaceLimit

\* Mutant: the set is not trimmed.
KeptUntrimmed(r, k) == {q \in window[k] : now < expires[k]}

\* zremrangebyscore 0 .. now - WINDOW_MS, on a set pexpire has not dropped.
Kept(r, k) ==
    {q \in window[k] : now < expires[k] /\ at[q] > at[r] - Window}

\* The set after zadd of the request itself.
Members(r, k) == Kept(r, k) \cup {r}

\* Mutant: one more than the limit.
TooManyByTwo(S, k) == Cardinality(S) > Limit(k) + 1

TooMany(S, k) == Cardinality(S) > Limit(k)

\* The interceptor takes the user from the request and starts both checks.
Arrive(r, u) ==
    /\ stage[r] = "new"
    /\ stage' = [stage EXCEPT ![r] = "checking"]
    /\ user' = [user EXCEPT ![r] = u]
    /\ at' = [at EXCEPT ![r] = now]
    /\ left' = [left EXCEPT ![r] = KeysOf(u)]
    /\ UNCHANGED <<now, passed, refused, window, expires, faults>>

\* The pipeline of r on window k, and what its replies say.
Pipeline(r, k) ==
    /\ k \in left[r]
    /\ window' = [window EXCEPT ![k] = Members(r, k)]
    /\ expires' = [expires EXCEPT ![k] = now + Window]
    /\ left' = [left EXCEPT ![r] = @ \ {k}]
    /\ \/ /\ TooMany(Members(r, k), k)
          /\ refused' = [refused EXCEPT ![r] = @ \cup {k}]
          /\ UNCHANGED passed
       \/ /\ ~TooMany(Members(r, k), k)
          /\ passed' = [passed EXCEPT ![r] = @ \cup {k}]
          /\ UNCHANGED refused
    /\ UNCHANGED <<now, user, at, stage, faults>>

\* Redis answers the commands with errors: the count is taken to be 0.
ErrorReplies(r, k) ==
    /\ k \in left[r]
    /\ faults < MaxFaults
    /\ faults' = faults + 1
    /\ left' = [left EXCEPT ![r] = @ \ {k}]
    /\ UNCHANGED <<now, user, at, passed, refused, stage, window, expires>>

\* Redis cannot be reached, or its answer is lost: the request fails.
Unreachable(r) ==
    /\ left[r] # {}
    /\ faults < MaxFaults
    /\ faults' = faults + 1
    /\ left' = [left EXCEPT ![r] = {}]
    /\ stage' = [stage EXCEPT ![r] = "failed"]
    /\ UNCHANGED <<now, user, at, passed, refused, window, expires>>

InTime == \A r \in Requests : left[r] # {} => now < at[r] + Lag

Tick ==
    /\ now < MaxTime
    /\ InTime
    /\ now' = now + 1
    /\ UNCHANGED <<user, at, left, passed, refused, stage, window, expires, faults>>

LimiterNext ==
    \/ Tick
    \/ \E r \in Requests :
        \/ \E u \in Users : Arrive(r, u)
        \/ \E k \in Keys : Pipeline(r, k) \/ ErrorReplies(r, k)
        \/ Unreachable(r)

LimiterSpec == LimiterInit /\ [][LimiterNext]_limiterVars

-----------------------------------------------------------------------------
(* What the interceptor answers                                            *)

Checked(r) == stage[r] = "checking" /\ left[r] = {}
Admitted(r) == Checked(r) /\ refused[r] = {}

-----------------------------------------------------------------------------
(* Properties                                                              *)

\* The requests window k let through, stamped in the span that ends at t.
PassedIn(k, t, span) ==
    {q \in Requests : k \in passed[q] /\ at[q] > t - span /\ at[q] <= t}

\* In no span of a minute, less the lag of the pipelines, does a window let
\* through more requests than its limit, although clocks are read before the
\* pipelines run and pipelines overtake each other (rate-limit.service.ts:26).
WindowBound ==
    \A k \in Keys : \A t \in 0..now :
        Cardinality(PassedIn(k, t, Window - Lag)) <= Limit(k)

\* Another request that window k may hold against r.
CountsAgainst(q, r, k) ==
    /\ q # r /\ k \in KeysOf(user[q]) /\ stage[q] # "new"
    /\ at[q] > at[r] - Window /\ at[q] <= at[r] + Lag

\* No request is refused for nothing: as many others as the limit allows were
\* stamped in the minute before it or while its pipeline was on its way.  What
\* is older has been trimmed, the request itself is not held against itself
\* (rate-limit.service.ts:32 and :44).
RefusalsBacked ==
    \A r \in Requests : \A k \in refused[r] :
        Cardinality({q \in Requests : CountsAgainst(q, r, k)}) >= Limit(k)
=============================================================================
