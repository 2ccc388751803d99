---------------------------- MODULE AccessProofs ----------------------------
(***************************************************************************)
(* Callers, guards and limiter, for any users, clients, routes, requests,  *)
(* limits and clocks, and any lag shorter than the window.                 *)
(*                                                                         *)
(* The limiter alone: no window lets more through than its limit           *)
(* (WindowBound), and none refuses for nothing (RefusalsBacked).  All      *)
(* together: every step is a step of the limiter or leaves it alone, so    *)
(* both hold behind the guards (LimiterImplemented); a stdio client's      *)
(* token outlives the call it is sent with (CachedAccepted), and no token  *)
(* carries a writer's role for longer than its lifetime (RecentRole).      *)
(***************************************************************************)
EXTENDS Access, FiniteSetTheorems, TLAPS

-----------------------------------------------------------------------------
(* The limiter                                                             *)

\* A request is stamped before it is counted, and counted within the lag.
Stamped ==
    \A r \in Requests :
        /\ at[r] <= now
        /\ left[r] # {} => now <= at[r] + Lag
        /\ stage[r] = "new" => left[r] = {} /\ passed[r] = {} /\ refused[r] = {}
        /\ left[r] \subseteq KeysOf(user[r])

\* What is in a window has been counted, and the window lasts long enough.
WindowsKeep ==
    \A k \in Keys : \A q \in window[k] :
        /\ stage[q] # "new"
        /\ k \in KeysOf(user[q])
        /\ at[q] + Window <= expires[k]

\* A request that passed stays in the window until it is a minute old.
PassedStay ==
    \A k \in Keys, q \in Requests :
        k \in passed[q] => q \in window[k] \/ at[q] + Window <= now

LimiterInv == LimiterTypeOK /\ Stamped /\ WindowsKeep /\ PassedStay

-----------------------------------------------------------------------------
(* Types                                                                   *)

\* The keys of a user's two windows are keys.
LEMMA KeysOfType == \A u \in Users : KeysOf(u) \subseteq Keys
BY RateLimitAssumption DEF KeysOf, Keys

\* The initial state is typed.
LEMMA LimiterTypeInit == LimiterInit => LimiterTypeOK
BY RateLimitAssumption DEF LimiterInit, LimiterTypeOK

\* Every step keeps the types.
LEMMA LimiterTypeStep == LimiterTypeOK /\ [LimiterNext]_limiterVars => LimiterTypeOK'
<1> SUFFICES ASSUME LimiterTypeOK, [LimiterNext]_limiterVars PROVE LimiterTypeOK'
    OBVIOUS
<1> USE RateLimitAssumption
<1>1. CASE Tick
      BY <1>1 DEF LimiterTypeOK, Tick
<1>2. ASSUME NEW r \in Requests, NEW u \in Users, Arrive(r, u) PROVE LimiterTypeOK'
      BY <1>2, KeysOfType DEF LimiterTypeOK, Arrive
<1>3. ASSUME NEW r \in Requests, NEW k \in Keys, Pipeline(r, k) PROVE LimiterTypeOK'
  <2>1. Members(r, k) \subseteq Requests /\ now + Window \in Nat
        BY DEF LimiterTypeOK, Members, Kept
  <2>2. window' \in [Keys -> SUBSET Requests] /\ expires' \in [Keys -> Nat]
        BY <1>3, <2>1 DEF LimiterTypeOK, Pipeline
  <2>3. left' \in [Requests -> SUBSET Keys]
        BY <1>3 DEF LimiterTypeOK, Pipeline
  <2>4. passed' \in [Requests -> SUBSET Keys] /\ refused' \in [Requests -> SUBSET Keys]
        BY <1>3 DEF LimiterTypeOK, Pipeline
  <2> QED BY <1>3, <2>2, <2>3, <2>4 DEF LimiterTypeOK, Pipeline
<1>4. ASSUME NEW r \in Requests, NEW k \in Keys, ErrorReplies(r, k) PROVE LimiterTypeOK'
      BY <1>4 DEF LimiterTypeOK, ErrorReplies
<1>5. ASSUME NEW r \in Requests, Unreachable(r) PROVE LimiterTypeOK'
      BY <1>5 DEF LimiterTypeOK, Unreachable
<1>6. CASE UNCHANGED limiterVars
      BY <1>6 DEF LimiterTypeOK, limiterVars
<1> QED BY <1>1, <1>2, <1>3, <1>4, <1>5, <1>6 DEF LimiterNext

\* Type correctness of the limiter.
THEOREM LimiterTypeCorrect == LimiterSpec => []LimiterTypeOK
BY LimiterTypeInit, LimiterTypeStep, PTL DEF LimiterSpec
-----------------------------------------------------------------------------
(* The windows                                                             *)

\* What a pipeline leaves in its window: requests it found there, less than a
\* minute older than its own, and its own.
LEMMA MembersKept ==
    ASSUME LimiterInv, NEW r \in Requests, NEW k \in Keys, Pipeline(r, k)
    PROVE  /\ window'[k] = Members(r, k)
           /\ expires'[k] = now + Window
           /\ \A j \in Keys \ {k} : window'[j] = window[j] /\ expires'[j] = expires[j]
           /\ stage[r] # "new" /\ k \in KeysOf(user[r])
           /\ at[r] <= now /\ now <= at[r] + Lag
<1>1. window'[k] = Members(r, k) /\ expires'[k] = now + Window
      BY DEF LimiterInv, LimiterTypeOK, Pipeline
<1>2. \A j \in Keys \ {k} : window'[j] = window[j] /\ expires'[j] = expires[j]
      BY DEF LimiterInv, LimiterTypeOK, Pipeline
<1>3. k \in left[r]
      BY DEF Pipeline
<1> QED BY <1>1, <1>2, <1>3 DEF LimiterInv, Stamped

\* The invariant holds at first.
LEMMA LimiterInvInit == LimiterInit => LimiterInv
<1> SUFFICES ASSUME LimiterInit PROVE LimiterInv
    OBVIOUS
<1>1. LimiterTypeOK
      BY LimiterTypeInit
<1>2. Stamped
      BY RateLimitAssumption DEF LimiterInit, Stamped
<1>3. WindowsKeep /\ PassedStay
      BY DEF LimiterInit, WindowsKeep, PassedStay
<1> QED BY <1>1, <1>2, <1>3 DEF LimiterInv

\* Every step keeps the invariant.
LEMMA LimiterInvStep == LimiterInv /\ [LimiterNext]_limiterVars => LimiterInv'
<1> SUFFICES ASSUME LimiterInv, [LimiterNext]_limiterVars PROVE LimiterInv'
    OBVIOUS
<1> USE RateLimitAssumption
<1>0. LimiterTypeOK /\ LimiterTypeOK'
      BY LimiterTypeStep DEF LimiterInv
<1> SUFFICES Stamped' /\ WindowsKeep' /\ PassedStay'
    BY <1>0 DEF LimiterInv
<1>1. CASE Tick
  <2>1. Stamped'
        BY <1>0, <1>1 DEF LimiterInv, LimiterTypeOK, Tick, InTime, Stamped
  <2>2. WindowsKeep'
        BY <1>0, <1>1 DEF LimiterInv, LimiterTypeOK, Tick, WindowsKeep
  <2>3. PassedStay'
        BY <1>0, <1>1 DEF LimiterInv, LimiterTypeOK, Tick, PassedStay
  <2> QED BY <2>1, <2>2, <2>3
<1>2. ASSUME NEW r \in Requests, NEW u \in Users, Arrive(r, u)
      PROVE  Stamped' /\ WindowsKeep' /\ PassedStay'
  <2>1. /\ \A q \in Requests : q # r => /\ at'[q] = at[q] /\ left'[q] = left[q]
                                        /\ stage'[q] = stage[q] /\ user'[q] = user[q]
        /\ at'[r] = now /\ left'[r] = KeysOf(u) /\ stage'[r] = "checking" /\ user'[r] = u
        /\ now' = now /\ passed' = passed /\ refused' = refused
        /\ window' = window /\ expires' = expires
        BY <1>0, <1>2 DEF LimiterTypeOK, Arrive
  <2>2. \A k \in Keys : r \notin window[k] /\ k \notin passed[r]
        BY <1>2 DEF Arrive, LimiterInv, WindowsKeep, Stamped
  <2>3. Stamped'
        BY <1>0, <2>1 DEF LimiterInv, LimiterTypeOK, Stamped, KeysOf
  <2>4. WindowsKeep'
        BY <1>0, <2>1, <2>2 DEF LimiterInv, LimiterTypeOK, WindowsKeep, KeysOf
  <2>5. PassedStay'
        BY <1>0, <2>1, <2>2 DEF LimiterInv, LimiterTypeOK, PassedStay
  <2> QED BY <2>3, <2>4, <2>5
<1>3. ASSUME NEW r \in Requests, NEW k \in Keys, Pipeline(r, k)
      PROVE  Stamped' /\ WindowsKeep' /\ PassedStay'
  <2>1. /\ now' = now /\ at' = at /\ stage' = stage /\ user' = user
        /\ \A q \in Requests : left'[q] \subseteq left[q]
        BY <1>0, <1>3 DEF LimiterTypeOK, Pipeline
  <2>2. /\ \A q \in Requests \ {r} : passed'[q] = passed[q] /\ refused'[q] = refused[q]
        /\ passed'[r] \subseteq passed[r] \cup {k}
        BY <1>0, <1>3 DEF LimiterTypeOK, Pipeline
  <2>3. stage[r] # "new"
        BY <1>3, MembersKept
  <2>4. Stamped'
        BY <1>0, <2>1, <2>2, <2>3 DEF LimiterInv, LimiterTypeOK, Stamped, KeysOf
  <2>5. WindowsKeep'
    <3> SUFFICES ASSUME NEW j \in Keys, NEW q \in window'[j]
                 PROVE  stage[q] # "new" /\ j \in KeysOf(user[q]) /\ at[q] + Window <= expires'[j]
        BY <2>1 DEF WindowsKeep, KeysOf
    <3>1. CASE j # k
          BY <1>3, <3>1, MembersKept DEF LimiterInv, WindowsKeep
    <3>2. CASE j = k
      <4>1. q \in window[k] \/ q = r
            BY <1>3, <3>2, MembersKept DEF Members, Kept
      <4>2. q \in Requests
            BY <1>0, <4>1 DEF LimiterTypeOK
      <4>3. at[q] + Window <= now + Window
            BY <1>0, <4>2 DEF LimiterInv, Stamped, LimiterTypeOK
      <4>4. stage[q] # "new" /\ k \in KeysOf(user[q])
            BY <1>3, <4>1, MembersKept DEF LimiterInv, WindowsKeep
      <4> QED BY <1>3, <3>2, <4>3, <4>4, MembersKept
    <3> QED BY <3>1, <3>2
  <2>6. PassedStay'
    <3> SUFFICES ASSUME NEW j \in Keys, NEW q \in Requests, j \in passed'[q]
                 PROVE  q \in window'[j] \/ at[q] + Window <= now
        BY <2>1 DEF PassedStay
    <3>1. CASE q = r /\ j = k
          BY <1>3, <3>1, MembersKept DEF Members
    <3>2. CASE ~(q = r /\ j = k)
      <4>1. q \in window[j] \/ at[q] + Window <= now
            BY <2>2, <3>2 DEF LimiterInv, PassedStay
      <4>2. CASE j # k
            BY <1>3, <4>1, <4>2, MembersKept
      <4>3. CASE j = k /\ q \in window[k]
        <5>1. at[q] + Window <= expires[k]
              BY <4>3 DEF LimiterInv, WindowsKeep
        <5>2. CASE q \in Kept(r, k)
              BY <1>3, <4>3, <5>2, MembersKept DEF Members
        <5>3. CASE ~(now < expires[k])
              BY <1>0, <5>1, <5>3 DEF LimiterTypeOK
        <5>4. CASE ~(at[q] > at[r] - Window)
              BY <1>0, <1>3, <5>4, MembersKept DEF LimiterTypeOK
        <5> QED BY <4>3, <5>2, <5>3, <5>4 DEF Kept
      <4> QED BY <4>1, <4>2, <4>3
    <3> QED BY <3>1, <3>2
  <2> QED BY <2>4, <2>5, <2>6
<1>4. ASSUME NEW r \in Requests, NEW k \in Keys, ErrorReplies(r, k)
      PROVE  Stamped' /\ WindowsKeep' /\ PassedStay'
  <2>1. /\ now' = now /\ at' = at /\ stage' = stage /\ user' = user /\ passed' = passed
        /\ refused' = refused /\ window' = window /\ expires' = expires
        /\ \A q \in Requests : left'[q] \subseteq left[q]
        BY <1>0, <1>4 DEF LimiterTypeOK, ErrorReplies
  <2> QED BY <1>0, <2>1 DEF LimiterInv, LimiterTypeOK, Stamped, WindowsKeep, PassedStay, KeysOf
<1>5. ASSUME NEW r \in Requests, Unreachable(r)
      PROVE  Stamped' /\ WindowsKeep' /\ PassedStay'
  <2>1. /\ now' = now /\ at' = at /\ user' = user /\ passed' = passed
        /\ refused' = refused /\ window' = window /\ expires' = expires
        /\ \A q \in Requests : left'[q] \subseteq left[q]
        /\ \A q \in Requests : stage'[q] = stage[q] \/ stage'[q] = "failed"
        BY <1>0, <1>5 DEF LimiterTypeOK, Unreachable
  <2>2. Stamped'
        BY <1>0, <2>1 DEF LimiterInv, LimiterTypeOK, Stamped, KeysOf
  <2>3. WindowsKeep' /\ PassedStay'
        BY <1>0, <2>1 DEF LimiterInv, LimiterTypeOK, WindowsKeep, PassedStay, KeysOf
  <2> QED BY <2>2, <2>3
<1>6. CASE UNCHANGED limiterVars
      BY <1>6 DEF LimiterInv, limiterVars, Stamped, WindowsKeep, PassedStay, KeysOf
<1> QED BY <1>1, <1>2, <1>3, <1>4, <1>5, <1>6 DEF LimiterNext
-----------------------------------------------------------------------------
(* No window lets too many through                                         *)

\* The requests let through in a span are finitely many.
LEMMA PassedFinite ==
    \A k, t, span : IsFiniteSet(PassedIn(k, t, span))
<1> TAKE k, t, span
<1>1. PassedIn(k, t, span) \subseteq Requests
      BY DEF PassedIn
<1> QED BY <1>1, RateLimitAssumption, FS_Subset

\* A set of requests within a bounded one is bounded.
LEMMA WithinBound ==
    ASSUME NEW S, NEW T, IsFiniteSet(T), S \subseteq T, NEW n \in Nat, Cardinality(T) <= n
    PROVE  Cardinality(S) <= n
<1>1. IsFiniteSet(S) /\ Cardinality(S) <= Cardinality(T)
      BY FS_Subset
<1>2. Cardinality(S) \in Nat /\ Cardinality(T) \in Nat
      BY <1>1, FS_CardinalityType
<1> QED BY <1>1, <1>2

\* Limits are numbers.
LEMMA LimitType == \A k : Limit(k) \in Nat
BY RateLimitAssumption DEF Limit

\* A pipeline that lets its request through has seen every request of its
\* window that was let through in a span the request belongs to.
LEMMA PassedSeen ==
    ASSUME LimiterInv, NEW r \in Requests, NEW k \in Keys, Pipeline(r, k),
           NEW t \in Nat, t <= now, at[r] > t - (Window - Lag), at[r] <= t
    PROVE  PassedIn(k, t, Window - Lag) \subseteq Members(r, k)
<1> USE RateLimitAssumption
<1> SUFFICES ASSUME NEW q \in Requests, k \in passed[q],
                    at[q] > t - (Window - Lag), at[q] <= t
             PROVE  q \in Members(r, k)
    BY DEF PassedIn
<1>1. /\ now \in Nat /\ at[q] \in Nat /\ at[r] \in Nat /\ expires[k] \in Nat
      /\ at[r] <= now /\ now <= at[r] + Lag
      BY MembersKept DEF LimiterInv, LimiterTypeOK
<1>2. at[q] + Window > now
      BY <1>1
<1>3. q \in window[k]
      BY <1>1, <1>2 DEF LimiterInv, PassedStay
<1>4. now < expires[k]
      BY <1>1, <1>2, <1>3 DEF LimiterInv, WindowsKeep
<1>5. at[q] > at[r] - Window
      BY <1>1
<1> QED BY <1>3, <1>4, <1>5 DEF Members, Kept

\* A step that lets no request through, and stamps none that was, adds nothing
\* to a span.
LEMMA BoundKept ==
    ASSUME WindowBound, now' = now, passed' = passed,
           \A q \in Requests : passed[q] # {} => at'[q] = at[q]
    PROVE  WindowBound'
<1> SUFFICES ASSUME NEW k \in Keys, NEW t \in 0..now
             PROVE  Cardinality(PassedIn(k, t, Window - Lag)') <= Limit(k)
    BY DEF WindowBound, Limit
<1>1. PassedIn(k, t, Window - Lag)' = PassedIn(k, t, Window - Lag)
      BY DEF PassedIn
<1> QED BY <1>1 DEF WindowBound

\* The bound holds at first: nothing has passed.
LEMMA WindowBoundInit == LimiterInit => WindowBound
<1> SUFFICES ASSUME LimiterInit, NEW k \in Keys, NEW t \in 0..now
             PROVE  Cardinality(PassedIn(k, t, Window - Lag)) <= Limit(k)
    BY DEF WindowBound
<1>1. PassedIn(k, t, Window - Lag) = {}
      BY DEF PassedIn, LimiterInit
<1>2. Cardinality({}) = 0
      BY FS_EmptySet
<1>3. Limit(k) \in Nat
      BY LimitType
<1>4. Cardinality(PassedIn(k, t, Window - Lag)) = 0
      BY <1>1, <1>2
<1> QED BY <1>3, <1>4

\* Every step keeps the bound.
LEMMA WindowBoundStep ==
    LimiterInv /\ WindowBound /\ [LimiterNext]_limiterVars => WindowBound'
<1> SUFFICES ASSUME LimiterInv, WindowBound, [LimiterNext]_limiterVars PROVE WindowBound'
    OBVIOUS
<1> USE RateLimitAssumption
<1>0. LimiterTypeOK
      BY DEF LimiterInv
<1>1. CASE Tick
  <2>1. now' = now + 1 /\ at' = at /\ passed' = passed /\ now \in Nat /\ now \in 0..now
        BY <1>0, <1>1 DEF Tick, LimiterTypeOK
  <2> SUFFICES ASSUME NEW k \in Keys, NEW t \in 0..now + 1
               PROVE  Cardinality(PassedIn(k, t, Window - Lag)) <= Limit(k)
      BY <2>1 DEF WindowBound, PassedIn, Limit
  <2>2. CASE t \in 0..now
        BY <2>2 DEF WindowBound
  <2>3. CASE t = now + 1
    <3>1. PassedIn(k, t, Window - Lag) \subseteq PassedIn(k, now, Window - Lag)
          BY <1>0, <2>1, <2>3 DEF PassedIn, LimiterInv, Stamped, LimiterTypeOK
    <3>2. Cardinality(PassedIn(k, now, Window - Lag)) <= Limit(k)
          BY <2>1 DEF WindowBound
    <3> QED BY <3>1, <3>2, PassedFinite, LimitType, WithinBound
  <2> QED BY <2>1, <2>2, <2>3
<1>2. ASSUME NEW r \in Requests, NEW u \in Users, Arrive(r, u) PROVE WindowBound'
  <2>1. /\ now' = now /\ passed' = passed /\ passed[r] = {}
        /\ \A q \in Requests : q # r => at'[q] = at[q]
        BY <1>0, <1>2 DEF Arrive, LimiterTypeOK, LimiterInv, Stamped
  <2> QED BY <2>1, BoundKept
<1>3. ASSUME NEW r \in Requests, NEW k \in Keys, Pipeline(r, k) PROVE WindowBound'
  <2>1. now' = now /\ at' = at /\ now \in Nat
        BY <1>0, <1>3 DEF Pipeline, LimiterTypeOK
  <2> SUFFICES ASSUME NEW j \in Keys, NEW t \in 0..now
               PROVE  Cardinality(PassedIn(j, t, Window - Lag)') <= Limit(j)
      BY <2>1 DEF WindowBound, Limit
  <2>2. CASE r \in PassedIn(j, t, Window - Lag)' /\ j = k /\ ~TooMany(Members(r, k), k)
    <3>1. at[r] > t - (Window - Lag) /\ at[r] <= t /\ t \in Nat /\ t <= now
          BY <2>1, <2>2 DEF PassedIn
    <3>2. PassedIn(k, t, Window - Lag) \subseteq Members(r, k)
          BY <1>3, <3>1, PassedSeen
    <3>3. PassedIn(k, t, Window - Lag)' \subseteq PassedIn(k, t, Window - Lag) \cup {r}
          BY <1>0, <1>3, <2>1 DEF PassedIn, Pipeline, LimiterTypeOK
    <3>4. PassedIn(k, t, Window - Lag)' \subseteq Members(r, k)
          BY <3>2, <3>3 DEF Members
    <3>5. Members(r, k) \subseteq Requests
          BY <1>0 DEF Members, Kept, LimiterTypeOK
    <3>6. IsFiniteSet(Members(r, k))
          BY <3>5, FS_Subset
    <3>7. Cardinality(Members(r, k)) <= Limit(k)
          BY <2>2, <3>6, FS_CardinalityType, LimitType DEF TooMany
    <3> QED BY <2>2, <3>4, <3>6, <3>7, LimitType, WithinBound
  <2>3. CASE ~(r \in PassedIn(j, t, Window - Lag)' /\ j = k /\ ~TooMany(Members(r, k), k))
    <3>1. PassedIn(j, t, Window - Lag)' \subseteq PassedIn(j, t, Window - Lag)
          BY <1>0, <1>3, <2>1, <2>3 DEF PassedIn, Pipeline, LimiterTypeOK
    <3>2. Cardinality(PassedIn(j, t, Window - Lag)) <= Limit(j)
          BY DEF WindowBound
    <3> QED BY <3>1, <3>2, PassedFinite, LimitType, WithinBound
  <2> QED BY <2>2, <2>3
<1>4. ASSUME NEW r \in Requests, NEW k \in Keys, ErrorReplies(r, k) PROVE WindowBound'
      BY <1>4, BoundKept DEF ErrorReplies
<1>5. ASSUME NEW r \in Requests, Unreachable(r) PROVE WindowBound'
      BY <1>5, BoundKept DEF Unreachable
<1>6. CASE UNCHANGED limiterVars
      BY <1>6, BoundKept DEF limiterVars
<1> QED BY <1>1, <1>2, <1>3, <1>4, <1>5, <1>6 DEF LimiterNext

\* No window lets more requests through than its limit in any span of a minute
\* less the lag, however clocks and pipelines of its requests interleave.
THEOREM WindowsBounded == LimiterSpec => []WindowBound
<1>1. LimiterInit => LimiterInv /\ WindowBound
      BY LimiterInvInit, WindowBoundInit
<1>2. (LimiterInv /\ WindowBound) /\ [LimiterNext]_limiterVars => (LimiterInv /\ WindowBound)'
      BY LimiterInvStep, WindowBoundStep
<1> QED BY <1>1, <1>2, PTL DEF LimiterSpec
-----------------------------------------------------------------------------
(* No request is refused for nothing                                       *)

\* The others a window may hold against a request.
Others(r, k) == {q \in Requests : CountsAgainst(q, r, k)}

\* A set that holds at least so many requests bounds the larger ones too.
LEMMA AtLeast ==
    ASSUME NEW S, NEW T \in SUBSET Requests, S \subseteq T, NEW n \in Nat, Cardinality(S) >= n
    PROVE  Cardinality(T) >= n
<1>1. IsFiniteSet(T)
      BY RateLimitAssumption, FS_Subset
<1>2. IsFiniteSet(S) /\ Cardinality(S) <= Cardinality(T)
      BY <1>1, FS_Subset
<1>3. Cardinality(S) \in Nat /\ Cardinality(T) \in Nat
      BY <1>1, <1>2, FS_CardinalityType
<1> QED BY <1>2, <1>3

\* A pipeline that refuses has seen as many others as the limit allows.
LEMMA RefusalSeen ==
    ASSUME LimiterInv, NEW r \in Requests, NEW k \in Keys, Pipeline(r, k),
           TooMany(Members(r, k), k)
    PROVE  Cardinality(Others(r, k)) >= Limit(k)
<1> DEFINE K == Kept(r, k) \ {r}
<1>0. LimiterTypeOK
      BY DEF LimiterInv
<1>1. K \subseteq Requests /\ r \notin K /\ Members(r, k) = K \cup {r}
      BY <1>0 DEF Kept, Members, LimiterTypeOK
<1>2. IsFiniteSet(K)
      BY <1>1, RateLimitAssumption, FS_Subset
<1>3. Cardinality(K \cup {r}) = Cardinality(K) + 1
      BY <1>1, <1>2, FS_AddElement
<1>4. Cardinality(K) \in Nat
      BY <1>2, FS_CardinalityType
<1>5. Cardinality(K) >= Limit(k)
      BY <1>1, <1>3, <1>4, LimitType DEF TooMany
<1>6. K \subseteq Others(r, k)
  <2> SUFFICES ASSUME NEW q \in K PROVE q \in Others(r, k)
      OBVIOUS
  <2>1. q \in Requests /\ q # r /\ q \in window[k] /\ at[q] > at[r] - Window
        BY <1>0 DEF Kept, LimiterTypeOK
  <2>2. stage[q] # "new" /\ k \in KeysOf(user[q])
        BY <2>1 DEF LimiterInv, WindowsKeep
  <2>3. at[q] <= at[r] + Lag
    <3>1. at[q] <= now /\ now <= at[r] + Lag
          BY <2>1, MembersKept DEF LimiterInv, Stamped
    <3>2. at[q] \in Nat /\ at[r] \in Nat /\ now \in Nat /\ Lag \in Nat
          BY <1>0, <2>1, RateLimitAssumption DEF LimiterTypeOK
    <3> QED BY <3>1, <3>2
  <2> QED BY <2>1, <2>2, <2>3 DEF Others, CountsAgainst
<1>7. Others(r, k) \in SUBSET Requests
      BY DEF Others
<1> HIDE DEF K
<1> QED BY <1>5, <1>6, <1>7, LimitType, AtLeast

\* A step that refuses nobody, and changes neither stamp nor user of a request
\* that has arrived, leaves every refusal backed.
LEMMA BackingKept ==
    ASSUME LimiterInv, RefusalsBacked,
           NEW r \in Requests, NEW k \in refused[r],
           \A q \in Requests : stage[q] # "new" =>
               at'[q] = at[q] /\ user'[q] = user[q] /\ stage'[q] # "new"
    PROVE  Cardinality(Others(r, k)') >= Limit(k)
<1>1. stage[r] # "new"
      BY DEF LimiterInv, Stamped
<1>2. Others(r, k) \subseteq Others(r, k)'
      BY <1>1 DEF Others, CountsAgainst, KeysOf
<1>3. Cardinality(Others(r, k)) >= Limit(k)
      BY DEF RefusalsBacked, Others
<1>4. Others(r, k)' \in SUBSET Requests
      BY DEF Others
<1> QED BY <1>2, <1>3, <1>4, LimitType, AtLeast

\* Every step keeps the refusals backed.
LEMMA RefusalsBackedStep ==
    LimiterInv /\ RefusalsBacked /\ [LimiterNext]_limiterVars => RefusalsBacked'
<1> SUFFICES ASSUME LimiterInv, RefusalsBacked, [LimiterNext]_limiterVars
             PROVE  RefusalsBacked'
    OBVIOUS
<1>0. LimiterTypeOK
      BY DEF LimiterInv
<1>a. ASSUME NEW r \in Requests, NEW k \in refused'[r]
      PROVE  k \in refused[r] \/ (k \in Keys /\ Pipeline(r, k) /\ TooMany(Members(r, k), k))
      BY <1>0, <1>a DEF LimiterNext, limiterVars, Tick, Arrive, Pipeline, ErrorReplies,
                        Unreachable, LimiterTypeOK
<1>b. \A q \in Requests : stage[q] # "new" =>
          at'[q] = at[q] /\ user'[q] = user[q] /\ stage'[q] # "new"
      BY <1>0 DEF LimiterNext, limiterVars, Tick, Arrive, Pipeline, ErrorReplies,
                  Unreachable, LimiterTypeOK
<1> SUFFICES ASSUME NEW r \in Requests, NEW k \in refused'[r]
             PROVE  Cardinality(Others(r, k)') >= Limit(k)
    BY DEF RefusalsBacked, Others, Limit, CountsAgainst, KeysOf
<1>1. CASE k \in refused[r]
      BY <1>1, <1>b, BackingKept
<1>2. CASE k \in Keys /\ Pipeline(r, k) /\ TooMany(Members(r, k), k)
  <2>1. Cardinality(Others(r, k)) >= Limit(k)
        BY <1>2, RefusalSeen
  <2>2. Others(r, k)' = Others(r, k)
        BY <1>2 DEF Others, CountsAgainst, Pipeline, KeysOf
  <2> QED BY <2>1, <2>2
<1> QED BY <1>a, <1>1, <1>2

\* Nobody is refused for nothing: requests older than a minute, and the request
\* itself, do not count.
THEOREM RefusalsAreBacked == LimiterSpec => []RefusalsBacked
<1>1. LimiterInit => LimiterInv /\ RefusalsBacked
  <2>1. LimiterInit => RefusalsBacked
        BY DEF LimiterInit, RefusalsBacked
  <2> QED BY <2>1, LimiterInvInit
<1>2. (LimiterInv /\ RefusalsBacked) /\ [LimiterNext]_limiterVars
          => (LimiterInv /\ RefusalsBacked)'
      BY LimiterInvStep, RefusalsBackedStep
<1> QED BY <1>1, <1>2, PTL DEF LimiterSpec

-----------------------------------------------------------------------------
(* Callers, guards and limiter together                                    *)

Phases == {"idle", "asking", "minted", "sent", "limiting", "served", "limited",
           "unauthenticated", "forbidden", "failed"}
Origins == {"direct", "stdio", "remote"}
Call == [phase : Phases, origin : Origins, client : Clients \cup {Nobody},
         route : Routes \cup {Nobody}, token : Token, since : Nat]

\* A token lasts no longer than its lifetime, and its role was its user's
\* within that lifetime.
Fresh(token) ==
    /\ token.exp <= now + Ttl
    /\ token.role \in Writers =>
          \/ role[token.user] \in Writers
          \/ token.exp <= lost[token.user] + Ttl

\* A stdio client's token is on its way within ReplyDelay, and its request
\* arrives within Transit, while the token is good.
Timely(call_) ==
    /\ call_.phase \in {"asking", "minted"} =>
          call_.origin = "stdio" /\ call_.client \in Clients
    /\ call_.origin = "stdio" =>
          /\ call_.phase # "unauthenticated"
          /\ call_.phase = "minted" =>
                /\ now <= call_.since + ReplyDelay
                /\ call_.since + Ttl < call_.token.exp + Second
          /\ call_.phase = "sent" =>
                /\ now <= call_.since + Transit
                /\ call_.since + Transit < call_.token.exp

CallsOK == \A r \in Requests : Fresh(call[r].token) /\ Timely(call[r])

\* A client gives up its token a transit before the token's expiry.
CachesOK ==
    \A c \in Clients :
        /\ Fresh(cache[c].token)
        /\ cache[c].until = 0 \/ cache[c].until + Transit <= cache[c].token.exp

AccessInv == TypeOK /\ CallsOK /\ CachesOK

-----------------------------------------------------------------------------
(* Tokens and calls                                                        *)

\* The type of calls, by its name.
LEMMA CallTyped == TypeOK => call \in [Requests -> Call]
BY DEF TypeOK, Call, Phases, Origins

\* No token is typed and harmless.
LEMMA NoTokenOK == NoToken \in Token /\ (TypeOK => Fresh(NoToken))
<1>1. (CHOOSE u \in Users : TRUE) \in Users
      BY RateLimitAssumption
<1>2. NoToken \in Token
      BY <1>1 DEF NoToken, Token, Roles
<1>3. TypeOK => Fresh(NoToken)
      BY AccessAssumption DEF TypeOK, LimiterTypeOK, Fresh, NoToken, Writers
<1> QED BY <1>2, <1>3

\* A call that has not begun.
LEMMA NewCallOK ==
    NewCall \in Call /\ NewCall.token = NoToken /\ NewCall.phase = "idle"
BY NoTokenOK DEF NewCall, Call, Phases, Origins

\* A second has begun at most a second ago.
LEMMA WholeSeconds ==
    ASSUME NEW n \in Nat
    PROVE  /\ (n \div Second) * Second \in Nat
           /\ (n \div Second) * Second <= n
           /\ n < (n \div Second) * Second + Second
BY AccessAssumption, Z3

\* A token is typed and fresh when it is issued, and lasts for its lifetime
\* but for what is left of the second.
LEMMA IssueOK ==
    ASSUME TypeOK, NEW u \in Users
    PROVE  /\ Issue(u) \in Token
           /\ Fresh(Issue(u))
           /\ now + Ttl < Issue(u).exp + Second
<1> DEFINE floor == (now \div Second) * Second
<1>1. now \in Nat /\ role[u] \in Roles
      BY DEF TypeOK, LimiterTypeOK
<1>2. floor \in Nat /\ floor <= now /\ now < floor + Second
      BY <1>1, WholeSeconds
<1>3. Issue(u) = [user |-> u, role |-> role[u], exp |-> floor + Ttl]
      BY DEF Issue
<1> HIDE DEF floor
<1>4. floor + Ttl \in Nat /\ floor + Ttl <= now + Ttl /\ now + Ttl < floor + Ttl + Second
      BY <1>1, <1>2, AccessAssumption
<1>5. Issue(u) \in Token
      BY <1>1, <1>3, <1>4 DEF Token
<1>6. Fresh(Issue(u))
      BY <1>3, <1>4 DEF Fresh
<1> QED BY <1>3, <1>4, <1>5, <1>6

-----------------------------------------------------------------------------
(* The limiter inside                                                      *)

\* A step of the whole is a step of the limiter, or leaves it as it is.
LEMMA StepOfLimiter ==
    ASSUME TypeOK, [Next]_vars PROVE [LimiterNext]_limiterVars
<1>1. CASE TickAll
      BY <1>1 DEF TickAll, LimiterNext
<1>2. ASSUME NEW r \in Requests, NEW route \in Routes,
             \/ \E cred \in Credentials : CallDirect(r, cred, route)
             \/ \E c \in Clients : CallCached(r, c, route) \/ Ask(r, c, route)
             \/ \E scheme \in Schemes :
                 \/ \E u \in Users : CallTool(r, scheme, u, route)
                 \/ \E q \in Requests : CallToolWithJwt(r, scheme, q, route)
             \/ \E q \in Requests : CallDirectAgain(r, q, route) \/ CallToolAgain(r, q, route)
      PROVE  UNCHANGED limiterVars
      BY <1>2 DEF CallDirect, CallDirectAgain, CallCached, Ask, CallTool, CallToolWithJwt,
                  CallToolAgain
<1>3. ASSUME NEW r \in Requests,
             Mint(r) \/ Receive(r) \/ Lose(r) \/ Refuse(r) \/ Forbid(r) \/ Answer(r)
      PROVE  UNCHANGED limiterVars
      BY <1>3 DEF Mint, Receive, Lose, Refuse, Forbid, Answer
<1>4. ASSUME NEW r \in Requests, PassGuards(r) PROVE LimiterNext
  <2>1. call[r].token.user \in Users
        BY CallTyped DEF Call, Token
  <2> QED BY <1>4, <2>1 DEF PassGuards, LimiterNext
<1>5. ASSUME NEW r \in Requests, Limiting(r) \/ LimiterFails(r) PROVE LimiterNext
      BY <1>5 DEF Limiting, LimiterFails, LimiterNext
<1>6. ASSUME NEW u \in Users, NEW new \in NewRoles, ChangeRole(u, new)
      PROVE  UNCHANGED limiterVars
      BY <1>6 DEF ChangeRole
<1>7. CASE UNCHANGED vars
      BY <1>7 DEF vars
<1> QED BY <1>1, <1>2, <1>3, <1>4, <1>5, <1>6, <1>7 DEF Next

\* The limiter's part of the state stays typed.
LEMMA LimiterTyped ==
    ASSUME TypeOK, [Next]_vars PROVE LimiterTypeOK'
BY StepOfLimiter, LimiterTypeStep DEF TypeOK

-----------------------------------------------------------------------------
(* Steps of one call                                                       *)

\* A step that changes one call, and neither roles nor the clock, keeps the
\* invariant if what it makes of the call is in order.
LEMMA OneCall ==
    ASSUME AccessInv, LimiterTypeOK', NEW r \in Requests, NEW new \in Call,
           call' = [call EXCEPT ![r] = new],
           now' = now, UNCHANGED <<role, lost, changes>>,
           cache' \in [Clients -> [token : Token, until : Nat]], CachesOK',
           Fresh(new.token), Timely(new)
    PROVE  AccessInv'
<1>1. call \in [Requests -> Call]
      BY CallTyped DEF AccessInv
<1>2. call' \in [Requests -> Call]
      BY <1>1
<1>3. TypeOK'
      BY <1>2 DEF AccessInv, TypeOK, Call, Phases, Origins
<1>4. \A q \in Requests : Fresh(call'[q].token) /\ Timely(call'[q])
      BY <1>1 DEF AccessInv, CallsOK
<1>5. CallsOK'
      BY <1>4 DEF CallsOK, Fresh, Timely
<1> QED BY <1>3, <1>5 DEF AccessInv

\* The caches are kept by a step that leaves them, the roles and the clock.
LEMMA CachesKept ==
    ASSUME AccessInv, now' = now, UNCHANGED <<role, lost, cache>>
    PROVE  CachesOK' /\ cache' \in [Clients -> [token : Token, until : Nat]]
BY DEF AccessInv, TypeOK, CachesOK, Fresh

\* Sending a call with a typed and fresh token keeps the invariant; a stdio
\* client's token must be good for the transit.
LEMMA SendOK ==
    ASSUME AccessInv, LimiterTypeOK', NEW r \in Requests, NEW origin \in Origins,
           NEW client \in Clients \cup {Nobody}, NEW route \in Routes, NEW token \in Token,
           Send(r, origin, client, route, token), Fresh(token),
           origin = "stdio" => now + Transit < token.exp,
           UNCHANGED <<limiterVars, role, lost, cache, changes>>
    PROVE  AccessInv'
<1> DEFINE new == [phase |-> "sent", origin |-> origin, client |-> client,
                   route |-> route, token |-> token, since |-> now]
<1>1. now \in Nat /\ now' = now
      BY DEF AccessInv, TypeOK, LimiterTypeOK, limiterVars
<1>2. new \in Call
      BY <1>1 DEF Call, Phases, Origins
<1>3. call' = [call EXCEPT ![r] = new]
      BY DEF Send
<1>4. Fresh(new.token)
      OBVIOUS
<1>5. Timely(new)
      BY <1>1, AccessAssumption DEF Timely
<1>6. CachesOK' /\ cache' \in [Clients -> [token : Token, until : Nat]]
      BY <1>1, CachesKept
<1> HIDE DEF new
<1> QED BY <1>1, <1>2, <1>3, <1>4, <1>5, <1>6, OneCall

\* Ending a call keeps the invariant, unless a stdio call ends unauthenticated.
LEMMA EndOK ==
    ASSUME AccessInv, LimiterTypeOK', NEW r \in Requests, NEW phase \in Phases,
           phase \notin {"asking", "minted", "sent"},
           End(r, phase), phase = "unauthenticated" => call[r].origin # "stdio",
           now' = now, UNCHANGED <<role, lost, cache, changes>>
    PROVE  AccessInv'
<1> DEFINE token == IF phase = "served" /\ call[r].origin # "stdio"
                    THEN call[r].token ELSE NoToken
           new == [NewCall EXCEPT !.phase = phase, !.origin = call[r].origin, !.token = token]
<1>1. call[r] \in Call
      BY CallTyped DEF AccessInv
<1>2. token \in Token /\ Fresh(token)
  <2>1. call[r].token \in Token /\ Fresh(call[r].token)
        BY <1>1 DEF AccessInv, CallsOK, Call
  <2>2. NoToken \in Token /\ Fresh(NoToken)
        BY NoTokenOK DEF AccessInv
  <2>3. token = call[r].token \/ token = NoToken
        OBVIOUS
  <2> QED BY <2>1, <2>2, <2>3 DEF Fresh
<1>3. call[r].origin \in Origins
      BY <1>1 DEF Call
<1>4. call' = [call EXCEPT ![r] = new]
      BY DEF End
<1> HIDE DEF token
<1>5. new \in Call /\ new.phase = phase /\ new.origin = call[r].origin /\ new.token = token
      BY <1>2, <1>3, NewCallOK DEF Call
<1> HIDE DEF new
<1>6. Fresh(new.token) /\ Timely(new)
      BY <1>2, <1>5 DEF Timely
<1>7. CachesOK' /\ cache' \in [Clients -> [token : Token, until : Nat]]
      BY CachesKept
<1> QED BY <1>4, <1>5, <1>6, <1>7, OneCall

-----------------------------------------------------------------------------
(* The invariant                                                           *)

\* The invariant holds at first.
LEMMA AccessInvInit == Init => AccessInv
<1> SUFFICES ASSUME Init PROVE AccessInv
    OBVIOUS
<1>1. LimiterTypeOK /\ now = 0
      BY LimiterTypeInit DEF Init, LimiterInit
<1>2. NoToken \in Token
      BY NoTokenOK
<1>3. NewCall \in Call
      BY NewCallOK
<1>4. TypeOK
      BY <1>1, <1>2, <1>3, AccessAssumption DEF Init, TypeOK, Call, Phases, Origins
<1>5. Fresh(NoToken)
      BY <1>4, NoTokenOK
<1>6. CallsOK
      BY <1>5 DEF Init, CallsOK, NewCall, Timely
<1>7. CachesOK
      BY <1>5 DEF Init, CachesOK
<1> QED BY <1>4, <1>6, <1>7 DEF AccessInv

\* The calls of direct callers and tools keep the invariant.
LEMMA CallersStep ==
    ASSUME AccessInv, LimiterTypeOK', NEW r \in Requests, NEW route \in Routes,
           \/ \E cred \in Credentials : CallDirect(r, cred, route)
           \/ \E scheme \in Schemes :
               \/ \E u \in Users : CallTool(r, scheme, u, route)
               \/ \E q \in Requests : CallToolWithJwt(r, scheme, q, route)
           \/ \E q \in Requests : CallDirectAgain(r, q, route) \/ CallToolAgain(r, q, route)
    PROVE  AccessInv'
<1>0. /\ TypeOK
      /\ \A q \in Requests : call[q].token \in Token /\ Fresh(call[q].token)
      BY CallTyped DEF AccessInv, CallsOK, Call
<1>1. ASSUME NEW cred \in Credentials, CallDirect(r, cred, route) PROVE AccessInv'
  <2>1. ResolveUser(cred) \in Users
        BY <1>1 DEF CallDirect, Credentials, ResolveUser
  <2>2. Issue(ResolveUser(cred)) \in Token /\ Fresh(Issue(ResolveUser(cred)))
        BY <1>0, <2>1, IssueOK
  <2> QED BY <1>1, <2>2, SendOK DEF CallDirect, Origins
<1>2. ASSUME NEW scheme \in Schemes, NEW u \in Users, CallTool(r, scheme, u, route)
      PROVE  AccessInv'
  <2>1. Issue(u) \in Token /\ Fresh(Issue(u))
        BY <1>0, IssueOK
  <2> QED BY <1>2, <2>1, SendOK DEF CallTool, Origins
<1>3. ASSUME NEW scheme \in Schemes, NEW q \in Requests, CallToolWithJwt(r, scheme, q, route)
      PROVE  AccessInv'
      BY <1>0, <1>3, SendOK DEF CallToolWithJwt, Origins
<1>4. ASSUME NEW q \in Requests, CallDirectAgain(r, q, route) PROVE AccessInv'
      BY <1>0, <1>4, SendOK DEF CallDirectAgain, Origins
<1>5. ASSUME NEW q \in Requests, CallToolAgain(r, q, route) PROVE AccessInv'
      BY <1>0, <1>5, SendOK DEF CallToolAgain, Origins
<1> QED BY <1>1, <1>2, <1>3, <1>4, <1>5

\* The calls of stdio clients keep the invariant.
LEMMA ClientsStep ==
    ASSUME AccessInv, LimiterTypeOK', NEW r \in Requests, NEW c \in Clients,
           NEW route \in Routes, CallCached(r, c, route) \/ Ask(r, c, route)
    PROVE  AccessInv'
<1>0. TypeOK /\ cache[c] \in [token : Token, until : Nat] /\ now \in Nat
      BY DEF AccessInv, TypeOK, LimiterTypeOK
<1>1. CASE CallCached(r, c, route)
  <2>1. cache[c].token \in Token /\ Fresh(cache[c].token)
        BY <1>0 DEF AccessInv, CachesOK
  <2>2. now + Transit < cache[c].token.exp
    <3>1. now < cache[c].until /\ cache[c].until \in Nat /\ cache[c].token.exp \in Nat
          BY <1>0, <1>1 DEF CallCached, Token
    <3>2. cache[c].until + Transit <= cache[c].token.exp
          BY <1>0, <3>1 DEF AccessInv, CachesOK
    <3> QED BY <1>0, <3>1, <3>2, AccessAssumption
  <2> QED BY <1>1, <2>1, <2>2, SendOK DEF CallCached, Origins
<1>2. CASE Ask(r, c, route)
  <2> DEFINE new == [NewCall EXCEPT !.phase = "asking", !.origin = "stdio",
                                    !.client = c, !.route = route]
  <2>1. /\ new \in Call /\ new.phase = "asking" /\ new.origin = "stdio"
        /\ new.client = c /\ new.token = NoToken
        BY NewCallOK DEF Call, Phases, Origins
  <2>2. call' = [call EXCEPT ![r] = new] /\ UNCHANGED <<limiterVars, role, lost, cache, changes>>
        BY <1>2 DEF Ask
  <2> HIDE DEF new
  <2>3. new \in Call
        BY <2>1
  <2>4. Fresh(new.token) /\ Timely(new)
        BY <1>0, <2>1, NoTokenOK DEF Timely
  <2>5. now' = now
        BY <2>2 DEF limiterVars
  <2>6. CachesOK' /\ cache' \in [Clients -> [token : Token, until : Nat]]
        BY <2>2, <2>5, CachesKept
  <2> QED BY <2>2, <2>3, <2>4, <2>5, <2>6, OneCall
<1> QED BY <1>1, <1>2

\* Answers of the token endpoint keep the invariant.
LEMMA TokensStep ==
    ASSUME AccessInv, LimiterTypeOK', NEW r \in Requests, Mint(r) \/ Receive(r)
    PROVE  AccessInv'
<1>0. /\ TypeOK /\ call[r] \in Call /\ now \in Nat
      /\ call \in [Requests -> Call]
      BY CallTyped DEF AccessInv, TypeOK, LimiterTypeOK
<1>1. CASE Mint(r)
  <2> DEFINE token == Issue(Owner[call[r].client])
             new == [call[r] EXCEPT !.phase = "minted", !.token = token, !.since = now]
  <2>1. call[r].origin = "stdio" /\ call[r].client \in Clients
        BY <1>1 DEF Mint, AccessInv, CallsOK, Timely
  <2>2. token \in Token /\ Fresh(token) /\ now + Ttl < token.exp + Second
        BY <1>0, <2>1, AccessAssumption, IssueOK
  <2>3. /\ call' = [call EXCEPT ![r] = new]
        /\ UNCHANGED <<limiterVars, role, lost, cache, changes>>
        BY <1>0, <1>1 DEF Mint
  <2> HIDE DEF token
  <2>4. /\ new \in Call /\ new.phase = "minted" /\ new.origin = "stdio"
        /\ new.client \in Clients /\ new.token = token /\ new.since = now
        BY <1>0, <2>1, <2>2 DEF Call, Phases
  <2> HIDE DEF new
  <2>5. Fresh(new.token) /\ Timely(new)
        BY <1>0, <2>2, <2>4, AccessAssumption DEF Timely
  <2>6. now' = now
        BY <2>3 DEF limiterVars
  <2>7. CachesOK' /\ cache' \in [Clients -> [token : Token, until : Nat]]
        BY <2>3, <2>6, CachesKept
  <2> QED BY <2>3, <2>4, <2>5, <2>6, <2>7, OneCall
<1>2. CASE Receive(r)
  <2> DEFINE c == call[r].client
             token == call[r].token
             new == [call[r] EXCEPT !.phase = "sent", !.since = now]
             line == [token |-> token, until |-> now + (Ttl - Margin)]
  <2>1. /\ c \in Clients /\ call[r].origin = "stdio"
        /\ now <= call[r].since + ReplyDelay
        /\ call[r].since + Ttl < token.exp + Second
        BY <1>2 DEF Receive, AccessInv, CallsOK, Timely
  <2>2. token \in Token /\ Fresh(token) /\ token.exp \in Nat /\ call[r].since \in Nat
        BY <1>0 DEF AccessInv, CallsOK, Call, Token
  <2>3. /\ call' = [call EXCEPT ![r] = new]
        /\ cache' = [cache EXCEPT ![c] = line]
        /\ UNCHANGED <<limiterVars, role, lost, changes>>
        BY <1>0, <1>2 DEF Receive
  <2>4. /\ new \in Call /\ new.phase = "sent" /\ new.origin = "stdio"
        /\ new.token = token /\ new.since = now
        BY <1>0, <2>1 DEF Call, Phases
  <2> HIDE DEF c, token, new
  <2>5. now + Transit < token.exp /\ now + (Ttl - Margin) + Transit <= token.exp
        BY <1>0, <2>1, <2>2, AccessAssumption, MarginAssumption
  <2>6. Fresh(new.token) /\ Timely(new)
        BY <1>0, <2>2, <2>4, <2>5, AccessAssumption DEF Timely
  <2>7. now' = now
        BY <2>3 DEF limiterVars
  <2>8. now + (Ttl - Margin) \in Nat
        BY <1>0, AccessAssumption, MarginAssumption
  <2>9. cache' \in [Clients -> [token : Token, until : Nat]]
        BY <1>0, <2>2, <2>3, <2>8 DEF TypeOK
  <2>10. CachesOK'
    <3>1. \A d \in Clients : cache'[d] = IF d = c THEN line ELSE cache[d]
          BY <1>0, <2>1, <2>3 DEF TypeOK
    <3> QED BY <2>2, <2>3, <2>5, <2>7, <3>1 DEF AccessInv, CachesOK, Fresh
  <2> QED BY <2>3, <2>4, <2>6, <2>7, <2>9, <2>10, OneCall
<1> QED BY <1>1, <1>2

\* Guards, limiter and answers keep the invariant.
LEMMA GuardsStep ==
    ASSUME AccessInv, LimiterTypeOK', NEW r \in Requests,
           Lose(r) \/ Refuse(r) \/ Forbid(r) \/ PassGuards(r)
              \/ Limiting(r) \/ LimiterFails(r) \/ Answer(r)
    PROVE  AccessInv'
<1>0. /\ TypeOK /\ call[r] \in Call /\ call \in [Requests -> Call] /\ now \in Nat
      /\ Fresh(call[r].token) /\ Timely(call[r])
      BY CallTyped DEF AccessInv, CallsOK, TypeOK, LimiterTypeOK
<1>1. CASE Lose(r)
      BY <1>1, EndOK DEF Lose, limiterVars, Phases
<1>2. CASE Refuse(r)
  <2>1. call[r].origin # "stdio"
    <3> SUFFICES ASSUME call[r].origin = "stdio" PROVE FALSE
        OBVIOUS
    <3>1. now <= call[r].since + Transit /\ call[r].since + Transit < call[r].token.exp
          BY <1>0, <1>2 DEF Refuse, Timely
    <3>2. call[r].since \in Nat /\ call[r].token.exp \in Nat
          BY <1>0 DEF Call, Token
    <3> QED BY <1>0, <1>2, <3>1, <3>2, AccessAssumption DEF Refuse, Valid
  <2> QED BY <1>2, <2>1, EndOK DEF Refuse, limiterVars, Phases
<1>3. CASE Forbid(r)
      BY <1>3, EndOK DEF Forbid, limiterVars, Phases
<1>4. CASE PassGuards(r)
  <2> DEFINE new == [call[r] EXCEPT !.phase = "limiting", !.since = 0]
  <2>1. new \in Call /\ new.phase = "limiting" /\ new.token = call[r].token
        BY <1>0 DEF Call, Phases
  <2>2. call' = [call EXCEPT ![r] = new] /\ now' = now /\ UNCHANGED <<role, lost, cache, changes>>
        BY <1>0, <1>4 DEF PassGuards, Arrive
  <2> HIDE DEF new
  <2>3. Fresh(new.token) /\ Timely(new)
        BY <1>0, <2>1 DEF Timely
  <2> QED BY <2>1, <2>2, <2>3, CachesKept, OneCall
<1>5. CASE Limiting(r)
  <2>1. now' = now /\ UNCHANGED accessVars
        BY <1>5 DEF Limiting, Pipeline, ErrorReplies
  <2> QED BY <2>1 DEF AccessInv, accessVars, TypeOK, CallsOK, CachesOK, Fresh, Timely
<1>6. CASE LimiterFails(r)
      BY <1>6, EndOK DEF LimiterFails, Unreachable, Phases
<1>7. CASE Answer(r)
      BY <1>7, EndOK DEF Answer, limiterVars, Phases
<1> QED BY <1>1, <1>2, <1>3, <1>4, <1>5, <1>6, <1>7

\* A change of a role keeps the invariant: a token issued to a writer expires
\* within its lifetime after the user stopped being one.
LEMMA ChangeRoleStep ==
    ASSUME AccessInv, LimiterTypeOK', NEW u \in Users, NEW new \in NewRoles, ChangeRole(u, new)
    PROVE  AccessInv'
<1>0. /\ TypeOK /\ now \in Nat /\ now' = now
      /\ UNCHANGED <<cache, call>>
      BY DEF AccessInv, TypeOK, LimiterTypeOK, ChangeRole, limiterVars
<1>1. /\ role' = [role EXCEPT ![u] = new]
      /\ lost' = [lost EXCEPT ![u] = IF role[u] \in Writers THEN now ELSE lost[u]]
      /\ changes' = changes + 1
      BY DEF ChangeRole
<1>2. TypeOK'
      BY <1>0, <1>1, AccessAssumption DEF TypeOK
<1>3. ASSUME NEW token \in Token, Fresh(token) PROVE Fresh(token)'
  <2>1. token.user \in Users
        BY DEF Token
  <2>2. CASE token.user = u
    <3>1. /\ role'[u] = new
          /\ lost'[u] = IF role[u] \in Writers THEN now ELSE lost[u]
          BY <1>0, <1>1 DEF TypeOK
    <3> QED BY <1>0, <1>3, <2>2, <3>1 DEF Fresh
  <2>3. CASE token.user # u
    <3>1. role'[token.user] = role[token.user] /\ lost'[token.user] = lost[token.user]
          BY <1>0, <1>1, <2>1, <2>3 DEF TypeOK
    <3> QED BY <1>0, <1>3, <3>1 DEF Fresh
  <2> QED BY <2>2, <2>3
<1>4. CallsOK'
  <2> SUFFICES ASSUME NEW r \in Requests PROVE Fresh(call[r].token)' /\ Timely(call[r])'
      BY <1>0 DEF CallsOK
  <2>1. call[r].token \in Token /\ Fresh(call[r].token) /\ Timely(call[r])
        BY CallTyped DEF AccessInv, CallsOK, Call
  <2>2. Fresh(call[r].token)'
        BY <1>0, <1>3, <2>1 DEF Fresh
  <2>3. Timely(call[r])'
        BY <1>0, <2>1 DEF Timely
  <2> QED BY <2>2, <2>3
<1>5. CachesOK'
  <2> SUFFICES ASSUME NEW c \in Clients
               PROVE  /\ Fresh(cache[c].token)'
                      /\ cache[c].until = 0 \/ cache[c].until + Transit <= cache[c].token.exp
      BY <1>0 DEF CachesOK
  <2>1. cache[c].token \in Token /\ Fresh(cache[c].token)
        BY DEF AccessInv, TypeOK, CachesOK
  <2>2. Fresh(cache[c].token)'
        BY <1>0, <1>3, <2>1 DEF Fresh
  <2> QED BY <2>2 DEF AccessInv, CachesOK
<1> QED BY <1>2, <1>4, <1>5 DEF AccessInv

\* The clock keeps the invariant: what is on its way is in time.
LEMMA TickStep ==
    ASSUME AccessInv, LimiterTypeOK', TickAll PROVE AccessInv'
<1>1. now' = now + 1 /\ now \in Nat /\ UNCHANGED accessVars
      BY DEF TickAll, Tick, AccessInv, TypeOK, LimiterTypeOK
<1>2. TypeOK'
      BY <1>1 DEF AccessInv, TypeOK, accessVars
<1>3. ASSUME NEW token \in Token, Fresh(token) PROVE Fresh(token)'
  <2>1. token.exp \in Nat
        BY DEF Token
  <2>2. token.exp <= now' + Ttl
        BY <1>1, <1>3, <2>1, AccessAssumption DEF Fresh
  <2> QED BY <1>1, <1>3, <2>2 DEF Fresh, accessVars
<1>4. CallsOK'
  <2> SUFFICES ASSUME NEW r \in Requests PROVE Fresh(call[r].token)' /\ Timely(call[r])'
      BY DEF CallsOK
  <2>1. call[r] \in Call /\ Fresh(call[r].token) /\ Timely(call[r]) /\ call' = call
        BY <1>1, CallTyped DEF AccessInv, CallsOK, accessVars
  <2>2. Fresh(call[r].token)'
        BY <1>1, <1>3, <2>1 DEF Fresh, Call, accessVars
  <2>3. /\ call[r].phase = "minted" => now < call[r].since + ReplyDelay
        /\ call[r].phase = "sent" /\ call[r].origin = "stdio" => now < call[r].since + Transit
        BY DEF TickAll, Delivered
  <2>4. call[r].since \in Nat
        BY <2>1 DEF Call
  <2>5. Timely(call[r])'
        BY <1>1, <2>1, <2>3, <2>4, AccessAssumption DEF Timely
  <2> QED BY <2>2, <2>5
<1>5. CachesOK'
  <2> SUFFICES ASSUME NEW c \in Clients
               PROVE  /\ Fresh(cache[c].token)'
                      /\ cache[c].until = 0 \/ cache[c].until + Transit <= cache[c].token.exp
      BY <1>1 DEF CachesOK, accessVars
  <2>1. cache[c].token \in Token /\ Fresh(cache[c].token)
        BY DEF AccessInv, TypeOK, CachesOK
  <2>2. Fresh(cache[c].token)'
        BY <1>1, <1>3, <2>1 DEF Fresh, accessVars
  <2> QED BY <2>2 DEF AccessInv, CachesOK
<1> QED BY <1>2, <1>4, <1>5 DEF AccessInv

\* Every step keeps the invariant.
LEMMA AccessInvStep == AccessInv /\ [Next]_vars => AccessInv'
<1> SUFFICES ASSUME AccessInv, [Next]_vars PROVE AccessInv'
    OBVIOUS
<1>0. LimiterTypeOK'
      BY LimiterTyped DEF AccessInv
<1>1. CASE TickAll
      BY <1>0, <1>1, TickStep
<1>2. ASSUME NEW r \in Requests, NEW route \in Routes,
             \/ \E cred \in Credentials : CallDirect(r, cred, route)
             \/ \E scheme \in Schemes :
                 \/ \E u \in Users : CallTool(r, scheme, u, route)
                 \/ \E q \in Requests : CallToolWithJwt(r, scheme, q, route)
             \/ \E q \in Requests : CallDirectAgain(r, q, route) \/ CallToolAgain(r, q, route)
      PROVE  AccessInv'
      BY <1>0, <1>2, CallersStep
<1>3. ASSUME NEW r \in Requests, NEW route \in Routes, NEW c \in Clients,
             CallCached(r, c, route) \/ Ask(r, c, route)
      PROVE  AccessInv'
      BY <1>0, <1>3, ClientsStep
<1>4. ASSUME NEW r \in Requests, Mint(r) \/ Receive(r) PROVE AccessInv'
      BY <1>0, <1>4, TokensStep
<1>5. ASSUME NEW r \in Requests,
             Lose(r) \/ Refuse(r) \/ Forbid(r) \/ PassGuards(r)
                \/ Limiting(r) \/ LimiterFails(r) \/ Answer(r)
      PROVE  AccessInv'
      BY <1>0, <1>5, GuardsStep
<1>6. ASSUME NEW u \in Users, NEW new \in NewRoles, ChangeRole(u, new) PROVE AccessInv'
      BY <1>0, <1>6, ChangeRoleStep
<1>7. CASE UNCHANGED vars
      BY <1>7 DEF vars, limiterVars, accessVars, AccessInv, TypeOK, LimiterTypeOK, CallsOK,
                  CachesOK, Fresh, Timely
<1> QED BY <1>1, <1>2, <1>3, <1>4, <1>5, <1>6, <1>7 DEF Next

-----------------------------------------------------------------------------
(* Theorems                                                                *)

\* The invariant holds in every reachable state.
LEMMA AccessInvariant == Spec => []AccessInv
BY AccessInvInit, AccessInvStep, PTL DEF Spec

\* Type correctness of callers, guards and limiter together.
THEOREM AccessTypeCorrect == Spec => []TypeOK
<1>1. AccessInv => TypeOK
      BY DEF AccessInv
<1> QED BY <1>1, AccessInvariant, PTL

\* Behind the guards the limiter behaves as RateLimit specifies it.
THEOREM LimiterImplemented == Spec => LimiterSpec
<1>1. Init => LimiterInit
      BY DEF Init
<1>2. AccessInv /\ [Next]_vars => [LimiterNext]_limiterVars
      BY StepOfLimiter DEF AccessInv
<1> QED BY <1>1, <1>2, AccessInvariant, PTL DEF Spec, LimiterSpec

\* Behind the guards, too, no window lets through more than its limit and none
\* refuses for nothing.
THEOREM LimitsHold == Spec => [](WindowBound /\ RefusalsBacked)
BY LimiterImplemented, WindowsBounded, RefusalsAreBacked, PTL

\* A stdio client's token is never refused as expired.
THEOREM ClientsAccepted == Spec => []CachedAccepted
<1>1. AccessInv => CachedAccepted
      BY DEF AccessInv, CallsOK, Timely, CachedAccepted
<1> QED BY <1>1, AccessInvariant, PTL

\* Only the guards let a call pass.
LEMMA PassingGuards ==
    ASSUME TypeOK, Next, NEW r \in Requests, Passing(r) PROVE PassGuards(r)
<1>0. call \in [Requests -> Call] /\ call[r].phase = "sent" /\ call'[r].phase = "limiting"
      BY CallTyped DEF Passing
<1>1. ASSUME NEW q \in Requests, NEW new, call' = [call EXCEPT ![q] = new],
             new.phase # "limiting"
      PROVE  FALSE
      BY <1>0, <1>1
<1>2. ASSUME NEW q \in Requests, NEW phase \in Phases, End(q, phase), phase # "limiting"
      PROVE  FALSE
  <2> DEFINE new == [NewCall EXCEPT !.phase = phase, !.origin = call[q].origin,
                        !.token = IF phase = "served" /\ call[q].origin # "stdio"
                                  THEN call[q].token ELSE NoToken]
  <2>1. new.phase = phase
        BY NewCallOK DEF Call
  <2>2. call' = [call EXCEPT ![q] = new]
        BY <1>2 DEF End
  <2> HIDE DEF new
  <2> QED BY <1>1, <1>2, <2>1, <2>2
<1>3. ASSUME NEW q \in Requests, NEW origin, NEW client, NEW route, NEW token,
             Send(q, origin, client, route, token)
      PROVE  FALSE
      BY <1>0, <1>3 DEF Send
<1>4. ASSUME NEW q \in Requests, NEW c \in Clients, NEW route \in Routes, Ask(q, c, route)
      PROVE  FALSE
  <2> DEFINE new == [NewCall EXCEPT !.phase = "asking", !.origin = "stdio",
                                    !.client = c, !.route = route]
  <2>1. new.phase = "asking"
        BY NewCallOK DEF Call
  <2>2. call' = [call EXCEPT ![q] = new]
        BY <1>4 DEF Ask
  <2> HIDE DEF new
  <2> QED BY <1>1, <2>1, <2>2
<1>5. ASSUME NEW q \in Requests, Mint(q) \/ Receive(q) PROVE FALSE
  <2>1. call[q] \in Call
        BY <1>0
  <2> QED BY <1>0, <1>5, <2>1 DEF Mint, Receive, Call
<1>6. ASSUME NEW q \in Requests,
             Lose(q) \/ Refuse(q) \/ Forbid(q) \/ LimiterFails(q) \/ Answer(q)
      PROVE  FALSE
      BY <1>2, <1>6 DEF Lose, Refuse, Forbid, LimiterFails, Answer, Phases
<1>7. ASSUME NEW q \in Requests, PassGuards(q), q # r PROVE FALSE
      BY <1>0, <1>7 DEF PassGuards
<1>8. UNCHANGED call => FALSE
      BY <1>0
<1>9. ASSUME NEW q \in Requests, NEW route \in Routes,
             \/ \E cred \in Credentials : CallDirect(q, cred, route)
             \/ \E c \in Clients : CallCached(q, c, route)
             \/ \E scheme \in Schemes :
                 \/ \E u \in Users : CallTool(q, scheme, u, route)
                 \/ \E p \in Requests : CallToolWithJwt(q, scheme, p, route)
             \/ \E p \in Requests : CallDirectAgain(q, p, route) \/ CallToolAgain(q, p, route)
      PROVE  FALSE
      BY <1>3, <1>9 DEF CallDirect, CallDirectAgain, CallCached, CallTool, CallToolWithJwt,
                        CallToolAgain
<1>10. TickAll \/ (\E q \in Requests : Limiting(q))
           \/ (\E u \in Users, new \in NewRoles : ChangeRole(u, new)) => UNCHANGED call
      BY DEF TickAll, Limiting, ChangeRole, accessVars
<1> QED BY <1>4, <1>5, <1>6, <1>7, <1>8, <1>9, <1>10 DEF Next

\* What RecentRole asks of one step.
RecentRoleStep ==
    \A r \in Requests :
        LET u == call[r].token.user IN
        Passing(r) /\ Allowed(call[r].route) = Writers
        => role[u] \in Writers \/ lost[u] + Ttl > now

\* A user who stopped being a writer writes no longer than a token lives.
THEOREM RolesRecent == Spec => RecentRole
<1>1. AccessInv /\ [Next]_vars => [RecentRoleStep]_vars
  <2> SUFFICES ASSUME AccessInv, Next, NEW r \in Requests,
                      Passing(r), Allowed(call[r].route) = Writers
               PROVE  LET u == call[r].token.user
                      IN  role[u] \in Writers \/ lost[u] + Ttl > now
      BY DEF RecentRoleStep
  <2>1. call \in [Requests -> Call] /\ now \in Nat /\ Fresh(call[r].token)
        BY CallTyped DEF AccessInv, CallsOK, TypeOK, LimiterTypeOK
  <2>2. /\ now < call[r].token.exp
        /\ call[r].token.role \in Writers
        BY PassingGuards DEF AccessInv, PassGuards, Valid
  <2>3. call[r].token \in Token /\ call[r].token.user \in Users /\ call[r].token.exp \in Nat
        BY <2>1 DEF Call, Token
  <2>4. lost[call[r].token.user] \in Nat
        BY <2>3 DEF AccessInv, TypeOK
  <2> QED BY <2>1, <2>2, <2>3, <2>4, AccessAssumption DEF Fresh
<1> QED BY <1>1, AccessInvariant, PTL DEF Spec, RecentRole, RecentRoleStep
=============================================================================
