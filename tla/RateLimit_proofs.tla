-------------------------- MODULE RateLimit_proofs --------------------------
(***************************************************************************)
(* The limiter keeps its word for every number of calls, users, limit and  *)
(* window, whatever fails: no more than Limit calls within a minute, fewer *)
(* than twice as many of one minute's in any span, late ones included, no  *)
(* 429 without Limit calls that are to blame for it.                       *)
(***************************************************************************)
EXTENDS RateLimit, FiniteSetTheorems, TLAPS

-----------------------------------------------------------------------------
(***************************************************************************)
(* Minutes.                                                                *)
(***************************************************************************)

LEMMA LeqTransitive ==
    \A a, b, c \in Nat : a <= b /\ b <= c => a <= c
  OBVIOUS

LEMMA LessThanNext ==
    \A a, b \in Nat : a <= b => b + 1 > a
  OBVIOUS

LEMMA DivNat ==
    ASSUME NEW a \in Nat, NEW n \in Nat \ {0}
    PROVE  a \div n \in Nat
  OBVIOUS

LEMMA DivMonotonic ==
    ASSUME NEW a \in Nat, NEW b \in Nat, NEW n \in Nat \ {0}, a <= b
    PROVE  a \div n <= b \div n
  OBVIOUS

LEMMA DivNext ==
    ASSUME NEW a \in Nat, NEW n \in Nat \ {0}
    PROVE  (a + n) \div n = (a \div n) + 1
  OBVIOUS

\* The Window ticks from w * Window on are those of minute w.
LEMMA TicksOfMinute ==
    ASSUME NEW w \in Nat, NEW n \in Nat \ {0}, NEW a \in (w * n) .. (w * n + n - 1)
    PROVE  a \div n = w
<1>1. w * n \in Nat /\ a \in Nat /\ a \div n \in Nat
  BY DivNat
<1>2. w * n <= a /\ a < (w + 1) * n
  BY <1>1
<1>3. (a \div n) * n <= a /\ a < ((a \div n) + 1) * n
  BY <1>1
<1>4. CASE a \div n < w
  BY <1>1, <1>2, <1>3, <1>4
<1>5. CASE a \div n > w
  BY <1>1, <1>2, <1>3, <1>5
<1> QED  BY <1>1, <1>4, <1>5

-----------------------------------------------------------------------------
(***************************************************************************)
(* The inductive invariant.                                                *)
(***************************************************************************)

\* A call past its INCR, or about to send it, is a user's; before, it is not counted,
\* and after it is, if only with a reply that was lost.  One that passes without a check has no user.
Course ==
    \A c \in Calls :
        /\ at[c] \in {"idle", "incr"} => countedAt[c] = Never
        /\ at[c] \in {"incr", "expire", "allowed", "limited"} => UserOf[c] \in Users
        /\ at[c] = "unlimited" => UserOf[c] = NoUser /\ countedAt[c] = Never
        /\ at[c] \in {"expire", "allowed", "limited"} => countedAt[c] # Never
        /\ countedAt[c] # Never => countedAt[c] <= clock
        /\ minute[c] <= clock \div Window

\* No counter goes before the minute it counts is over.
Kept == \A u \in Users, w \in Minutes : expiry[u][w] \div Window > w

\* The calls counted in time that have been let through, or will be after EXPIRE.
Granted(u, w) ==
    {c \in Counted(u, w) :
        /\ countedAt[c] \div Window = w
        /\ at[c] = "allowed" \/ (at[c] = "expire" /\ 1 <= Limit)}

\* The counter is no more than the calls counted; as long as its minute lasts it is
\* no less than those that were granted, which are at most Limit.
Counting ==
    \A u \in Users, w \in Minutes :
        /\ IsFiniteSet(Counted(u, w))
        /\ counter[u][w] <= Cardinality(Counted(u, w))
        /\ Cardinality(Granted(u, w)) <= Limit
        /\ clock \div Window <= w => Cardinality(Granted(u, w)) <= counter[u][w]

\* RefusedOnlyOverLimit, with the minute named.
Blamed ==
    \A c \in Calls, w \in Minutes :
        at[c] = "limited" /\ minute[c] = w
            => Cardinality(Counted(UserOf[c], w) \ {c}) >= Limit

\* The calls counted at t or later, late or not, that have been let through or will be
\* after EXPIRE, and those of them in the Window ticks from t on.
Since(u, w, t) ==
    {c \in Counted(u, w) :
        countedAt[c] >= t /\ (at[c] = "allowed" \/ (at[c] = "expire" /\ 1 <= Limit))}

From(u, w, t) == {c \in Since(u, w, t) : countedAt[c] < t + Window}

\* No counter: fewer than Limit have been granted as late as a span that is still to
\* come, or not over, can see.
Absent(u, w) ==
    /\ expiry[u][w] = Never
    /\ \A t \in Nat : t + Window > clock => Cardinality(Since(u, w, t)) < Limit

\* A counter created at b lasts Window ticks at least, and has granted less than it
\* counts, but for the call that created it; what went before adds less than Limit.
CreatedAt(u, w, b) ==
    /\ b + Window <= expiry[u][w]
    /\ Cardinality(Since(u, w, b + 1)) < counter[u][w]
    /\ Cardinality(Since(u, w, b + 1)) < Limit
    /\ \A t \in Nat : t + Window > b =>
          /\ Cardinality(Since(u, w, t)) < Limit + counter[u][w]
          /\ Cardinality(Since(u, w, t)) < 2 * Limit

LifeOf(u, w) ==
    /\ counter[u][w] = 0 => Absent(u, w)
    /\ counter[u][w] > 0 => \E b \in 0..clock : CreatedAt(u, w, b)
    /\ \A t \in Nat : Cardinality(From(u, w, t)) < 2 * Limit

Lives == Limit > 0 => \A u \in Users, w \in Minutes : LifeOf(u, w)

LimitInv == TypeOK /\ Course /\ Kept /\ Counting /\ Blamed /\ Lives

-----------------------------------------------------------------------------
(***************************************************************************)
(* Types.                                                                  *)
(***************************************************************************)

LEMMA Constants ==
    /\ Window \in Nat \ {0}
    /\ Horizon \in Nat
    /\ Limit \in Nat
    /\ Horizon \div Window \in Nat
    /\ Minutes \subseteq Nat
    /\ Never \in Nat
    /\ Never > Horizon
<1>1. Window \in Nat \ {0} /\ Horizon \in Nat /\ Limit \in Nat
  BY RateLimitAssumption
<1>2. Horizon \div Window \in Nat
  BY <1>1, DivNat
<1> QED  BY <1>1, <1>2 DEF Minutes, Never

\* The minute of a time within the horizon is one of those modelled.
LEMMA MinuteOf ==
    ASSUME NEW t \in 0..Horizon
    PROVE  t \div Window \in Minutes
<1>1. t \div Window \in Nat /\ t \div Window <= Horizon \div Window
  BY Constants, DivNat, DivMonotonic
<1> QED  BY <1>1, Constants DEF Minutes

LEMMA ClockMinute ==
    ASSUME clock \in 0..Horizon
    PROVE  clock \in Nat /\ clock \div Window \in Nat /\ clock \div Window \in Minutes
<1>1. clock \in Nat
  BY Constants
<1>2. clock \div Window \in Nat
  BY <1>1, Constants, DivNat
<1> QED  BY <1>1, <1>2, MinuteOf

LEMMA InitType == Init => TypeOK
<1> SUFFICES ASSUME Init PROVE TypeOK
  OBVIOUS
<1>1. 0 \in Minutes
  BY Constants DEF Minutes
<1> QED  BY <1>1, Constants DEF Init, TypeOK, Answered

LEMMA NextType == TypeOK /\ Course /\ [Next]_vars => TypeOK'
<1> SUFFICES ASSUME TypeOK, Course, [Next]_vars
             PROVE  TypeOK'
  OBVIOUS
<1> USE Constants DEF TypeOK, Goto
<1>1. ASSUME NEW c \in Calls, Bypass(c)
      PROVE  TypeOK'
  <2>1. UNCHANGED <<clock, counter, expiry, minute, countedAt>>
    BY <1>1 DEF Bypass
  <2>2. at' \in [Calls -> {"idle", "incr", "expire"} \cup Answered]
    BY <1>1 DEF Bypass, Answered
  <2> QED  BY <2>1, <2>2
<1>2. ASSUME NEW c \in Calls, ReadClock(c)
      PROVE  TypeOK'
  <2>1. clock \div Window \in Minutes
    BY MinuteOf
  <2> QED  BY <1>2, <2>1 DEF ReadClock
<1>3. ASSUME NEW c \in Calls, Increment(c)
      PROVE  TypeOK'
  <2>1. UserOf[c] \in Users /\ minute[c] \in Minutes
    BY <1>3 DEF Increment, Course
  <2>2. counter' \in [Users -> [Minutes -> Nat]]
    <3> DEFINE n == counter[UserOf[c]][minute[c]] + 1
    <3>1. n \in Nat
      <4>1. counter[UserOf[c]] \in [Minutes -> Nat]
        BY <2>1
      <4>2. counter[UserOf[c]][minute[c]] \in Nat
        BY <2>1, <4>1
      <4> QED  BY <4>2
    <3>2. counter' = [counter EXCEPT ![UserOf[c]][minute[c]] = n]
      BY <1>3 DEF Increment
    <3> HIDE DEF n
    <3> QED  BY <2>1, <3>1, <3>2
  <2>3. countedAt' \in [Calls -> 0..Never]
    BY <1>3 DEF Increment
  <2>4. at' \in [Calls -> {"idle", "incr", "expire"} \cup Answered]
    BY <1>3 DEF Increment, Verdict, Answered
  <2> QED  BY <1>3, <2>2, <2>3, <2>4 DEF Increment
<1>4. ASSUME NEW c \in Calls, SetExpiry(c)
      PROVE  TypeOK'
  <2>1. UserOf[c] \in Users /\ minute[c] \in Minutes
    BY <1>4 DEF SetExpiry, Course
  <2>2. clock + Window \in 1..Never /\ clock + Window > clock
    BY DEF Never
  <2>3. /\ expiry' \in [Users -> [Minutes -> 1..Never]]
        /\ \A u \in Users, w \in Minutes : expiry'[u][w] > clock
    BY <1>4, <2>1, <2>2 DEF SetExpiry
  <2>4. at' \in [Calls -> {"idle", "incr", "expire"} \cup Answered]
    BY <1>4 DEF SetExpiry, Verdict, Answered
  <2> QED  BY <1>4, <2>3, <2>4 DEF SetExpiry
<1>5. ASSUME NEW c \in Calls, StoreFails(c) \/ Crash(c)
      PROVE  TypeOK'
  <2>1. UNCHANGED <<clock, counter, expiry, minute, countedAt>>
    BY <1>5 DEF StoreFails, Crash
  <2>2. at' \in [Calls -> {"idle", "incr", "expire"} \cup Answered]
    BY <1>5 DEF StoreFails, Crash, Answered
  <2> QED  BY <2>1, <2>2
<1>6. ASSUME Tick
      PROVE  TypeOK'
  <2>1. clock' \in 0..Horizon /\ Never \in 1..Never /\ Never > clock'
    BY <1>6 DEF Tick
  <2>2. counter' \in [Users -> [Minutes -> Nat]]
    BY <1>6 DEF Tick
  <2>3. /\ expiry' \in [Users -> [Minutes -> 1..Never]]
        /\ \A u \in Users, w \in Minutes : expiry'[u][w] > clock'
    BY <1>6, <2>1 DEF Tick
  <2> QED  BY <1>6, <2>1, <2>2, <2>3 DEF Tick
<1>7. CASE UNCHANGED vars
  BY <1>7 DEF vars
<1> QED  BY <1>1, <1>2, <1>3, <1>4, <1>5, <1>6, <1>7 DEF Next, Check, Done

-----------------------------------------------------------------------------
(***************************************************************************)
(* The course of a call, and the life of a counter.                        *)
(***************************************************************************)

LEMMA NextCourse == TypeOK /\ Course /\ [Next]_vars => Course'
<1> SUFFICES ASSUME TypeOK, Course, [Next]_vars
             PROVE  Course'
  OBVIOUS
<1> USE Constants, RateLimitAssumption DEF TypeOK, Course, Goto
<1>1. ASSUME NEW c \in Calls,
             Bypass(c) \/ StoreFails(c) \/ Crash(c)
      PROVE  Course'
  <2>1. CASE Bypass(c)
    BY <2>1 DEF Bypass
  <2>2. CASE StoreFails(c)
    BY <2>2 DEF StoreFails
  <2>3. CASE Crash(c)
    BY <2>3 DEF Crash
  <2> QED  BY <1>1, <2>1, <2>2, <2>3
<1>2. ASSUME NEW c \in Calls, ReadClock(c)
      PROVE  Course'
  <2>1. clock \div Window \in Nat
    BY ClockMinute
  <2> QED  BY <1>2, <2>1 DEF ReadClock
<1>3. ASSUME NEW c \in Calls, Increment(c)
      PROVE  Course'
  BY <1>3 DEF Increment, Verdict
<1>4. ASSUME NEW c \in Calls, SetExpiry(c)
      PROVE  Course'
  BY <1>4 DEF SetExpiry, Verdict
<1>5. ASSUME Tick
      PROVE  Course'
  <2>1. clock \in Nat /\ clock' \in Nat /\ clock <= clock'
    BY <1>5 DEF Tick
  <2>2. clock \div Window \in Nat /\ clock' \div Window \in Nat
    BY <2>1, DivNat
  <2>3. clock \div Window <= clock' \div Window
    BY <2>1, DivMonotonic
  <2>4. ASSUME NEW c \in Calls
        PROVE  minute[c] <= clock' \div Window
    <3>1. minute[c] \in Nat /\ minute[c] <= clock \div Window
      OBVIOUS
    <3> QED  BY <2>2, <2>3, <3>1, LeqTransitive
  <2> QED  BY <1>5, <2>4 DEF Tick
<1>6. CASE UNCHANGED vars
  BY <1>6 DEF vars
<1> QED  BY <1>1, <1>2, <1>3, <1>4, <1>5, <1>6 DEF Next, Check, Done

\* A key without TTL is due after every minute.
LEMMA NeverIsLate == \A w \in Minutes : Never \div Window > w
<1>1. (Horizon + 1) + Window = Never /\ Horizon + 1 \in Nat
  BY Constants DEF Never
<1>2. Never \div Window = ((Horizon + 1) \div Window) + 1
  BY <1>1, Constants, DivNext
<1>3. Horizon \div Window <= (Horizon + 1) \div Window /\ (Horizon + 1) \div Window \in Nat
  BY Constants, DivMonotonic, DivNat
<1> QED  BY <1>2, <1>3, Constants DEF Minutes

LEMMA InitKept == Init => Kept
  BY NeverIsLate DEF Init, Kept

LEMMA NextKept == TypeOK /\ Course /\ Kept /\ [Next]_vars => Kept'
<1> SUFFICES ASSUME TypeOK, Course, Kept, [Next]_vars
             PROVE  Kept'
  OBVIOUS
<1> USE Constants DEF TypeOK, Kept
<1>1. ASSUME NEW c \in Calls, SetExpiry(c)
      PROVE  Kept'
  <2>1. UserOf[c] \in Users /\ minute[c] \in Minutes
    BY <1>1 DEF SetExpiry, Course
  <2>2. (clock + Window) \div Window > minute[c]
    <3>1. clock \in Nat /\ clock \div Window \in Nat
      BY ClockMinute
    <3>2. (clock + Window) \div Window = (clock \div Window) + 1
      BY <3>1, DivNext
    <3>3. minute[c] \in Nat /\ minute[c] <= clock \div Window
      BY <2>1 DEF Course
    <3>4. (clock \div Window) + 1 > minute[c]
      BY <3>1, <3>3, LessThanNext
    <3> QED  BY <3>2, <3>4
  <2> QED  BY <1>1, <2>1, <2>2 DEF SetExpiry
<1>2. ASSUME Tick
      PROVE  Kept'
  BY <1>2, NeverIsLate DEF Tick
<1>3. CASE UNCHANGED expiry
  BY <1>3
<1> QED  BY <1>1, <1>2, <1>3
         DEF Next, Check, Done, vars, Bypass, ReadClock, Increment, StoreFails, Crash

\* A counter that a tick drops is one of a minute that is over.
LEMMA DropsAreLate ==
    ASSUME TypeOK, Kept, Tick, NEW u \in Users, NEW w \in Minutes, clock' \div Window <= w
    PROVE  counter'[u][w] = counter[u][w]
<1> USE Constants DEF TypeOK
<1>1. clock' = clock + 1 /\ clock' \in Nat /\ expiry[u][w] \in Nat
  BY DEF Tick
<1>2. CASE expiry[u][w] <= clock'
  <2>1. expiry[u][w] \div Window <= clock' \div Window
    BY <1>1, <1>2, DivMonotonic
  <2>2. /\ expiry[u][w] \div Window \in Nat
        /\ clock' \div Window \in Nat
    BY <1>1, DivNat
  <2> QED  BY <2>1, <2>2 DEF Kept
<1>3. CASE ~(expiry[u][w] <= clock + 1)
  BY <1>3 DEF Tick
<1> QED  BY <1>1, <1>2, <1>3

-----------------------------------------------------------------------------
(***************************************************************************)
(* Counting.  Limits are kept by steps that count no call, by INCR, which  *)
(* counts one, and by the clock.                                           *)
(***************************************************************************)

LEMMA GrantedFinite ==
    ASSUME NEW u, NEW w, IsFiniteSet(Counted(u, w))
    PROVE  IsFiniteSet(Granted(u, w)) /\ Cardinality(Granted(u, w)) \in Nat
<1>1. Granted(u, w) \in SUBSET Counted(u, w)
  BY DEF Granted
<1> QED  BY <1>1, FS_Subset, FS_CardinalityType

LEMMA InitCounting == Init => Counting /\ Blamed
<1> SUFFICES ASSUME Init
             PROVE  Counting /\ Blamed
  OBVIOUS
<1>1. ASSUME NEW u, NEW w
      PROVE  Counted(u, w) = {} /\ Granted(u, w) = {}
  BY DEF Init, Counted, Granted
<1>2. IsFiniteSet({}) /\ Cardinality({}) = 0
  BY FS_EmptySet
<1>3. ASSUME NEW u \in Users, NEW w \in Minutes
      PROVE  /\ IsFiniteSet(Counted(u, w))
             /\ counter[u][w] <= Cardinality(Counted(u, w))
             /\ Cardinality(Granted(u, w)) <= Limit
             /\ Cardinality(Granted(u, w)) <= counter[u][w]
  <2>1. counter[u][w] = 0
    BY DEF Init
  <2>2. 0 <= Limit
    BY Constants
  <2> QED  BY <1>1, <1>2, <2>1, <2>2
<1>4. Counting
  BY <1>3 DEF Counting
<1> QED  BY <1>4 DEF Init, Blamed

\* A step after which the same calls are counted, the counters stand as they did and
\* no call is let through or refused but by EXPIRE.
LEMMA QuietCounting ==
    ASSUME TypeOK, Course, Counting, Blamed,
           UNCHANGED <<clock, counter, countedAt>>,
           \A d \in Calls : at[d] = "idle" \/ minute'[d] = minute[d],
           \A d \in Calls : \/ at'[d] = at[d]
                            \/ at'[d] \in {"incr", "unlimited", "passed", "crashed"}
                            \/ at[d] = "expire" /\ at'[d] = Verdict(1)
    PROVE  Counting' /\ Blamed'
<1>1. ASSUME NEW u, NEW w
      PROVE  Counted(u, w)' = Counted(u, w)
  BY <1>1 DEF Counted, Course
<1>2. ASSUME NEW u, NEW w
      PROVE  Granted(u, w)' \subseteq Granted(u, w)
  <2> SUFFICES ASSUME NEW c \in Granted(u, w)'
               PROVE  c \in Granted(u, w)
    OBVIOUS
  <2>1. /\ c \in Counted(u, w)'
        /\ (countedAt[c] \div Window = w)'
        /\ at'[c] = "allowed" \/ (at'[c] = "expire" /\ 1 <= Limit)
    BY DEF Granted
  <2>2. c \in Calls /\ c \in Counted(u, w) /\ countedAt[c] \div Window = w
    BY <1>1, <2>1 DEF Counted
  <2>3. at[c] = "allowed" \/ (at[c] = "expire" /\ 1 <= Limit)
    BY <2>1, <2>2 DEF Verdict
  <2> QED  BY <2>2, <2>3 DEF Granted
<1>3. Counting'
  <2> SUFFICES ASSUME NEW u \in Users, NEW w \in Minutes
               PROVE  /\ IsFiniteSet(Counted(u, w))'
                      /\ (counter[u][w] <= Cardinality(Counted(u, w)))'
                      /\ (Cardinality(Granted(u, w)) <= Limit)'
                      /\ (clock \div Window <= w => Cardinality(Granted(u, w)) <= counter[u][w])'
    BY DEF Counting
  <2>1. /\ IsFiniteSet(Counted(u, w))
        /\ counter[u][w] <= Cardinality(Counted(u, w))
        /\ Cardinality(Granted(u, w)) <= Limit
        /\ clock \div Window <= w => Cardinality(Granted(u, w)) <= counter[u][w]
    BY DEF Counting
  <2>2. IsFiniteSet(Granted(u, w)) /\ Cardinality(Granted(u, w)) \in Nat
    BY <2>1, GrantedFinite
  <2>3. /\ Cardinality(Granted(u, w)') \in Nat
        /\ Cardinality(Granted(u, w)') <= Cardinality(Granted(u, w))
    BY <1>2, <2>2, FS_Subset, FS_CardinalityType
  <2>4. counter[u][w] \in Nat
    BY DEF TypeOK
  <2>5. IsFiniteSet(Counted(u, w)') /\ counter'[u][w] <= Cardinality(Counted(u, w)')
    BY <1>1, <2>1
  <2>6. Cardinality(Granted(u, w)') <= Limit
    BY <2>1, <2>2, <2>3, Constants, LeqTransitive
  <2>7. ASSUME clock \div Window <= w
        PROVE  Cardinality(Granted(u, w)') <= counter'[u][w]
    BY <2>1, <2>2, <2>3, <2>4, <2>7, LeqTransitive
  <2> QED  BY <2>5, <2>6, <2>7
<1>4. Blamed'
  <2> SUFFICES ASSUME NEW c \in Calls, NEW w \in Minutes, at'[c] = "limited", minute'[c] = w
               PROVE  Cardinality(Counted(UserOf[c], w)' \ {c}) >= Limit
    BY DEF Blamed
  <2>1. at[c] = "limited" \/ (at[c] = "expire" /\ Verdict(1) = "limited")
    OBVIOUS
  <2>2. minute[c] = w
    BY <2>1
  <2>3. CASE at[c] = "limited"
    BY <1>1, <2>2, <2>3 DEF Blamed
  <2>4. CASE at[c] = "expire" /\ Verdict(1) = "limited"
    <3>1. Limit = 0
      BY <2>4, Constants DEF Verdict
    <3>2. UserOf[c] \in Users
      BY <2>4 DEF Course
    <3>3. IsFiniteSet(Counted(UserOf[c], w))
      BY <3>2 DEF Counting
    <3>4. Cardinality(Counted(UserOf[c], w) \ {c}) \in Nat
      BY <3>3, FS_RemoveElement, FS_CardinalityType
    <3>5. Counted(UserOf[c], w)' = Counted(UserOf[c], w)
      BY <1>1
    <3> QED  BY <3>1, <3>4, <3>5
  <2> QED  BY <2>1, <2>3, <2>4
<1> QED  BY <1>3, <1>4

\* INCR counts one call more for the user and the minute it names, and none for
\* any other.
LEMMA IncrementCounts ==
    ASSUME TypeOK, Course, NEW c \in Calls, Increment(c), NEW u, NEW w
    PROVE  /\ c \notin Counted(u, w)
           /\ u = UserOf[c] /\ w = minute[c] => Counted(u, w)' = Counted(u, w) \cup {c}
           /\ u # UserOf[c] \/ w # minute[c] => Counted(u, w)' = Counted(u, w)
<1>1. clock # Never
  <2>1. clock \in 0..Horizon /\ Horizon \in Nat /\ Never \in Nat /\ Never > Horizon
    BY Constants DEF TypeOK
  <2>2. clock \in Nat /\ clock <= Horizon
    BY <2>1
  <2> QED  BY <2>1, <2>2
<1>2. countedAt[c] = Never
  BY DEF Increment, Course
<1>3. /\ countedAt'[c] # Never
      /\ \A d \in Calls : d # c => countedAt'[d] = countedAt[d]
      /\ minute' = minute
  <2>1. countedAt' = [countedAt EXCEPT ![c] = clock] /\ minute' = minute
    BY DEF Increment
  <2>2. countedAt \in [Calls -> 0..Never]
    BY DEF TypeOK
  <2> QED  BY <1>1, <2>1, <2>2
<1> QED  BY <1>2, <1>3 DEF Counted

\* The call is let through, if at all, by the counter it has read.
LEMMA IncrementGrants ==
    ASSUME TypeOK, Course, NEW c \in Calls, Increment(c), NEW u \in Users, NEW w \in Minutes
    PROVE  /\ u = UserOf[c] /\ w = minute[c] /\ counter[u][w] + 1 <= Limit
                 => Granted(u, w)' \subseteq Granted(u, w) \cup {c}
           /\ u # UserOf[c] \/ w # minute[c] \/ ~(counter[u][w] + 1 <= Limit)
                 => Granted(u, w)' \subseteq Granted(u, w)
<1>1. ASSUME NEW d \in Granted(u, w)', d # c
      PROVE  d \in Granted(u, w)
  <2>1. /\ d \in Counted(u, w)'
        /\ (countedAt[d] \div Window = w)'
        /\ at'[d] = "allowed" \/ (at'[d] = "expire" /\ 1 <= Limit)
    BY <1>1 DEF Granted
  <2>2. d \in Calls /\ d \in Counted(u, w)
    BY <1>1, <2>1, IncrementCounts DEF Counted
  <2>3. countedAt'[d] = countedAt[d] /\ at'[d] = at[d]
    BY <1>1, <2>2 DEF Increment, Goto, TypeOK
  <2> QED  BY <2>1, <2>2, <2>3 DEF Granted
<1>2. ASSUME c \in Granted(u, w)'
      PROVE  u = UserOf[c] /\ w = minute[c] /\ counter[u][w] + 1 <= Limit
  <2>1. /\ c \in Counted(u, w)'
        /\ at'[c] = "allowed" \/ (at'[c] = "expire" /\ 1 <= Limit)
    BY <1>2 DEF Granted
  <2>2. u = UserOf[c] /\ w = minute[c]
    BY <2>1, IncrementCounts
  <2>3. counter[u][w] + 1 <= Limit
    BY <2>1, <2>2 DEF Increment, Goto, TypeOK, Verdict
  <2> QED  BY <2>2, <2>3
<1> QED  BY <1>1, <1>2

LEMMA IncrementCounting ==
    ASSUME TypeOK, Course, Counting, Blamed, NEW c \in Calls, Increment(c)
    PROVE  Counting' /\ Blamed'
<1>1. UserOf[c] \in Users /\ minute[c] \in Minutes
  BY DEF Increment, Course, TypeOK
<1>2. ASSUME NEW u \in Users, NEW w \in Minutes
      PROVE  counter[u][w] \in Nat
  BY DEF TypeOK
<1>3. /\ clock' = clock
      /\ counter'[UserOf[c]][minute[c]] = counter[UserOf[c]][minute[c]] + 1
      /\ \A u \in Users, w \in Minutes :
            u # UserOf[c] \/ w # minute[c] => counter'[u][w] = counter[u][w]
  BY <1>1 DEF Increment, TypeOK
<1>4. ASSUME NEW u \in Users, NEW w \in Minutes
      PROVE  /\ IsFiniteSet(Counted(u, w)')
             /\ Cardinality(Counted(u, w)) \in Nat
             /\ Cardinality(Counted(u, w)') \in Nat
             /\ Cardinality(Counted(u, w)) <= Cardinality(Counted(u, w)')
             /\ u = UserOf[c] /\ w = minute[c]
                   => Cardinality(Counted(u, w)') = Cardinality(Counted(u, w)) + 1
  <2>1. IsFiniteSet(Counted(u, w)) /\ Cardinality(Counted(u, w)) \in Nat
    BY FS_CardinalityType DEF Counting
  <2>2. CASE u = UserOf[c] /\ w = minute[c]
    <3>1. c \notin Counted(u, w) /\ Counted(u, w)' = Counted(u, w) \cup {c}
      BY <2>2, IncrementCounts
    <3>2. /\ IsFiniteSet(Counted(u, w) \cup {c})
          /\ Cardinality(Counted(u, w) \cup {c}) = Cardinality(Counted(u, w)) + 1
      BY <2>1, <3>1, FS_AddElement
    <3> QED  BY <2>1, <3>1, <3>2
  <2>3. CASE u # UserOf[c] \/ w # minute[c]
    <3>1. Counted(u, w)' = Counted(u, w)
      BY <2>3, IncrementCounts
    <3> QED  BY <2>1, <2>3, <3>1
  <2> QED  BY <2>2, <2>3
<1>5. Counting'
  <2> SUFFICES ASSUME NEW u \in Users, NEW w \in Minutes
               PROVE  /\ IsFiniteSet(Counted(u, w))'
                      /\ (counter[u][w] <= Cardinality(Counted(u, w)))'
                      /\ (Cardinality(Granted(u, w)) <= Limit)'
                      /\ (clock \div Window <= w => Cardinality(Granted(u, w)) <= counter[u][w])'
    BY DEF Counting
  <2>1. /\ IsFiniteSet(Counted(u, w))
        /\ counter[u][w] <= Cardinality(Counted(u, w))
        /\ Cardinality(Granted(u, w)) <= Limit
        /\ clock \div Window <= w => Cardinality(Granted(u, w)) <= counter[u][w]
    BY DEF Counting
  <2>2. IsFiniteSet(Granted(u, w)) /\ Cardinality(Granted(u, w)) \in Nat
    BY <2>1, GrantedFinite
  <2>3. counter'[u][w] <= Cardinality(Counted(u, w)')
    BY <1>2, <1>3, <1>4, <2>1
  <2>4. /\ counter[u][w] \in Nat /\ counter'[u][w] \in Nat
        /\ counter[u][w] <= counter'[u][w]
    BY <1>2, <1>3
  <2>5. CASE u = UserOf[c] /\ w = minute[c] /\ counter[u][w] + 1 <= Limit
    \* The minute named is over, or the counter has seen every call granted.
    <3>1. /\ Cardinality(Granted(u, w)') \in Nat
          /\ Cardinality(Granted(u, w)') <= Cardinality(Granted(u, w)) + 1
      <4>1. Granted(u, w)' \subseteq Granted(u, w) \cup {c}
        BY <2>5, IncrementGrants
      <4>2. /\ IsFiniteSet(Granted(u, w) \cup {c})
            /\ Cardinality(Granted(u, w) \cup {c}) <= Cardinality(Granted(u, w)) + 1
        <5>1. /\ IsFiniteSet(Granted(u, w) \cup {c})
              /\ \/ Cardinality(Granted(u, w) \cup {c}) = Cardinality(Granted(u, w))
                 \/ Cardinality(Granted(u, w) \cup {c}) = Cardinality(Granted(u, w)) + 1
          BY <2>2, FS_AddElement
        <5> QED  BY <2>2, <5>1
      <4> QED  BY <2>2, <4>1, <4>2, FS_Subset, FS_CardinalityType
    <3>2. CASE clock \div Window <= w
      <4>1. Cardinality(Granted(u, w)) <= counter[u][w]
        BY <2>1, <3>2
      <4>2. /\ Cardinality(Granted(u, w)') <= counter[u][w] + 1
            /\ Cardinality(Granted(u, w)') <= Limit
        <5> HIDE DEF Granted
        <5> QED  BY <2>2, <2>4, <2>5, <3>1, <4>1, Constants
      <4>3. counter'[u][w] = counter[u][w] + 1
        BY <1>3, <2>5
      <4> QED  BY <1>4, <2>3, <4>2, <4>3
    <3>3. CASE ~(clock \div Window <= w)
      <4>1. Granted(u, w)' \subseteq Granted(u, w)
        <5>1. countedAt'[c] = clock
          BY DEF Increment, TypeOK
        <5>2. clock \div Window # w
          <6>1. clock \div Window \in Nat /\ w \in Nat
            BY ClockMinute, Constants DEF TypeOK
          <6> QED  BY <3>3, <6>1
        <5>3. c \notin Granted(u, w)'
          BY <5>1, <5>2 DEF Granted
        <5>4. Granted(u, w)' \subseteq Granted(u, w) \cup {c}
          BY <2>5, IncrementGrants
        <5> QED  BY <5>3, <5>4
      <4>2. /\ Cardinality(Granted(u, w)') \in Nat
            /\ Cardinality(Granted(u, w)') <= Cardinality(Granted(u, w))
        BY <2>2, <4>1, FS_Subset, FS_CardinalityType
      <4>3. Cardinality(Granted(u, w)') <= Limit
        BY <2>1, <2>2, <4>2, Constants, LeqTransitive
      <4> QED  BY <1>3, <1>4, <2>3, <3>3, <4>3
    <3> QED  BY <3>2, <3>3
  <2>6. CASE u # UserOf[c] \/ w # minute[c] \/ ~(counter[u][w] + 1 <= Limit)
    <3>1. Granted(u, w)' \subseteq Granted(u, w)
      BY <2>6, IncrementGrants
    <3>2. /\ Cardinality(Granted(u, w)') \in Nat
          /\ Cardinality(Granted(u, w)') <= Cardinality(Granted(u, w))
      BY <2>2, <3>1, FS_Subset, FS_CardinalityType
    <3>3. Cardinality(Granted(u, w)') <= Limit
      BY <2>1, <2>2, <3>2, Constants, LeqTransitive
    <3>4. ASSUME clock \div Window <= w
          PROVE  Cardinality(Granted(u, w)') <= counter'[u][w]
      <4>1. Cardinality(Granted(u, w)) <= counter[u][w]
        BY <2>1, <3>4
      <4> QED  BY <2>2, <2>4, <3>2, <4>1, LeqTransitive
    <3> QED  BY <1>3, <1>4, <2>3, <3>3, <3>4
  <2> QED  BY <2>5, <2>6
<1>6. Blamed'
  <2> SUFFICES ASSUME NEW d \in Calls, NEW w \in Minutes, at'[d] = "limited", minute'[d] = w
               PROVE  Cardinality(Counted(UserOf[d], w)' \ {d}) >= Limit
    BY DEF Blamed
  <2>1. minute[d] = w
    BY DEF Increment
  <2>2. CASE d = c
    \* The counter was at its limit, and counts others.
    <3>1. counter[UserOf[c]][w] + 1 > Limit
      <4>1. at'[c] = "limited"
        BY <2>2
      <4>2. ~(counter[UserOf[c]][minute[c]] + 1 <= Limit)
        <5> DEFINE n == counter[UserOf[c]][minute[c]] + 1
        <5>1. at'[c] \in {"expire", Verdict(n), "passed"}
          BY DEF Increment, Goto, TypeOK
        <5> HIDE DEF n
        <5> QED  BY <4>1, <5>1 DEF Verdict, n
      <4>3. counter[UserOf[c]][minute[c]] \in Nat
        BY <1>1, <1>2
      <4> QED  BY <2>1, <2>2, <4>2, <4>3, Constants
    <3>2. Counted(UserOf[c], w)' \ {c} = Counted(UserOf[c], w)
      <4>1. /\ c \notin Counted(UserOf[c], w)
            /\ Counted(UserOf[c], w)' = Counted(UserOf[c], w) \cup {c}
        BY <2>1, <2>2, IncrementCounts
      <4> QED  BY <4>1
    <3>3. counter[UserOf[c]][w] <= Cardinality(Counted(UserOf[c], w))
      BY <1>1 DEF Counting
    <3>4. counter[UserOf[c]][w] \in Nat /\ Cardinality(Counted(UserOf[c], w)) \in Nat
      BY <1>1, <1>2, <1>4
    <3>5. Cardinality(Counted(UserOf[c], w)) >= Limit
      BY <3>1, <3>3, <3>4, Constants
    <3> QED  BY <2>2, <3>2, <3>5
  <2>3. CASE d # c
    <3>1. at[d] = "limited"
      BY <2>3 DEF Increment, Goto, TypeOK
    <3>2. UserOf[d] \in Users
      BY <3>1 DEF Course
    <3>3. Cardinality(Counted(UserOf[d], w) \ {d}) >= Limit
      BY <2>1, <3>1 DEF Blamed
    <3>4. Counted(UserOf[d], w) \ {d} \subseteq Counted(UserOf[d], w)' \ {d}
      BY IncrementCounts
    <3>5. /\ IsFiniteSet(Counted(UserOf[d], w)' \ {d})
          /\ IsFiniteSet(Counted(UserOf[d], w) \ {d})
      BY <1>4, <3>2, <3>4, FS_RemoveElement, FS_Subset
    <3>6. /\ Cardinality(Counted(UserOf[d], w) \ {d}) \in Nat
          /\ Cardinality(Counted(UserOf[d], w)' \ {d}) \in Nat
          /\ Cardinality(Counted(UserOf[d], w) \ {d})
                <= Cardinality(Counted(UserOf[d], w)' \ {d})
      BY <3>4, <3>5, FS_Subset, FS_CardinalityType
    <3> QED  BY <3>3, <3>6, Constants, LeqTransitive
  <2> QED  BY <2>2, <2>3
<1> QED  BY <1>5, <1>6

LEMMA TickCounting ==
    ASSUME TypeOK, Kept, Counting, Blamed, Tick
    PROVE  Counting' /\ Blamed'
<1>1. at' = at /\ minute' = minute /\ countedAt' = countedAt
  BY DEF Tick
<1>2. ASSUME NEW u, NEW w
      PROVE  Counted(u, w)' = Counted(u, w) /\ Granted(u, w)' = Granted(u, w)
  BY <1>1 DEF Counted, Granted
<1>3. Blamed'
  BY <1>1, <1>2 DEF Blamed
<1>4. Counting'
  <2> SUFFICES ASSUME NEW u \in Users, NEW w \in Minutes
               PROVE  /\ IsFiniteSet(Counted(u, w))'
                      /\ (counter[u][w] <= Cardinality(Counted(u, w)))'
                      /\ (Cardinality(Granted(u, w)) <= Limit)'
                      /\ (clock \div Window <= w => Cardinality(Granted(u, w)) <= counter[u][w])'
    BY DEF Counting
  <2>1. /\ IsFiniteSet(Counted(u, w))
        /\ counter[u][w] <= Cardinality(Counted(u, w))
        /\ Cardinality(Granted(u, w)) <= Limit
        /\ clock \div Window <= w => Cardinality(Granted(u, w)) <= counter[u][w]
    BY DEF Counting
  <2>2. counter[u][w] \in Nat /\ Cardinality(Counted(u, w)) \in Nat
    BY <2>1, FS_CardinalityType DEF TypeOK
  <2>3. counter'[u][w] \in {0, counter[u][w]}
    BY DEF Tick
  <2>4. counter'[u][w] <= Cardinality(Counted(u, w)')
    BY <1>2, <2>1, <2>2, <2>3
  <2>5. ASSUME clock' \div Window <= w
        PROVE  Cardinality(Granted(u, w)') <= counter'[u][w]
    <3>1. counter'[u][w] = counter[u][w]
      BY <2>5, DropsAreLate
    <3>2. clock \div Window <= w
      <4>1. clock \in Nat /\ clock' \in Nat /\ clock <= clock' /\ w \in Nat
        BY Constants DEF Tick, TypeOK
      <4>2. clock \div Window \in Nat /\ clock' \div Window \in Nat
        BY <4>1, Constants, DivNat
      <4>3. clock \div Window <= clock' \div Window
        BY <4>1, Constants, DivMonotonic
      <4> QED  BY <2>5, <4>1, <4>2, <4>3, LeqTransitive
    <3> QED  BY <1>2, <2>1, <3>1, <3>2
  <2> QED  BY <1>2, <2>1, <2>4, <2>5
<1> QED  BY <1>3, <1>4

-----------------------------------------------------------------------------
(***************************************************************************)
(* The lives of a counter.  A span of Window ticks meets at most two, and  *)
(* misses the call that created the first of them.                         *)
(***************************************************************************)

LEMMA Fewer ==
    ASSUME NEW S, NEW T, IsFiniteSet(T), S \subseteq T
    PROVE  /\ Cardinality(S) \in Nat
           /\ Cardinality(T) \in Nat
           /\ Cardinality(S) <= Cardinality(T)
  BY FS_Subset, FS_CardinalityType

LEMMA OneMore ==
    ASSUME NEW S, NEW T, NEW c, IsFiniteSet(T), S \subseteq T \cup {c}
    PROVE  /\ Cardinality(S) \in Nat
           /\ Cardinality(T) \in Nat
           /\ Cardinality(S) <= Cardinality(T) + 1
<1>1. Cardinality(T) \in Nat
  BY FS_CardinalityType
<1>2. /\ IsFiniteSet(T \cup {c})
      /\ \/ Cardinality(T \cup {c}) = Cardinality(T)
         \/ Cardinality(T \cup {c}) = Cardinality(T) + 1
  BY FS_AddElement
<1>3. Cardinality(S) \in Nat /\ Cardinality(S) <= Cardinality(T \cup {c})
  BY <1>2, Fewer
<1> QED  BY <1>1, <1>2, <1>3

LEMMA SinceFinite ==
    ASSUME Counting, NEW u \in Users, NEW w \in Minutes, NEW t
    PROVE  IsFiniteSet(Since(u, w, t)) /\ IsFiniteSet(From(u, w, t))
<1>1. IsFiniteSet(Counted(u, w))
  BY DEF Counting
<1>2. Since(u, w, t) \in SUBSET Counted(u, w) /\ From(u, w, t) \in SUBSET Counted(u, w)
  BY DEF Since, From
<1> QED  BY <1>1, <1>2, FS_Subset

\* Later is less.
LEMMA SinceShrinks ==
    ASSUME TypeOK, NEW u, NEW w, NEW t \in Nat, NEW b \in Nat, b <= t
    PROVE  Since(u, w, t) \subseteq Since(u, w, b)
<1> SUFFICES ASSUME NEW c \in Since(u, w, t)
             PROVE  c \in Since(u, w, b)
  OBVIOUS
<1>1. c \in Calls /\ countedAt[c] >= t
  BY DEF Since, Counted
<1>2. countedAt[c] \in Nat
  BY <1>1, Constants DEF TypeOK
<1>3. countedAt[c] >= b
  BY <1>1, <1>2
<1> QED  BY <1>3 DEF Since

\* A step that grants no call: those that are granted after it were so before.
LEMMA QuietSince ==
    ASSUME Course,
           countedAt' = countedAt,
           \A d \in Calls : at[d] = "idle" \/ minute'[d] = minute[d],
           \A d \in Calls : \/ at'[d] = at[d]
                            \/ at'[d] \in {"incr", "unlimited", "passed", "crashed"}
                            \/ at[d] = "expire" /\ at'[d] = Verdict(1),
           NEW u, NEW w, NEW t
    PROVE  /\ Since(u, w, t)' \subseteq Since(u, w, t)
           /\ From(u, w, t)' \subseteq From(u, w, t)
<1>1. ASSUME NEW c \in Since(u, w, t)'
      PROVE  c \in Since(u, w, t)
  <2>1. /\ c \in Calls /\ c \in Counted(u, w)
        /\ countedAt[c] >= t
        /\ at'[c] = "allowed" \/ (at'[c] = "expire" /\ 1 <= Limit)
    BY DEF Since, Counted, Course
  <2>2. at[c] = "allowed" \/ (at[c] = "expire" /\ 1 <= Limit)
    BY <2>1 DEF Verdict
  <2> QED  BY <2>1, <2>2 DEF Since
<1> QED  BY <1>1 DEF From

\* A counter that a step leaves as it is lives on, and one that is absent stays so.
LEMMA LifeGoesOn ==
    ASSUME TypeOK, Counting, Limit > 0,
           NEW u \in Users, NEW w \in Minutes, LifeOf(u, w),
           clock' \in Nat, clock <= clock',
           counter'[u][w] = counter[u][w],
           \/ expiry'[u][w] = expiry[u][w]
           \/ counter[u][w] # 0 /\ expiry'[u][w] = clock + Window,
           \A t \in Nat : /\ Since(u, w, t)' \subseteq Since(u, w, t)
                          /\ From(u, w, t)' \subseteq From(u, w, t)
    PROVE  LifeOf(u, w)'
<1>1. clock \in Nat /\ counter[u][w] \in Nat /\ expiry[u][w] \in Nat
  BY Constants DEF TypeOK
<1>2. ASSUME NEW t \in Nat
      PROVE  /\ Cardinality(Since(u, w, t)) \in Nat
             /\ Cardinality(Since(u, w, t)') \in Nat
             /\ Cardinality(Since(u, w, t)') <= Cardinality(Since(u, w, t))
             /\ Cardinality(From(u, w, t)) \in Nat
             /\ Cardinality(From(u, w, t)') \in Nat
             /\ Cardinality(From(u, w, t)') <= Cardinality(From(u, w, t))
  BY SinceFinite, Fewer
<1>3. ASSUME counter'[u][w] = 0
      PROVE  Absent(u, w)'
  <2>1. Absent(u, w) /\ expiry'[u][w] = expiry[u][w]
    BY <1>3 DEF LifeOf
  <2>2. ASSUME NEW t \in Nat, t + Window > clock'
        PROVE  Cardinality(Since(u, w, t)') < Limit
    <3>1. t + Window > clock
      BY <1>1, <2>2, Constants
    <3>2. Cardinality(Since(u, w, t)) < Limit
      BY <2>1, <3>1 DEF Absent
    <3> QED  BY <1>2, <3>2, Constants
  <2> QED  BY <2>1, <2>2 DEF Absent, Never
<1>4. ASSUME counter'[u][w] > 0
      PROVE  \E b \in 0..clock' : CreatedAt(u, w, b)'
  <2>1. PICK b \in 0..clock : CreatedAt(u, w, b)
    BY <1>4 DEF LifeOf
  <2>2. b \in 0..clock' /\ b \in Nat /\ b + 1 \in Nat
    BY <1>1
  <2>3. b + Window <= expiry'[u][w]
    BY <1>1, <2>1, Constants DEF CreatedAt
  <2>4. /\ Cardinality(Since(u, w, b + 1)') < counter'[u][w]
        /\ Cardinality(Since(u, w, b + 1)') < Limit
    <3>1. /\ Cardinality(Since(u, w, b + 1)) < counter[u][w]
          /\ Cardinality(Since(u, w, b + 1)) < Limit
      BY <2>1 DEF CreatedAt
    <3> QED  BY <1>1, <1>2, <2>2, <3>1, Constants
  <2>5. ASSUME NEW t \in Nat, t + Window > b
        PROVE  /\ Cardinality(Since(u, w, t)') < Limit + counter'[u][w]
               /\ Cardinality(Since(u, w, t)') < 2 * Limit
    <3>1. /\ Cardinality(Since(u, w, t)) < Limit + counter[u][w]
          /\ Cardinality(Since(u, w, t)) < 2 * Limit
      BY <2>1, <2>5 DEF CreatedAt
    <3> QED  BY <1>1, <1>2, <3>1, Constants
  <2>6. CreatedAt(u, w, b)'
    BY <2>3, <2>4, <2>5 DEF CreatedAt
  <2> QED  BY <2>2, <2>6
<1>5. ASSUME NEW t \in Nat
      PROVE  Cardinality(From(u, w, t)') < 2 * Limit
  <2>1. Cardinality(From(u, w, t)) < 2 * Limit
    BY DEF LifeOf
  <2> QED  BY <1>2, <2>1, Constants
<1> QED  BY <1>3, <1>4, <1>5 DEF LifeOf

\* A counter that is due has lasted Window ticks: a span that goes on after it does not
\* reach back to the call that created it.
LEMMA LifeEnds ==
    ASSUME TypeOK, Counting, Limit > 0,
           NEW u \in Users, NEW w \in Minutes, LifeOf(u, w),
           Tick, expiry[u][w] <= clock'
    PROVE  LifeOf(u, w)'
<1>1. /\ clock \in Nat /\ clock' = clock + 1 /\ clock' <= Horizon
      /\ counter[u][w] \in Nat /\ expiry[u][w] \in Nat
  BY Constants DEF TypeOK, Tick
<1>2. /\ counter'[u][w] = 0
      /\ expiry'[u][w] = Never
      /\ \A t : Since(u, w, t)' = Since(u, w, t) /\ From(u, w, t)' = From(u, w, t)
  BY <1>1 DEF Tick, Since, From, Counted
<1>3. counter[u][w] > 0
  <2>1. expiry[u][w] # Never
    BY <1>1, Constants
  <2> QED  BY <1>1, <2>1 DEF LifeOf, Absent
<1>4. PICK b \in 0..clock : CreatedAt(u, w, b)
  BY <1>3 DEF LifeOf
<1>5. b \in Nat /\ b + 1 \in Nat /\ b + Window <= clock'
  BY <1>1, <1>4, Constants DEF CreatedAt
<1>6. ASSUME NEW t \in Nat, t + Window > clock'
      PROVE  Cardinality(Since(u, w, t)') < Limit
  <2>1. b + 1 <= t
    BY <1>1, <1>5, <1>6, Constants
  <2>2. Since(u, w, t) \subseteq Since(u, w, b + 1)
    BY <1>5, <2>1, SinceShrinks
  <2>3. /\ Cardinality(Since(u, w, t)) \in Nat
        /\ Cardinality(Since(u, w, b + 1)) \in Nat
        /\ Cardinality(Since(u, w, t)) <= Cardinality(Since(u, w, b + 1))
    BY <2>2, SinceFinite, Fewer
  <2>4. Cardinality(Since(u, w, b + 1)) < Limit
    BY <1>4 DEF CreatedAt
  <2>5. Cardinality(Since(u, w, t)) < Limit
    BY <2>3, <2>4, Constants
  <2> QED  BY <1>2, <2>5
<1>7. Absent(u, w)'
  BY <1>2, <1>6 DEF Absent, Never
<1>8. \A t \in Nat : Cardinality(From(u, w, t)') < 2 * Limit
  BY <1>2 DEF LifeOf
<1> QED  BY <1>2, <1>7, <1>8 DEF LifeOf

\* INCR lets one call more through, if at all, and only by a counter within the limit.
LEMMA IncrementSince ==
    ASSUME TypeOK, Course, NEW c \in Calls, Increment(c),
           NEW u \in Users, NEW w \in Minutes, NEW t \in Nat
    PROVE  /\ Since(u, w, t)' \subseteq Since(u, w, t) \cup {c}
           /\ u # UserOf[c] \/ w # minute[c] \/ ~(counter[u][w] + 1 <= Limit) \/ clock < t
                 => Since(u, w, t)' \subseteq Since(u, w, t)
           /\ From(u, w, t)' \subseteq From(u, w, t) \cup {c}
           /\ clock >= t + Window => From(u, w, t)' \subseteq From(u, w, t)
           /\ Since(u, w, t)' \subseteq Since(u, w, t) => From(u, w, t)' \subseteq From(u, w, t)
<1>0. /\ clock \in Nat /\ countedAt'[c] = clock
      /\ \A d \in Calls : d # c => countedAt'[d] = countedAt[d] /\ at'[d] = at[d]
  BY Constants DEF Increment, Goto, TypeOK
<1>1. ASSUME NEW d \in Since(u, w, t)', d # c
      PROVE  d \in Since(u, w, t)
  <2>1. /\ d \in Counted(u, w)'
        /\ countedAt'[d] >= t
        /\ at'[d] = "allowed" \/ (at'[d] = "expire" /\ 1 <= Limit)
    BY DEF Since
  <2>2. d \in Calls /\ d \in Counted(u, w)
    BY <1>1, <2>1, IncrementCounts DEF Counted
  <2> QED  BY <1>0, <1>1, <2>1, <2>2 DEF Since
<1>2. ASSUME c \in Since(u, w, t)'
      PROVE  u = UserOf[c] /\ w = minute[c] /\ counter[u][w] + 1 <= Limit /\ clock >= t
  <2>1. /\ c \in Counted(u, w)'
        /\ countedAt'[c] >= t
        /\ at'[c] = "allowed" \/ (at'[c] = "expire" /\ 1 <= Limit)
    BY <1>2 DEF Since
  <2>2. u = UserOf[c] /\ w = minute[c]
    BY <2>1, IncrementCounts
  <2>3. counter[u][w] + 1 <= Limit
    BY <2>1, <2>2 DEF Increment, Goto, TypeOK, Verdict
  <2> QED  BY <1>0, <2>1, <2>2, <2>3
<1>3. ASSUME NEW d \in From(u, w, t)', d # c
      PROVE  d \in From(u, w, t)
  <2>1. d \in Since(u, w, t)' /\ countedAt'[d] < t + Window
    BY DEF From
  <2>2. d \in Since(u, w, t) /\ d \in Calls
    BY <1>1, <1>3, <2>1 DEF Since, Counted
  <2> QED  BY <1>0, <1>3, <2>1, <2>2 DEF From
<1>4. ASSUME c \in From(u, w, t)'
      PROVE  c \in Since(u, w, t)' /\ clock < t + Window
  BY <1>0, <1>4 DEF From
<1>5. c \notin Since(u, w, t)
  BY IncrementCounts DEF Since
<1>6. clock < t => ~(clock >= t)
  BY <1>0
<1>7. clock >= t + Window => ~(clock < t + Window)
  BY <1>0, Constants
<1> QED  BY <1>1, <1>2, <1>3, <1>4, <1>5, <1>6, <1>7

\* A counter counts up, or is created now.
LEMMA LifeGrows ==
    ASSUME TypeOK, Course, Counting, Limit > 0, NEW c \in Calls, Increment(c),
           NEW u \in Users, NEW w \in Minutes, LifeOf(u, w),
           u = UserOf[c], w = minute[c]
    PROVE  LifeOf(u, w)'
<1> DEFINE n == counter[u][w]
<1>1. /\ clock \in Nat /\ clock' = clock /\ clock <= Horizon
      /\ n \in Nat /\ counter'[u][w] = n + 1
      /\ expiry[u][w] \in Nat /\ expiry'[u][w] = expiry[u][w]
  BY Constants DEF Increment, TypeOK
<1>2. ASSUME NEW t \in Nat
      PROVE  /\ Cardinality(Since(u, w, t)) \in Nat
             /\ Cardinality(Since(u, w, t)') \in Nat
             /\ Cardinality(Since(u, w, t)') <= Cardinality(Since(u, w, t)) + 1
             /\ ~(n + 1 <= Limit) =>
                   Cardinality(Since(u, w, t)') <= Cardinality(Since(u, w, t))
  <2>1. IsFiniteSet(Since(u, w, t))
    BY SinceFinite
  <2>2. Since(u, w, t)' \subseteq Since(u, w, t) \cup {c}
    BY IncrementSince
  <2>3. ~(n + 1 <= Limit) => Since(u, w, t)' \subseteq Since(u, w, t)
    BY IncrementSince
  <2> HIDE DEF n
  <2> QED  BY <2>1, <2>2, <2>3, OneMore, Fewer
<1> HIDE DEF n
<1>3. \E b \in 0..clock : CreatedAt(u, w, b)'
  <2>1. CASE n = 0
    \* What is granted in this life was counted no later than now.
    <3>0. PICK b \in 0..clock : b = clock
      BY <1>1
    <3>1. b + Window <= expiry'[u][w]
      <4>1. expiry[u][w] = Never
        BY <2>1 DEF LifeOf, Absent, n
      <4> QED  BY <1>1, <3>0, <4>1, Constants DEF Never
    <3>2. Cardinality(Since(u, w, b + 1)') = 0
      <4>1. ASSUME NEW d \in Since(u, w, b + 1)'
            PROVE  FALSE
        <5>1. Since(u, w, b + 1)' \subseteq Since(u, w, b + 1)
          <6>1. b + 1 \in Nat /\ clock < b + 1
            BY <1>1, <3>0
          <6> QED  BY <6>1, IncrementSince
        <5>2. /\ d \in Calls /\ countedAt[d] # Never
              /\ countedAt[d] >= clock + 1
          BY <3>0, <5>1 DEF Since, Counted
        <5>3. countedAt[d] \in Nat /\ countedAt[d] <= clock
          BY <5>2, Constants DEF Course, TypeOK
        <5> QED  BY <1>1, <5>2, <5>3
      <4> QED  BY <4>1, FS_EmptySet
    <3>3. ASSUME NEW t \in Nat, t + Window > b
          PROVE  /\ Cardinality(Since(u, w, t)') < Limit + (n + 1)
                 /\ Cardinality(Since(u, w, t)') < 2 * Limit
      <4>1. Cardinality(Since(u, w, t)) < Limit
        BY <2>1, <3>0, <3>3 DEF LifeOf, Absent, n
      <4> QED  BY <1>2, <2>1, <4>1, Constants
    <3>4. CreatedAt(u, w, b)'
      BY <1>1, <2>1, <3>1, <3>2, <3>3, Constants DEF CreatedAt
    <3> QED  BY <3>4
  <2>2. CASE n > 0
    <3>1. PICK b \in 0..clock : CreatedAt(u, w, b)
      BY <2>2 DEF LifeOf, n
    <3>2. b \in Nat /\ b + 1 \in Nat
      BY <1>1
    <3>3. b + Window <= expiry'[u][w]
      BY <1>1, <3>1 DEF CreatedAt
    <3>4. /\ Cardinality(Since(u, w, b + 1)') < n + 1
          /\ Cardinality(Since(u, w, b + 1)') < Limit
      <4>1. /\ Cardinality(Since(u, w, b + 1)) < n
            /\ Cardinality(Since(u, w, b + 1)) < Limit
        BY <3>1 DEF CreatedAt, n
      <4> QED  BY <1>1, <1>2, <3>2, <4>1, Constants
    <3>5. ASSUME NEW t \in Nat, t + Window > b
          PROVE  /\ Cardinality(Since(u, w, t)') < Limit + (n + 1)
                 /\ Cardinality(Since(u, w, t)') < 2 * Limit
      <4>1. /\ Cardinality(Since(u, w, t)) < Limit + n
            /\ Cardinality(Since(u, w, t)) < 2 * Limit
        BY <3>1, <3>5 DEF CreatedAt, n
      <4> QED  BY <1>1, <1>2, <4>1, Constants
    <3>6. CreatedAt(u, w, b)'
      BY <1>1, <3>3, <3>4, <3>5 DEF CreatedAt
    <3> QED  BY <3>6
  <2> QED  BY <1>1, <2>1, <2>2
<1>4. ASSUME NEW t \in Nat
      PROVE  Cardinality(From(u, w, t)') < 2 * Limit
  <2>1. CASE clock >= t + Window
    <3>1. From(u, w, t)' \subseteq From(u, w, t)
      BY <2>1, IncrementSince
    <3>2. /\ Cardinality(From(u, w, t)') \in Nat
          /\ Cardinality(From(u, w, t)) \in Nat
          /\ Cardinality(From(u, w, t)') <= Cardinality(From(u, w, t))
      BY <3>1, SinceFinite, Fewer
    <3>3. Cardinality(From(u, w, t)) < 2 * Limit
      BY DEF LifeOf
    <3> QED  BY <3>2, <3>3, Constants
  <2>2. CASE clock < t + Window
    <3>1. PICK b \in 0..clock : CreatedAt(u, w, b)'
      BY <1>3
    <3>2. t + Window > b
      BY <1>1, <2>2, Constants
    <3>3. Cardinality(Since(u, w, t)') < 2 * Limit
      BY <3>1, <3>2 DEF CreatedAt
    <3>4. From(u, w, t)' \subseteq Since(u, w, t)'
      BY DEF From
    <3>5. IsFiniteSet(Since(u, w, t)')
      <4>1. Since(u, w, t)' \subseteq Since(u, w, t) \cup {c}
        BY IncrementSince
      <4>2. IsFiniteSet(Since(u, w, t) \cup {c})
        BY SinceFinite, FS_AddElement
      <4> QED  BY <4>1, <4>2, FS_Subset
    <3>6. /\ Cardinality(From(u, w, t)') \in Nat
          /\ Cardinality(Since(u, w, t)') \in Nat
          /\ Cardinality(From(u, w, t)') <= Cardinality(Since(u, w, t)')
      BY <3>4, <3>5, Fewer
    <3> QED  BY <3>3, <3>6, Constants
  <2> QED  BY <1>1, <2>1, <2>2, Constants
<1>5. counter'[u][w] # 0
  BY <1>1
<1> QED  BY <1>1, <1>3, <1>4, <1>5 DEF LifeOf

LEMMA InitLives == Init => Lives
<1> SUFFICES ASSUME Init, Limit > 0, NEW u \in Users, NEW w \in Minutes
             PROVE  LifeOf(u, w)
  BY DEF Lives
<1>1. counter[u][w] = 0 /\ expiry[u][w] = Never
  BY DEF Init
<1>2. ASSUME NEW t
      PROVE  Cardinality(Since(u, w, t)) = 0 /\ Cardinality(From(u, w, t)) = 0
  <2>1. Since(u, w, t) = {} /\ From(u, w, t) = {}
    BY DEF Init, Since, From, Counted
  <2> QED  BY <2>1, FS_EmptySet
<1> QED  BY <1>1, <1>2, Constants DEF LifeOf, Absent

LEMMA QuietLives ==
    ASSUME TypeOK, Course, Counting, Lives,
           UNCHANGED <<clock, counter, countedAt>>,
           \A u \in Users, w \in Minutes :
              \/ expiry'[u][w] = expiry[u][w]
              \/ counter[u][w] # 0 /\ expiry'[u][w] = clock + Window,
           \A d \in Calls : at[d] = "idle" \/ minute'[d] = minute[d],
           \A d \in Calls : \/ at'[d] = at[d]
                            \/ at'[d] \in {"incr", "unlimited", "passed", "crashed"}
                            \/ at[d] = "expire" /\ at'[d] = Verdict(1)
    PROVE  Lives'
<1> SUFFICES ASSUME Limit > 0, NEW u \in Users, NEW w \in Minutes
             PROVE  LifeOf(u, w)'
  BY DEF Lives
<1>1. LifeOf(u, w)
  BY DEF Lives
<1>2. \A t \in Nat : /\ Since(u, w, t)' \subseteq Since(u, w, t)
                     /\ From(u, w, t)' \subseteq From(u, w, t)
  BY QuietSince
<1>3. clock' \in Nat /\ clock <= clock'
  BY Constants DEF TypeOK
<1> QED  BY <1>1, <1>2, <1>3, LifeGoesOn

LEMMA IncrementLives ==
    ASSUME TypeOK, Course, Counting, Lives, NEW c \in Calls, Increment(c)
    PROVE  Lives'
<1> SUFFICES ASSUME Limit > 0, NEW u \in Users, NEW w \in Minutes
             PROVE  LifeOf(u, w)'
  BY DEF Lives
<1>1. LifeOf(u, w)
  BY DEF Lives
<1>2. CASE u = UserOf[c] /\ w = minute[c]
  BY <1>1, <1>2, LifeGrows
<1>3. CASE u # UserOf[c] \/ w # minute[c]
  <2>1. \A t \in Nat : /\ Since(u, w, t)' \subseteq Since(u, w, t)
                       /\ From(u, w, t)' \subseteq From(u, w, t)
    BY <1>3, IncrementSince
  <2>2. /\ clock' = clock /\ expiry' = expiry
        /\ counter'[u][w] = counter[u][w]
    BY <1>3 DEF Increment, Course, TypeOK
  <2>3. clock' \in Nat /\ clock <= clock'
    BY <2>2, Constants DEF TypeOK
  <2> QED  BY <1>1, <2>1, <2>2, <2>3, LifeGoesOn
<1> QED  BY <1>2, <1>3

LEMMA TickLives ==
    ASSUME TypeOK, Counting, Lives, Tick
    PROVE  Lives'
<1> SUFFICES ASSUME Limit > 0, NEW u \in Users, NEW w \in Minutes
             PROVE  LifeOf(u, w)'
  BY DEF Lives
<1>1. LifeOf(u, w)
  BY DEF Lives
<1>2. clock' = clock + 1 /\ clock' \in Nat /\ clock <= clock'
  BY Constants DEF TypeOK, Tick
<1>3. CASE expiry[u][w] <= clock'
  BY <1>1, <1>3, LifeEnds
<1>4. CASE ~(expiry[u][w] <= clock')
  <2>1. counter'[u][w] = counter[u][w] /\ expiry'[u][w] = expiry[u][w]
    BY <1>2, <1>4 DEF Tick
  <2>2. \A t \in Nat : Since(u, w, t)' = Since(u, w, t) /\ From(u, w, t)' = From(u, w, t)
    BY DEF Tick, Since, From, Counted
  <2> QED  BY <1>1, <1>2, <2>1, <2>2, LifeGoesOn
<1> QED  BY <1>3, <1>4

-----------------------------------------------------------------------------
(***************************************************************************)
(* The invariant is inductive.                                             *)
(***************************************************************************)

LEMMA InitInv == Init => LimitInv
<1> SUFFICES ASSUME Init PROVE LimitInv
  OBVIOUS
<1>1. Course
  <2>1. 0 \div Window \in Nat
    BY Constants, DivNat
  <2> QED  BY <2>1 DEF Init, Course
<1> QED  BY <1>1, InitType, InitKept, InitCounting, InitLives DEF LimitInv

LEMMA NextInv == LimitInv /\ [Next]_vars => LimitInv'
<1> SUFFICES ASSUME LimitInv, [Next]_vars
             PROVE  LimitInv'
  OBVIOUS
<1> USE DEF LimitInv
<1>1. TypeOK' /\ Course' /\ Kept'
  BY NextType, NextCourse, NextKept
<1>2. Counting' /\ Blamed' /\ Lives'
  <2>1. ASSUME NEW c \in Calls,
               Bypass(c) \/ ReadClock(c) \/ SetExpiry(c) \/ StoreFails(c) \/ Crash(c)
        PROVE  Counting' /\ Blamed' /\ Lives'
    <3>1. UNCHANGED <<clock, counter, countedAt>>
      BY <2>1 DEF Bypass, ReadClock, SetExpiry, StoreFails, Crash
    <3>2. \A d \in Calls : at[d] = "idle" \/ minute'[d] = minute[d]
      BY <2>1 DEF Bypass, ReadClock, SetExpiry, StoreFails, Crash, TypeOK
    <3>3. \A d \in Calls : \/ at'[d] = at[d]
                           \/ at'[d] \in {"incr", "unlimited", "passed", "crashed"}
                           \/ at[d] = "expire" /\ at'[d] = Verdict(1)
      BY <2>1 DEF Bypass, ReadClock, SetExpiry, StoreFails, Crash, Goto, TypeOK
    <3>4. \A u \in Users, w \in Minutes :
             \/ expiry'[u][w] = expiry[u][w]
             \/ counter[u][w] # 0 /\ expiry'[u][w] = clock + Window
      <4>1. CASE SetExpiry(c)
        BY <4>1 DEF SetExpiry, TypeOK, Course
      <4>2. CASE ~SetExpiry(c)
        BY <2>1, <4>2 DEF Bypass, ReadClock, StoreFails, Crash
      <4> QED  BY <4>1, <4>2
    <3> QED  BY <3>1, <3>2, <3>3, <3>4, QuietCounting, QuietLives
  <2>2. ASSUME NEW c \in Calls, Increment(c)
        PROVE  Counting' /\ Blamed' /\ Lives'
    BY <2>2, IncrementCounting, IncrementLives
  <2>3. ASSUME Tick
        PROVE  Counting' /\ Blamed' /\ Lives'
    BY <2>3, TickCounting, TickLives
  <2>4. ASSUME UNCHANGED vars
        PROVE  Counting' /\ Blamed' /\ Lives'
    <3>1. \A d \in Calls : minute'[d] = minute[d] /\ at'[d] = at[d]
      BY <2>4 DEF vars
    <3> QED  BY <2>4, <3>1, QuietCounting, QuietLives DEF vars
  <2> QED  BY <2>1, <2>2, <2>3, <2>4 DEF Next, Check, Done
<1> QED  BY <1>1, <1>2

LEMMA Invariance == Spec => []LimitInv
<1>1. Init => LimitInv
  BY InitInv
<1>2. LimitInv /\ [Next]_vars => LimitInv'
  BY NextInv
<1> QED  BY <1>1, <1>2, PTL DEF Spec

-----------------------------------------------------------------------------
(***************************************************************************)
(* The theorems.                                                           *)
(***************************************************************************)

\* Clock, counters, deadlines and calls keep their types, and no counter is kept
\* past the deadline it has.
THEOREM LimiterTypes == Spec => []TypeOK
<1>1. LimitInv => TypeOK
  BY DEF LimitInv
<1> QED  BY <1>1, Invariance, PTL

\* The calls allowed in time are among those granted.
LEMMA AllowedAreFew ==
    LimitInv => \A u \in Users, w \in Minutes :
                    /\ IsFiniteSet(AllowedInTime(u, w))
                    /\ Cardinality(AllowedInTime(u, w)) \in Nat
                    /\ Cardinality(AllowedInTime(u, w)) <= Limit
<1> SUFFICES ASSUME LimitInv, NEW u \in Users, NEW w \in Minutes
             PROVE  /\ IsFiniteSet(AllowedInTime(u, w))
                    /\ Cardinality(AllowedInTime(u, w)) \in Nat
                    /\ Cardinality(AllowedInTime(u, w)) <= Limit
  OBVIOUS
<1>1. AllowedInTime(u, w) \subseteq Granted(u, w)
  BY DEF AllowedInTime, Granted
<1>2. IsFiniteSet(Counted(u, w)) /\ Cardinality(Granted(u, w)) <= Limit
  BY DEF LimitInv, Counting
<1>3. IsFiniteSet(Granted(u, w)) /\ Cardinality(Granted(u, w)) \in Nat
  BY <1>2, GrantedFinite
<1>4. /\ IsFiniteSet(AllowedInTime(u, w))
      /\ Cardinality(AllowedInTime(u, w)) \in Nat
      /\ Cardinality(AllowedInTime(u, w)) <= Cardinality(Granted(u, w))
  BY <1>1, <1>3, FS_Subset, FS_CardinalityType
<1> QED  BY <1>2, <1>3, <1>4, Constants, LeqTransitive

\* RateLimitMiddleware lets no more than Limit calls of a user through in the minute
\* they name, whatever the number of calls under way and whatever fails.
THEOREM LimitHolds == Spec => []MinuteLimit
<1>1. LimitInv => MinuteLimit
  BY AllowedAreFew DEF MinuteLimit
<1> QED  BY <1>1, Invariance, PTL

\* A 429 has Limit other calls of the same user and minute to account for it.
THEOREM RefusalsAreDue == Spec => []RefusedOnlyOverLimit
<1>1. LimitInv => RefusedOnlyOverLimit
  <2> SUFFICES ASSUME LimitInv, NEW c \in Calls, at[c] = "limited"
               PROVE  Cardinality(Counted(UserOf[c], minute[c]) \ {c}) >= Limit
    BY DEF RefusedOnlyOverLimit
  <2>1. minute[c] \in Minutes
    BY DEF LimitInv, TypeOK
  <2> QED  BY <2>1 DEF LimitInv, Blamed
<1> QED  BY <1>1, Invariance, PTL

\* The calls allowed in a span are among those granted in it.
LEMMA SpansAreBounded ==
    ASSUME LimitInv, Limit > 0, NEW u \in Users, NEW w \in Minutes, NEW t \in Nat
    PROVE  /\ IsFiniteSet(AllowedFrom(u, w, t))
           /\ Cardinality(AllowedFrom(u, w, t)) \in Nat
           /\ Cardinality(AllowedFrom(u, w, t)) < 2 * Limit
<1>1. AllowedFrom(u, w, t) \subseteq From(u, w, t)
  <2> SUFFICES ASSUME NEW c \in AllowedFrom(u, w, t)
               PROVE  c \in From(u, w, t)
    OBVIOUS
  <2>1. /\ c \in Counted(u, w) /\ at[c] = "allowed"
        /\ countedAt[c] \in t .. (t + Window - 1)
    BY DEF AllowedFrom
  <2>2. countedAt[c] >= t /\ countedAt[c] < t + Window
    BY <2>1, Constants
  <2> QED  BY <2>1, <2>2 DEF From, Since
<1>2. IsFiniteSet(From(u, w, t))
  BY SinceFinite DEF LimitInv
<1>3. Cardinality(From(u, w, t)) < 2 * Limit
  BY DEF LimitInv, Lives, LifeOf
<1>4. /\ IsFiniteSet(AllowedFrom(u, w, t))
      /\ Cardinality(AllowedFrom(u, w, t)) \in Nat
      /\ Cardinality(From(u, w, t)) \in Nat
      /\ Cardinality(AllowedFrom(u, w, t)) <= Cardinality(From(u, w, t))
  BY <1>1, <1>2, FS_Subset, Fewer
<1> QED  BY <1>3, <1>4, Constants

\* Fewer than twice Limit of a user's calls that name a minute are allowed in any span
\* of a minute, late INCRs and EXPIREs, crashes and store errors included.
THEOREM SpanHolds == Spec => []SpanLimit
<1>1. LimitInv => SpanLimit
  <2>1. 0..Horizon \subseteq Nat
    BY Constants
  <2> QED  BY <2>1, SpansAreBounded DEF SpanLimit
<1> QED  BY <1>1, Invariance, PTL

=============================================================================
