-------------------------- MODULE RateLimiterProofs --------------------------
(***************************************************************************)
(* For every limit, window and set of keys: RateLimiter is well typed,     *)
(* admits at most twice the limit in any time shorter than a window, never *)
(* lets a client retry too early, and implements FixedWindow.              *)
(***************************************************************************)
EXTENDS RateLimiter, TLAPS

\* How much of its window key k has used.
Used(k) == IF entries[k].count <= MaxRequests THEN entries[k].count ELSE MaxRequests

(* What ties the map to the history of admissions.  All admissions but     *)
(* those of the present window lie before its start, and all but those and *)
(* a limit's worth of earlier ones a whole window before it; once the      *)
(* entry is gone, all but a limit's worth are a whole window past.         *)
Linked(k) ==
    /\ \A i \in 1 .. Len(admitted[k]) : admitted[k][i] <= now
    /\ Tracked(k) =>
         /\ entries[k].count >= 1
         /\ entries[k].resetAt <= now + Window
         /\ \A i \in 1 .. Len(admitted[k]) :
              i + Used(k) <= Len(admitted[k]) =>
                 admitted[k][i] + Window <= entries[k].resetAt
         /\ \A i \in 1 .. Len(admitted[k]) :
              i + Used(k) + MaxRequests <= Len(admitted[k]) =>
                 admitted[k][i] + 2 * Window <= entries[k].resetAt
    /\ ~ Tracked(k) =>
         \A i \in 1 .. Len(admitted[k]) :
            i + MaxRequests <= Len(admitted[k]) => admitted[k][i] + Window <= now

Spread(k) ==
    \A i \in 1 .. Len(admitted[k]) :
        i + 2 * MaxRequests <= Len(admitted[k]) =>
            admitted[k][i + 2 * MaxRequests] - admitted[k][i] >= Window

IInv ==
    /\ TypeOK
    /\ \A k \in Keys : Linked(k) /\ Spread(k)

-----------------------------------------------------------------------------
(* Counting a request yields an entry.                                     *)
LEMMA CountedIsEntry ==
    ASSUME TypeOK, NEW k \in Keys
    PROVE  Counted(k) \in Entry
<1>1. CASE ~ Tracked(k) \/ Expired(k)
  <2>1. now + Window \in Nat
    BY LimiterAssumption DEF TypeOK
  <2> QED
    BY <1>1, <2>1 DEF Counted, Entry
<1>2. CASE Tracked(k) /\ ~ Expired(k)
  <2>1. entries[k] \in Entry
    BY <1>2 DEF TypeOK, Tracked
  <2> QED
    BY <1>2, <2>1 DEF Counted, Entry
<1> QED
  BY <1>1, <1>2

LEMMA ProductNat == \A a, b \in Nat : a * b \in Nat
  OBVIOUS

(* Appending one admission and counting it leaves the rest where it was.   *)
LEMMA Shifted ==
    ASSUME NEW n \in Nat, NEW c \in Nat, NEW m \in Nat, m >= 1, NEW i \in 1 .. n + 1,
           i + (c + 1) + m <= n + 1
    PROVE  i \in 1 .. n /\ i + c + m <= n
  OBVIOUS

LEMMA WithinTwice ==
    ASSUME NEW n \in Nat, NEW c \in Nat, NEW m \in Nat, NEW i \in 1 .. n + 1,
           c + 1 <= m, i + 2 * m = n + 1
    PROVE  i + (c + 1) + m <= n + 1
  OBVIOUS

(* From two windows before the end of one, to before that end.             *)
LEMMA WindowApart ==
    ASSUME NEW w \in Nat, NEW x \in Nat, NEW y \in Nat, NEW z \in Nat,
           x + 2 * w <= y, y <= z + w
    PROVE  z - x >= w
  OBVIOUS

(* The Retry-After header is a positive number of seconds.                 *)
LEMMA RetryAfterType ==
    ASSUME now \in Nat, NEW e \in Entry
    PROVE  RetryAfter(e) \in Nat
<1>1. CASE e.resetAt <= now
  BY <1>1 DEF RetryAfter
<1>2. CASE ~ e.resetAt <= now
  <2> DEFINE d == e.resetAt - now + Second - 1
  <2>1. d \in Nat
    BY <1>2, LimiterAssumption DEF Entry
  <2>2. d \div Second \in Nat
    BY <2>1, LimiterAssumption
  <2> QED
    BY <1>2, <2>2 DEF RetryAfter
<1> QED
  BY <1>1, <1>2

(* Types are preserved.                                                    *)
LEMMA TypeStep ==
    ASSUME TypeOK, [Next]_vars
    PROVE  TypeOK'
<1> USE LimiterAssumption
<1>1. ASSUME NEW k \in Keys, Request(k)
      PROVE  TypeOK'
  <2> DEFINE e == Counted(k)
  <2>1. e \in Entry
    BY CountedIsEntry
  <2>2. RetryAfter(e) \in Nat
    BY <2>1, RetryAfterType DEF TypeOK
  <2>3. now' \in Nat /\ entries' \in [Keys -> Entry \cup {NoEntry}]
    BY <1>1, <2>1 DEF Request, TypeOK
  <2>4. Remaining(e) \in Nat /\ Admits(e) \in BOOLEAN
    BY <2>1 DEF Remaining, Admits, Entry
  <2>5. now + Second * RetryAfter(e) \in Nat
    <3>1. Second * RetryAfter(e) \in Nat
      BY <2>2, ProductNat
    <3> QED
      BY <3>1 DEF TypeOK
  <2>6. e.resetAt \in Nat
    BY <2>1 DEF Entry
  <2> HIDE DEF e
  <2>7. answer' \subseteq [key : Keys, admitted : BOOLEAN, remaining : Nat,
                           resetAt : Nat, retryAt : Nat]
    BY <1>1, <2>4, <2>5, <2>6 DEF Request, e
  <2>8. admitted' \in [Keys -> Seq(Nat)]
    BY <1>1 DEF Request, TypeOK
  <2> QED
    BY <2>3, <2>7, <2>8 DEF TypeOK
<1>2. ASSUME NEW K \in SUBSET Keys, Forget(K)
      PROVE  TypeOK'
  BY <1>2 DEF Forget, TypeOK
<1>3. CASE Sweep
  BY <1>3 DEF Sweep, TypeOK
<1>4. CASE Tick
  BY <1>4 DEF Tick, TypeOK
<1>5. CASE UNCHANGED vars
  BY <1>5 DEF vars, TypeOK
<1> QED
  BY <1>1, <1>2, <1>3, <1>4, <1>5 DEF Next, Delete, Clear
-----------------------------------------------------------------------------
(* A request keeps its key linked: in a renewed window ...                 *)
LEMMA RenewKeepsLink ==
    ASSUME IInv, NEW k \in Keys, Request(k), ~ Tracked(k) \/ Expired(k)
    PROVE  Linked(k)' /\ Spread(k)'
<1> DEFINE s == admitted[k]
<1>1. /\ now \in Nat /\ s \in Seq(Nat)
      /\ MaxRequests \in Nat /\ MaxRequests >= 1 /\ Window \in Nat /\ Window >= 1
  BY LimiterAssumption DEF IInv, TypeOK
<1>2. /\ entries'[k] = [count |-> 1, resetAt |-> now + Window]
      /\ now' = now
      /\ admitted'[k] = Append(s, now)
  BY <1>1 DEF Request, Counted, Admits, IInv, TypeOK
<1>3. Tracked(k)'
  <2>1. [count |-> 1, resetAt |-> now + Window] \in Entry
    BY <1>1 DEF Entry
  <2> QED
    BY <1>2, <2>1, LimiterAssumption DEF Tracked
<1>4. Used(k)' = 1
  BY <1>1, <1>2 DEF Used
<1>5. \A i \in 1 .. Len(s) : s[i] \in Nat /\ s[i] <= now
  BY <1>1 DEF IInv, Linked
<1>6. \A i \in 1 .. Len(s) : i + MaxRequests <= Len(s) => s[i] + Window <= now
  <2>1. CASE ~ Tracked(k)
    BY <2>1 DEF IInv, Linked
  <2>2. CASE Tracked(k)
    <3>1. entries[k] \in Entry
      BY <2>2 DEF IInv, TypeOK, Tracked
    <3>2. Used(k) \in Nat /\ Used(k) <= MaxRequests
      BY <3>1, <1>1 DEF Used, Entry
    <3>3. entries[k].resetAt \in Nat /\ entries[k].resetAt <= now
      BY <3>1, <2>2, <1>1 DEF Expired, Entry
    <3>4. \A i \in 1 .. Len(s) : i + Used(k) <= Len(s) => s[i] + Window <= entries[k].resetAt
      BY <2>2 DEF IInv, Linked
    <3>5. TAKE i \in 1 .. Len(s)
    <3>6. HAVE i + MaxRequests <= Len(s)
    <3>7. Len(s) \in Nat /\ s[i] \in Nat
      BY <1>1, <1>5
    <3>8. i + Used(k) <= Len(s)
      BY <1>1, <3>2, <3>6, <3>7
    <3>9. s[i] + Window <= entries[k].resetAt
      BY <3>4, <3>8
    <3> QED
      BY <3>3, <3>7, <3>9, <1>1
  <2> QED
    BY <2>1, <2>2
<1> DEFINE t == Append(s, now)
<1>7. /\ t \in Seq(Nat) /\ Len(t) = Len(s) + 1 /\ Len(s) \in Nat
      /\ t[Len(s) + 1] = now
      /\ \A i \in 1 .. Len(s) : t[i] = s[i]
  BY <1>1
<1>a. /\ Len(s) \in Nat /\ Len(t) = Len(s) + 1
      /\ MaxRequests \in Nat /\ MaxRequests >= 1
  BY <1>1, <1>7
<1>8. \A i \in 1 .. Len(t) : t[i] <= now
  BY <1>5, <1>7, <1>1
<1>9. \A i \in 1 .. Len(t) : i + 1 <= Len(t) => t[i] + Window <= now + Window
  BY <1>5, <1>7, <1>1
<1>10. \A i \in 1 .. Len(t) : i + 1 + MaxRequests <= Len(t) => t[i] + 2 * Window <= now + Window
  <2>1. TAKE i \in 1 .. Len(t)
  <2>2. HAVE i + 1 + MaxRequests <= Len(t)
  <2>3. i \in 1 .. Len(s) /\ i + MaxRequests <= Len(s)
    BY <2>2, <1>a
  <2>4. s[i] + Window <= now /\ s[i] \in Nat /\ t[i] = s[i]
    BY <2>3, <1>5, <1>6, <1>7
  <2> QED
    BY <2>4, <1>1
<1>11. \A i \in 1 .. Len(t) : i + 2 * MaxRequests <= Len(t) =>
          t[i + 2 * MaxRequests] - t[i] >= Window
  <2>1. \A i \in 1 .. Len(s) : i + 2 * MaxRequests <= Len(s) =>
          s[i + 2 * MaxRequests] - s[i] >= Window
    BY DEF IInv, Spread
  <2>2. TAKE i \in 1 .. Len(t)
  <2>3. HAVE i + 2 * MaxRequests <= Len(t)
  <2>4. CASE i + 2 * MaxRequests <= Len(s)
    BY <2>1, <2>4, <1>1, <1>7
  <2>5. CASE i + 2 * MaxRequests = Len(s) + 1
    <3>1. i \in 1 .. Len(s) /\ i + MaxRequests <= Len(s)
      BY <2>5, <1>1, <1>7
    <3>2. s[i] + Window <= now /\ s[i] \in Nat /\ t[i] = s[i]
      BY <3>1, <1>5, <1>6, <1>7
    <3>3. t[i + 2 * MaxRequests] = now
      BY <2>5, <1>7, Zenon
    <3>4. now - s[i] >= Window
      BY <3>2, <1>1
    <3> QED
      BY <3>2, <3>3, <3>4, Zenon
  <2> QED
    BY <2>3, <2>4, <2>5, <1>1, <1>7
<1>12. Linked(k)'
  BY <1>1, <1>2, <1>3, <1>4, <1>8, <1>9, <1>10 DEF Linked
<1> QED
  BY <1>2, <1>11, <1>12 DEF Spread

(* ... and in a window that is still open.                                 *)
LEMMA CountKeepsLink ==
    ASSUME IInv, NEW k \in Keys, Request(k), Tracked(k), ~ Expired(k)
    PROVE  Linked(k)' /\ Spread(k)'
<1> DEFINE s == admitted[k]
           e == entries[k]
<1>1. /\ now \in Nat /\ s \in Seq(Nat) /\ Len(s) \in Nat
      /\ MaxRequests \in Nat /\ MaxRequests >= 1 /\ Window \in Nat /\ Window >= 1
  BY LimiterAssumption DEF IInv, TypeOK
<1>2. e \in Entry /\ e.count \in Nat /\ e.count >= 1 /\ e.resetAt \in Nat
  BY DEF IInv, TypeOK, Tracked, Linked, Entry
<1>3. e.resetAt <= now + Window
  BY DEF IInv, Linked
<1>4. /\ entries'[k].count = e.count + 1
      /\ entries'[k].resetAt = e.resetAt
      /\ entries'[k] \in Entry
      /\ now' = now
  BY <1>2 DEF Request, Counted, IInv, TypeOK, Entry
<1>5. Tracked(k)'
  BY <1>4, LimiterAssumption DEF Tracked
<1>6. \A i \in 1 .. Len(s) : s[i] \in Nat /\ s[i] <= now
  BY <1>1 DEF IInv, Linked
<1>7. /\ \A i \in 1 .. Len(s) : i + Used(k) <= Len(s) => s[i] + Window <= e.resetAt
      /\ \A i \in 1 .. Len(s) :
            i + Used(k) + MaxRequests <= Len(s) => s[i] + 2 * Window <= e.resetAt
  BY DEF IInv, Linked
<1>8. \A i \in 1 .. Len(s) : i + 2 * MaxRequests <= Len(s) =>
          s[i + 2 * MaxRequests] - s[i] >= Window
  BY DEF IInv, Spread
<1>n. Len(s) \in Nat /\ MaxRequests \in Nat /\ MaxRequests >= 1 /\ e.count \in Nat
  BY <1>1, <1>2
<1>9. CASE e.count + 1 <= MaxRequests
  <2> DEFINE t == Append(s, now)
  <2>1. admitted'[k] = t
    BY <1>9, <1>2 DEF Request, Counted, Admits, IInv, TypeOK
  <2>2. Used(k) = e.count /\ Used(k)' = e.count + 1
    BY <1>9, <1>1, <1>2, <1>4 DEF Used
  <2>3. /\ Len(t) = Len(s) + 1
        /\ t[Len(s) + 1] = now
        /\ \A i \in 1 .. Len(s) : t[i] = s[i]
    BY <1>1
  <2>4. \A i \in 1 .. Len(t) : t[i] <= now
    BY <1>6, <2>3, <1>1
  <2>5. \A i \in 1 .. Len(t) : i + (e.count + 1) <= Len(t) => t[i] + Window <= e.resetAt
    <3>1. TAKE i \in 1 .. Len(t)
    <3>2. HAVE i + (e.count + 1) <= Len(t)
    <3> i \in 1 .. Len(s) + 1 /\ i + (e.count + 1) <= Len(s) + 1
      BY <3>2, <2>3
    <3>3. i \in 1 .. Len(s) /\ i + e.count <= Len(s)
      BY <1>n
    <3>4. i + Used(k) <= Len(s)
      BY <3>3, <2>2
    <3>5. s[i] + Window <= e.resetAt
      BY <3>3, <3>4, <1>7, Zenon
    <3>6. t[i] = s[i]
      BY <3>3, <2>3
    <3> QED
      BY <3>5, <3>6
  <2>6. \A i \in 1 .. Len(t) :
          i + (e.count + 1) + MaxRequests <= Len(t) => t[i] + 2 * Window <= e.resetAt
    <3>1. TAKE i \in 1 .. Len(t)
    <3>2. HAVE i + (e.count + 1) + MaxRequests <= Len(t)
    <3> i \in 1 .. Len(s) + 1 /\ i + (e.count + 1) + MaxRequests <= Len(s) + 1
      BY <3>2, <2>3
    <3>3. i \in 1 .. Len(s) /\ i + e.count + MaxRequests <= Len(s)
      BY <1>n, Shifted, Zenon
    <3>4. i + Used(k) + MaxRequests <= Len(s)
      BY <3>3, <2>2
    <3>5. s[i] + 2 * Window <= e.resetAt
      BY <3>3, <3>4, <1>7, Zenon
    <3>6. t[i] = s[i]
      BY <3>3, <2>3
    <3> QED
      BY <3>5, <3>6
  <2>7. \A i \in 1 .. Len(t) : i + 2 * MaxRequests <= Len(t) =>
          t[i + 2 * MaxRequests] - t[i] >= Window
    <3>1. TAKE i \in 1 .. Len(t)
    <3>2. HAVE i + 2 * MaxRequests <= Len(t)
    <3>3. CASE i + 2 * MaxRequests <= Len(s)
      BY <1>1, <1>8, <2>3, <3>3
    <3>4. CASE i + 2 * MaxRequests = Len(s) + 1
      <4> i \in 1 .. Len(s) + 1
        BY <2>3
      <4>0. i + (e.count + 1) + MaxRequests <= Len(s) + 1
        BY <1>n, <1>9, <3>4, WithinTwice, Zenon
      <4>1. i \in 1 .. Len(s) /\ i + e.count + MaxRequests <= Len(s)
        BY <1>n, <4>0, Shifted, Zenon
      <4>2. i + Used(k) + MaxRequests <= Len(s)
        BY <4>1, <2>2
      <4>3. s[i] + 2 * Window <= e.resetAt
        BY <4>1, <4>2, <1>7, Zenon
      <4>4. s[i] \in Nat /\ t[i] = s[i]
        BY <4>1, <1>6, <2>3
      <4>5. t[i + 2 * MaxRequests] = now
        BY <3>4, <2>3, Zenon
      <4>6. now - s[i] >= Window
        BY <4>3, <4>4, <1>1, <1>2, <1>3, WindowApart, Zenon
      <4> QED
        BY <4>4, <4>5, <4>6, Zenon
    <3>5. i + 2 * MaxRequests <= Len(s) + 1
      BY <3>2, <2>3
    <3>6. i + 2 * MaxRequests <= Len(s) \/ i + 2 * MaxRequests = Len(s) + 1
      BY <3>5, <1>1
    <3> QED
      BY <3>3, <3>4, <3>6
  <2>8. Linked(k)'
    BY <1>2, <1>3, <1>4, <1>5, <2>1, <2>2, <2>4, <2>5, <2>6 DEF Linked
  <2> QED
    BY <2>1, <2>7, <2>8 DEF Spread
<1>10. CASE ~ e.count + 1 <= MaxRequests
  <2>1. admitted'[k] = s
    BY <1>10, <1>2 DEF Request, Counted, Admits, IInv, TypeOK
  <2>2. Used(k)' = Used(k)
    BY <1>10, <1>1, <1>2, <1>4 DEF Used
  <2>3. entries'[k].count >= 1
    BY <1>2, <1>4
  <2>4. /\ \A i \in 1 .. Len(s) : s[i] <= now'
        /\ entries'[k].resetAt <= now' + Window
    BY <1>3, <1>4, <1>6
  <2>5. /\ \A i \in 1 .. Len(s) : i + Used(k)' <= Len(s) => s[i] + Window <= entries'[k].resetAt
        /\ \A i \in 1 .. Len(s) :
              i + Used(k)' + MaxRequests <= Len(s) => s[i] + 2 * Window <= entries'[k].resetAt
    BY <1>4, <1>7, <2>2, Zenon
  <2>6. Linked(k)'
    BY <1>5, <2>1, <2>3, <2>4, <2>5 DEF Linked
  <2> QED
    BY <1>8, <2>1, <2>6 DEF Spread
<1> QED
  BY <1>9, <1>10

(* Forgetting a key empties its history; sweeping only ever takes what has *)
(* expired.                                                                *)
LEMMA ForgetKeepsLinks ==
    ASSUME IInv, NEW K \in SUBSET Keys, Forget(K), NEW k \in Keys
    PROVE  Linked(k)' /\ Spread(k)'
<1>1. CASE k \in K
  <2>1. ~ Tracked(k)' /\ admitted'[k] = << >>
    BY <1>1 DEF Forget, Tracked
  <2>2. Len(admitted'[k]) = 0
    BY <2>1
  <2> QED
    BY <2>1, <2>2 DEF Linked, Spread
<1>2. CASE k \notin K
  <2>1. entries'[k] = entries[k] /\ admitted'[k] = admitted[k] /\ now' = now
    BY <1>2 DEF Forget
  <2> QED
    BY <2>1 DEF IInv, Linked, Spread, Used, Tracked
<1> QED
  BY <1>1, <1>2

LEMMA SweepKeepsLinks ==
    ASSUME IInv, Sweep, NEW k \in Keys
    PROVE  Linked(k)' /\ Spread(k)'
<1>1. admitted'[k] = admitted[k] /\ now' = now
  BY DEF Sweep
<1>2. CASE Sweeps(k)
  <2> DEFINE s == admitted[k]
  <2>1. entries[k] \in Entry /\ Tracked(k) /\ Expired(k)
    BY <1>2 DEF IInv, TypeOK, Tracked, Sweeps
  <2>2. Used(k) \in Nat /\ Used(k) <= MaxRequests /\ MaxRequests \in Nat
    BY <2>1, LimiterAssumption DEF Used, Entry
  <2>3. entries[k].resetAt \in Nat /\ entries[k].resetAt <= now /\ now \in Nat
    BY <2>1 DEF Expired, Entry, IInv, TypeOK
  <2>4. s \in Seq(Nat) /\ Window \in Nat
    BY LimiterAssumption DEF IInv, TypeOK
  <2>5. \A i \in 1 .. Len(s) : i + Used(k) <= Len(s) => s[i] + Window <= entries[k].resetAt
    BY <2>1 DEF IInv, Linked
  <2>6. \A i \in 1 .. Len(s) : i + MaxRequests <= Len(s) => s[i] + Window <= now
    <3>1. TAKE i \in 1 .. Len(s)
    <3>2. HAVE i + MaxRequests <= Len(s)
    <3>3. Len(s) \in Nat /\ s[i] \in Nat
      BY <2>4
    <3>4. i + Used(k) <= Len(s)
      BY <2>2, <3>2, <3>3
    <3>5. s[i] + Window <= entries[k].resetAt
      BY <2>5, <3>4
    <3> QED
      BY <2>3, <2>4, <3>3, <3>5
  <2>7. ~ Tracked(k)'
    BY <1>2 DEF Sweep, Tracked
  <2> QED
    BY <1>1, <2>6, <2>7 DEF IInv, Linked, Spread
<1>3. CASE ~ Sweeps(k)
  <2>1. entries'[k] = entries[k]
    BY <1>3 DEF Sweep
  <2> QED
    BY <1>1, <2>1 DEF IInv, Linked, Spread, Used, Tracked
<1> QED
  BY <1>2, <1>3

LEMMA TickKeepsLinks ==
    ASSUME IInv, Tick, NEW k \in Keys
    PROVE  Linked(k)' /\ Spread(k)'
<1> DEFINE s == admitted[k]
<1>1. /\ now \in Nat /\ now' = now + 1 /\ s \in Seq(Nat) /\ Window \in Nat
      /\ entries' = entries /\ admitted' = admitted
  BY LimiterAssumption DEF Tick, IInv, TypeOK
<1>2. \A i \in 1 .. Len(s) : s[i] \in Nat /\ s[i] <= now
  BY <1>1 DEF IInv, Linked
<1>3. \A i \in 1 .. Len(s) : s[i] <= now'
  BY <1>1, <1>2
<1>4. CASE Tracked(k)
  <2>1. entries[k] \in Entry /\ entries[k].resetAt <= now + Window
    BY <1>4 DEF IInv, TypeOK, Tracked, Linked
  <2>2. entries[k].resetAt <= now' + Window
    BY <1>1, <2>1 DEF Entry
  <2> QED
    BY <1>1, <1>3, <1>4, <2>2 DEF IInv, Linked, Spread, Used, Tracked
<1>5. CASE ~ Tracked(k)
  <2>1. \A i \in 1 .. Len(s) : i + MaxRequests <= Len(s) => s[i] + Window <= now'
    BY <1>1, <1>2, <1>5 DEF IInv, Linked
  <2> QED
    BY <1>1, <1>3, <1>5, <2>1 DEF IInv, Linked, Spread, Tracked
<1> QED
  BY <1>4, <1>5

-----------------------------------------------------------------------------
LEMMA InitIInv == Init => IInv
<1> SUFFICES ASSUME Init
             PROVE  IInv
  OBVIOUS
<1>1. TypeOK
  BY LimiterAssumption DEF Init, TypeOK
<1>2. ASSUME NEW k \in Keys
      PROVE  Linked(k) /\ Spread(k)
  <2>1. admitted[k] = << >> /\ ~ Tracked(k) /\ Len(admitted[k]) = 0
    BY DEF Init, Tracked
  <2> QED
    BY <2>1 DEF Linked, Spread
<1> QED
  BY <1>1, <1>2 DEF IInv

LEMMA StepIInv == IInv /\ [Next]_vars => IInv'
<1> SUFFICES ASSUME IInv, [Next]_vars
             PROVE  IInv'
  OBVIOUS
<1>1. TypeOK'
  BY TypeStep DEF IInv
<1>2. ASSUME NEW k \in Keys
      PROVE  Linked(k)' /\ Spread(k)'
  <2>1. ASSUME NEW l \in Keys, Request(l)
        PROVE  Linked(k)' /\ Spread(k)'
    <3>1. CASE l = k
      BY <2>1, <3>1, RenewKeepsLink, CountKeepsLink
    <3>2. CASE l # k
      <4>1. entries'[k] = entries[k] /\ admitted'[k] = admitted[k] /\ now' = now
        BY <2>1, <3>2 DEF Request, IInv, TypeOK
      <4> QED
        BY <4>1 DEF IInv, Linked, Spread, Used, Tracked
    <3> QED
      BY <3>1, <3>2
  <2>2. ASSUME NEW l \in Keys, Delete(l)
        PROVE  Linked(k)' /\ Spread(k)'
    BY <2>2, ForgetKeepsLinks DEF Delete
  <2>3. CASE Clear
    BY <2>3, ForgetKeepsLinks DEF Clear
  <2>4. CASE Sweep
    BY <2>4, SweepKeepsLinks
  <2>5. CASE Tick
    BY <2>5, TickKeepsLinks
  <2>6. CASE UNCHANGED vars
    BY <2>6 DEF vars, IInv, Linked, Spread, Used, Tracked
  <2> QED
    BY <2>1, <2>2, <2>3, <2>4, <2>5, <2>6 DEF Next
<1> QED
  BY <1>1, <1>2 DEF IInv

(* Every reachable state satisfies the inductive invariant.                *)
THEOREM InductiveInvariant == Spec => []IInv
BY InitIInv, StepIInv, PTL DEF Spec

(* The limiter is well typed: no header is ever negative.                  *)
THEOREM TypeCorrect == Spec => []TypeOK
<1>1. IInv => TypeOK
  BY DEF IInv
<1> QED
  BY <1>1, InductiveInvariant, PTL

(* At most twice the limit is admitted in any time shorter than a window,  *)
(* for every limit, window length and order of requests, sweeps and ticks. *)
THEOREM TwiceTheLimitAtMost == Spec => []TwiceAtMost
<1>1. IInv => TwiceAtMost
  BY DEF IInv, Spread, TwiceAtMost
<1> QED
  BY <1>1, InductiveInvariant, PTL

-----------------------------------------------------------------------------
(* Retry-After.  The number of seconds is rounded up, so the time it names *)
(* never comes before the end of the window that refused the client.       *)
LEMMA RoundedUp == \A n \in Nat, s \in Nat \ {0} : s * (n \div s) > n - s
  OBVIOUS

LEMMA RetryAfterSuffices ==
    ASSUME now \in Nat, NEW e \in Entry
    PROVE  e.resetAt <= now + Second * RetryAfter(e)
<1>1. now \in Nat /\ e.resetAt \in Nat /\ Second \in Nat \ {0}
  BY LimiterAssumption DEF Entry
<1>2. CASE e.resetAt <= now
  BY <1>1, <1>2 DEF RetryAfter
<1>3. CASE ~ e.resetAt <= now
  <2> DEFINE n == e.resetAt - now + Second - 1
             p == Second * (n \div Second)
  <2>1. n \in Nat
    BY <1>1, <1>3
  <2>2. n \div Second \in Nat
    BY <1>1, <2>1
  <2>3. p \in Nat
    BY <1>1, <2>2, ProductNat
  <2>4. p > n - Second
    BY <1>1, <2>1, RoundedUp
  <2>5. Second * RetryAfter(e) = p
    BY <1>3 DEF RetryAfter
  <2> HIDE DEF p
  <2> QED BY <1>1, <2>3, <2>4, <2>5
<1> QED BY <1>2, <1>3

RetryInv == \A a \in answer : a.resetAt <= a.retryAt

LEMMA RetryStep == IInv /\ RetryInv /\ [Next]_vars => RetryInv'
<1> SUFFICES ASSUME IInv, RetryInv, [Next]_vars PROVE RetryInv'
  OBVIOUS
<1>1. ASSUME NEW k \in Keys, Request(k) PROVE RetryInv'
  <2> DEFINE e == Counted(k)
  <2>1. e \in Entry /\ now \in Nat
    BY CountedIsEntry DEF IInv, TypeOK
  <2>2. e.resetAt <= now + Second * RetryAfter(e)
    BY <2>1, RetryAfterSuffices
  <2> HIDE DEF e
  <2>3. \A a \in answer' : a.resetAt = e.resetAt /\ a.retryAt = now + Second * RetryAfter(e)
    BY <1>1 DEF Request, e
  <2> QED BY <2>2, <2>3 DEF RetryInv
<1>2. CASE ~ \E k \in Keys : Request(k)
  BY <1>2 DEF Next, Delete, Clear, Forget, Sweep, Tick, vars, RetryInv
<1> QED BY <1>1, <1>2

(* Whoever waits as long as Retry-After said does not meet the window that *)
(* refused him again, for every window and however it is rounded           *)
(* (rate-limit.middleware.ts:183).                                         *)
THEOREM RetryAfterIsEnough == Spec => []RetryIsEnough
<1>1. Init => RetryInv
  BY DEF Init, RetryInv
<1>2. ASSUME IInv, RetryInv, NEW a \in answer, now >= a.retryAt, Tracked(a.key)
      PROVE  Expired(a.key) \/ entries[a.key].resetAt > a.resetAt
  <2>1. /\ a.key \in Keys /\ a.resetAt \in Nat /\ a.retryAt \in Nat /\ now \in Nat
        /\ entries[a.key] \in Entry
    BY <1>2 DEF IInv, TypeOK, Tracked
  <2>2. entries[a.key].resetAt \in Nat
    BY <2>1 DEF Entry
  <2>3. a.resetAt <= a.retryAt
    BY <1>2 DEF RetryInv
  <2> QED BY <1>2, <2>1, <2>2, <2>3 DEF Expired
<1>3. IInv /\ RetryInv => RetryIsEnough
  BY <1>2 DEF RetryIsEnough
<1> QED BY <1>1, <1>3, RetryStep, InductiveInvariant, PTL DEF Spec

-----------------------------------------------------------------------------
(* Refinement.                                                             *)

Windows == [k \in Keys |-> OpenWindow(k)]

Brief(A) == {[key |-> a.key, admitted |-> a.admitted, remaining |-> a.remaining] : a \in A}

LEMMA OpenIsNotClosed ==
    ASSUME TypeOK, NEW k \in Keys, Tracked(k), ~ Expired(k)
    PROVE  OpenWindow(k) \in OpenWindows /\ OpenWindow(k) # NoEntry
<1>1. entries[k] \in Entry
  BY DEF TypeOK, Tracked
<1>2. OpenWindow(k) \in OpenWindows
  BY <1>1, LimiterAssumption DEF OpenWindow, OpenWindows, Entry
<1> QED
  BY <1>2, LimiterAssumption

(* The entry a request leaves behind is open.                              *)
LEMMA RequestImage ==
    ASSUME IInv, NEW k \in Keys, Request(k)
    PROVE  Windows' = [Windows EXCEPT ![k] =
                         [until |-> Counted(k).resetAt,
                          used |-> IF Counted(k).count <= MaxRequests
                                     THEN Counted(k).count ELSE MaxRequests]]
<1> DEFINE e == Counted(k)
<1>1. e \in Entry
  BY CountedIsEntry DEF IInv
<1>2. now < e.resetAt
  <2>1. CASE ~ Tracked(k) \/ Expired(k)
    BY <2>1, LimiterAssumption DEF Counted, IInv, TypeOK
  <2>2. CASE Tracked(k) /\ ~ Expired(k)
    <3>1. entries[k] \in Entry
      BY <2>2 DEF IInv, TypeOK, Tracked
    <3> QED
      BY <2>2, <3>1 DEF Counted, Expired, Entry, IInv, TypeOK
  <2> QED
    BY <2>1, <2>2
<1>3. entries'[k] = e /\ now' = now /\ now \in Nat
  BY DEF Request, IInv, TypeOK
<1>4. e # NoEntry
  BY <1>1, LimiterAssumption
<1>5. ~ now >= e.resetAt
  BY <1>1, <1>2, <1>3 DEF Entry
<1>6. OpenWindow(k)' = [until |-> e.resetAt,
                        used |-> IF e.count <= MaxRequests THEN e.count ELSE MaxRequests]
  <2> HIDE DEF e
  <2> QED
    BY <1>3, <1>4, <1>5 DEF OpenWindow, Tracked, Expired
<1>7. ASSUME NEW l \in Keys, l # k
      PROVE  OpenWindow(l)' = OpenWindow(l)
  <2>1. entries'[l] = entries[l] /\ now' = now
    BY <1>7 DEF Request, IInv, TypeOK
  <2> QED
    BY <2>1 DEF OpenWindow, Tracked, Expired
<1> HIDE DEF e
<1> QED
  BY <1>6, <1>7 DEF Windows, e

(* What admission and refusal mean for the map.                            *)
LEMMA AdmitRead ==
    ASSUME NEW k \in Keys, NEW w, Promise!Current(k) = w,
           w.used < MaxRequests,
           Windows' = [Windows EXCEPT ![k] = [until |-> w.until, used |-> w.used + 1]],
           Brief(answer') = {[key |-> k, admitted |-> TRUE,
                              remaining |-> MaxRequests - w.used - 1]},
           admitted' = [admitted EXCEPT ![k] = Append(@, now)],
           now' = now
    PROVE  Promise!Admit(k)
BY Zenon DEF Promise!Admit, Windows, Brief

LEMMA RefuseRead ==
    ASSUME NEW k \in Keys, NEW w, Promise!Current(k) = w,
           w.used = MaxRequests,
           Windows' = Windows,
           Brief(answer') = {[key |-> k, admitted |-> FALSE, remaining |-> 0]},
           admitted' = admitted,
           now' = now
    PROVE  Promise!Refuse(k)
BY Zenon DEF Promise!Refuse, Windows, Brief

(* A request is an admission or a refusal.                                 *)
LEMMA RequestImplements ==
    ASSUME IInv, NEW k \in Keys, Request(k)
    PROVE  Promise!Admit(k) \/ Promise!Refuse(k)
<1> DEFINE e == Counted(k)
<1>1. /\ e \in Entry /\ e.count \in Nat /\ e.resetAt \in Nat
      /\ MaxRequests \in Nat /\ MaxRequests >= 1 /\ now' = now
  BY CountedIsEntry, LimiterAssumption DEF IInv, Entry, Request
<1>2. Brief(answer') = {[key |-> k, admitted |-> Admits(e), remaining |-> Remaining(e)]}
  BY DEF Request, Brief
<1>a. /\ Admits(e) => admitted' = [admitted EXCEPT ![k] = Append(@, now)]
      /\ ~ Admits(e) => admitted' = admitted
  BY DEF Request
<1>3. Promise!Current(k) = IF Windows[k] = NoEntry
                             THEN [until |-> now + Window, used |-> 0] ELSE Windows[k]
  BY DEF Promise!Current, Windows
<1>4. CASE ~ Tracked(k) \/ Expired(k)
  <2>1. e.count = 1 /\ e.resetAt = now + Window
    BY <1>4 DEF Counted
  <2>2. Windows[k] = NoEntry
    BY <1>4 DEF Windows, OpenWindow
  <2>3. Promise!Current(k) = [until |-> now + Window, used |-> 0]
    BY <1>3, <2>2
  <2>4. Admits(e) = TRUE /\ Remaining(e) = MaxRequests - 0 - 1
    BY <1>1, <2>1 DEF Admits, Remaining
  <2>5. Windows' = [Windows EXCEPT ![k] = [until |-> e.resetAt, used |-> 0 + 1]]
    BY <1>1, <2>1, RequestImage
  <2>6. Brief(answer') = {[key |-> k, admitted |-> TRUE, remaining |-> MaxRequests - 0 - 1]}
    BY <1>2, <2>4
  <2> DEFINE w == [until |-> now + Window, used |-> 0]
  <2>7. w.used = 0 /\ w.until = e.resetAt /\ w.used < MaxRequests
    BY <1>1, <2>1
  <2>8. admitted' = [admitted EXCEPT ![k] = Append(@, now)]
    BY <1>a, <2>4
  <2> HIDE DEF e, w
  <2> QED
    BY <1>1, <2>3, <2>5, <2>6, <2>7, <2>8, AdmitRead DEF w
<1>5. CASE Tracked(k) /\ ~ Expired(k)
  <2> DEFINE n == entries[k].count
             used == IF n <= MaxRequests THEN n ELSE MaxRequests
  <2>1. n \in Nat
    BY <1>5 DEF IInv, TypeOK, Tracked, Entry
  <2>2. e.count = n + 1 /\ e.resetAt = entries[k].resetAt
    <3>1. entries[k] \in Entry
      BY <1>5 DEF IInv, TypeOK, Tracked
    <3> QED
      BY <1>5, <3>1 DEF Counted, Entry
  <2>3. Windows[k] = [until |-> e.resetAt, used |-> used] /\ Windows[k] # NoEntry
    BY <1>5, <2>2, OpenIsNotClosed DEF Windows, OpenWindow, IInv
  <2>4. Promise!Current(k) = [until |-> e.resetAt, used |-> used]
    BY <1>3, <2>3
  <2> HIDE DEF e, n
  <2>5. CASE n + 1 <= MaxRequests
    <3>1. used = n /\ used < MaxRequests
      BY <1>1, <2>1, <2>5
    <3>2. Admits(e) = TRUE /\ Remaining(e) = MaxRequests - used - 1
      BY <1>1, <2>1, <2>2, <2>5, <3>1 DEF Admits, Remaining
    <3>3. Windows' = [Windows EXCEPT ![k] = [until |-> e.resetAt, used |-> used + 1]]
      BY <2>2, <2>5, <3>1, RequestImage DEF e
    <3>4. Brief(answer') = {[key |-> k, admitted |-> TRUE,
                             remaining |-> MaxRequests - used - 1]}
      BY <1>2, <3>2
    <3> DEFINE w == [until |-> e.resetAt, used |-> used]
    <3>5. w.used = used /\ w.until = e.resetAt
      OBVIOUS
    <3>6. Promise!Current(k) = w
      BY <2>4
    <3>7. admitted' = [admitted EXCEPT ![k] = Append(@, now)]
      BY <1>a, <3>2
    <3> HIDE DEF used, w
    <3> QED
      BY <1>1, <3>1, <3>3, <3>4, <3>5, <3>6, <3>7, AdmitRead
  <2>6. CASE ~ n + 1 <= MaxRequests
    <3>1. used = MaxRequests
      BY <1>1, <2>1, <2>6
    <3>2. Admits(e) = FALSE /\ Remaining(e) = 0
      BY <1>1, <2>1, <2>2, <2>6 DEF Admits, Remaining
    <3>3. Windows' = [Windows EXCEPT ![k] = [until |-> e.resetAt, used |-> MaxRequests]]
      BY <2>2, <2>6, RequestImage DEF e
    <3>4. Windows' = Windows
      BY <2>3, <3>1, <3>3 DEF Windows
    <3>5. Brief(answer') = {[key |-> k, admitted |-> FALSE, remaining |-> 0]}
      BY <1>2, <3>2
    <3> DEFINE w == [until |-> e.resetAt, used |-> used]
    <3>6. w.used = MaxRequests /\ Promise!Current(k) = w
      BY <2>4, <3>1
    <3>7. admitted' = admitted
      BY <1>a, <3>2
    <3> HIDE DEF used, w
    <3> QED
      BY <1>1, <3>4, <3>5, <3>6, <3>7, RefuseRead
  <2> QED
    BY <2>5, <2>6
<1> QED
  BY <1>4, <1>5

LEMMA ForgetImplements ==
    ASSUME IInv, NEW K \in SUBSET Keys, Forget(K)
    PROVE  Promise!Forget(K)
<1>1. ASSUME NEW k \in Keys
      PROVE  OpenWindow(k)' = IF k \in K THEN NoEntry ELSE OpenWindow(k)
  BY DEF Forget, OpenWindow, Tracked, Expired
<1>2. /\ now' = now /\ answer' = answer
      /\ admitted' = [k \in Keys |-> IF k \in K THEN <<>> ELSE admitted[k]]
  BY DEF Forget
<1> QED
  BY <1>1, <1>2 DEF Promise!Forget

(* The sweep changes nothing that FixedWindow can see.                     *)
LEMMA SweepStutters ==
    ASSUME IInv, Sweep
    PROVE  UNCHANGED Promise!vars
<1>1. ASSUME NEW k \in Keys
      PROVE  OpenWindow(k)' = OpenWindow(k)
  BY DEF Sweep, Sweeps, OpenWindow, Tracked, Expired
<1>2. now' = now /\ answer' = answer /\ admitted' = admitted
  BY DEF Sweep
<1> QED
  BY <1>1, <1>2 DEF Promise!vars

LEMMA TickImplements ==
    ASSUME IInv, Tick
    PROVE  Promise!Tick
<1>1. /\ now' = now + 1 /\ answer' = answer /\ entries' = entries /\ now \in Nat
      /\ admitted' = admitted
  BY DEF Tick, IInv, TypeOK
<1>2. ASSUME NEW k \in Keys
      PROVE  OpenWindow(k)' = IF OpenWindow(k) # NoEntry /\ OpenWindow(k).until <= now'
                                THEN NoEntry ELSE OpenWindow(k)
  <2>1. CASE ~ Tracked(k)
    BY <1>1, <2>1 DEF OpenWindow, Tracked
  <2>2. CASE Tracked(k)
    <3>1. entries[k] \in Entry /\ entries[k].resetAt \in Nat
      BY <2>2 DEF IInv, TypeOK, Tracked, Entry
    <3>2. CASE Expired(k)
      <4>1. Expired(k)'
        BY <1>1, <3>1, <3>2 DEF Expired
      <4> QED
        BY <3>2, <4>1 DEF OpenWindow
    <3>3. CASE ~ Expired(k)
      <4>1. OpenWindow(k) # NoEntry
        BY <2>2, <3>3, OpenIsNotClosed DEF IInv
      <4>2. OpenWindow(k).until = entries[k].resetAt
        BY <2>2, <3>3 DEF OpenWindow
      <4> QED
        BY <1>1, <2>2, <3>1, <3>3, <4>1, <4>2 DEF OpenWindow, Tracked, Expired
    <3> QED
      BY <3>2, <3>3
  <2> QED
    BY <2>1, <2>2
<1> QED
  BY <1>1, <1>2 DEF Promise!Tick

LEMMA InitImplements == Init => Promise!Init
BY DEF Init, Promise!Init, OpenWindow, Tracked

LEMMA StepImplements ==
    ASSUME IInv, [Next]_vars
    PROVE  [Promise!Next]_(Promise!vars)
<1>1. ASSUME NEW k \in Keys, Request(k)
      PROVE  Promise!Next
  BY <1>1, RequestImplements DEF Promise!Next
<1>2. ASSUME NEW k \in Keys, Delete(k)
      PROVE  Promise!Next
  BY <1>2, ForgetImplements DEF Delete, Promise!Next
<1>3. CASE Clear
  BY <1>3, ForgetImplements DEF Clear, Promise!Next
<1>4. CASE Sweep
  BY <1>4, SweepStutters
<1>5. CASE Tick
  BY <1>5, TickImplements DEF Promise!Next
<1>6. CASE UNCHANGED vars
  BY <1>6 DEF vars, Promise!vars, OpenWindow, Tracked, Expired
<1> QED
  BY <1>1, <1>2, <1>3, <1>4, <1>5, <1>6 DEF Next

(* The limiter implements one fixed window per key, for every set of keys, *)
(* limit and window length: stale entries and the sweep are invisible.     *)
THEOREM LimiterIsFixedWindow == Spec => FixedWindows
<1>1. IInv /\ [Next]_vars => [Promise!Next]_(Promise!vars)
  BY StepImplements
<1> QED
  BY <1>1, InitImplements, InductiveInvariant, PTL DEF Spec, FixedWindows, Promise!Spec
=============================================================================
