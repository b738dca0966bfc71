---------------------------- MODULE DesktopProofs ----------------------------
(***************************************************************************)
(* The theorems of Session, Tabs, Subscription and Driver: what one        *)
(* desktop keeps apart and in step, for any accounts, items and places,    *)
(* and any number of threads, tabs, test runs, operations and faults.      *)
(***************************************************************************)
EXTENDS Session, Sequences, SequencesExt, SequenceTheorems, FiniteSetTheorems,
        WellFoundedInduction, TLAPS

CONSTANTS Items, Doors, MaxTabs, MaxRuns, MaxSteps
VARIABLES unlocked, tabs, focused, tabApps, runs, screenshot, begun, astray
T == INSTANCE Tabs WITH apps <- tabApps

CONSTANTS MaxOpens, MaxLocks
VARIABLES holder, token, open, subscribed, calls, subs, touched, opens, locks, fails
Sub == INSTANCE Subscription WITH active <- holder, node <- token, faults <- fails

-----------------------------------------------------------------------------
(* Sequences of tabs *)

\* Numbers are well-ordered: the one fact about them that induction is needed for.
LEMMA LeastNumber ==
  ASSUME NEW S \in SUBSET Nat, S # {}
  PROVE  \E x \in S : \A y \in S : x <= y
<1> DEFINE R == OpToRel(<, Nat)
<1>1. IsWellFoundedOn(R, Nat)
  BY NatLessThanWellFounded
<1> HIDE DEF R
<1>2. PICK x \in S : \A y \in S : ~ (<<y, x>> \in R)
  BY <1>1, WFMin
<1>3. \A y \in Nat : y < x => <<y, x>> \in R
  BY DEF R, OpToRel
<1>4. ASSUME NEW y \in S PROVE x <= y
  <2>1. x \in Nat /\ y \in Nat
    OBVIOUS
  <2>2. ~ (y < x)
    BY <1>2, <1>3, <2>1
  <2> QED BY <2>1, <2>2
<1> QED BY <1>4

\* Iterator::position finds the first occurrence.
LEMMA PositionIs ==
  ASSUME NEW ts \in Seq(T!Tab), NEW t, t \in ToSet(ts)
  PROVE  /\ T!Position(ts, t) \in 1..Len(ts) /\ ts[T!Position(ts, t)] = t
         /\ \A j \in 1..(T!Position(ts, t) - 1) : ts[j] # t
<1> DEFINE S == {k \in 1..Len(ts) : ts[k] = t}
<1>1. S \in SUBSET Nat /\ S # {}
  BY DEF ToSet
<1>2. PICK k \in S : \A j \in S : k <= j
  BY <1>1, LeastNumber
<1>3. k \in 1..Len(ts) /\ ts[k] = t /\ \A j \in 1..(k - 1) : ts[j] # t
  BY <1>2
<1> QED BY <1>3 DEF T!Position

LEMMA RemovedIs ==
  ASSUME NEW S, NEW ts \in Seq(S), NEW k \in 1..Len(ts)
  PROVE  /\ RemoveAt(ts, k) \in Seq(S) /\ Len(RemoveAt(ts, k)) = Len(ts) - 1
         /\ \A i \in 1..(Len(ts) - 1) :
              RemoveAt(ts, k)[i] = IF i < k THEN ts[i] ELSE ts[i + 1]
<1> DEFINE a == SubSeq(ts, 1, k - 1)
           b == SubSeq(ts, k + 1, Len(ts))
           n == Len(ts)
<1>0. n \in Nat /\ k \in 1..n /\ DOMAIN ts = 1..n
  OBVIOUS
<1>1. a \in Seq(S) /\ Len(a) = k - 1 /\ \A i \in 1..(k - 1) : a[i] = ts[i]
  <2>1. \A i \in 1..(k - 1) : ts[i] \in S
    BY <1>0
  <2> QED BY <1>0, <2>1, SubSeqProperties
<1>2. b \in Seq(S) /\ Len(b) = n - k /\ \A i \in 1..(n - k) : b[i] = ts[k + i]
  <2>1. \A i \in (k + 1)..n : ts[i] \in S
    BY <1>0
  <2>2. k + 1 \in Int /\ n \in Int /\ k + 1 <= n + 1 /\ n - (k + 1) + 1 = n - k
    BY <1>0
  <2>0. /\ b \in Seq(S) /\ Len(b) = IF k + 1 <= n THEN n - (k + 1) + 1 ELSE 0
        /\ \A i \in 1..(n - (k + 1) + 1) : b[i] = ts[k + 1 + i - 1]
    BY <2>1, <2>2, SubSeqProperties
  <2> HIDE DEF b, n
  <2>3. b \in Seq(S) /\ Len(b) = n - k
    BY <1>0, <2>0, <2>2
  <2>4. \A i \in 1..(n - k) : b[i] = ts[k + 1 + i - 1]
    BY <2>0, <2>2
  <2>5. \A i \in 1..(n - k) : k + 1 + i - 1 = k + i
    BY <1>0
  <2> QED BY <2>3, <2>4, <2>5
<1> HIDE DEF a, b, n
<1>3. a \o b \in Seq(S) /\ Len(a \o b) = n - 1
      /\ \A i \in 1..(n - 1) : (a \o b)[i] = IF i <= k - 1 THEN a[i] ELSE b[i - (k - 1)]
  <2>1. Len(a) + Len(b) = n - 1
    BY <1>0, <1>1, <1>2
  <2>2. a \o b \in Seq(S) /\ Len(a \o b) = Len(a) + Len(b)
        /\ \A i \in 1..(Len(a) + Len(b)) :
             (a \o b)[i] = IF i <= Len(a) THEN a[i] ELSE b[i - Len(a)]
    BY <1>1, <1>2, ConcatProperties
  <2> QED BY <1>1, <2>1, <2>2
<1>4. ASSUME NEW i \in 1..(n - 1) PROVE (a \o b)[i] = IF i < k THEN ts[i] ELSE ts[i + 1]
  <2>1. CASE i < k
    BY <1>0, <1>1, <1>3, <2>1
  <2>2. CASE ~(i < k)
    <3>1. i - (k - 1) \in 1..(n - k) /\ k + (i - (k - 1)) = i + 1
      BY <1>0, <2>2
    <3> QED BY <1>0, <1>2, <1>3, <2>2, <3>1
  <2> QED BY <2>1, <2>2
<1> QED BY <1>3, <1>4 DEF RemoveAt, a, b, n

\* A tab that is there once, if at all
Once(ts, t) == \A j, k \in 1..Len(ts) : ts[j] = t /\ ts[k] = t => j = k

\* Pushing a tab at the end leaves the others where they are.
LEMMA PushedIs ==
  ASSUME NEW ts \in Seq(T!Tab), NEW t \in T!Tab
  PROVE  LET w == Append(ts, t) IN
         /\ w \in Seq(T!Tab) /\ Len(w) = Len(ts) + 1
         /\ ToSet(w) = ToSet(ts) \cup {t}
         /\ \A k \in 1..Len(ts) : w[k] = ts[k]
         /\ w[Len(ts) + 1] = t
         /\ \A u : u # t /\ Once(ts, u) => Once(w, u)
         /\ t \notin ToSet(ts) => Once(w, t)
<1> DEFINE w == Append(ts, t)
           n == Len(ts)
<1>1. /\ n \in Nat /\ w \in Seq(T!Tab) /\ Len(w) = n + 1
      /\ \A k \in 1..n : w[k] = ts[k]
      /\ w[n + 1] = t
  OBVIOUS
<1> HIDE DEF w
<1>2. 1..(n + 1) = 1..n \cup {n + 1} /\ n + 1 \notin 1..n
  BY <1>1
<1> HIDE DEF n
<1>3. ToSet(w) = ToSet(ts) \cup {t}
  <2>1. ToSet(w) = {w[k] : k \in 1..(n + 1)} /\ ToSet(ts) = {ts[k] : k \in 1..n}
    BY <1>1 DEF ToSet, n
  <2> QED BY <1>1, <1>2, <2>1
<1>4. ASSUME NEW u, u # t, Once(ts, u) PROVE Once(w, u)
  BY <1>1, <1>2, <1>4 DEF Once, n
<1>5. ASSUME t \notin ToSet(ts) PROVE Once(w, t)
  <2>1. \A k \in 1..n : ts[k] # t
    BY <1>5 DEF ToSet, n
  <2> QED BY <1>1, <1>2, <2>1 DEF Once
<1> QED BY <1>1, <1>3, <1>4, <1>5 DEF w, n

\* Taking the first occurrence of a tab out leaves the others, in their order.
LEMMA WithoutIs ==
  ASSUME NEW ts \in Seq(T!Tab), NEW t, Len(ts) > 0
  PROVE  LET w == T!Without(ts, t) IN
         /\ w \in Seq(T!Tab) /\ Len(w) \in {Len(ts), Len(ts) - 1}
         /\ ToSet(w) \subseteq ToSet(ts) /\ ToSet(ts) \ {t} \subseteq ToSet(w)
         /\ Once(ts, t) => t \notin ToSet(w)
         /\ \A u : Once(ts, u) => Once(w, u)
         /\ ts[1] # t => Len(w) > 0 /\ w[1] = ts[1]
         /\ t \in ToSet(ts) =>
              /\ Len(w) = Len(ts) - 1
              /\ \A k \in 1..(Len(ts) - 1) :
                   w[k] = IF k < T!Position(ts, t) THEN ts[k] ELSE ts[k + 1]
<1> DEFINE w == T!Without(ts, t)
           n == Len(ts)
<1>0. n \in Nat /\ n > 0 /\ ToSet(ts) = {ts[k] : k \in 1..n}
  BY DEF ToSet
<1>1. CASE t \notin ToSet(ts)
  <2>1. w = ts
    BY <1>1 DEF T!Without, T!ToSet, ToSet
  <2> QED BY <1>0, <1>1, <2>1
<1>2. CASE t \in ToSet(ts)
  <2> DEFINE p == T!Position(ts, t)
  <2>1. p \in 1..n /\ ts[p] = t /\ \A j \in 1..(p - 1) : ts[j] # t
    BY <1>2, PositionIs
  <2> HIDE DEF p
  <2>2. w = RemoveAt(ts, p)
    BY <1>2 DEF T!Without, p, T!ToSet, ToSet, T!RemoveAt, RemoveAt
  <2>3. /\ w \in Seq(T!Tab) /\ Len(w) = n - 1
        /\ \A i \in 1..(n - 1) : w[i] = IF i < p THEN ts[i] ELSE ts[i + 1]
    <3>1. p \in 1..Len(ts)
      BY <2>1
    <3>2. /\ RemoveAt(ts, p) \in Seq(T!Tab) /\ Len(RemoveAt(ts, p)) = Len(ts) - 1
          /\ \A i \in 1..(Len(ts) - 1) :
               RemoveAt(ts, p)[i] = IF i < p THEN ts[i] ELSE ts[i + 1]
      BY <3>1, RemovedIs
    <3> HIDE DEF w
    <3> QED BY <2>2, <3>2
  <2> HIDE DEF w
  <2>0. n = Len(ts)
    OBVIOUS
  <2> HIDE DEF n
  <2> DEFINE From(i) == IF i < p THEN i ELSE i + 1
  <2>4. /\ \A i \in 1..(n - 1) : From(i) \in 1..n /\ From(i) # p /\ w[i] = ts[From(i)]
        /\ \A i, j \in 1..(n - 1) : From(i) = From(j) => i = j
        /\ \A k \in 1..n : k # p => \E i \in 1..(n - 1) : From(i) = k
    <3>1. \A i \in 1..(n - 1) : From(i) \in 1..n /\ From(i) # p /\ w[i] = ts[From(i)]
      BY <1>0, <2>1, <2>3
    <3>2. \A i, j \in 1..(n - 1) : From(i) = From(j) => i = j
      BY <1>0, <2>1
    <3>3. ASSUME NEW k \in 1..n, k # p PROVE \E i \in 1..(n - 1) : From(i) = k
      <4>1. CASE k < p
        <5>1. k \in 1..(n - 1) /\ From(k) = k
          BY <1>0, <2>1, <4>1
        <5> QED BY <5>1
      <4>2. CASE ~ (k < p)
        <5>1. k - 1 \in 1..(n - 1) /\ From(k - 1) = k
          BY <1>0, <2>1, <3>3, <4>2
        <5> QED BY <5>1
      <4> QED BY <4>1, <4>2
    <3> QED BY <3>1, <3>2, <3>3
  <2>5. \A i \in 1..(n - 1) : w[i] = IF i < p THEN ts[i] ELSE ts[i + 1]
    BY <2>3
  <2> HIDE DEF From
  <2>6. ToSet(w) = {w[i] : i \in 1..(n - 1)}
    <3>1. DOMAIN w = 1..Len(w)
      BY <2>3
    <3>2. ToSet(w) = {w[i] : i \in DOMAIN w}
      BY Zenon DEF ToSet
    <3> QED BY <2>3, <3>1, <3>2
  <2>7. ToSet(w) \subseteq ToSet(ts) /\ ToSet(ts) \ {t} \subseteq ToSet(w)
    <3>1. ASSUME NEW k \in 1..n, ts[k] # t PROVE ts[k] \in ToSet(w)
      <4>1. PICK i \in 1..(n - 1) : From(i) = k
        BY <2>1, <2>4, <3>1
      <4> QED BY <2>4, <2>6, <4>1
    <3>2. ToSet(w) \subseteq ToSet(ts)
      BY <1>0, <2>4, <2>6
    <3> QED BY <1>0, <3>1, <3>2
  <2>8. ASSUME Once(ts, t) PROVE t \notin ToSet(w)
    <3>1. \A j, k \in 1..n : ts[j] = t /\ ts[k] = t => j = k
      BY <2>0, <2>8 DEF Once
    <3>2. \A i \in 1..(n - 1) : w[i] # t
      BY <2>1, <2>4, <3>1
    <3> QED BY <2>6, <3>2
  <2>9. ASSUME NEW u, Once(ts, u) PROVE Once(w, u)
    <3>1. \A j, k \in 1..n : ts[j] = u /\ ts[k] = u => j = k
      BY <2>0, <2>9 DEF Once
    <3>2. ASSUME NEW i \in 1..(n - 1), NEW j \in 1..(n - 1), w[i] = u, w[j] = u
          PROVE  i = j
      <4>1. From(i) = From(j)
        BY <2>4, <3>1, <3>2
      <4> QED BY <2>4, <4>1
    <3>3. Len(w) = n - 1
      BY <2>3
    <3> QED BY <3>2, <3>3 DEF Once
  <2>10. ASSUME ts[1] # t PROVE Len(w) > 0 /\ w[1] = ts[1]
    <3>1. 1 \in 1..(n - 1) /\ 1 < p
      BY <1>0, <2>1, <2>10
    <3> QED BY <2>3, <2>5, <3>1
  <2> QED BY <1>2, <2>0, <2>3, <2>5, <2>7, <2>8, <2>9, <2>10 DEF w, p
<1> QED BY <1>1, <1>2

-----------------------------------------------------------------------------
(* Tabs *)

TestTabs == {T!TestTab(i) : i \in Items}

\* What holds of tabs, a focus, apps and runs: besides what TabsAgree says of them, a
\* test tab is there once, and is one that a run goes on in.  Closing takes out the
\* first tab of a name only, so that NoTabLeft needs both.
Sound(ts, f, as, rs) ==
  /\ ts \in Seq(T!Tab) /\ Len(ts) <= MaxTabs
  /\ f \in 1..Len(ts) /\ ts[1] = T!Home
  /\ as \subseteq ToSet(ts)
  /\ \A r \in rs : r.tab \in TestTabs
  /\ \A t \in TestTabs : Once(ts, t) /\ (t \in ToSet(ts) => \E r \in rs : r.tab = t)
  /\ "screen" \notin Doors => ToSet(ts) \subseteq as \cup {T!Home} /\ \A t : Once(ts, t)

\* The inductive invariant of Tabs.
TabsInv == T!TypeOK /\ T!ShotIsOfAsked /\ Sound(tabs, focused, tabApps, runs)

LEMMA Names ==
  /\ T!Home \in T!Tab /\ \A i \in Items : T!AppTab(i) \in T!Tab /\ T!TestTab(i) \in T!Tab
  /\ \A i \in Items : T!AppTab(i) \notin TestTabs \cup {T!Home}
  /\ T!Home \notin TestTabs /\ TestTabs \subseteq T!Tab
  /\ \A s : T!ToSet(s) = ToSet(s)
<1>1. T!Home \in T!Tab /\ \A i \in Items : T!AppTab(i) \in T!Tab /\ T!TestTab(i) \in T!Tab
  BY DEF T!Home, T!AppTab, T!TestTab, T!Tab
<1>2. T!Home.kind = "home" /\ \A i \in Items : T!AppTab(i).kind = "item"
  BY DEF T!AppTab, T!Home
<1>3. \A u \in TestTabs : u.kind = "test" /\ u \in T!Tab
  BY DEF T!TestTab, T!Tab, TestTabs
<1>4. \A s : T!ToSet(s) = ToSet(s)
  BY DEF T!ToSet, ToSet
<1> QED BY <1>1, <1>2, <1>3, <1>4

\* A tab that is taken out with its app leaves the rest sound, if every other test tab
\* keeps its run.
LEMMA ClosesSoundly ==
  ASSUME NEW ts, NEW f, NEW as, NEW rs, Sound(ts, f, as, rs), NEW t, t # T!Home,
         MaxTabs \in Nat, NEW rest, rest = T!Without(ts, t), NEW f2 \in 1..Len(rest),
         NEW rs2, \A r \in rs2 : r.tab \in TestTabs,
         \A u \in TestTabs \ {t} : (\E r \in rs : r.tab = u) => \E r \in rs2 : r.tab = u
  PROVE  Sound(rest, f2, as \ {t}, rs2)
<1>1. ts \in Seq(T!Tab) /\ Len(ts) > 0 /\ Len(ts) \in Nat
  BY DEF Sound
<1>2. /\ rest \in Seq(T!Tab) /\ Len(rest) \in {Len(ts), Len(ts) - 1}
      /\ ToSet(rest) \subseteq ToSet(ts) /\ ToSet(ts) \ {t} \subseteq ToSet(rest)
      /\ Once(ts, t) => t \notin ToSet(rest)
      /\ \A u : Once(ts, u) => Once(rest, u)
      /\ ts[1] # t => Len(rest) > 0 /\ rest[1] = ts[1]
  BY <1>1, WithoutIs
<1>3. Len(rest) <= MaxTabs /\ rest[1] = T!Home
  <2>1. Len(rest) <= Len(ts) /\ Len(ts) <= MaxTabs
    BY <1>1, <1>2 DEF Sound
  <2>2. rest[1] = T!Home
    BY <1>2 DEF Sound
  <2> QED BY <2>1, <2>2, <1>1, <1>2
<1>4. as \ {t} \subseteq ToSet(rest)
  BY <1>2 DEF Sound
<1>5. ASSUME NEW u \in TestTabs
      PROVE  Once(rest, u) /\ (u \in ToSet(rest) => \E r \in rs2 : r.tab = u)
  BY <1>2 DEF Sound
<1>6. ASSUME "screen" \notin Doors
      PROVE  ToSet(rest) \subseteq (as \ {t}) \cup {T!Home} /\ \A u : Once(rest, u)
  BY <1>2, <1>6 DEF Sound
<1> QED BY <1>2, <1>3, <1>4, <1>5, <1>6 DEF Sound

\* A tab that is pushed with its app, and is in front, leaves all sound, if a test tab is
\* pushed for a run and where there was none.
LEMMA PushesSoundly ==
  ASSUME NEW ts, NEW f, NEW as, NEW rs, Sound(ts, f, as, rs), NEW t \in T!Tab,
         Len(ts) < MaxTabs, MaxTabs \in Nat,
         NEW rs2, rs \subseteq rs2, \A r \in rs2 : r.tab \in TestTabs,
         t \in TestTabs => t \notin ToSet(ts) /\ \E r \in rs2 : r.tab = t,
         "screen" \notin Doors => t \notin ToSet(ts)
  PROVE  Sound(Append(ts, t), Len(ts) + 1, as \cup {t}, rs2)
<1> DEFINE more == Append(ts, t)
<1>1. ts \in Seq(T!Tab) /\ Len(ts) > 0 /\ Len(ts) \in Nat
  BY DEF Sound
<1>2. /\ more \in Seq(T!Tab) /\ Len(more) = Len(ts) + 1
      /\ ToSet(more) = ToSet(ts) \cup {t}
      /\ \A k \in 1..Len(ts) : more[k] = ts[k]
      /\ \A u : u # t /\ Once(ts, u) => Once(more, u)
      /\ t \notin ToSet(ts) => Once(more, t)
  BY <1>1, PushedIs
<1> HIDE DEF more
<1>3. Len(more) <= MaxTabs /\ Len(ts) + 1 \in 1..Len(more) /\ more[1] = T!Home
  <2>1. Len(more) <= MaxTabs /\ Len(ts) + 1 \in 1..Len(more) /\ 1 \in 1..Len(ts)
    BY <1>1, <1>2
  <2> QED BY <1>2, <2>1 DEF Sound
<1>4. as \cup {t} \subseteq ToSet(more)
  BY <1>2 DEF Sound
<1>5. ASSUME NEW u \in TestTabs
      PROVE  Once(more, u) /\ (u \in ToSet(more) => \E r \in rs2 : r.tab = u)
  BY <1>2 DEF Sound
<1>6. ASSUME "screen" \notin Doors
      PROVE  ToSet(more) \subseteq (as \cup {t}) \cup {T!Home} /\ \A u : Once(more, u)
  BY <1>2, <1>6 DEF Sound
<1>7. Sound(more, Len(ts) + 1, as \cup {t}, rs2)
  BY <1>2, <1>3, <1>4, <1>5, <1>6 DEF Sound
<1> QED BY <1>7 DEF more

LEMMA TabsInit ==
  ASSUME T!TabsConstants, T!Init
  PROVE  TabsInv
<1>1. <<T!Home>> \in Seq(T!Tab) /\ Len(<<T!Home>>) = 1 /\ <<T!Home>>[1] = T!Home
  BY Names
<1>2. ToSet(<<T!Home>>) = {T!Home}
  BY DEF ToSet
<1>3. Sound(<<T!Home>>, 1, {}, {})
  BY <1>1, <1>2, Names DEF Sound, Once, T!TabsConstants
<1>4. T!TypeOK /\ T!ShotIsOfAsked
  <2> DEFINE one == <<T!Home>>
  <2>1. tabs = one /\ one \in Seq(T!Tab) /\ Len(one) = 1
    BY <1>1 DEF T!Init
  <2> HIDE DEF one
  <2>2. tabs \in Seq(T!Tab) /\ Len(tabs) <= MaxTabs
    BY <2>1 DEF T!TabsConstants
  <2>3. /\ unlocked = FALSE /\ tabApps = {} /\ runs = {} /\ begun = 0 /\ astray = {}
        /\ screenshot = T!Nothing
    BY DEF T!Init
  <2>4. begun \in 0..MaxRuns
    BY <2>3 DEF T!TabsConstants
  <2> QED BY <2>2, <2>3, <2>4 DEF T!TypeOK, T!ShotIsOfAsked
<1> QED BY <1>3, <1>4 DEF T!Init, TabsInv

\* What is there to be focused once a tab that is not Home is taken out
LEMMA RestIsThere ==
  ASSUME NEW ts, NEW f, NEW as, NEW rs, Sound(ts, f, as, rs), NEW t, t # T!Home
  PROVE  /\ Len(T!Without(ts, t)) \in Nat \ {0}
         /\ \A n \in Nat \ {0} : T!Restored(n, T!Without(ts, t)) \in 1..Len(T!Without(ts, t))
<1>1. ts \in Seq(T!Tab) /\ Len(ts) > 0 /\ ts[1] = T!Home
  BY DEF Sound
<1>2. T!Without(ts, t) \in Seq(T!Tab) /\ Len(T!Without(ts, t)) > 0
  BY <1>1, WithoutIs
<1> QED BY <1>2 DEF T!Restored, T!Least

LEMMA TabsStep ==
  ASSUME T!TabsConstants, TabsInv, [T!Next]_(T!vars)
  PROVE  TabsInv'
<1> USE DEF T!TabsConstants
<1>0. /\ T!TypeOK /\ T!ShotIsOfAsked /\ Sound(tabs, focused, tabApps, runs)
      /\ tabs \in Seq(T!Tab) /\ Len(tabs) \in Nat \ {0} /\ focused \in 1..Len(tabs)
      /\ Len(tabs) <= MaxTabs /\ focused \in 1..MaxTabs
      /\ ToSet(tabs) \subseteq T!Tab /\ MaxTabs \in Nat
      /\ \A r \in runs : r.tab \in TestTabs
  <2>1. tabs \in Seq(T!Tab) /\ Len(tabs) \in Nat /\ focused \in 1..Len(tabs) /\ Len(tabs) <= MaxTabs
    BY DEF TabsInv, Sound
  <2>2. ToSet(tabs) \subseteq T!Tab
    BY <2>1 DEF ToSet
  <2>3. Len(tabs) \in Nat \ {0} /\ focused \in 1..MaxTabs
    BY <2>1
  <2>4. \A r \in runs : r.tab \in TestTabs
    BY DEF TabsInv, Sound
  <2> QED BY <2>1, <2>2, <2>3, <2>4 DEF TabsInv
\* A step that leaves what a run is of, and the tabs, is sound if the focus is.
<1>s. ASSUME UNCHANGED <<tabs, tabApps, runs>>, focused' \in 1..Len(tabs)
      PROVE  Sound(tabs, focused, tabApps, runs)'
  BY <1>0, <1>s DEF Sound
\* The types, where tabs and apps are sound
<1>t. ASSUME Sound(tabs', focused', tabApps', runs'),
             unlocked' \in BOOLEAN, screenshot' \in T!Tab \cup {T!Nothing}, begun' \in 0..MaxRuns,
             runs' \subseteq [id : 1..MaxRuns, tab : T!Tab, focus : 1..MaxTabs, left : 0..MaxSteps],
             astray' \subseteq {"driver", "screenshot"}, "screenshot" \notin astray'
      PROVE  TabsInv'
  <2>1. tabApps' \subseteq T!Tab
    <3>1. tabs' \in Seq(T!Tab) /\ tabApps' \subseteq ToSet(tabs')
      BY <1>t DEF Sound
    <3> QED BY <3>1 DEF ToSet
  <2>2. Sound(tabs, focused, tabApps, runs)'
    BY <1>t
  <2>3. T!TypeOK' /\ T!ShotIsOfAsked'
    BY <1>t, <2>1 DEF Sound, T!TypeOK, T!ShotIsOfAsked
  <2> QED BY <2>2, <2>3 DEF TabsInv
<1>1. CASE T!ResetTabs
  <2>1. /\ tabs' = <<T!Home>> /\ focused' = 1 /\ tabApps' = {} /\ unlocked' \in BOOLEAN
        /\ UNCHANGED <<runs, screenshot, begun, astray>>
    BY <1>0, <1>1 DEF T!ResetTabs, T!TypeOK
  <2>2. <<T!Home>> \in Seq(T!Tab) /\ Len(<<T!Home>>) = 1 /\ <<T!Home>>[1] = T!Home
    BY Names
  <2>3. ToSet(<<T!Home>>) = {T!Home}
    BY DEF ToSet
  <2>4. Sound(<<T!Home>>, 1, {}, runs)
    BY <1>0, <2>2, <2>3, Names DEF Sound, Once
  <2> QED BY <1>0, <1>t, <2>1, <2>4 DEF T!TypeOK, T!ShotIsOfAsked
<1>2. CASE T!TakeScreenshot
  <2>1. /\ UNCHANGED <<unlocked, tabs, focused, tabApps, runs, begun>>
        /\ screenshot' = T!Nothing /\ astray' = astray
    BY <1>2 DEF T!TakeScreenshot, T!StillFocused
  <2> QED BY <1>0, <1>s, <1>t, <2>1 DEF T!TypeOK, T!ShotIsOfAsked
<1>3. ASSUME NEW k \in 1..Len(tabs), T!Focus(k) PROVE TabsInv'
  <2>1. UNCHANGED <<unlocked, tabs, tabApps, runs, screenshot, begun, astray>> /\ focused' = k
    BY <1>3 DEF T!Focus
  <2> QED BY <1>0, <1>s, <1>t, <2>1 DEF T!TypeOK, T!ShotIsOfAsked
<1>4. ASSUME NEW t \in T!Tab, T!Close(t) PROVE TabsInv'
  <2> DEFINE rest == T!Without(tabs, t)
             pos == T!Position(tabs, t)
  <2>1. /\ t # T!Home /\ t \in ToSet(tabs) /\ tabs' = rest /\ tabApps' = tabApps \ {t}
        /\ focused' = IF focused >= T!Position(tabs, t) THEN focused - 1 ELSE focused
        /\ UNCHANGED <<unlocked, runs, screenshot, begun, astray>>
    BY <1>4, Names DEF T!Close, T!IsOpen, T!AppsAfterClose, T!FocusAfterClose
  <2>2. pos \in 1..Len(tabs) /\ tabs[pos] = t /\ tabs[1] = T!Home
    BY <1>0, <2>1, PositionIs DEF Sound
  <2>3. Len(rest) = Len(tabs) - 1
    BY <1>0, <2>1, WithoutIs
  <2>4. focused' \in 1..Len(rest)
    <3>1. pos # 1
      BY <2>1, <2>2
    <3> HIDE DEF rest, pos
    <3> QED BY <1>0, <2>1, <2>2, <2>3, <3>1 DEF pos
  <2>5. Sound(rest, focused', tabApps \ {t}, runs)
    BY <1>0, <2>1, <2>4, ClosesSoundly
  <2> QED BY <1>0, <1>t, <2>1, <2>5 DEF T!TypeOK, T!ShotIsOfAsked
<1>5. ASSUME NEW i \in Items, T!OpenFromScreen(i) PROVE TabsInv'
  <2>1. /\ "screen" \in Doors /\ Len(tabs) < MaxTabs
        /\ tabs' = Append(tabs, T!AppTab(i)) /\ focused' = Len(tabs) + 1
        /\ tabApps' = tabApps \cup {T!AppTab(i)}
        /\ UNCHANGED <<unlocked, runs, screenshot, begun, astray>>
    BY <1>5 DEF T!OpenFromScreen, T!Push
  <2>2. Sound(tabs', focused', tabApps', runs)
    BY <1>0, <2>1, Names, PushesSoundly
  <2> QED BY <1>0, <1>t, <2>1, <2>2 DEF T!TypeOK, T!ShotIsOfAsked
<1>6. ASSUME NEW i \in Items, T!OpenItem(i) PROVE TabsInv'
  <2>1. UNCHANGED <<unlocked, runs, screenshot, begun, astray>>
    BY <1>6 DEF T!OpenItem
  <2>2. CASE T!AppTab(i) \in ToSet(tabs)
    <3>1. focused' = T!Position(tabs, T!AppTab(i)) /\ UNCHANGED <<tabs, tabApps>>
      BY <1>6, <2>2, Names DEF T!OpenItem, T!AlreadyOpen, T!IsOpen
    <3>2. focused' \in 1..Len(tabs)
      BY <1>0, <2>2, <3>1, PositionIs
    <3> QED BY <1>0, <1>s, <1>t, <2>1, <3>1, <3>2 DEF T!TypeOK, T!ShotIsOfAsked
  <2>3. CASE T!AppTab(i) \notin ToSet(tabs)
    <3>1. /\ Len(tabs) < MaxTabs
          /\ tabs' = Append(tabs, T!AppTab(i)) /\ focused' = Len(tabs) + 1
          /\ tabApps' = tabApps \cup {T!AppTab(i)}
      BY <1>6, <2>3, Names DEF T!OpenItem, T!AlreadyOpen, T!IsOpen, T!Push
    <3>2. Sound(tabs', focused', tabApps', runs)
      BY <1>0, <2>3, <3>1, Names, PushesSoundly
    <3> QED BY <1>0, <1>t, <2>1, <3>2 DEF T!TypeOK, T!ShotIsOfAsked
  <2> QED BY <2>2, <2>3
<1>7. ASSUME NEW i \in Items, T!RunTests(i) PROVE TabsInv'
  <2> DEFINE t == T!TestTab(i)
             rest == T!Without(tabs, t)
             f2 == T!Restored(focused, rest)
  <2>1. UNCHANGED <<unlocked, screenshot, astray>> /\ begun < MaxRuns
    BY <1>7 DEF T!RunTests
  <2>2. t # T!Home /\ t \in TestTabs /\ t \in T!Tab
    BY Names DEF TestTabs
  <2>3. f2 \in 1..Len(rest) /\ Len(rest) \in Nat \ {0}
    BY <1>0, <2>2, RestIsThere
  <2>4. t \notin ToSet(rest)
    BY <1>0, <2>2, WithoutIs DEF Sound
  <2>5. Sound(rest, f2, tabApps \ {t}, runs)
    BY <1>0, <2>2, <2>3, ClosesSoundly
  <2>6. CASE /\ Len(rest) < MaxTabs
             /\ tabs' = Append(rest, t) /\ focused' = Len(rest) + 1
             /\ tabApps' = tabApps \cup {t} /\ begun' = begun + 1
             /\ \E n \in 0..MaxSteps :
                  runs' = runs \cup {[id |-> begun + 1, tab |-> t, focus |-> focused, left |-> n]}
    <3>1. PICK n \in 0..MaxSteps :
            runs' = runs \cup {[id |-> begun + 1, tab |-> t, focus |-> focused, left |-> n]}
      BY <2>6
    <3> DEFINE r == [id |-> begun + 1, tab |-> t, focus |-> focused, left |-> n]
    <3>2. begun + 1 \in 1..MaxRuns
      BY <1>0, <2>1 DEF T!TypeOK
    <3>3. r \in [id : 1..MaxRuns, tab : T!Tab, focus : 1..MaxTabs, left : 0..MaxSteps]
      BY <1>0, <2>2, <3>2
    <3>4. r \in runs' /\ r.tab = t /\ runs' = runs \cup {r}
      BY <3>1
    <3> HIDE DEF r
    <3>5. runs \subseteq runs' /\ (\A x \in runs' : x.tab \in TestTabs) /\ \E x \in runs' : x.tab = t
      BY <1>0, <2>2, <3>4 DEF Sound
    <3>6. Sound(Append(rest, t), Len(rest) + 1, (tabApps \ {t}) \cup {t}, runs')
      <4> HIDE DEF rest, t, f2
      <4> QED BY <2>2, <2>4, <2>5, <2>6, <3>5, PushesSoundly
    <3>7. Sound(tabs', focused', tabApps', runs')
      <4>1. (tabApps \ {t}) \cup {t} = tabApps \cup {t}
        OBVIOUS
      <4> QED BY <2>6, <3>6, <4>1
    <3> QED BY <1>0, <1>t, <2>1, <2>6, <3>2, <3>3, <3>4, <3>7 DEF T!TypeOK, T!ShotIsOfAsked
  <2>7. CASE tabs' = rest /\ tabApps' = tabApps \ {t} /\ focused' = f2 /\ UNCHANGED <<begun, runs>>
    <3>1. Sound(tabs', focused', tabApps', runs')
      BY <2>5, <2>7
    <3> QED BY <1>0, <1>t, <2>1, <2>7, <3>1 DEF T!TypeOK, T!ShotIsOfAsked
  <2> QED BY <1>7, <2>6, <2>7 DEF T!RunTests, T!Push
<1>8. ASSUME NEW i \in Items, T!Screenshot(i) PROVE TabsInv'
  <2>1. /\ UNCHANGED <<unlocked, tabs, focused, tabApps, runs, begun, astray>>
        /\ screenshot' = T!AppTab(i)
    BY <1>8 DEF T!Screenshot
  <2> QED BY <1>0, <1>s, <1>t, <2>1, Names DEF T!TypeOK, T!ShotIsOfAsked
<1>9. ASSUME NEW r \in runs, T!TestDriver(r) PROVE TabsInv'
  <2>1. /\ r.left > 0 /\ runs' = (runs \ {r}) \cup {T!Spent(r)}
        /\ astray' \in {astray, astray \cup {"driver"}}
        /\ UNCHANGED <<unlocked, tabs, focused, tabApps, screenshot, begun>>
    BY <1>9 DEF T!TestDriver
  <2>2. r.left \in 0..MaxSteps
    BY <1>0 DEF T!TypeOK
  <2>3. r.left - 1 \in 0..MaxSteps
    BY <2>1, <2>2
  <2>4. /\ T!Spent(r) \in [id : 1..MaxRuns, tab : T!Tab, focus : 1..MaxTabs, left : 0..MaxSteps]
        /\ T!Spent(r).tab = r.tab
    BY <1>0, <2>3 DEF T!TypeOK, T!Spent
  <2>5. /\ \A x \in runs' : x.tab \in TestTabs
        /\ \A t : (\E x \in runs : x.tab = t) => \E x \in runs' : x.tab = t
    BY <1>0, <2>1, <2>4 DEF Sound
  <2>6. Sound(tabs', focused', tabApps', runs')
    BY <1>0, <2>1, <2>5 DEF Sound
  <2> QED BY <1>0, <1>t, <2>1, <2>4, <2>6 DEF T!TypeOK, T!ShotIsOfAsked
<1>10. ASSUME NEW r \in runs, T!TestRunDone(r) PROVE TabsInv'
  <2> DEFINE rest == T!Without(tabs, r.tab)
  <2>1. /\ runs' = runs \ {r} /\ tabs' = rest /\ tabApps' = tabApps \ {r.tab}
        /\ focused' = T!Restored(r.focus, rest)
        /\ UNCHANGED <<unlocked, screenshot, begun, astray>>
    BY <1>10 DEF T!TestRunDone, T!ClosedBy
  <2>2. r.tab # T!Home /\ r.focus \in Nat \ {0}
    BY <1>0, Names DEF Sound, T!TypeOK
  <2>3. focused' \in 1..Len(rest)
    BY <1>0, <2>1, <2>2, RestIsThere
  <2>4. /\ \A x \in runs' : x.tab \in TestTabs
        /\ \A u \in TestTabs \ {r.tab} : (\E x \in runs : x.tab = u) => \E x \in runs' : x.tab = u
    BY <1>0, <2>1 DEF Sound
  <2>5. Sound(rest, focused', tabApps \ {r.tab}, runs')
    BY <1>0, <2>2, <2>3, <2>4, ClosesSoundly
  <2> QED BY <1>0, <1>t, <2>1, <2>5 DEF T!TypeOK, T!ShotIsOfAsked
<1>11. CASE UNCHANGED T!vars
  BY <1>11 DEF T!vars, TabsInv, T!TypeOK, T!ShotIsOfAsked, Sound
<1> QED
  BY <1>1, <1>2, <1>3, <1>4, <1>5, <1>6, <1>7, <1>8, <1>9, <1>10, <1>11 DEF T!Next

\* The tabs, their apps, the runs and the slot of a screenshot have their types.
THEOREM TabsTypeCorrect ==
  ASSUME T!TabsConstants PROVE T!Spec => []T!TypeOK
<1>1. TabsInv => T!TypeOK
  BY DEF TabsInv
<1> QED BY TabsInit, TabsStep, <1>1, PTL DEF T!Spec

\* The focus is on a tab and Home is first, an app that runs has a tab, a screenshot is
\* of what was asked for, and no test tab outlives its run, whatever was closed, reset or
\* restored by index meanwhile; without the screen's own buttons, every tab has its app,
\* and no item two tabs.
THEOREM TabsCorrect ==
  ASSUME T!TabsConstants PROVE T!Spec => []T!TabsAgree
<1>1. TabsInv => T!TabsAgree
  <2> SUFFICES ASSUME TabsInv PROVE T!TabsAgree
    OBVIOUS
  <2>1. Sound(tabs, focused, tabApps, runs) /\ T!ShotIsOfAsked
    BY DEF TabsInv
  <2>2. T!FocusInRange /\ T!AppsHaveTabs
    BY <2>1, Names DEF Sound, T!FocusInRange, T!AppsHaveTabs
  <2>3. T!NoTabLeft
    BY <2>1, Names DEF Sound, T!NoTabLeft, T!IsOpen, TestTabs
  <2>4. ASSUME "screen" \notin Doors PROVE T!TabsHaveApps /\ T!OneTabEach
    BY <2>1, <2>4, Names DEF Sound, T!TabsHaveApps, T!OneTabEach, Once
  <2> QED BY <2>1, <2>2, <2>3, <2>4 DEF T!TabsAgree
<1> QED BY TabsInit, TabsStep, <1>1, PTL DEF T!Spec

\* Closing a tab that does not show leaves in front the one that does, wherever the
\* closed one stood.
THEOREM FocusStays ==
  ASSUME T!TabsConstants PROVE T!Spec => T!FocusFollows
<1>1. ASSUME TabsInv, NEW t \in T!Tab, T!Close(t), tabs[focused] # t
      PROVE  tabs'[focused'] = tabs[focused]
  <2> DEFINE rest == T!Without(tabs, t)
             pos == T!Position(tabs, t)
  <2>1. /\ t \in ToSet(tabs) /\ tabs' = rest
        /\ focused' = IF focused >= pos THEN focused - 1 ELSE focused
    BY <1>1, Names DEF T!Close, T!IsOpen, T!FocusAfterClose
  <2>2. tabs \in Seq(T!Tab) /\ Len(tabs) > 0 /\ Len(tabs) \in Nat /\ focused \in 1..Len(tabs)
    BY <1>1 DEF TabsInv, Sound
  <2>3. pos \in 1..Len(tabs) /\ tabs[pos] = t
    BY <2>1, <2>2, PositionIs
  <2>4. \A k \in 1..(Len(tabs) - 1) : rest[k] = IF k < pos THEN tabs[k] ELSE tabs[k + 1]
    BY <2>1, <2>2, WithoutIs
  <2>5. focused # pos
    BY <1>1, <2>3
  <2> HIDE DEF rest, pos
  <2>6. CASE focused < pos
    <3>1. focused' = focused /\ focused \in 1..(Len(tabs) - 1)
      BY <2>1, <2>2, <2>3, <2>6
    <3> QED BY <2>1, <2>4, <2>6, <3>1
  <2>7. CASE focused > pos
    <3>1. focused' = focused - 1 /\ focused - 1 \in 1..(Len(tabs) - 1) /\ ~(focused - 1 < pos)
          /\ focused - 1 + 1 = focused
      BY <2>1, <2>2, <2>3, <2>7
    <3> QED BY <2>1, <2>4, <3>1
  <2> QED BY <2>2, <2>3, <2>5, <2>6, <2>7
<1>2. TabsInv /\ [T!Next]_(T!vars)
        => [\A t \in T!Tab : T!Close(t) /\ tabs[focused] # t => tabs'[focused'] = tabs[focused]]_(T!vars)
  BY <1>1
<1> QED BY TabsInit, TabsStep, <1>2, PTL DEF T!Spec, T!FocusFollows

-----------------------------------------------------------------------------
(* Subscription *)

\* The inductive invariant: what is open was opened under the account that is unlocked,
\* and so was what a call under way asks for, whoever is unlocked when it arrives.
SubscriptionInv ==
  /\ Sub!TypeOK /\ Sub!OnlyWhatWasOpen
  /\ holder = None => open = {}
  /\ \A i \in open : <<holder, i>> \in touched
  /\ \A c \in calls : c.op = "subscribe" => <<c.did, c.item>> \in touched

\* What a message's end asks the node for was opened, if what is open was.
LEMMA AsksForWhatIsOpen ==
  ASSUME NEW record \in SUBSET Items, NEW unsubscribing \in SUBSET Sub!Call,
         \A c \in unsubscribing : c.op = "unsubscribe",
         Sub!AfterMessage(record, unsubscribing),
         holder' \in Account \cup {None}, token' \in Account \cup {None},
         open' \subseteq Items, opens' \in 0..MaxOpens, calls \subseteq Sub!Call,
         \A i \in open' : <<holder', i>> \in touched',
         \A c \in calls : c.op = "subscribe" => <<c.did, c.item>> \in touched'
  PROVE  /\ calls' \subseteq Sub!Call /\ subscribed' \subseteq Items
         /\ \A c \in calls' : c.op = "subscribe" => <<c.did, c.item>> \in touched'
<1>1. CASE holder' = None \/ token' = None
  <2>1. calls' = calls \cup unsubscribing /\ subscribed' = record
    BY <1>1 DEF Sub!AfterMessage
  <2> QED BY <2>1
<1>2. CASE ~ (holder' = None \/ token' = None)
  <2> DEFINE asked == Sub!Asking("subscribe", Sub!FirstSightings(record))
  <2>1. /\ calls' = calls \cup unsubscribing \cup asked
        /\ subscribed' = record \cup Sub!FirstSightings(record)
    BY <1>2 DEF Sub!AfterMessage
  <2>2. Sub!FirstSightings(record) \subseteq open'
    BY DEF Sub!FirstSightings
  <2>3. ASSUME NEW c \in asked PROVE c \in Sub!Call /\ <<c.did, c.item>> \in touched'
    <3>1. PICK i \in open' :
            c = [op |-> "subscribe", did |-> holder', token |-> token', item |-> i, at |-> opens']
      BY <2>2, <2>3 DEF Sub!Asking
    <3>2. c.did = holder' /\ c.item = i
      BY <3>1
    <3>3. c \in Sub!Call
      BY <1>2, <3>1 DEF Sub!Call
    <3> QED BY <3>2, <3>3
  <2> HIDE DEF asked
  <2> QED BY <2>1, <2>2, <2>3
<1> QED BY <1>1, <1>2

LEMMA SubscriptionInit ==
  ASSUME Sub!SubscriptionConstants, Sub!Init
  PROVE  SubscriptionInv
BY DEF Sub!SubscriptionConstants, Sub!Init, SubscriptionInv, Sub!TypeOK, Sub!OnlyWhatWasOpen

LEMMA SubscriptionStep ==
  ASSUME Sub!SubscriptionConstants, SubscriptionInv, [Sub!Next]_(Sub!vars)
  PROVE  SubscriptionInv'
<1> USE DEF Sub!SubscriptionConstants
<1>0. /\ holder \in Account \cup {None} /\ token \in Account \cup {None}
      /\ open \subseteq Items /\ subscribed \subseteq Items /\ calls \subseteq Sub!Call
      /\ subs \subseteq Account \X Items /\ touched \subseteq Account \X Items
      /\ opens \in 0..MaxOpens /\ locks \in 0..MaxLocks /\ fails \in 0..MaxFaults
      /\ subs \subseteq touched
      /\ holder = None => open = {}
      /\ \A i \in open : <<holder, i>> \in touched
      /\ \A c \in calls : c.op = "subscribe" => <<c.did, c.item>> \in touched
  BY DEF SubscriptionInv, Sub!TypeOK, Sub!OnlyWhatWasOpen
<1>1. CASE Sub!Lock
  <2>1. /\ locks' = locks + 1 /\ locks < MaxLocks /\ holder' = None /\ open' = {}
        /\ UNCHANGED <<token, subscribed, calls, subs, touched, opens, fails>>
    BY <1>1 DEF Sub!Lock
  <2>2. locks' \in 0..MaxLocks
    BY <1>0, <2>1
  <2> QED BY <1>0, <2>1, <2>2 DEF SubscriptionInv, Sub!TypeOK, Sub!OnlyWhatWasOpen
<1>2. CASE Sub!Claim
  <2>1. /\ holder # None /\ token' = holder /\ Sub!AfterMessage(subscribed, {})
        /\ UNCHANGED <<holder, open, subs, touched, opens, locks, fails>>
    BY <1>2 DEF Sub!Claim
  <2>2. /\ calls' \subseteq Sub!Call /\ subscribed' \subseteq Items
        /\ \A c \in calls' : c.op = "subscribe" => <<c.did, c.item>> \in touched'
    BY <1>0, <2>1, AsksForWhatIsOpen
  <2> QED BY <1>0, <2>1, <2>2 DEF SubscriptionInv, Sub!TypeOK, Sub!OnlyWhatWasOpen
<1>3. ASSUME NEW a \in Account, Sub!Unlock(a) PROVE SubscriptionInv'
  <2>1. /\ holder' = a /\ open' = {} /\ token' \in {a, token, None}
        /\ UNCHANGED <<subscribed, calls, subs, touched, opens, locks, fails>>
    BY <1>3 DEF Sub!Unlock
  <2> QED BY <1>0, <2>1 DEF SubscriptionInv, Sub!TypeOK, Sub!OnlyWhatWasOpen
<1>4. ASSUME NEW i \in Items, Sub!Open(i) PROVE SubscriptionInv'
  <2>1. /\ holder # None /\ opens' \in {opens, opens + 1} /\ opens' <= MaxOpens
        /\ open' = open \cup {i} /\ touched' = touched \cup {<<holder, i>>}
        /\ UNCHANGED <<holder, token, subs, locks, fails>>
        /\ Sub!AfterMessage(subscribed, {})
    <3>1. opens' = opens + (IF \E a \in Account : <<a, i>> \in touched THEN 1 ELSE 0)
      BY <1>4 DEF Sub!Open
    <3>2. opens' \in {opens, opens + 1}
      BY <1>0, <3>1
    <3> QED BY <1>4, <3>2 DEF Sub!Open
  <2>2. opens' \in 0..MaxOpens /\ open' \subseteq Items /\ touched' \subseteq Account \X Items
    BY <1>0, <2>1
  <2>3. /\ calls' \subseteq Sub!Call /\ subscribed' \subseteq Items
        /\ \A c \in calls' : c.op = "subscribe" => <<c.did, c.item>> \in touched'
    BY <1>0, <2>1, <2>2, AsksForWhatIsOpen
  <2> QED BY <1>0, <2>1, <2>2, <2>3 DEF SubscriptionInv, Sub!TypeOK, Sub!OnlyWhatWasOpen
<1>5. ASSUME NEW i \in Items, Sub!Close(i) PROVE SubscriptionInv'
  <2>1. /\ i \in open /\ open' = open \ {i}
        /\ UNCHANGED <<holder, token, subs, touched, opens, locks, fails>>
        /\ Sub!AfterMessage(subscribed \ {i}, Sub!Told(i))
    BY <1>5 DEF Sub!Close
  <2>2. Sub!Told(i) \subseteq Sub!Call /\ \A c \in Sub!Told(i) : c.op = "unsubscribe"
    BY <1>0, <2>1 DEF Sub!Told, Sub!Asking, Sub!Call
  <2>3. /\ calls' \subseteq Sub!Call /\ subscribed' \subseteq Items
        /\ \A c \in calls' : c.op = "subscribe" => <<c.did, c.item>> \in touched'
    BY <1>0, <2>1, <2>2, AsksForWhatIsOpen
  <2> QED BY <1>0, <2>1, <2>3 DEF SubscriptionInv, Sub!TypeOK, Sub!OnlyWhatWasOpen
<1>6. ASSUME NEW c \in calls, Sub!Served(c) PROVE SubscriptionInv'
  <2>1. /\ calls' = calls \ {c}
        /\ subs' \subseteq subs \cup (IF c.op = "subscribe" THEN {<<c.did, c.item>>} ELSE {})
        /\ UNCHANGED <<holder, token, open, subscribed, touched, opens, locks, fails>>
    BY <1>6 DEF Sub!Served
  <2>2. subs' \subseteq touched
    BY <1>0, <2>1
  <2> QED BY <1>0, <2>1, <2>2 DEF SubscriptionInv, Sub!TypeOK, Sub!OnlyWhatWasOpen
<1>7. ASSUME NEW c \in calls, Sub!Fails(c) PROVE SubscriptionInv'
  <2>1. /\ calls' = calls \ {c} /\ fails' = fails + 1 /\ fails < MaxFaults
        /\ UNCHANGED <<holder, token, open, subscribed, subs, touched, opens, locks>>
    BY <1>7 DEF Sub!Fails
  <2>2. fails' \in 0..MaxFaults
    BY <1>0, <2>1
  <2> QED BY <1>0, <2>1, <2>2 DEF SubscriptionInv, Sub!TypeOK, Sub!OnlyWhatWasOpen
<1>8. CASE UNCHANGED Sub!vars
  BY <1>8 DEF Sub!vars, SubscriptionInv, Sub!TypeOK, Sub!OnlyWhatWasOpen
<1> QED
  BY <1>1, <1>2, <1>3, <1>4, <1>5, <1>6, <1>7, <1>8 DEF Sub!Next

\* Calls under way, subscriptions and what was open are of accounts and items.
THEOREM SubscriptionTypeCorrect ==
  ASSUME Sub!SubscriptionConstants PROVE Sub!Spec => []Sub!TypeOK
<1>1. SubscriptionInv => Sub!TypeOK
  BY DEF SubscriptionInv
<1> QED BY SubscriptionInit, SubscriptionStep, <1>1, PTL DEF Sub!Spec

\* The node pushes an account nothing that it never had open, whichever call was late,
\* failed or overtook another, and whoever was unlocked by then.
THEOREM PushesWhatWasOpen ==
  ASSUME Sub!SubscriptionConstants PROVE Sub!Spec => []Sub!OnlyWhatWasOpen
<1>1. SubscriptionInv => Sub!OnlyWhatWasOpen
  BY DEF SubscriptionInv
<1> QED BY SubscriptionInit, SubscriptionStep, <1>1, PTL DEF Sub!Spec

-----------------------------------------------------------------------------
(* Session *)

App == [of : Account, unsaved : BOOLEAN]
Writes == {"doc", "relationship", "workspace", "token"}
Signups == {"Signup", "Register"}
\* The threads that are still to add a workspace, each counted when it was started
Adding(threads) == {j \in threads : j.kind = "AddSpace" /\ j.stage = "started"}

\* A signup's thread is as far as its account's file, and no account has two: what it
\* ends with, the phrase, is of a file with a keystore.
SignupsAreOnDisk ==
  /\ \A j \in jobs : j.kind \in Signups =>
       /\ j.stage \in {"started", "hashed"} => files[j.who] = "none"
       /\ j.stage = "opened" => files[j.who] = "opened"
       /\ j.stage \in {"keyed", "ok"} => files[j.who] = "keyed"
       /\ j.stage # "hashing"
  /\ \A j, k \in jobs : j.kind \in Signups /\ k.kind \in Signups /\ j.who = k.who => j = k

\* Each front end starts threads of its own, but for a claim.
StartedByItsFrontend ==
  \A j \in jobs : /\ j.kind \in {"Login", "Signup", "AddSpace"} => "window" \in Frontends
                  /\ j.kind \in {"Unlock", "Register"} => "bridge" \in Frontends

\* With one front end, a page, a phrase, or a message that leads to one of them, is
\* of an account that is unlocked.
PagesAreOfAnAccount ==
  \/ screen \in {"Mnemonic", "Spaces", "Items"}
  \/ \E j \in jobs : j.kind \in {"Login", "Signup"} /\ j.stage = "ok"
  => active # None

\* The message of a claim that succeeded is on its way.
Claimed == \E j \in jobs : j.kind = "Claim" /\ j.stage = "ok"
\* Unless a claim outlived its account, what is stored was issued to its account, and
\* is in use, or a claim is about to say so.
StoredIsUsed == ClaimStrayed \/ (OwnRelationship /\ (StoredInUse \/ Claimed))

PageIsFresh == screen = "Spaces" /\ active # None => page.spaces = spaces[active]
AppsOfActive == \A p \in apps : p.of = active

\* The inductive invariant of Session.
SessionTypes ==
  TypeOK /\ \A a \in Account : spaces[a] + Cardinality(Adding(jobs)) <= started
SessionInv ==
  /\ SessionTypes /\ StartedByItsFrontend
  /\ SignupsAreOnDisk /\ PhraseMeansKeystore
  /\ Frontends # {"window", "bridge"} => PagesAreOfAnAccount
  /\ "window" \notin Frontends => OwnDocs /\ AppsOfActive /\ PageIsFresh /\ StoredIsUsed

LEMMA AppIsFinite == IsFiniteSet(App)
<1> DEFINE pairs == Account \X BOOLEAN
           f == [x \in pairs |-> [of |-> x[1], unsaved |-> x[2]]]
<1>1. IsFiniteSet(BOOLEAN)
  <2>1. BOOLEAN = {TRUE} \cup {FALSE}
    OBVIOUS
  <2>2. IsFiniteSet({TRUE})
    BY FS_Singleton
  <2>3. IsFiniteSet({TRUE} \cup {FALSE})
    BY <2>2, FS_AddElement
  <2> QED BY <2>1, <2>3
<1>2. IsFiniteSet(pairs)
  BY <1>1, FS_Product, SessionAssumption
<1>3. f \in Surjection(pairs, App)
  <2>1. f \in [pairs -> App]
    BY DEF App
  <2>2. ASSUME NEW p \in App PROVE \E x \in pairs : f[x] = p
    <3>1. <<p.of, p.unsaved>> \in pairs /\ f[<<p.of, p.unsaved>>] = p
      BY DEF App
    <3> QED BY <3>1
  <2> QED BY <2>1, <2>2 DEF Surjection
<1> QED BY <1>2, <1>3, FS_Surjection

LEMMA AddingIsFinite ==
  ASSUME NEW threads \in SUBSET Job
  PROVE  IsFiniteSet(Adding(threads)) /\ Cardinality(Adding(threads)) \in Nat
<1> DEFINE all == {j \in Job : j.kind = "AddSpace" /\ j.stage = "started"}
           f == [a \in Account |-> [kind |-> "AddSpace", who |-> a, stage |-> "started"]]
<1>1. f \in Surjection(Account, all)
  <2>1. f \in [Account -> all]
    BY DEF Job, Kind, Stage
  <2>2. ASSUME NEW j \in all PROVE \E a \in Account : f[a] = j
    <3>1. j.who \in Account /\ f[j.who] = j
      BY DEF Job
    <3> QED BY <3>1
  <2> QED BY <2>1, <2>2 DEF Surjection
<1>2. IsFiniteSet(all)
  BY <1>1, FS_Surjection, SessionAssumption
<1>3. Adding(threads) \in SUBSET all
  BY DEF Adding
<1> QED BY <1>2, <1>3, FS_Subset, FS_CardinalityType

\* A thread that goes on to its next stage is the same thread.
LEMMA Moved ==
  ASSUME NEW j \in Job, NEW s \in Stage
  PROVE  LET k == [j EXCEPT !.stage = s] IN
         k \in Job /\ k.kind = j.kind /\ k.who = j.who /\ k.stage = s
BY DEF Job

\* A flush keeps the apps' owners, and writes what it writes for whoever is unlocked.
LEMMA FlushNotingIs ==
  ASSUME TypeOK, active' \in Account \cup {None}, NEW noted \in SUBSET (Writes \X Account \X Account),
         NEW running \in SUBSET App, FlushNoting(noted, running)
  PROVE  /\ faults' \in 0..MaxFaults /\ apps' \subseteq App
         /\ wrote' \subseteq Writes \X Account \X Account
         /\ wrote \subseteq wrote' /\ noted \subseteq wrote'
         /\ \A p \in apps' : \E q \in running : q.of = p.of
         /\ \A w \in wrote' : \/ w \in wrote \/ w \in noted
                              \/ \E q \in running : w = <<"doc", q.of, active'>>
<1>1. PICK failed \in SUBSET {p \in running : p.unsaved} :
        LET puts == {p \in running : p.unsaved} \ failed IN
        /\ active' = None => puts = {}
        /\ active' # None => faults + Cardinality(failed) <= MaxFaults
        /\ faults' = IF active' = None THEN faults ELSE faults + Cardinality(failed)
        /\ apps' = (running \ puts) \cup {[p EXCEPT !.unsaved = FALSE] : p \in puts}
        /\ wrote' = wrote \cup noted \cup {<<"doc", p.of, active'>> : p \in puts}
  BY DEF FlushNoting
<1> DEFINE puts == {p \in running : p.unsaved} \ failed
<1>2. Cardinality(failed) \in Nat
  <2>1. failed \in SUBSET App
    OBVIOUS
  <2> QED BY <2>1, AppIsFinite, FS_Subset, FS_CardinalityType
<1>3. faults' \in 0..MaxFaults
  BY <1>1, <1>2 DEF TypeOK
<1>4. \A p \in puts : [p EXCEPT !.unsaved = FALSE] \in App /\ [p EXCEPT !.unsaved = FALSE].of = p.of
  BY DEF App
<1>5. /\ apps' = (running \ puts) \cup {[p EXCEPT !.unsaved = FALSE] : p \in puts}
      /\ wrote' = wrote \cup noted \cup {<<"doc", p.of, active'>> : p \in puts}
      /\ active' = None => puts = {}
      /\ puts \subseteq running
  BY <1>1
<1> HIDE DEF puts
<1>6. apps' \subseteq App /\ \A p \in apps' : \E q \in running : q.of = p.of
  BY <1>4, <1>5
<1>7. \A w \in wrote' : \/ w \in wrote \/ w \in noted
                        \/ \E q \in running : w = <<"doc", q.of, active'>>
  BY <1>5
<1>8. wrote' \subseteq Writes \X Account \X Account
  <2>1. ASSUME NEW p \in puts
        PROVE  <<"doc", p.of, active'>> \in Writes \X Account \X Account
    <3>1. p.of \in Account /\ active' \in Account
      BY <1>5 DEF App
    <3> QED BY <3>1 DEF Writes
  <2> QED BY <1>5, <2>1 DEF TypeOK, Writes
<1>9. wrote \subseteq wrote' /\ noted \subseteq wrote'
  BY <1>5
<1> QED BY <1>3, <1>6, <1>7, <1>8, <1>9

LEMMA FlushIs ==
  ASSUME TypeOK, active' \in Account \cup {None},
         NEW running \in SUBSET App, Flush(running)
  PROVE  /\ faults' \in 0..MaxFaults /\ apps' \subseteq App
         /\ wrote' \subseteq Writes \X Account \X Account /\ wrote \subseteq wrote'
         /\ \A p \in apps' : \E q \in running : q.of = p.of
         /\ \A w \in wrote' : w \in wrote \/ \E q \in running : w = <<"doc", q.of, active'>>
<1>1. {} \in SUBSET (Writes \X Account \X Account) /\ FlushNoting({}, running)
  BY DEF Flush
<1> QED BY <1>1, FlushNotingIs

Screens == {"Login", "Signup", "Mnemonic", "Spaces", "Items"}
Pages == [spaces : 0..MaxJobs, node : Account \cup {None}]

LEMMA ShowIs ==
  ASSUME TypeOK, active' \in Account \cup {None}, NEW to \in Screens, Show(to)
  PROVE  screen' \in Screens /\ pending' \in BOOLEAN /\ page' \in Pages
<1>1. NewPage \in Pages
  <2>1. (IF active' = None THEN 0 ELSE spaces[active']) \in 0..MaxJobs
    BY SessionAssumption DEF TypeOK
  <2>2. (IF active' = None THEN None ELSE rel[active']) \in Account \cup {None}
    BY DEF TypeOK
  <2> QED BY <2>1, <2>2 DEF NewPage, Pages
<1>2. page \in Pages
  BY DEF TypeOK, Pages
<1> QED BY <1>1, <1>2 DEF Show

LEMMA StartIs ==
  ASSUME SessionTypes, NEW kind \in Kind, NEW a \in Account, Start(kind, a)
  PROVE  /\ started' = started + 1 /\ started' \in 0..MaxJobs /\ jobs' \subseteq Job
         /\ Cardinality(Adding(jobs')) <= Cardinality(Adding(jobs)) + 1
<1> DEFINE k == [kind |-> kind, who |-> a, stage |-> "started"]
<1>1. jobs \in SUBSET Job /\ started \in 0..MaxJobs
  BY DEF SessionTypes, TypeOK
<1>2. k \in Job
  BY DEF Job, Stage
<1>3. started' = started + 1 /\ started < MaxJobs /\ jobs' = jobs \cup {k}
  BY DEF Start
<1> HIDE DEF k
<1>4. started' \in 0..MaxJobs
  BY <1>1, <1>3, SessionAssumption
<1>5. Adding(jobs') \in SUBSET (Adding(jobs) \cup {k})
  BY <1>3 DEF Adding
<1>6. /\ IsFiniteSet(Adding(jobs)) /\ Cardinality(Adding(jobs)) \in Nat
      /\ IsFiniteSet(Adding(jobs'))
  BY <1>1, <1>2, <1>3, AddingIsFinite
<1>7. /\ IsFiniteSet(Adding(jobs) \cup {k})
      /\ Cardinality(Adding(jobs) \cup {k})
           = IF k \in Adding(jobs) THEN Cardinality(Adding(jobs)) ELSE Cardinality(Adding(jobs)) + 1
  BY <1>6, FS_AddElement
<1>8. Cardinality(Adding(jobs')) <= Cardinality(Adding(jobs) \cup {k})
  BY <1>5, <1>7, FS_Subset
<1>9. Cardinality(Adding(jobs')) \in Nat
  BY <1>1, <1>2, <1>3, AddingIsFinite
<1> QED BY <1>1, <1>2, <1>3, <1>4, <1>6, <1>7, <1>8, <1>9

\* As long as no thread is started, none that is still to add a workspace appears.
LEMMA CountIsKept ==
  ASSUME SessionTypes, jobs' \subseteq Job, Adding(jobs') \subseteq Adding(jobs),
         spaces' = spaces, started' = started
  PROVE  \A a \in Account : spaces'[a] + Cardinality(Adding(jobs')) <= started'
<1>1. jobs \in SUBSET Job /\ started \in Nat /\ \A a \in Account : spaces[a] \in Nat
  BY SessionAssumption DEF SessionTypes, TypeOK
<1>2. IsFiniteSet(Adding(jobs)) /\ Cardinality(Adding(jobs)) \in Nat
  BY <1>1, AddingIsFinite
<1>3. Cardinality(Adding(jobs')) \in Nat
  BY AddingIsFinite
<1>4. Cardinality(Adding(jobs')) <= Cardinality(Adding(jobs))
  BY <1>2, FS_Subset
<1> QED BY <1>1, <1>2, <1>3, <1>4 DEF SessionTypes

\* Starting a thread leaves room for the workspace it may add.
LEMMA StartIsCounted ==
  ASSUME SessionTypes, NEW kind \in Kind, NEW a \in Account, Start(kind, a), spaces' = spaces
  PROVE  \A b \in Account : spaces'[b] + Cardinality(Adding(jobs')) <= started'
<1>1. /\ started' = started + 1 /\ jobs' \subseteq Job
      /\ Cardinality(Adding(jobs')) <= Cardinality(Adding(jobs)) + 1
  BY StartIs
<1>2. jobs \in SUBSET Job /\ started \in Nat /\ \A b \in Account : spaces[b] \in Nat
  BY SessionAssumption DEF SessionTypes, TypeOK
<1>3. Cardinality(Adding(jobs)) \in Nat /\ Cardinality(Adding(jobs')) \in Nat
  BY <1>1, <1>2, AddingIsFinite
<1>4. \A b \in Account : spaces[b] + Cardinality(Adding(jobs)) <= started
  BY DEF SessionTypes
<1> QED BY <1>1, <1>2, <1>3, <1>4

\* A workspace is added to an account by a thread that was counted for it, or by a
\* request that counts itself.
LEMMA AddedIsCounted ==
  ASSUME SessionTypes, active \in Account, spaces' = [spaces EXCEPT ![active] = @ + 1],
         jobs' \subseteq Job, Adding(jobs') \subseteq Adding(jobs), started' \in 0..MaxJobs,
         \/ started' = started + 1
         \/ started' = started /\ \E j \in Adding(jobs) : j \notin Adding(jobs')
  PROVE  /\ spaces' \in [Account -> 0..MaxJobs]
         /\ \A a \in Account : spaces'[a] + Cardinality(Adding(jobs')) <= started'
<1>1. jobs \in SUBSET Job /\ started \in Nat /\ spaces \in [Account -> 0..MaxJobs]
  BY SessionAssumption DEF SessionTypes, TypeOK
<1>2. /\ IsFiniteSet(Adding(jobs)) /\ Cardinality(Adding(jobs)) \in Nat
      /\ Cardinality(Adding(jobs')) \in Nat
  BY <1>1, AddingIsFinite
<1>3. Cardinality(Adding(jobs')) + 1 <= Cardinality(Adding(jobs)) + (started' - started)
  <2>1. CASE started' = started + 1
    <3>1. Cardinality(Adding(jobs')) <= Cardinality(Adding(jobs))
      BY <1>2, FS_Subset
    <3> QED BY <1>1, <1>2, <2>1, <3>1
  <2>2. CASE started' = started /\ \E j \in Adding(jobs) : j \notin Adding(jobs')
    <3>1. PICK j \in Adding(jobs) : j \notin Adding(jobs')
      BY <2>2
    <3>2. /\ IsFiniteSet(Adding(jobs) \ {j})
          /\ Cardinality(Adding(jobs) \ {j}) = Cardinality(Adding(jobs)) - 1
      BY <1>2, <3>1, FS_RemoveElement
    <3>3. Adding(jobs') \in SUBSET (Adding(jobs) \ {j})
      BY <3>1
    <3>4. Cardinality(Adding(jobs')) <= Cardinality(Adding(jobs) \ {j})
      BY <3>2, <3>3, FS_Subset
    <3> QED BY <1>1, <1>2, <2>2, <3>2, <3>4
  <2> QED BY <2>1, <2>2
<1>4. ASSUME NEW a \in Account
      PROVE  spaces'[a] + Cardinality(Adding(jobs')) <= started' /\ spaces'[a] \in 0..MaxJobs
  <2>1. spaces[a] \in Nat /\ spaces[a] + Cardinality(Adding(jobs)) <= started
    BY <1>1, SessionAssumption DEF SessionTypes
  <2>2. spaces'[a] \in {spaces[a], spaces[a] + 1}
    BY <1>1
  <2> QED BY <1>1, <1>2, <1>3, <2>1, <2>2, SessionAssumption
<1>5. spaces' = [a \in Account |-> spaces'[a]]
  BY <1>1
<1> QED BY <1>4, <1>5

\* What the window runs itself, and what the bridge asks for, keeps the types.
LEMMA WindowTypes ==
  ASSUME SessionTypes, Window
  PROVE  SessionTypes'
<1>0. /\ TypeOK /\ jobs \subseteq Job /\ apps \subseteq App /\ active \in Account \cup {None}
      /\ screen \in Screens /\ page \in Pages
  BY DEF SessionTypes, TypeOK, App, Screens, Pages
\* What is left but for the view and the counters, once a flush has been made
<1>f. ASSUME UNCHANGED <<files, rel, active, node, listeners, told, lost>>,
             NEW running \in SUBSET App, Flush(running),
             spaces' \in [Account -> 0..MaxJobs],
             screen' \in Screens, pending' \in BOOLEAN, page' \in Pages, jobs' \subseteq Job,
             started' \in 0..MaxJobs, edits' \in 0..MaxEdits,
             \A a \in Account : spaces'[a] + Cardinality(Adding(jobs')) <= started'
      PROVE  SessionTypes'
  <2>1. /\ faults' \in 0..MaxFaults /\ apps' \subseteq App
        /\ wrote' \subseteq Writes \X Account \X Account
    BY <1>0, <1>f, FlushIs
  <2>2. TypeOK'
    BY <1>0, <1>f, <2>1 DEF TypeOK, App, Screens, Pages, Writes
  <2> QED BY <1>f, <2>2 DEF SessionTypes
<1>1. CASE Open
  <2>1. /\ active \in Account
        /\ UNCHANGED <<files, rel, spaces, active, screen, pending, page, node, listeners,
                       jobs, told, lost, started, edits>>
        /\ Flush(apps \cup {[of |-> active, unsaved |-> FALSE]})
    BY <1>0, <1>1 DEF Open, disk, view
  <2>2. apps \cup {[of |-> active, unsaved |-> FALSE]} \in SUBSET App
    <3>1. [of |-> active, unsaved |-> FALSE] \in App
      BY <2>1 DEF App
    <3> QED BY <1>0, <3>1
  <2> QED BY <1>0, <1>f, <2>1, <2>2, CountIsKept DEF TypeOK
<1>2. CASE Lock
  <2>1. /\ active' = None /\ apps' = {} /\ Show(LockScreen)
        /\ lost' = lost \cup {p.of : p \in {q \in apps : q.unsaved}}
        /\ UNCHANGED <<files, rel, spaces, node, listeners, jobs, told, wrote, started, faults,
                       edits>>
    BY <1>2 DEF Lock, ResetTabs, disk
  <2>2. lost' \subseteq Account
    BY <1>0, <2>1 DEF TypeOK, App
  <2>3. LockScreen \in Screens
    BY DEF LockScreen, Screens
  <2>4. screen' \in Screens /\ pending' \in BOOLEAN /\ page' \in Pages
    BY <1>0, <2>1, <2>3, ShowIs
  <2>5. \A a \in Account : spaces'[a] + Cardinality(Adding(jobs')) <= started'
    BY <2>1 DEF SessionTypes
  <2>6. TypeOK'
    BY <1>0, <2>1, <2>2, <2>4 DEF TypeOK, Screens, Pages
  <2> QED BY <2>5, <2>6 DEF SessionTypes
<1>3. CASE NewWorkspace
  <2>1. /\ active \in Account /\ started < MaxJobs /\ started' = started + 1
        /\ spaces' = [spaces EXCEPT ![active] = @ + 1]
        /\ page' = Refreshed
        /\ UNCHANGED <<files, rel, active, screen, pending, node, listeners, jobs, told, lost,
                       edits>>
        /\ Flush(apps)
    BY <1>0, <1>3 DEF NewWorkspace
  <2>2. started' \in 0..MaxJobs
    BY <1>0, <2>1, SessionAssumption DEF TypeOK
  <2>3. /\ spaces' \in [Account -> 0..MaxJobs]
        /\ \A a \in Account : spaces'[a] + Cardinality(Adding(jobs')) <= started'
    BY <1>0, <2>1, <2>2, AddedIsCounted
  <2>4. page' \in Pages
    <3>1. spaces'[active] \in 0..MaxJobs
      BY <2>1, <2>3
    <3>2. rel[active] \in Account \cup {None}
      BY <1>0, <2>1 DEF TypeOK
    <3> QED BY <1>0, <2>1, <3>1, <3>2 DEF Refreshed, Pages
  <2> QED BY <1>0, <1>f, <2>1, <2>2, <2>3, <2>4 DEF TypeOK
<1>4. ASSUME NEW p \in apps, Edit(p) PROVE SessionTypes'
  <2>1. /\ edits < MaxEdits /\ edits' = edits + 1
        /\ UNCHANGED <<files, rel, spaces, active, screen, pending, page, node, listeners,
                       jobs, told, lost, started>>
        /\ Flush((apps \ {p}) \cup {[p EXCEPT !.unsaved = TRUE]})
    BY <1>4 DEF Edit, disk, view
  <2>2. edits' \in 0..MaxEdits
    BY <1>0, <2>1, SessionAssumption DEF TypeOK
  <2>3. (apps \ {p}) \cup {[p EXCEPT !.unsaved = TRUE]} \in SUBSET App
    BY <1>0 DEF App
  <2> QED BY <1>0, <1>f, <2>1, <2>2, <2>3, CountIsKept DEF TypeOK
<1>5. ASSUME NEW m \in DOMAIN Target, Turn(m) PROVE SessionTypes'
  <2>1. /\ UNCHANGED <<files, rel, spaces, active, node, listeners, jobs, told, lost, started,
                       edits>>
        /\ Show(Target[m]) /\ Flush(apps)
    BY <1>5 DEF Turn, disk
  <2>2. Target[m] \in Screens
    BY DEF Target, Screens
  <2>3. screen' \in Screens /\ pending' \in BOOLEAN /\ page' \in Pages
    BY <1>0, <2>1, <2>2, ShowIs
  <2> QED BY <1>0, <1>f, <2>1, <2>3, CountIsKept DEF TypeOK
\* What starts a thread
<1>s. ASSUME NEW kind \in Kind, NEW a \in Account, Start(kind, a), Flush(apps),
             UNCHANGED <<files, rel, spaces, active, screen, page, node, listeners, told, lost,
                         edits>>,
             pending' \in BOOLEAN
      PROVE  SessionTypes'
  <2>1. /\ started' \in 0..MaxJobs /\ jobs' \subseteq Job
        /\ \A b \in Account : spaces'[b] + Cardinality(Adding(jobs')) <= started'
    BY <1>s, StartIs, StartIsCounted
  <2> QED BY <1>0, <1>f, <1>s, <2>1 DEF TypeOK
<1>6. ASSUME NEW kind \in Kind, Ask(kind) PROVE SessionTypes'
  <2>1. active \in Account /\ Start(kind, active) /\ Flush(apps)
        /\ UNCHANGED <<files, rel, spaces, active, screen, pending, page, node, listeners, told,
                       lost, edits>>
    BY <1>0, <1>6 DEF Ask, disk, view
  <2> QED BY <1>0, <1>s, <2>1 DEF TypeOK
<1>7. ASSUME NEW kind \in Kind, NEW a \in Account, Submit(kind, a) PROVE SessionTypes'
  <2>1. /\ Start(kind, a) /\ Flush(apps) /\ pending' = TRUE
        /\ UNCHANGED <<files, rel, spaces, active, screen, page, node, listeners, told, lost,
                       edits>>
    BY <1>7 DEF Submit, disk
  <2> QED BY <1>s, <2>1
<1>8. ASSUME NEW kind \in Kind, NEW a \in Account, Request(kind, a) PROVE SessionTypes'
  <2>1. /\ Start(kind, a) /\ Flush(apps)
        /\ UNCHANGED <<files, rel, spaces, active, screen, pending, page, node, listeners, told,
                       lost, edits>>
    BY <1>8 DEF Request, disk, view
  <2> QED BY <1>0, <1>s, <2>1 DEF TypeOK
<1> QED BY <1>1, <1>2, <1>3, <1>4, <1>5, <1>6, <1>7, <1>8 DEF Window

\* So do the messages of threads that have ended, and threads on their way.
LEMMA ThreadTypes ==
  ASSUME SessionTypes, NEW j \in jobs,
         \/ LoginDone(j) \/ SignupDone(j) \/ AuthDone(j) \/ ClaimDone(j) \/ AddSpaceDone(j)
         \/ Prepare(j) \/ CommitLogin(j) \/ CommitSignup(j) \/ Claim(j) \/ CreateWorkspace(j)
  PROVE  SessionTypes'
<1>0. /\ TypeOK /\ jobs \subseteq Job /\ apps \in SUBSET App /\ active \in Account \cup {None}
      /\ screen \in Screens /\ page \in Pages /\ pending \in BOOLEAN
      /\ j \in Job /\ j.who \in Account /\ j.stage \in Stage
      /\ files \in [Account -> {"none", "opened", "keyed"}]
      /\ rel \in [Account -> Account \cup {None}] /\ spaces \in [Account -> 0..MaxJobs]
  BY DEF SessionTypes, TypeOK, App, Screens, Pages, Job
\* A thread that has ended is gone once the window has heard of it; one that goes on
\* has left its first stage.
<1>d. jobs \ {j} \subseteq Job /\ Adding(jobs \ {j}) \subseteq Adding(jobs)
  BY <1>0 DEF Adding
<1>m. ASSUME NEW s \in Stage, s # "started"
      PROVE  LET k == [j EXCEPT !.stage = s] IN
             /\ (jobs \ {j}) \cup {k} \subseteq Job
             /\ Adding((jobs \ {j}) \cup {k}) \subseteq Adding(jobs)
             /\ j \in Adding(jobs) => j \notin Adding((jobs \ {j}) \cup {k})
  <2> DEFINE k == [j EXCEPT !.stage = s]
  <2>1. k \in Job /\ k.stage = s
    BY <1>0, Moved
  <2> HIDE DEF k
  <2>2. (jobs \ {j}) \cup {k} \subseteq Job
    BY <1>0, <2>1
  <2>3. Adding((jobs \ {j}) \cup {k}) \subseteq Adding(jobs) \ {j}
    BY <1>m, <2>1 DEF Adding
  <2> QED BY <2>2, <2>3 DEF k
<1>a. ASSUME NodeOf \in Account \cup {None}, active' \in Account, Arrived
      PROVE  /\ screen' \in Screens /\ pending' \in BOOLEAN /\ page' \in Pages
             /\ node' \in Account \cup {None} /\ apps' \subseteq App /\ lost' \subseteq Account
             /\ wrote' = wrote /\ faults' = faults /\ listeners' \subseteq Account \X Account
  <2>1. /\ Show("Spaces") /\ apps' = {} /\ node' = NodeOf
        /\ lost' = lost \cup {p.of : p \in {q \in apps : q.unsaved}}
        /\ listeners' = listeners \cup (IF NodeOf = None THEN {} ELSE {<<active', NodeOf>>})
        /\ wrote' = wrote /\ faults' = faults
    BY <1>a DEF Arrived, ResetTabs
  <2>2. screen' \in Screens /\ pending' \in BOOLEAN /\ page' \in Pages
    <3>1. "Spaces" \in Screens
      BY DEF Screens
    <3> QED BY <1>0, <1>a, <2>1, <3>1, ShowIs
  <2>3. lost' \subseteq Account
    BY <1>0, <2>1 DEF TypeOK, App
  <2>4. listeners' \subseteq Account \X Account
    BY <1>0, <1>a, <2>1 DEF TypeOK
  <2> QED BY <1>a, <2>1, <2>2, <2>3, <2>4
<1>n. ASSUME active' \in Account, rel' = rel
      PROVE  NodeOf \in Account \cup {None}
  BY <1>0, <1>n DEF NodeOf
\* A message's end
<1>f. ASSUME UNCHANGED <<files, rel, spaces, active, started, edits>>,
             NEW noted \in SUBSET (Writes \X Account \X Account), FlushNoting(noted, apps),
             screen' \in Screens, pending' \in BOOLEAN, page' \in Pages, jobs' = jobs \ {j},
             node' \in Account \cup {None}, listeners' \subseteq Account \X Account,
             told' \subseteq Account, lost' = lost
      PROVE  SessionTypes'
  <2>1. /\ faults' \in 0..MaxFaults /\ apps' \subseteq App
        /\ wrote' \subseteq Writes \X Account \X Account
    BY <1>0, <1>f, FlushNotingIs
  <2>2. jobs' \subseteq Job /\ Adding(jobs') \subseteq Adding(jobs)
    BY <1>d, <1>f
  <2>3. TypeOK'
    BY <1>0, <1>f, <2>1, <2>2 DEF TypeOK, App, Screens, Pages, Writes
  <2> QED BY <1>f, <2>2, <2>3, CountIsKept DEF SessionTypes
<1>e. {} \in SUBSET (Writes \X Account \X Account)
  OBVIOUS
\* A thread that goes on, and what it changes
<1>g. ASSUME NEW s \in Stage, s # "started", MoveTo(j, s),
             UNCHANGED <<spaces, screen, pending, page, apps, node, listeners, told, lost, started,
                         edits>>,
             files' \in [Account -> {"none", "opened", "keyed"}],
             rel' \in [Account -> Account \cup {None}], active' \in Account \cup {None},
             faults' \in 0..MaxFaults,
             wrote' \subseteq Writes \X Account \X Account
      PROVE  SessionTypes'
  <2>1. jobs' \subseteq Job /\ Adding(jobs') \subseteq Adding(jobs)
    BY <1>g, <1>m DEF MoveTo
  <2>2. TypeOK'
    BY <1>0, <1>g, <2>1 DEF TypeOK, Screens, Pages, Writes
  <2> QED BY <1>g, <2>1, <2>2, CountIsKept DEF SessionTypes
<1>1. CASE LoginDone(j)
  <2>1. /\ UNCHANGED <<files, rel, spaces, active, node, listeners, told, lost, started, edits>>
        /\ jobs' = jobs \ {j} /\ Flush(apps)
        /\ IF screen = "Login" THEN LoginShown(j) ELSE UNCHANGED <<screen, pending, page>>
    BY <1>1 DEF LoginDone, disk, view
  <2>2. screen' \in Screens /\ pending' \in BOOLEAN /\ page' \in Pages
    <3>1. CASE Show("Spaces")
      <4>1. "Spaces" \in Screens
        BY DEF Screens
      <4> QED BY <1>0, <2>1, <3>1, <4>1, ShowIs
    <3>2. CASE ~Show("Spaces")
      BY <1>0, <2>1, <3>2 DEF LoginShown
    <3> QED BY <3>1, <3>2
  <2> QED BY <1>0, <1>e, <1>f, <2>1, <2>2 DEF TypeOK, Flush
<1>2. CASE SignupDone(j)
  <2>1. /\ UNCHANGED <<files, rel, spaces, active, node, listeners, lost, started, edits>>
        /\ jobs' = jobs \ {j} /\ Flush(apps)
        /\ told' \in {told, told \cup {j.who}}
        /\ Show("Mnemonic") \/ (UNCHANGED <<screen, page>> /\ pending' \in {FALSE, pending})
    BY <1>2 DEF SignupDone, disk, view
  <2>2. screen' \in Screens /\ pending' \in BOOLEAN /\ page' \in Pages
    <3>1. CASE Show("Mnemonic")
      <4>1. "Mnemonic" \in Screens
        BY DEF Screens
      <4> QED BY <1>0, <2>1, <3>1, <4>1, ShowIs
    <3>2. CASE ~Show("Mnemonic")
      BY <1>0, <2>1, <3>2
    <3> QED BY <3>1, <3>2
  <2>3. told' \subseteq Account
    BY <1>0, <2>1 DEF TypeOK
  <2> QED BY <1>0, <1>e, <1>f, <2>1, <2>2, <2>3 DEF TypeOK, Flush
<1>3. CASE AuthDone(j)
  <2>1. UNCHANGED <<files, rel, spaces, told, started, edits>> /\ jobs' = jobs \ {j}
    BY <1>3 DEF AuthDone, disk
  <2>2. CASE active' = j.who /\ Arrived
    <3>1. active' \in Account /\ NodeOf \in Account \cup {None}
      BY <1>0, <1>n, <2>1, <2>2
    <3>2. /\ screen' \in Screens /\ pending' \in BOOLEAN /\ page' \in Pages
          /\ node' \in Account \cup {None} /\ apps' \subseteq App /\ lost' \subseteq Account
          /\ wrote' = wrote /\ faults' = faults /\ listeners' \subseteq Account \X Account
      BY <1>a, <2>2, <3>1
    <3>3. jobs' \subseteq Job /\ Adding(jobs') \subseteq Adding(jobs)
      BY <1>d, <2>1
    <3>4. TypeOK'
      BY <1>0, <2>1, <3>1, <3>2, <3>3 DEF TypeOK, App, Screens, Pages
    <3> QED BY <2>1, <3>3, <3>4, CountIsKept DEF SessionTypes
  <2>3. CASE UNCHANGED <<active, screen, pending, page, node, listeners, lost>> /\ Flush(apps)
    BY <1>0, <1>e, <1>f, <2>1, <2>3 DEF TypeOK, Flush
  <2> QED BY <1>3, <2>2, <2>3 DEF AuthDone, view
<1>4. CASE ClaimDone(j)
  <2>1. /\ UNCHANGED <<files, rel, spaces, active, screen, pending, told, lost, started, edits>>
        /\ jobs' = jobs \ {j}
        /\ \/ UNCHANGED <<node, listeners, page>> /\ FlushNoting({}, apps)
           \/ /\ node' = j.who
              /\ listeners' = listeners \cup (IF active = None THEN {} ELSE {<<active, j.who>>})
              /\ page' \in {page, [page EXCEPT !.node = j.who]}
              /\ FlushNoting(IF active = None THEN {} ELSE {<<"token", j.who, active>>}, apps)
    BY <1>4 DEF ClaimDone, disk, Flush
  <2>2. node' \in Account \cup {None} /\ listeners' \subseteq Account \X Account /\ page' \in Pages
    BY <1>0, <2>1 DEF TypeOK, Pages
  <2>3. (IF active = None THEN {} ELSE {<<"token", j.who, active>>})
          \in SUBSET (Writes \X Account \X Account)
    BY <1>0 DEF Writes
  <2>4. told \subseteq Account /\ screen' \in Screens /\ pending' \in BOOLEAN
    BY <1>0, <2>1 DEF TypeOK
  <2>5. PICK noted \in SUBSET (Writes \X Account \X Account) : FlushNoting(noted, apps)
    BY <1>e, <2>1, <2>3
  <2> QED BY <1>f, <2>1, <2>2, <2>4, <2>5
<1>5. CASE AddSpaceDone(j)
  <2>1. /\ UNCHANGED <<files, rel, spaces, active, screen, pending, node, listeners, told, lost,
                       started, edits>>
        /\ jobs' = jobs \ {j} /\ Flush(apps)
        /\ page' = page \/ (active # None /\ page' = [page EXCEPT !.spaces = spaces[active]])
    BY <1>5 DEF AddSpaceDone, disk
  <2>2. page' \in Pages
    BY <1>0, <2>1 DEF Pages
  <2> QED BY <1>0, <1>e, <1>f, <2>1, <2>2 DEF TypeOK, Flush
<1>6. CASE Prepare(j)
  <2>1. /\ UNCHANGED <<files, rel, spaces, active, screen, pending, page, apps, node, listeners,
                       told, wrote, lost, started, faults, edits>>
        /\ \E s \in {"hashing", "failed", "hashed"} : MoveTo(j, s)
    BY <1>6 DEF Prepare, disk, view, history
  <2>2. PICK s \in {"hashing", "failed", "hashed"} : MoveTo(j, s)
    BY <2>1
  <2>3. s \in Stage /\ s # "started"
    BY DEF Stage
  <2> QED BY <1>0, <1>g, <2>1, <2>2, <2>3 DEF TypeOK, Writes
<1>7. CASE CommitLogin(j)
  <2>1. /\ UNCHANGED <<files, rel, spaces, screen, pending, page, apps, node, listeners,
                       told, wrote, lost, started, faults, edits>>
        /\ active' \in {active, j.who} /\ \E s \in {"ok", "failed"} : MoveTo(j, s)
    BY <1>7 DEF CommitLogin, disk, view, history
  <2>2. PICK s \in {"ok", "failed"} : MoveTo(j, s)
    BY <2>1
  <2>3. s \in Stage /\ s # "started"
    BY DEF Stage
  <2> QED BY <1>0, <1>g, <2>1, <2>2, <2>3 DEF TypeOK, Writes
<1>8. CASE CommitSignup(j)
  <2>1. UNCHANGED <<rel, spaces, started, edits>>
    BY <1>8 DEF CommitSignup
  <2>2. CASE j.stage # "keyed"
    <3>1. /\ UNCHANGED <<active, screen, pending, page, apps, node, listeners, told, wrote, lost>>
          /\ \/ /\ files' = [files EXCEPT ![j.who] = FileAt(j.stage)] /\ UNCHANGED faults
                /\ \E s \in {"opened", "keyed"} : MoveTo(j, s)
             \/ /\ faults < MaxFaults /\ faults' = faults + 1 /\ UNCHANGED files
                /\ MoveTo(j, "failed")
      BY <1>8, <2>2 DEF CommitSignup, view, history
    <3>2. files' \in [Account -> {"none", "opened", "keyed"}] /\ faults' \in 0..MaxFaults
      BY <1>0, <3>1, SessionAssumption DEF FileAt, TypeOK
    <3>3. PICK s \in {"opened", "keyed", "failed"} : MoveTo(j, s)
      BY <3>1
    <3>4. s \in Stage /\ s # "started"
      BY DEF Stage
    <3> QED BY <1>0, <1>g, <2>1, <3>1, <3>2, <3>3, <3>4 DEF TypeOK, Writes
  <2>3. CASE j.stage = "keyed" /\ j.kind = "Signup"
    <3>1. /\ active' = j.who /\ MoveTo(j, "ok")
          /\ UNCHANGED <<files, screen, pending, page, apps, node, listeners, told, wrote, lost,
                         faults>>
      BY <1>8, <2>3 DEF CommitSignup, view, history
    <3>2. "ok" \in Stage
      BY DEF Stage
    <3> QED BY <1>0, <1>g, <2>1, <3>1, <3>2 DEF TypeOK, Writes
  <2>4. CASE j.stage = "keyed" /\ j.kind # "Signup"
    <3>1. /\ active' = j.who /\ UNCHANGED files /\ jobs' = jobs \ {j}
          /\ told' = told \cup {j.who} /\ Arrived
      BY <1>8, <2>4 DEF CommitSignup
    <3>2. active' \in Account /\ NodeOf \in Account \cup {None}
      BY <1>0, <1>n, <2>1, <3>1
    <3>3. /\ screen' \in Screens /\ pending' \in BOOLEAN /\ page' \in Pages
          /\ node' \in Account \cup {None} /\ apps' \subseteq App /\ lost' \subseteq Account
          /\ wrote' = wrote /\ faults' = faults /\ listeners' \subseteq Account \X Account
      BY <1>a, <3>1, <3>2
    <3>4. /\ jobs' \subseteq Job /\ Adding(jobs') \subseteq Adding(jobs)
          /\ told' \subseteq Account
      BY <1>0, <1>d, <3>1 DEF TypeOK
    <3>5. TypeOK'
      BY <1>0, <2>1, <3>1, <3>2, <3>3, <3>4 DEF TypeOK, App, Screens, Pages
    <3> QED BY <2>1, <3>4, <3>5, CountIsKept DEF SessionTypes
  <2> QED BY <2>2, <2>3, <2>4
<1>9. CASE Claim(j)
  <2>1. /\ UNCHANGED <<files, spaces, active, screen, pending, page, apps, node, listeners, told,
                       lost, started, faults, edits>>
    BY <1>9 DEF Claim, view
  <2>2. CASE \E s \in {"failed", "ok"} : MoveTo(j, s)
    <3>1. PICK s \in {"failed", "ok"} : MoveTo(j, s)
      BY <2>2
    <3>2. s \in Stage /\ s # "started"
      BY DEF Stage
    <3>3. \/ UNCHANGED <<rel, wrote>>
          \/ /\ active # None /\ rel' = [rel EXCEPT ![active] = j.who]
             /\ wrote' = wrote \cup {<<"relationship", j.who, active>>}
      BY <1>9 DEF Claim
    <3>4. /\ rel' \in [Account -> Account \cup {None}]
          /\ wrote' \subseteq Writes \X Account \X Account
      BY <1>0, <3>3 DEF TypeOK, Writes
    <3> QED BY <1>0, <1>g, <2>1, <3>1, <3>2, <3>4 DEF TypeOK
  <2>3. CASE ~ \E s \in {"failed", "ok"} : MoveTo(j, s)
    <3> DEFINE k == [j EXCEPT !.who = active, !.stage = "hashed"]
    <3>1. /\ j.kind = "Claim" /\ active # None /\ jobs' = (jobs \ {j}) \cup {k}
          /\ UNCHANGED <<rel, wrote>>
      BY <1>9, <2>3 DEF Claim
    <3>2. k \in Job /\ k.stage = "hashed"
      BY <1>0, <3>1 DEF Job, Stage
    <3> HIDE DEF k
    <3>3. jobs' \subseteq Job /\ Adding(jobs') \subseteq Adding(jobs)
      BY <1>0, <3>1, <3>2 DEF Adding
    <3>4. TypeOK'
      BY <1>0, <2>1, <3>1, <3>3 DEF TypeOK, Screens, Pages
    <3> QED BY <2>1, <3>3, <3>4, CountIsKept DEF SessionTypes
  <2> QED BY <2>2, <2>3
<1>10. CASE CreateWorkspace(j)
  <2>1. /\ j.kind = "AddSpace" /\ j.stage = "started"
        /\ UNCHANGED <<files, rel, active, screen, pending, page, apps, node, listeners, told,
                       lost, started, faults, edits>>
        /\ \/ MoveTo(j, "failed") /\ UNCHANGED <<wrote, spaces>>
           \/ /\ active # None /\ MoveTo(j, "ok")
              /\ wrote' = wrote \cup {<<"workspace", j.who, active>>}
              /\ spaces' = [spaces EXCEPT ![active] = @ + 1]
    BY <1>10 DEF CreateWorkspace, view
  <2>2. {"failed", "ok"} \subseteq Stage
    BY DEF Stage
  <2>3. CASE MoveTo(j, "failed") /\ UNCHANGED <<wrote, spaces>>
    BY <1>0, <1>g, <2>1, <2>2, <2>3 DEF TypeOK, Writes
  <2>4. CASE /\ active # None /\ MoveTo(j, "ok")
             /\ wrote' = wrote \cup {<<"workspace", j.who, active>>}
             /\ spaces' = [spaces EXCEPT ![active] = @ + 1]
    <3>1. active \in Account
      BY <1>0, <2>4
    <3>2. j \in Adding(jobs)
      BY <2>1 DEF Adding
    <3>3. /\ jobs' \subseteq Job /\ Adding(jobs') \subseteq Adding(jobs)
          /\ j \notin Adding(jobs')
      BY <1>m, <2>2, <2>4, <3>2 DEF MoveTo
    <3>4. started' \in 0..MaxJobs
      BY <1>0, <2>1 DEF TypeOK
    <3>5. /\ spaces' \in [Account -> 0..MaxJobs]
          /\ \A a \in Account : spaces'[a] + Cardinality(Adding(jobs')) <= started'
      BY <2>1, <2>4, <3>1, <3>2, <3>3, <3>4, AddedIsCounted
    <3>6. wrote' \subseteq Writes \X Account \X Account
      BY <1>0, <2>4, <3>1 DEF TypeOK, Writes
    <3>7. TypeOK'
      BY <1>0, <2>1, <3>3, <3>5, <3>6 DEF TypeOK, Screens, Pages, Writes
    <3> QED BY <3>5, <3>7 DEF SessionTypes
  <2> QED BY <2>1, <2>3, <2>4
<1> QED BY <1>1, <1>2, <1>3, <1>4, <1>5, <1>6, <1>7, <1>8, <1>9, <1>10

\* A front end's threads stay of their kind.
LEMMA FrontendStep ==
  ASSUME TypeOK, StartedByItsFrontend, [Next]_vars
  PROVE  StartedByItsFrontend'
<1>0. jobs \subseteq Job
  BY DEF TypeOK
<1>k. ASSUME \A k \in jobs' : \E i \in jobs : i.kind = k.kind
      PROVE  StartedByItsFrontend'
  BY <1>k DEF StartedByItsFrontend
<1>j. ASSUME NEW j \in jobs, \E s \in Stage : MoveTo(j, s)
      PROVE  StartedByItsFrontend'
  <2>1. PICK s \in Stage : MoveTo(j, s)
    BY <1>j
  <2>2. [j EXCEPT !.stage = s].kind = j.kind
    BY <1>0, Moved
  <2> QED BY <1>k, <2>1, <2>2 DEF MoveTo
<1>s. ASSUME NEW kind \in Kind, NEW a \in Account, Start(kind, a),
             kind \in {"Login", "Signup", "AddSpace"} => "window" \in Frontends,
             kind \in {"Unlock", "Register"} => "bridge" \in Frontends
      PROVE  StartedByItsFrontend'
  <2> DEFINE k == [kind |-> kind, who |-> a, stage |-> "started"]
  <2>1. jobs' = jobs \cup {k} /\ k.kind = kind
    BY <1>s DEF Start
  <2> HIDE DEF k
  <2> QED BY <1>s, <2>1 DEF StartedByItsFrontend
<1>1. CASE Open \/ Lock \/ NewWorkspace \/ (\E p \in apps : Edit(p)) \/ \E m \in DOMAIN Target : Turn(m)
  <2>1. jobs' = jobs
    BY <1>1 DEF Open, Lock, NewWorkspace, Edit, Turn
  <2> QED BY <1>k, <2>1
<1>2. ASSUME NEW kind \in Kind, Ask(kind) PROVE StartedByItsFrontend'
  <2>1. active \in Account /\ Start(kind, active) /\ "window" \in Frontends
        /\ kind \in {"AddSpace", "Claim"}
    BY <1>2 DEF Ask, TypeOK
  <2> QED BY <1>s, <2>1
<1>3. ASSUME NEW kind \in Kind, NEW a \in Account, Submit(kind, a) PROVE StartedByItsFrontend'
  <2>1. Start(kind, a) /\ "window" \in Frontends /\ kind \in {"Login", "Signup"}
    BY <1>3 DEF Submit
  <2> QED BY <1>s, <2>1
<1>4. ASSUME NEW kind \in Kind, NEW a \in Account, Request(kind, a) PROVE StartedByItsFrontend'
  <2>1. Start(kind, a) /\ "bridge" \in Frontends /\ kind \in {"Register", "Unlock", "Claim"}
    BY <1>4 DEF Request
  <2> QED BY <1>s, <2>1
<1>5. ASSUME NEW j \in jobs,
             LoginDone(j) \/ SignupDone(j) \/ AuthDone(j) \/ ClaimDone(j) \/ AddSpaceDone(j)
      PROVE  StartedByItsFrontend'
  <2>1. jobs' = jobs \ {j}
    BY <1>5 DEF LoginDone, SignupDone, AuthDone, ClaimDone, AddSpaceDone
  <2> QED BY <1>k, <2>1
<1>6. ASSUME NEW j \in jobs, Prepare(j) PROVE StartedByItsFrontend'
  BY <1>j, <1>6 DEF Prepare, Stage
<1>7. ASSUME NEW j \in jobs, CommitLogin(j) PROVE StartedByItsFrontend'
  BY <1>j, <1>7 DEF CommitLogin, Stage
<1>8. ASSUME NEW j \in jobs, CommitSignup(j) PROVE StartedByItsFrontend'
  <2>1. (\E s \in Stage : MoveTo(j, s)) \/ jobs' = jobs \ {j}
    BY <1>8 DEF CommitSignup, Stage
  <2>2. CASE jobs' = jobs \ {j}
    BY <1>k, <2>2
  <2> QED BY <1>j, <2>1, <2>2
<1>9. ASSUME NEW j \in jobs, Claim(j) PROVE StartedByItsFrontend'
  <2>1. CASE \E s \in Stage : MoveTo(j, s)
    BY <1>j, <2>1
  <2>2. CASE jobs' = (jobs \ {j}) \cup {[j EXCEPT !.who = active, !.stage = "hashed"]}
    <3>1. [j EXCEPT !.who = active, !.stage = "hashed"].kind = j.kind
      BY <1>0 DEF Job
    <3> QED BY <1>k, <2>2, <3>1
  <2> QED BY <1>9, <2>1, <2>2 DEF Claim, Stage
<1>10. ASSUME NEW j \in jobs, CreateWorkspace(j) PROVE StartedByItsFrontend'
  BY <1>j, <1>10 DEF CreateWorkspace, Stage
<1>11. CASE Crash
  BY <1>11 DEF Crash, StartedByItsFrontend
<1>12. CASE UNCHANGED vars
  BY <1>12 DEF vars, StartedByItsFrontend
<1> QED
  BY <1>1, <1>2, <1>3, <1>4, <1>5, <1>6, <1>7, <1>8, <1>9, <1>10, <1>11, <1>12
  DEF Next, Window, Handle, Thread

\* A signup's thread and its file go on together, so a phrase is of a stored keystore,
\* also after a crash: commit_signup makes the file and puts the keystore first.
LEMMA SignupStep ==
  ASSUME TypeOK, SignupsAreOnDisk, PhraseMeansKeystore, [Next]_vars
  PROVE  SignupsAreOnDisk' /\ PhraseMeansKeystore'
<1>0. jobs \subseteq Job /\ files \in [Account -> {"none", "opened", "keyed"}] /\ told \subseteq Account
  BY DEF TypeOK
\* Nothing becomes of a signup
<1>g. ASSUME files' = files, told' = told, \A k \in jobs' : k.kind \in Signups => k \in jobs
      PROVE  SignupsAreOnDisk' /\ PhraseMeansKeystore'
  BY <1>g DEF SignupsAreOnDisk, PhraseMeansKeystore
<1>o. ASSUME NEW j \in jobs, j.kind \notin Signups, files' = files, told' = told,
             \E s \in Stage : MoveTo(j, s)
      PROVE  SignupsAreOnDisk' /\ PhraseMeansKeystore'
  <2>1. PICK s \in Stage : MoveTo(j, s)
    BY <1>o
  <2>2. [j EXCEPT !.stage = s].kind = j.kind
    BY <1>0, Moved
  <2> QED BY <1>g, <1>o, <2>1, <2>2 DEF MoveTo
<1>s. ASSUME NEW kind \in Kind, NEW a \in Account, Start(kind, a), files' = files, told' = told,
             kind \in Signups => a \notin Made /\ \A j \in jobs : j.who # a
      PROVE  SignupsAreOnDisk' /\ PhraseMeansKeystore'
  <2> DEFINE k == [kind |-> kind, who |-> a, stage |-> "started"]
  <2>1. jobs' = jobs \cup {k} /\ k.kind = kind /\ k.who = a /\ k.stage = "started"
    BY <1>s DEF Start
  <2> HIDE DEF k
  <2>2. CASE kind \notin Signups
    BY <1>g, <1>s, <2>1, <2>2
  <2>3. CASE kind \in Signups
    <3>1. files[a] = "none"
      BY <1>s, <2>3 DEF Made
    <3> QED BY <1>s, <2>1, <2>3, <3>1 DEF SignupsAreOnDisk, PhraseMeansKeystore
  <2> QED BY <2>2, <2>3
<1>1. CASE Open \/ Lock \/ NewWorkspace \/ (\E p \in apps : Edit(p)) \/ \E m \in DOMAIN Target : Turn(m)
  <2>1. jobs' = jobs /\ files' = files /\ told' = told
    BY <1>1 DEF Open, Lock, NewWorkspace, Edit, Turn, disk
  <2> QED BY <1>g, <2>1
<1>2. ASSUME NEW kind \in Kind, Ask(kind) PROVE SignupsAreOnDisk' /\ PhraseMeansKeystore'
  <2>1. active \in Account /\ Start(kind, active) /\ files' = files /\ told' = told
        /\ kind \in {"AddSpace", "Claim"}
    BY <1>2 DEF Ask, TypeOK, disk
  <2> QED BY <1>s, <2>1 DEF Signups
<1>3. ASSUME NEW kind \in Kind, NEW a \in Account, Submit(kind, a)
      PROVE  SignupsAreOnDisk' /\ PhraseMeansKeystore'
  <2>1. /\ Start(kind, a) /\ files' = files /\ told' = told
        /\ kind \in {"Login", "Signup"} /\ ((kind = "Login") = (a \in Made))
        /\ kind = "Signup" => \A j \in jobs : j.who # a
    BY <1>3 DEF Submit, disk
  <2>2. kind \in Signups => kind = "Signup" /\ a \notin Made
    BY <2>1 DEF Signups
  <2> QED BY <1>s, <2>1, <2>2
<1>4. ASSUME NEW kind \in Kind, NEW a \in Account, Request(kind, a)
      PROVE  SignupsAreOnDisk' /\ PhraseMeansKeystore'
  <2>1. /\ Start(kind, a) /\ files' = files /\ told' = told
        /\ kind \in {"Register", "Unlock", "Claim"}
        /\ kind = "Register" => a \notin Made /\ \A j \in jobs : j.who # a
    BY <1>4 DEF Request, disk
  <2> QED BY <1>s, <2>1 DEF Signups
<1>5. ASSUME NEW j \in jobs, LoginDone(j) \/ AuthDone(j) \/ ClaimDone(j) \/ AddSpaceDone(j)
      PROVE  SignupsAreOnDisk' /\ PhraseMeansKeystore'
  <2>1. jobs' = jobs \ {j} /\ files' = files /\ told' = told
    BY <1>5 DEF LoginDone, AuthDone, ClaimDone, AddSpaceDone, disk
  <2> QED BY <1>g, <2>1
<1>6. ASSUME NEW j \in jobs, SignupDone(j) PROVE SignupsAreOnDisk' /\ PhraseMeansKeystore'
  <2>1. /\ jobs' = jobs \ {j} /\ files' = files /\ j.kind \in Signups
        /\ told' = told \/ (j.stage = "ok" /\ told' = told \cup {j.who})
    BY <1>6 DEF SignupDone, disk, Signups
  <2> QED BY <2>1 DEF SignupsAreOnDisk, PhraseMeansKeystore
<1>7. ASSUME NEW j \in jobs, Prepare(j) PROVE SignupsAreOnDisk' /\ PhraseMeansKeystore'
  <2>1. files' = files /\ told' = told
    BY <1>7 DEF Prepare, disk, history
  <2>2. CASE j.kind \notin Signups
    <3>1. \E s \in Stage : MoveTo(j, s)
      BY <1>7 DEF Prepare, Stage
    <3> QED BY <1>o, <2>1, <2>2, <3>1
  <2>3. CASE j.kind \in Signups
    <3> DEFINE k == [j EXCEPT !.stage = "hashed"]
    <3>1. j.stage # "hashing"
      BY <2>3 DEF SignupsAreOnDisk
    <3>2. j.stage = "started" /\ jobs' = (jobs \ {j}) \cup {k}
      BY <1>7, <2>3, <3>1 DEF Prepare, MoveTo, Signups
    <3>3. k.kind = j.kind /\ k.who = j.who /\ k.stage = "hashed"
      BY <1>0 DEF Job
    <3> HIDE DEF k
    <3> QED BY <2>1, <2>3, <3>2, <3>3 DEF SignupsAreOnDisk, PhraseMeansKeystore
  <2> QED BY <2>2, <2>3
<1>8. ASSUME NEW j \in jobs, CommitLogin(j) PROVE SignupsAreOnDisk' /\ PhraseMeansKeystore'
  <2>1. /\ files' = files /\ told' = told /\ j.kind \notin Signups
        /\ \E s \in Stage : MoveTo(j, s)
    BY <1>8 DEF CommitLogin, disk, history, Signups, Stage
  <2> QED BY <1>o, <2>1
<1>9. ASSUME NEW j \in jobs, CommitSignup(j) PROVE SignupsAreOnDisk' /\ PhraseMeansKeystore'
  <2>1. j.kind \in Signups /\ j.who \in Account /\ j.stage \in {"hashed", "opened", "keyed"}
    BY <1>0, <1>9 DEF CommitSignup, Signups, Job
  <2>2. \A i \in jobs \ {j} : i.kind \in Signups => i.who # j.who
    BY <2>1 DEF SignupsAreOnDisk
  <2>3. CASE j.stage # "keyed" /\ files' = files
    <3> DEFINE k == [j EXCEPT !.stage = "failed"]
    <3>1. jobs' = (jobs \ {j}) \cup {k} /\ told' = told
      <4>1. FileAt(j.stage) # files[j.who]
        BY <2>1, <2>3 DEF FileAt, SignupsAreOnDisk
      <4> QED BY <1>0, <1>9, <2>1, <2>3, <4>1 DEF CommitSignup, MoveTo, history
    <3>2. k.kind = j.kind /\ k.who = j.who /\ k.stage = "failed"
      BY <1>0 DEF Job
    <3> HIDE DEF k
    <3> QED BY <2>1, <2>2, <2>3, <3>1, <3>2 DEF SignupsAreOnDisk, PhraseMeansKeystore
  <2>4. CASE j.stage # "keyed" /\ files' # files
    <3> DEFINE to == IF j.stage = "hashed" THEN "opened" ELSE "keyed"
               k == [j EXCEPT !.stage = to]
    <3>1. /\ jobs' = (jobs \ {j}) \cup {k} /\ told' = told
          /\ files' = [files EXCEPT ![j.who] = to]
      BY <1>9, <2>4 DEF CommitSignup, MoveTo, history, FileAt
    <3>2. k.kind = j.kind /\ k.who = j.who /\ k.stage = to /\ to \in {"opened", "keyed"}
      BY <1>0 DEF Job
    <3>3. files'[j.who] = to /\ \A a \in Account \ {j.who} : files'[a] = files[a]
      BY <1>0, <2>1, <3>1
    <3>4. j.who \notin told
      BY <2>1, <2>4 DEF SignupsAreOnDisk, PhraseMeansKeystore
    <3>5. \A i \in jobs : i.who \in Account
      BY <1>0 DEF Job
    <3> HIDE DEF k, to
    <3>6. PhraseMeansKeystore'
      BY <1>0, <3>1, <3>3, <3>4 DEF PhraseMeansKeystore
    <3>7. SignupsAreOnDisk'
      BY <2>1, <2>2, <3>1, <3>2, <3>3, <3>5 DEF SignupsAreOnDisk
    <3> QED BY <3>6, <3>7
  <2>5. CASE j.stage = "keyed" /\ j.kind = "Signup"
    <3> DEFINE k == [j EXCEPT !.stage = "ok"]
    <3>1. jobs' = (jobs \ {j}) \cup {k} /\ told' = told /\ files' = files
      BY <1>9, <2>5 DEF CommitSignup, MoveTo, history
    <3>2. k.kind = j.kind /\ k.who = j.who /\ k.stage = "ok"
      BY <1>0 DEF Job
    <3> HIDE DEF k
    <3> QED BY <2>1, <2>2, <2>5, <3>1, <3>2 DEF SignupsAreOnDisk, PhraseMeansKeystore
  <2>6. CASE j.stage = "keyed" /\ j.kind # "Signup"
    <3>1. jobs' = jobs \ {j} /\ told' = told \cup {j.who} /\ files' = files
      BY <1>9, <2>6 DEF CommitSignup
    <3> QED BY <2>1, <2>6, <3>1 DEF SignupsAreOnDisk, PhraseMeansKeystore
  <2> QED BY <2>3, <2>4, <2>5, <2>6
<1>10. ASSUME NEW j \in jobs, Claim(j) PROVE SignupsAreOnDisk' /\ PhraseMeansKeystore'
  <2>1. files' = files /\ told' = told /\ j.kind \notin Signups
    BY <1>10 DEF Claim, Signups
  <2>2. CASE \E s \in Stage : MoveTo(j, s)
    BY <1>o, <2>1, <2>2
  <2>3. CASE jobs' = (jobs \ {j}) \cup {[j EXCEPT !.who = active, !.stage = "hashed"]}
    <3>1. [j EXCEPT !.who = active, !.stage = "hashed"].kind = j.kind
      BY <1>0 DEF Job
    <3> QED BY <1>g, <2>1, <2>3, <3>1
  <2> QED BY <1>10, <2>2, <2>3 DEF Claim, Stage
<1>11. ASSUME NEW j \in jobs, CreateWorkspace(j) PROVE SignupsAreOnDisk' /\ PhraseMeansKeystore'
  <2>1. /\ files' = files /\ told' = told /\ j.kind \notin Signups
        /\ \E s \in Stage : MoveTo(j, s)
    BY <1>11 DEF CreateWorkspace, Signups, Stage
  <2> QED BY <1>o, <2>1
<1>12. CASE Crash
  <2>1. jobs' = {} /\ files' = files /\ told' = told
    BY <1>12 DEF Crash, disk, history
  <2> QED BY <1>g, <2>1
<1>13. CASE UNCHANGED vars
  <2>1. jobs' = jobs /\ files' = files /\ told' = told
    BY <1>13 DEF vars
  <2> QED BY <1>g, <2>1
<1> QED
  BY <1>1, <1>2, <1>3, <1>4, <1>5, <1>6, <1>7, <1>8, <1>9, <1>10, <1>11, <1>12, <1>13
  DEF Next, Window, Handle, Thread

\* With one front end, nothing locks while a page shows that is of an account, or while
\* a thread that has unlocked one is still to be heard of.
LEMMA PagesStep ==
  ASSUME TypeOK, StartedByItsFrontend, PagesAreOfAnAccount, Frontends # {"window", "bridge"},
         [Next]_vars
  PROVE  PagesAreOfAnAccount'
<1>0. jobs \subseteq Job /\ ~ ("window" \in Frontends /\ "bridge" \in Frontends) /\ None \notin Account
  <2>1. ASSUME "window" \in Frontends, "bridge" \in Frontends PROVE FALSE
    <3>1. Frontends = {"window", "bridge"}
      BY <2>1, SessionAssumption
    <3> QED BY <3>1
  <2> QED BY <2>1, SessionAssumption DEF TypeOK
<1> DEFINE Ends(j) == j.kind \in {"Login", "Signup"} /\ j.stage = "ok"
           Of == {"Mnemonic", "Spaces", "Items"}
<1>a. ASSUME active' # None PROVE PagesAreOfAnAccount'
  BY <1>a DEF PagesAreOfAnAccount
<1>g. ASSUME active' = active,
             screen' \in Of => screen \in Of \/ \E j \in jobs : Ends(j),
             \A k \in jobs' : Ends(k) => k \in jobs
      PROVE  PagesAreOfAnAccount'
  BY <1>g DEF PagesAreOfAnAccount
<1>o. ASSUME NEW j \in jobs, active' = active, screen' = screen,
             NEW s \in Stage, MoveTo(j, s), s # "ok" \/ j.kind \notin {"Login", "Signup"}
      PROVE  PagesAreOfAnAccount'
  <2>1. [j EXCEPT !.stage = s].kind = j.kind /\ [j EXCEPT !.stage = s].stage = s
    BY <1>0, Moved
  <2> QED BY <1>g, <1>o, <2>1 DEF MoveTo
<1>1. CASE Open \/ NewWorkspace \/ \E p \in apps : Edit(p)
  <2>1. jobs' = jobs /\ active' = active /\ screen' = screen
    BY <1>1 DEF Open, NewWorkspace, Edit, view
  <2> QED BY <1>g, <2>1
<1>2. CASE Lock
  <2>1. "bridge" \in Frontends /\ jobs' = jobs /\ screen' = LockScreen
    BY <1>2 DEF Lock, Show
  <2>2. screen' \notin Of
    BY <2>1 DEF LockScreen
  <2>3. \A j \in jobs' : ~Ends(j)
    BY <1>0, <2>1 DEF StartedByItsFrontend
  <2> QED BY <2>2, <2>3 DEF PagesAreOfAnAccount
<1>3. ASSUME NEW m \in DOMAIN Target, Turn(m) PROVE PagesAreOfAnAccount'
  <2>1. jobs' = jobs /\ active' = active /\ screen' = Target[m] /\ m \in Offered
    BY <1>3 DEF Turn, Show
  <2>2. Target[m] \in Of => screen \in Of
    <3>1. CASE screen \in {"Login", "Signup"}
      <4>1. Offered \subseteq {"Login", "AddAccount", "Signup"}
        BY <3>1 DEF Offered, LoginView, SignupView
      <4>2. m = "AddAccount"
        BY <2>1, <4>1 DEF Target
      <4> QED BY <4>2 DEF Target
    <3>2. CASE screen \notin {"Login", "Signup"}
      BY <3>2 DEF TypeOK
    <3> QED BY <3>1, <3>2
  <2> QED BY <1>g, <2>1, <2>2
<1>4. ASSUME NEW kind \in Kind, NEW a \in Account, Submit(kind, a) \/ Request(kind, a)
      PROVE  PagesAreOfAnAccount'
  <2>1. active' = active /\ screen' = screen /\ Start(kind, a)
    BY <1>4 DEF Submit, Request, view
  <2>2. jobs' = jobs \cup {[kind |-> kind, who |-> a, stage |-> "started"]}
    BY <2>1 DEF Start
  <2> QED BY <1>g, <2>1, <2>2
<1>5. ASSUME NEW kind \in Kind, Ask(kind) PROVE PagesAreOfAnAccount'
  <2>1. active' # None
    BY <1>5 DEF Ask
  <2> QED BY <1>a, <2>1
<1>6. ASSUME NEW j \in jobs, LoginDone(j) \/ SignupDone(j) PROVE PagesAreOfAnAccount'
  <2>1. /\ jobs' = jobs \ {j} /\ active' = active /\ j.kind \in {"Login", "Signup"}
        /\ screen' = screen \/ j.stage = "ok"
    BY <1>6 DEF LoginDone, SignupDone, LoginShown, view
  <2> QED BY <1>g, <2>1
<1>7. ASSUME NEW j \in jobs, AuthDone(j) PROVE PagesAreOfAnAccount'
  <2>1. /\ jobs' = jobs \ {j}
        /\ active' = j.who \/ (active' = active /\ screen' = screen)
    BY <1>7 DEF AuthDone, view
  <2>2. CASE active' = j.who
    BY <1>0, <1>a, <2>2 DEF Job
  <2>3. CASE active' = active /\ screen' = screen
    BY <1>g, <2>1, <2>3
  <2> QED BY <2>1, <2>2, <2>3
<1>8. ASSUME NEW j \in jobs, ClaimDone(j) \/ AddSpaceDone(j) PROVE PagesAreOfAnAccount'
  <2>1. jobs' = jobs \ {j} /\ active' = active /\ screen' = screen
    BY <1>8 DEF ClaimDone, AddSpaceDone
  <2> QED BY <1>g, <2>1
<1>9. ASSUME NEW j \in jobs, Prepare(j) PROVE PagesAreOfAnAccount'
  <2>1. /\ active' = active /\ screen' = screen
        /\ \E s \in {"hashing", "hashed", "failed"} : MoveTo(j, s)
    BY <1>9 DEF Prepare, view
  <2>2. PICK s \in {"hashing", "hashed", "failed"} : MoveTo(j, s)
    BY <2>1
  <2>3. s \in Stage /\ s # "ok"
    BY DEF Stage
  <2> QED BY <1>o, <2>1, <2>2, <2>3
<1>10. ASSUME NEW j \in jobs, CommitLogin(j) PROVE PagesAreOfAnAccount'
  <2>1. active' = j.who \/ (active' = active /\ screen' = screen /\ MoveTo(j, "failed"))
    BY <1>10 DEF CommitLogin, view
  <2>2. CASE active' = j.who
    BY <1>0, <1>a, <2>2 DEF Job
  <2>3. CASE active' = active /\ screen' = screen /\ MoveTo(j, "failed")
    BY <1>o, <2>3 DEF Stage
  <2> QED BY <2>1, <2>2, <2>3
<1>11. ASSUME NEW j \in jobs, CommitSignup(j) PROVE PagesAreOfAnAccount'
  <2>1. CASE active' = j.who
    BY <1>0, <1>a, <2>1 DEF Job
  <2>2. CASE active' # j.who
    <3>1. /\ active' = active /\ screen' = screen
          /\ \E s \in {"opened", "keyed", "failed"} : MoveTo(j, s)
      BY <1>11, <2>2 DEF CommitSignup, view
    <3>2. PICK s \in {"opened", "keyed", "failed"} : MoveTo(j, s)
      BY <3>1
    <3>3. s \in Stage /\ s # "ok"
      BY DEF Stage
    <3> QED BY <1>o, <3>1, <3>2, <3>3
  <2> QED BY <2>1, <2>2
<1>12. ASSUME NEW j \in jobs, Claim(j) PROVE PagesAreOfAnAccount'
  <2>1. active' = active /\ screen' = screen /\ j.kind \notin {"Login", "Signup"}
    BY <1>12 DEF Claim, view
  <2>2. CASE \E s \in Stage : MoveTo(j, s)
    BY <1>o, <2>1, <2>2
  <2>3. CASE jobs' = (jobs \ {j}) \cup {[j EXCEPT !.who = active, !.stage = "hashed"]}
    <3>1. [j EXCEPT !.who = active, !.stage = "hashed"].stage = "hashed"
      BY <1>0 DEF Job
    <3> QED BY <1>g, <2>1, <2>3, <3>1
  <2> QED BY <1>12, <2>2, <2>3 DEF Claim, Stage
<1>13. ASSUME NEW j \in jobs, CreateWorkspace(j) PROVE PagesAreOfAnAccount'
  <2>1. /\ active' = active /\ screen' = screen /\ j.kind \notin {"Login", "Signup"}
        /\ \E s \in Stage : MoveTo(j, s)
    BY <1>13 DEF CreateWorkspace, view, Stage
  <2> QED BY <1>o, <2>1
<1>14. CASE Crash
  <2>1. jobs' = {} /\ screen' \notin Of
    BY <1>14 DEF Crash
  <2> QED BY <2>1 DEF PagesAreOfAnAccount
<1>15. CASE UNCHANGED vars
  BY <1>15 DEF vars, PagesAreOfAnAccount
<1> QED
  BY <1>1, <1>2, <1>3, <1>4, <1>5, <1>6, <1>7, <1>8, <1>9, <1>10, <1>11, <1>12, <1>13, <1>14, <1>15
  DEF Next, Window, Handle, Thread

\* Over the bridge alone nobody is unlocked behind the back of what runs: an app is of
\* the account it writes to, the page is that account's, and its token is in use.
LEMMA BridgeStep ==
  ASSUME TypeOK, TypeOK', StartedByItsFrontend, "window" \notin Frontends, [Next]_vars,
         OwnDocs, AppsOfActive, PageIsFresh, StoredIsUsed
  PROVE  OwnDocs' /\ AppsOfActive' /\ PageIsFresh' /\ StoredIsUsed'
<1>0. /\ jobs \subseteq Job /\ apps \in SUBSET App /\ None \notin Account
      /\ active' \in Account \cup {None} /\ active \in Account \cup {None}
      /\ \A j \in jobs : j.kind \in {"Unlock", "Register", "Claim"}
      /\ page \in [spaces : 0..MaxJobs, node : Account \cup {None}]
      /\ rel \in [Account -> Account \cup {None}]
  BY SessionAssumption DEF TypeOK, App, StartedByItsFrontend, Job, Kind
\* A flush of what runs for the account that stays
<1>f. ASSUME active' = active, NEW running \in SUBSET App, \A p \in running : p.of = active,
             Flush(running)
      PROVE  OwnDocs' /\ AppsOfActive' /\ wrote \subseteq wrote'
  <2>1. /\ wrote \subseteq wrote'
        /\ \A p \in apps' : \E q \in running : q.of = p.of
        /\ \A w \in wrote' : w \in wrote \/ \E q \in running : w = <<"doc", q.of, active'>>
    BY <1>0, <1>f, FlushIs
  <2>2. AppsOfActive'
    BY <1>f, <2>1 DEF AppsOfActive
  <2>3. ASSUME NEW w \in wrote', w[1] = "doc" PROVE w[2] = w[3]
    <3>1. CASE w \in wrote
      BY <2>3, <3>1 DEF OwnDocs
    <3>2. CASE \E q \in running : w = <<"doc", q.of, active'>>
      BY <1>f, <3>2
    <3> QED BY <2>1, <3>1, <3>2
  <2> QED BY <2>1, <2>2, <2>3 DEF OwnDocs
\* What a page, and a token, of the same account need
<1>p. ASSUME active' = active, screen' = screen, page' = page, spaces' = spaces PROVE PageIsFresh'
  BY <1>p DEF PageIsFresh
<1>c. ASSUME ClaimStrayed, wrote \subseteq wrote' PROVE StoredIsUsed'
  BY <1>c DEF StoredIsUsed, ClaimStrayed
<1>u. ASSUME active' = active, rel' = rel, node' = node, listeners' = listeners,
             wrote \subseteq wrote', Claimed => Claimed'
      PROVE  StoredIsUsed'
  BY <1>c, <1>u DEF StoredIsUsed, OwnRelationship, StoredInUse
\* Locked, nothing that is stored could be in use
<1>l. ASSUME active' = None, rel' = rel, wrote' = wrote PROVE StoredIsUsed'
  BY <1>c, <1>l DEF StoredIsUsed, OwnRelationship, StoredInUse
<1>w. ASSUME apps' = apps, active' = active, wrote' = wrote PROVE OwnDocs' /\ AppsOfActive'
  BY <1>w DEF OwnDocs, AppsOfActive
\* An account that is unlocked by the bridge gets tabs, page and token of its own.
<1>a. ASSUME Arrived, active' \in Account, UNCHANGED <<rel, spaces>>
      PROVE  OwnDocs' /\ AppsOfActive' /\ PageIsFresh' /\ StoredIsUsed'
  <2>1. /\ apps' = {} /\ wrote' = wrote /\ page' = NewPage /\ node' = NodeOf
        /\ listeners' = listeners \cup (IF NodeOf = None THEN {} ELSE {<<active', NodeOf>>})
    BY <1>a DEF Arrived, ResetTabs, Show
  <2>2. active' # None /\ NodeOf = rel[active'] /\ page'.spaces = spaces[active']
    BY <1>0, <1>a, <2>1 DEF NodeOf, NewPage
  <2>3. PageIsFresh'
    BY <1>a, <2>2 DEF PageIsFresh
  <2>4. StoredIsUsed'
    <3>1. rel'[active'] # None => node' = rel'[active'] /\ <<active', rel'[active']>> \in listeners'
      BY <1>a, <2>1, <2>2
    <3>2. CASE OwnRelationship
      BY <1>a, <3>1, <3>2 DEF StoredIsUsed, StoredInUse, OwnRelationship
    <3>3. CASE ClaimStrayed
      BY <1>c, <2>1, <3>3
    <3> QED BY <3>2, <3>3 DEF StoredIsUsed
  <2> QED BY <2>1, <2>3, <2>4 DEF OwnDocs, AppsOfActive
<1>1. CASE Open
  <2>1. /\ active \in Account
        /\ UNCHANGED <<rel, spaces, active, screen, page, node, listeners, jobs>>
        /\ Flush(apps \cup {[of |-> active, unsaved |-> FALSE]})
    BY <1>0, <1>1 DEF Open, disk, view
  <2>2. [of |-> active, unsaved |-> FALSE] \in App /\ [of |-> active, unsaved |-> FALSE].of = active
    BY <2>1 DEF App
  <2>3. OwnDocs' /\ AppsOfActive' /\ wrote \subseteq wrote'
    BY <1>0, <1>f, <2>1, <2>2 DEF AppsOfActive
  <2> QED BY <1>p, <1>u, <2>1, <2>3 DEF Claimed
<1>2. ASSUME NEW p \in apps, Edit(p) PROVE OwnDocs' /\ AppsOfActive' /\ PageIsFresh' /\ StoredIsUsed'
  <2>1. /\ UNCHANGED <<rel, spaces, active, screen, page, node, listeners, jobs>>
        /\ Flush((apps \ {p}) \cup {[p EXCEPT !.unsaved = TRUE]})
    BY <1>2 DEF Edit, disk, view
  <2>2. [p EXCEPT !.unsaved = TRUE] \in App /\ [p EXCEPT !.unsaved = TRUE].of = p.of
    BY <1>0 DEF App
  <2>3. OwnDocs' /\ AppsOfActive' /\ wrote \subseteq wrote'
    BY <1>0, <1>f, <2>1, <2>2 DEF AppsOfActive
  <2> QED BY <1>p, <1>u, <2>1, <2>3 DEF Claimed
<1>3. CASE NewWorkspace
  <2>1. /\ UNCHANGED <<rel, active, screen, node, listeners, jobs>> /\ active # None
        /\ spaces' = [spaces EXCEPT ![active] = @ + 1] /\ page' = Refreshed /\ Flush(apps)
    BY <1>3 DEF NewWorkspace
  <2>2. OwnDocs' /\ AppsOfActive' /\ wrote \subseteq wrote'
    BY <1>0, <1>f, <2>1 DEF AppsOfActive
  <2>3. screen = "Spaces" => page'.spaces = spaces'[active]
    BY <1>0, <2>1 DEF Refreshed
  <2>4. PageIsFresh'
    BY <2>1, <2>3 DEF PageIsFresh
  <2> QED BY <1>u, <2>1, <2>2, <2>4 DEF Claimed
<1>4. CASE Lock
  <2>1. active' = None /\ apps' = {} /\ wrote' = wrote /\ rel' = rel
    BY <1>4 DEF Lock, ResetTabs, disk
  <2> QED BY <1>l, <2>1 DEF OwnDocs, AppsOfActive, PageIsFresh
<1>5. ASSUME NEW kind \in Kind, NEW b \in Account, Request(kind, b)
      PROVE  OwnDocs' /\ AppsOfActive' /\ PageIsFresh' /\ StoredIsUsed'
  <2>1. /\ UNCHANGED <<rel, spaces, active, screen, page, node, listeners>> /\ Flush(apps)
        /\ jobs \subseteq jobs'
    BY <1>5 DEF Request, disk, view, Start
  <2>2. OwnDocs' /\ AppsOfActive' /\ wrote \subseteq wrote'
    BY <1>0, <1>f, <2>1 DEF AppsOfActive
  <2> QED BY <1>p, <1>u, <2>1, <2>2 DEF Claimed
<1>6. ASSUME NEW j \in jobs, AuthDone(j)
      PROVE  OwnDocs' /\ AppsOfActive' /\ PageIsFresh' /\ StoredIsUsed'
  <2>1. jobs' = jobs \ {j} /\ UNCHANGED <<rel, spaces>> /\ j.kind # "Claim"
    BY <1>6 DEF AuthDone, disk
  <2>2. CASE active' = j.who /\ Arrived
    <3>1. active' \in Account
      BY <1>0, <2>2 DEF Job
    <3> QED BY <1>a, <2>1, <2>2, <3>1
  <2>3. CASE UNCHANGED <<active, screen, page, node, listeners>> /\ Flush(apps)
    <3>1. OwnDocs' /\ AppsOfActive' /\ wrote \subseteq wrote'
      BY <1>0, <1>f, <2>3 DEF AppsOfActive
    <3>2. Claimed => Claimed'
      BY <2>1 DEF Claimed
    <3> QED BY <1>p, <1>u, <2>1, <2>3, <3>1, <3>2
  <2> QED BY <1>6, <2>2, <2>3 DEF AuthDone, view
<1>7. ASSUME NEW j \in jobs, ClaimDone(j)
      PROVE  OwnDocs' /\ AppsOfActive' /\ PageIsFresh' /\ StoredIsUsed'
  <2>1. /\ UNCHANGED <<rel, spaces, active, screen>> /\ jobs' = jobs \ {j}
        /\ j.who \in Account /\ j.stage \in {"ok", "failed"}
    BY <1>0, <1>7 DEF ClaimDone, disk, Job
  <2>2. CASE j.stage = "failed"
    <3>1. UNCHANGED <<node, listeners, page>> /\ Flush(apps)
      BY <1>7, <2>2 DEF ClaimDone
    <3>2. OwnDocs' /\ AppsOfActive' /\ wrote \subseteq wrote'
      BY <1>0, <1>f, <2>1, <3>1 DEF AppsOfActive
    <3>3. Claimed => Claimed'
      BY <2>1, <2>2 DEF Claimed
    <3> QED BY <1>p, <1>u, <2>1, <3>1, <3>2, <3>3
  <2>3. CASE j.stage = "ok"
    <3> DEFINE noted == IF active = None THEN {} ELSE {<<"token", j.who, active>>}
    <3>1. /\ node' = j.who /\ FlushNoting(noted, apps)
          /\ listeners' = listeners \cup (IF active = None THEN {} ELSE {<<active, j.who>>})
          /\ page' \in {page, [page EXCEPT !.node = j.who]}
      BY <1>7, <2>3 DEF ClaimDone
    <3>2. noted \in SUBSET (Writes \X Account \X Account) /\ \A w \in noted : w[1] = "token"
      BY <1>0, <2>1 DEF Writes
    <3>3. active # None => <<"token", j.who, active>> \in noted
      OBVIOUS
    <3> HIDE DEF noted
    <3>4. /\ wrote \subseteq wrote' /\ noted \subseteq wrote'
          /\ \A p \in apps' : \E q \in apps : q.of = p.of
          /\ \A w \in wrote' : \/ w \in wrote \/ w \in noted
                               \/ \E q \in apps : w = <<"doc", q.of, active'>>
      BY <1>0, <3>1, <3>2, FlushNotingIs
    <3>5. AppsOfActive'
      BY <2>1, <3>4 DEF AppsOfActive
    <3>6. ASSUME NEW w \in wrote', w[1] = "doc" PROVE w[2] = w[3]
      <4>1. CASE w \in wrote
        BY <3>6, <4>1 DEF OwnDocs
      <4>2. CASE w \in noted
        BY <3>2, <3>6, <4>2
      <4>3. CASE \E q \in apps : w = <<"doc", q.of, active'>>
        BY <2>1, <4>3 DEF AppsOfActive
      <4> QED BY <3>4, <4>1, <4>2, <4>3
    <3>7. PageIsFresh'
      <4>1. page'.spaces = page.spaces
        BY <1>0, <3>1
      <4> QED BY <2>1, <4>1 DEF PageIsFresh
    <3>8. StoredIsUsed'
      <4>1. CASE ClaimStrayed
        BY <1>c, <3>4, <4>1
      <4>2. CASE ~ClaimStrayed /\ active = None
        BY <2>1, <4>2 DEF StoredIsUsed, OwnRelationship, StoredInUse
      <4>3. CASE active # None /\ j.who # active
        <5> DEFINE w == <<"token", j.who, active>>
        <5>1. w \in wrote' /\ w[1] = "token" /\ w[2] # w[3]
          BY <3>3, <3>4, <4>3
        <5> QED BY <5>1 DEF StoredIsUsed, ClaimStrayed
      <4>4. CASE ~ClaimStrayed /\ active # None /\ j.who = active
        <5>1. OwnRelationship
          BY <4>4 DEF StoredIsUsed
        <5>2. active' = active /\ rel' = rel /\ rel[active] \in {active, None}
          BY <1>0, <2>1, <4>4, <5>1 DEF OwnRelationship
        <5>3. node' = active /\ <<active, active>> \in listeners'
          BY <3>1, <4>4
        <5> QED BY <5>1, <5>2, <5>3 DEF StoredIsUsed, OwnRelationship, StoredInUse
      <4> QED BY <4>1, <4>2, <4>3, <4>4
    <3> QED BY <3>5, <3>6, <3>7, <3>8 DEF OwnDocs
  <2> QED BY <2>1, <2>2, <2>3
<1>8. ASSUME NEW j \in jobs, Prepare(j)
      PROVE  OwnDocs' /\ AppsOfActive' /\ PageIsFresh' /\ StoredIsUsed'
  <2>1. /\ UNCHANGED <<rel, spaces, active, screen, page, apps, node, listeners, wrote>>
        /\ j.kind # "Claim" /\ jobs \ {j} \subseteq jobs'
    BY <1>8 DEF Prepare, disk, view, history, MoveTo
  <2>2. Claimed => Claimed'
    BY <2>1 DEF Claimed
  <2> QED BY <1>p, <1>u, <1>w, <2>1, <2>2
<1>9. ASSUME NEW j \in jobs, CommitSignup(j)
      PROVE  OwnDocs' /\ AppsOfActive' /\ PageIsFresh' /\ StoredIsUsed'
  <2>1. j.kind = "Register" /\ UNCHANGED <<rel, spaces>>
    BY <1>0, <1>9 DEF CommitSignup
  <2>2. CASE j.stage # "keyed"
    <3>1. /\ UNCHANGED <<active, screen, page, apps, node, listeners, wrote>>
          /\ jobs \ {j} \subseteq jobs'
      BY <1>9, <2>2 DEF CommitSignup, view, history, MoveTo
    <3>2. Claimed => Claimed'
      BY <2>1, <3>1 DEF Claimed
    <3> QED BY <1>p, <1>u, <1>w, <2>1, <3>1, <3>2
  <2>3. CASE j.stage = "keyed"
    <3>1. active' = j.who /\ Arrived
      BY <1>9, <2>1, <2>3 DEF CommitSignup
    <3>2. active' \in Account
      BY <1>0, <3>1 DEF Job
    <3> QED BY <1>a, <2>1, <3>1, <3>2
  <2> QED BY <2>2, <2>3
<1>10. ASSUME NEW j \in jobs, Claim(j)
      PROVE  OwnDocs' /\ AppsOfActive' /\ PageIsFresh' /\ StoredIsUsed'
  <2>1. /\ UNCHANGED <<spaces, active, screen, page, apps, node, listeners>>
        /\ j.kind = "Claim" /\ j.stage # "ok"
        /\ wrote \subseteq wrote' /\ j.who \in Account
        /\ \A w \in wrote' : w \in wrote \/ w = <<"relationship", j.who, active>>
    BY <1>0, <1>10 DEF Claim, view, Job
  <2>2. OwnDocs' /\ AppsOfActive'
    BY <2>1 DEF OwnDocs, AppsOfActive
  <2>3. StoredIsUsed'
    <3>1. CASE rel' = rel
      <4>1. jobs \ {j} \subseteq jobs'
        BY <1>10 DEF Claim, MoveTo
      <4>2. Claimed => Claimed'
        BY <2>1, <4>1 DEF Claimed
      <4> QED BY <1>u, <2>1, <3>1, <4>2
    <3>2. CASE rel' # rel
      <4>1. /\ MoveTo(j, "ok") /\ active # None /\ rel' = [rel EXCEPT ![active] = j.who]
            /\ wrote' = wrote \cup {<<"relationship", j.who, active>>}
        BY <1>10, <3>2 DEF Claim
      <4>2. [j EXCEPT !.stage = "ok"].kind = "Claim" /\ [j EXCEPT !.stage = "ok"].stage = "ok"
        BY <1>0, <2>1, Moved DEF Stage
      <4>3. Claimed'
        BY <4>1, <4>2 DEF MoveTo, Claimed
      <4>4. CASE j.who # active
        <5> DEFINE w == <<"relationship", j.who, active>>
        <5>1. w \in wrote' /\ w[1] = "relationship" /\ w[2] # w[3]
          BY <4>1, <4>4
        <5> QED BY <5>1 DEF StoredIsUsed, ClaimStrayed
      <4>5. CASE ~ClaimStrayed /\ j.who = active
        <5>1. OwnRelationship'
          BY <1>0, <4>1, <4>5 DEF StoredIsUsed, OwnRelationship
        <5> QED BY <4>3, <5>1 DEF StoredIsUsed
      <4> QED BY <1>c, <2>1, <4>4, <4>5
    <3> QED BY <3>1, <3>2
  <2> QED BY <1>p, <2>1, <2>2, <2>3
<1>11. CASE Crash
  <2>1. active' = None /\ apps' = {} /\ wrote' = wrote /\ rel' = rel
    BY <1>11 DEF Crash, history, disk
  <2> QED BY <1>l, <2>1 DEF OwnDocs, AppsOfActive, PageIsFresh
<1>12. CASE UNCHANGED vars
  BY <1>12 DEF vars, OwnDocs, AppsOfActive, PageIsFresh, StoredIsUsed, OwnRelationship,
               StoredInUse, Claimed, ClaimStrayed
\* What only the window starts
<1>13. ASSUME NEW m \in DOMAIN Target PROVE ~Turn(m)
  BY DEF Turn
<1>14. ASSUME NEW kind \in Kind, NEW b \in Account PROVE ~Ask(kind) /\ ~Submit(kind, b)
  BY DEF Ask, Submit
<1>15. ASSUME NEW kind \in Kind PROVE ~Ask(kind)
  BY DEF Ask
<1>16. ASSUME NEW j \in jobs
       PROVE  ~LoginDone(j) /\ ~SignupDone(j) /\ ~AddSpaceDone(j) /\ ~CommitLogin(j) /\ ~CreateWorkspace(j)
  BY <1>0 DEF LoginDone, SignupDone, AddSpaceDone, CommitLogin, CreateWorkspace
<1> QED
  BY <1>1, <1>2, <1>3, <1>4, <1>5, <1>6, <1>7, <1>8, <1>9, <1>10, <1>11, <1>12, <1>13, <1>14,
     <1>15, <1>16
  DEF Next, Window, Handle, Thread

LEMMA SessionInit ==
  ASSUME Init
  PROVE  SessionInv
<1>1. Cardinality(Adding({})) = 0
  <2>1. Adding({}) = {}
    BY DEF Adding
  <2> QED BY <2>1, FS_EmptySet
<1>2. SessionTypes
  <2>1. /\ files \in [Account -> {"none", "opened", "keyed"}]
        /\ rel \in [Account -> Account \cup {None}] /\ active = None
        /\ screen = "Signup" /\ pending = FALSE /\ apps = {} /\ node = None /\ listeners = {}
        /\ jobs = {} /\ told = {} /\ wrote = {} /\ lost = {}
        /\ started = 0 /\ faults = 0 /\ edits = 0
    BY DEF Init
  <2>2. 0 \in 0..MaxJobs /\ 0 \in 0..MaxFaults /\ 0 \in 0..MaxEdits
    BY SessionAssumption
  <2>3. /\ spaces \in [Account -> 0..MaxJobs] /\ \A a \in Account : spaces[a] = 0
        /\ page \in [spaces : 0..MaxJobs, node : Account \cup {None}]
    BY <2>2 DEF Init
  <2>4. TypeOK
    BY <2>1, <2>2, <2>3 DEF TypeOK
  <2> QED BY <1>1, <2>1, <2>3, <2>4 DEF SessionTypes
<1> QED
  BY <1>2 DEF Init, SessionInv, StartedByItsFrontend, SignupsAreOnDisk, PhraseMeansKeystore,
              PagesAreOfAnAccount, OwnDocs, AppsOfActive, PageIsFresh, StoredIsUsed,
              OwnRelationship, StoredInUse

LEMMA SessionStep ==
  ASSUME SessionInv, [Next]_vars
  PROVE  SessionInv'
<1>0. SessionTypes /\ TypeOK
  BY DEF SessionInv, SessionTypes
<1>1. SessionTypes'
  <2>1. CASE Window
    BY <1>0, <2>1, WindowTypes
  <2>2. CASE Handle \/ Thread
    <3>1. PICK j \in jobs :
            \/ LoginDone(j) \/ SignupDone(j) \/ AuthDone(j) \/ ClaimDone(j) \/ AddSpaceDone(j)
            \/ Prepare(j) \/ CommitLogin(j) \/ CommitSignup(j) \/ Claim(j) \/ CreateWorkspace(j)
      BY <2>2 DEF Handle, Thread
    <3> QED BY <1>0, <3>1, ThreadTypes
  <2>3. CASE Crash
    <3>1. /\ UNCHANGED <<files, rel, spaces, page, told, wrote, lost, started, edits>>
          /\ faults < MaxFaults /\ faults' = faults + 1
          /\ active' = None /\ pending' = FALSE /\ apps' = {} /\ node' = None
          /\ listeners' = {} /\ jobs' = {} /\ screen' \in {"Signup", "Login"}
      BY <2>3 DEF Crash, disk, history
    <3>2. faults' \in 0..MaxFaults
      BY <1>0, <3>1, SessionAssumption DEF TypeOK
    <3>3. TypeOK'
      BY <1>0, <3>1, <3>2 DEF TypeOK
    <3>4. jobs' \subseteq Job /\ Adding(jobs') \subseteq Adding(jobs)
      BY <3>1 DEF Adding
    <3> QED BY <1>0, <3>1, <3>3, <3>4, CountIsKept DEF SessionTypes
  <2>4. CASE UNCHANGED vars
    BY <1>0, <2>4 DEF vars, SessionTypes, TypeOK
  <2> QED BY <2>1, <2>2, <2>3, <2>4 DEF Next
<1>2. StartedByItsFrontend'
  BY <1>0, FrontendStep DEF SessionInv
<1>3. SignupsAreOnDisk' /\ PhraseMeansKeystore'
  BY <1>0, SignupStep DEF SessionInv
<1>4. Frontends # {"window", "bridge"} => PagesAreOfAnAccount'
  BY <1>0, PagesStep DEF SessionInv
<1>5. "window" \notin Frontends => OwnDocs' /\ AppsOfActive' /\ PageIsFresh' /\ StoredIsUsed'
  <2>1. TypeOK'
    BY <1>1 DEF SessionTypes
  <2> QED BY <1>0, <2>1, BridgeStep DEF SessionInv
<1> QED BY <1>1, <1>2, <1>3, <1>4, <1>5 DEF SessionInv

\* Accounts' files and what they hold, the screen and its page, apps and threads have
\* their types: no more workspaces than were asked for, no more faults than there are.
THEOREM TypeCorrect == Spec => []TypeOK
<1>1. SessionInv => TypeOK
  BY DEF SessionInv, SessionTypes
<1> QED BY SessionInit, SessionStep, <1>1, PTL DEF Spec

\* What MCDesktop's AccountsApart says of the session and of the subscriptions.
AccountsApart == KeptApart /\ Sub!OnlyWhatWasOpen

\* Accounts stay apart: a phrase that was shown is of a stored keystore, whatever
\* crashed; with one front end no page shows what is locked; over the bridge alone,
\* an app's documents are saved with the account whose app it is, the page is as the
\* account is, and the stored token is the one in use unless a claim outlived its
\* account; and the node pushes to an account only what it had open.
THEOREM AccountsCorrect ==
  ASSUME Sub!SubscriptionConstants PROVE Spec /\ Sub!Spec => []AccountsApart
<1>1. SessionInv => KeptApart
  BY DEF SessionInv, KeptApart, PagesAreOfAnAccount, SpacesUnlocked, PageIsFresh, ShowingIsFresh,
         StoredIsUsed, Claimed, PersistedIsUsed
<1>2. SubscriptionInv => Sub!OnlyWhatWasOpen
  BY DEF SubscriptionInv
<1>3. KeptApart /\ Sub!OnlyWhatWasOpen => AccountsApart
  BY DEF AccountsApart
<1> QED
  BY SessionInit, SessionStep, SubscriptionInit, SubscriptionStep, <1>1, <1>2, <1>3, PTL
  DEF Spec, Sub!Spec

-----------------------------------------------------------------------------
(* Driver: its state is all its own but None, which is Session's *)

CONSTANTS Places, Counts, Secs, MaxOps, MaxChanges
VARIABLES shown, hits, pointer, clock, op, todo, painted, events, report, ops, changes, asked,
          due, requested
D == INSTANCE Driver

\* The operations whose script is of events, four steps each; a wheel adds one
Gesturing == {"press", "release", "key", "move", "wheel", "drag"}

DriverStep ==
  {"paint", "spend", "move", "press", "release", "key", "wheel"} \X (Places \cup {None} \cup Nat)
InputKinds == {"move", "press", "release", "key", "wheel"}
InputStep(x) ==
  \E what \in InputKinds, at \in Places \cup {None} :
    x = <<what, at>> /\ (what = "move" => at \in Places)

\* The frames and the time in the first k steps of an operation
PaintsTo(o, k) ==
  CASE o.kind = "bad" -> 0
    [] o.kind = "rects" -> k
    [] o.kind = "frame" -> (k + 1) \div 2
    [] o.kind = "advance" -> IF k = 2 THEN 1 ELSE 0
    [] o.kind = "wheel" -> IF k = 0 THEN 0 ELSE 1
    [] OTHER -> (k + 3) \div 4
TimeTo(o, k) ==
  CASE o.kind \in {"bad", "rects"} -> 0
    [] o.kind = "frame" -> 2 * (k \div 2)
    [] o.kind = "advance" -> IF k = 0 THEN 0 ELSE o.secs
    [] OTHER -> 3 * (k \div 4)
                  + (IF o.kind = "wheel" /\ k = 5 THEN 0
                     ELSE IF k % 4 = 2 THEN 2 ELSE IF k % 4 = 3 THEN 3 ELSE 0)

LEMMA StepsAre ==
  /\ D!Paint \in DriverStep /\ \A t \in Nat : D!Spend(t) \in DriverStep
  /\ \A x : InputStep(x) => x \in DriverStep
<1>1. D!Paint \in DriverStep
  BY DEF DriverStep, D!Paint
<1>2. ASSUME NEW t \in Nat PROVE D!Spend(t) \in DriverStep
  BY DEF DriverStep, D!Spend
<1>3. ASSUME NEW x, InputStep(x) PROVE x \in DriverStep
  <2>1. PICK what \in InputKinds, at \in Places \cup {None} :
          x = <<what, at>>
    BY <1>3 DEF InputStep, InputKinds
  <2> QED BY <2>1 DEF DriverStep, InputKinds
<1> QED BY <1>1, <1>2, <1>3

\* An event is a frame, its time, and the input
LEMMA EventIs ==
  ASSUME NEW what, NEW at
  PROVE  D!Event(what, at) = <<D!Paint, D!Spend(2), D!Spend(1), <<what, at>>>>
<1> DEFINE s == <<D!Paint, D!Spend(2)>>
           t == <<D!Spend(1), <<what, at>>>>
           e == <<D!Paint, D!Spend(2), D!Spend(1), <<what, at>>>>
           S == {D!Paint, D!Spend(2), D!Spend(1), <<what, at>>}
<1>1. D!Event(what, at) = s \o t
  BY DEF D!Event, D!Tick, D!FRAME, D!POINTER
<1>2. s \in Seq(S) /\ t \in Seq(S) /\ Len(s) = 2 /\ Len(t) = 2
  OBVIOUS
<1>3. e \in Seq(S) /\ Len(e) = 4
  OBVIOUS
<1>4. /\ s \o t \in Seq(S) /\ Len(s \o t) = 4
      /\ \A k \in 1..4 : (s \o t)[k] = IF k <= 2 THEN s[k] ELSE t[k - 2]
  BY <1>2, ConcatProperties
<1>5. ASSUME NEW k \in 1..4 PROVE (s \o t)[k] = e[k]
  <2>1. k = 1 \/ k = 2 \/ k = 3 \/ k = 4
    OBVIOUS
  <2> QED BY <1>4, <2>1
<1>6. s \o t = e
  BY <1>3, <1>4, <1>5, SeqEqual
<1> QED BY <1>1, <1>6

\* What a script of n events is, step by step
Eventful(s, n) ==
  /\ s \in Seq(DriverStep) /\ Len(s) = 4 * n
  /\ \A k \in 1..(4 * n) :
       /\ k % 4 = 1 => s[k] = D!Paint
       /\ k % 4 = 2 => s[k] = D!Spend(2)
       /\ k % 4 = 3 => s[k] = D!Spend(1)
       /\ k % 4 = 0 => InputStep(s[k])  /\ s[k][1] # "wheel"

LEMMA EventEventful ==
  ASSUME NEW what \in {"move", "press", "release", "key"}, NEW at \in Places \cup {None},
         what = "move" => at \in Places
  PROVE  Eventful(D!Event(what, at), 1)
<1> DEFINE e == <<D!Paint, D!Spend(2), D!Spend(1), <<what, at>>>>
<1>1. InputStep(<<what, at>>) /\ <<what, at>>[1] # "wheel"
  BY DEF InputStep, InputKinds
<1>2. e \in Seq(DriverStep) /\ Len(e) = 4
  <2>1. /\ D!Paint \in DriverStep /\ D!Spend(2) \in DriverStep /\ D!Spend(1) \in DriverStep
        /\ <<what, at>> \in DriverStep
    BY <1>1, StepsAre
  <2> QED BY <2>1
<1>3. ASSUME NEW k \in 1..4
      PROVE  /\ k % 4 = 1 => e[k] = D!Paint
             /\ k % 4 = 2 => e[k] = D!Spend(2)
             /\ k % 4 = 3 => e[k] = D!Spend(1)
             /\ k % 4 = 0 => e[k] = <<what, at>>
  <2>1. k = 1 \/ k = 2 \/ k = 3 \/ k = 4
    OBVIOUS
  <2> QED BY <2>1
<1>4. \A k \in 1..4 :
        /\ k % 4 = 1 => e[k] = D!Paint
        /\ k % 4 = 2 => e[k] = D!Spend(2)
        /\ k % 4 = 3 => e[k] = D!Spend(1)
        /\ k % 4 = 0 => InputStep(e[k]) /\ e[k][1] # "wheel"
  BY <1>1, <1>3
<1>5. D!Event(what, at) = e
  BY EventIs
<1> HIDE DEF e
<1>6. Eventful(e, 1)
  BY <1>2, <1>4 DEF Eventful
<1> QED BY <1>5, <1>6

LEMMA EventfulJoined ==
  ASSUME NEW s, NEW t, NEW m \in Nat, NEW n \in Nat, Eventful(s, m), Eventful(t, n)
  PROVE  Eventful(s \o t, m + n)
<1>1. s \in Seq(DriverStep) /\ t \in Seq(DriverStep) /\ Len(s) = 4 * m /\ Len(t) = 4 * n
  BY DEF Eventful
<1>2. /\ s \o t \in Seq(DriverStep) /\ Len(s \o t) = 4 * (m + n)
      /\ \A k \in 1..(4 * (m + n)) :
           (s \o t)[k] = IF k <= 4 * m THEN s[k] ELSE t[k - 4 * m]
  <2>1. s \o t \in Seq(DriverStep) /\ Len(s \o t) = Len(s) + Len(t)
    BY <1>1, ConcatProperties
  <2>2. \A k \in 1..(Len(s) + Len(t)) : (s \o t)[k] = IF k <= Len(s) THEN s[k] ELSE t[k - Len(s)]
    BY <1>1, ConcatProperties
  <2>3. Len(s) + Len(t) = 4 * (m + n)
    BY <1>1
  <2> QED BY <1>1, <2>1, <2>2, <2>3
<1>3. ASSUME NEW k \in 1..(4 * (m + n)), k > 4 * m
      PROVE  k - 4 * m \in 1..(4 * n) /\ (k - 4 * m) % 4 = k % 4
  BY <1>3
<1>4. ASSUME NEW k \in 1..(4 * (m + n)), ~(k > 4 * m)
      PROVE  k \in 1..(4 * m) /\ k <= 4 * m
  BY <1>4
<1>5. ASSUME NEW k \in 1..(4 * (m + n))
      PROVE  /\ k % 4 = 1 => (s \o t)[k] = D!Paint
             /\ k % 4 = 2 => (s \o t)[k] = D!Spend(2)
             /\ k % 4 = 3 => (s \o t)[k] = D!Spend(1)
             /\ k % 4 = 0 => InputStep((s \o t)[k]) /\ (s \o t)[k][1] # "wheel"
  <2>1. CASE k > 4 * m
    <3>1. PICK j \in 1..(4 * n) : j = k - 4 * m
      BY <1>3, <2>1
    <3>2. j % 4 = k % 4 /\ (s \o t)[k] = t[j]
      BY <1>2, <1>3, <2>1, <3>1
    <3> QED BY <3>2 DEF Eventful
  <2>2. CASE ~(k > 4 * m)
    <3>1. (s \o t)[k] = s[k] /\ k \in 1..(4 * m)
      BY <1>2, <1>4, <2>2
    <3> QED BY <3>1 DEF Eventful
  <2> QED BY <2>1, <2>2
<1> QED BY <1>2, <1>5 DEF Eventful

\* The steps of several events, one event after the other
LEMMA InTurnEventful ==
  ASSUME NEW n \in Nat \ {0}, NEW at \in [1..n -> Places]
  PROVE  Eventful(D!InTurn([i \in 1..n |-> D!PointerMove(at[i])]), n)
<1> DEFINE ss == [i \in 1..n |-> D!PointerMove(at[i])]
           s == [k \in 1..(n * 4) |-> ss[1 + ((k - 1) \div 4)][1 + ((k - 1) % 4)]]
<1>1. \A i \in 1..n : ss[i] = <<D!Paint, D!Spend(2), D!Spend(1), <<"move", at[i]>>>>
  BY EventIs DEF D!PointerMove
<1>2. Len(ss) = n /\ Len(ss[1]) = 4
  BY <1>1
<1>3. D!InTurn(ss) = s
  <2>1. D!InTurn(ss) = [k \in 1..(Len(ss) * Len(ss[1])) |->
                          ss[1 + ((k - 1) \div Len(ss[1]))][1 + ((k - 1) % Len(ss[1]))]]
    BY DEF D!InTurn
  <2> HIDE DEF ss
  <2> QED BY <1>2, <2>1
<1>4. \A i \in 1..n : InputStep(<<"move", at[i]>>)
  BY DEF InputStep, InputKinds
<1>5. ASSUME NEW k \in 1..(4 * n)
      PROVE  /\ k % 4 = 1 => s[k] = D!Paint
             /\ k % 4 = 2 => s[k] = D!Spend(2)
             /\ k % 4 = 3 => s[k] = D!Spend(1)
             /\ k % 4 = 0 => InputStep(s[k]) /\ s[k][1] # "wheel"
             /\ s[k] \in DriverStep
  <2>1. 1 + ((k - 1) \div 4) \in 1..n /\ 1 + ((k - 1) % 4) \in 1..4
    OBVIOUS
  <2>2. PICK i \in 1..n, j \in 1..4 : i = 1 + ((k - 1) \div 4) /\ j = 1 + ((k - 1) % 4)
    BY <2>1
  <2>3. /\ k % 4 = 1 => j = 1
        /\ k % 4 = 2 => j = 2
        /\ k % 4 = 3 => j = 3
        /\ k % 4 = 0 => j = 4
    BY <2>2
  <2>4. s[k] = ss[i][j]
    BY <2>2
  <2>5. s[k] = <<D!Paint, D!Spend(2), D!Spend(1), <<"move", at[i]>>>>[j]
    BY <1>1, <2>4
  <2>6. /\ j = 1 => s[k] = D!Paint
        /\ j = 2 => s[k] = D!Spend(2)
        /\ j = 3 => s[k] = D!Spend(1)
        /\ j = 4 => s[k] = <<"move", at[i]>>
    BY <2>5
  <2>7. j = 1 \/ j = 2 \/ j = 3 \/ j = 4
    OBVIOUS
  <2>8. s[k] \in DriverStep
    <3>1. D!Paint \in DriverStep /\ D!Spend(2) \in DriverStep /\ D!Spend(1) \in DriverStep
          /\ <<"move", at[i]>> \in DriverStep
      BY <1>4, StepsAre
    <3> QED BY <2>6, <2>7, <3>1
  <2>9. <<"move", at[i]>>[1] # "wheel"
    OBVIOUS
  <2>10. j = 4 => InputStep(s[k]) /\ s[k][1] # "wheel"
    BY <1>4, <2>6, <2>9
  <2> HIDE DEF s
  <2> QED BY <2>3, <2>6, <2>7, <2>8, <2>10
<1>6. s \in Seq(DriverStep) /\ Len(s) = 4 * n
  <2>1. n * 4 = 4 * n /\ n * 4 \in Nat
    OBVIOUS
  <2>2. s \in [1..(n * 4) -> DriverStep]
    BY <1>5, <2>1
  <2> HIDE DEF s
  <2>3. PICK m \in Nat : m = n * 4
    BY <2>1
  <2>4. s \in [1..m -> DriverStep]
    BY <2>2, <2>3
  <2>5. s \in Seq(DriverStep) /\ Len(s) = m
    BY <2>4
  <2> QED BY <2>1, <2>3, <2>5
<1> QED BY <1>3, <1>5, <1>6 DEF Eventful

-----------------------------------------------------------------------------

\* A drag is its press and its release, and a move for every step between
LEMMA DragEventful ==
  ASSUME NEW from \in Places, NEW to \in Places, NEW n \in Nat \ {0}
  PROVE  Eventful(D!Drag(from, to, n), n + 3)
<1>1. D!Way(from, to, n) \in [1..n -> Places]
  BY DEF D!Way
<1>2. PICK way \in [1..n -> Places] : way = D!Way(from, to, n)
  BY <1>1
<1> DEFINE moves == D!InTurn([i \in 1..n |-> D!PointerMove(way[i])])
           first == D!PointerMove(from)
           press == D!Event("press", None)
           release == D!Event("release", None)
<1>3. D!Drag(from, to, n) = ((first \o press) \o moves) \o release
  BY <1>2, Zenon DEF D!Drag
<1>4. Eventful(first, 1) /\ Eventful(press, 1) /\ Eventful(release, 1)
  BY EventEventful DEF D!PointerMove
<1>5. Eventful(moves, n)
  BY InTurnEventful
<1> HIDE DEF moves, first, press, release
<1>6. Eventful(first \o press, 2)
  <2>1. Eventful(first \o press, 1 + 1)
    BY <1>4, EventfulJoined
  <2> QED BY <2>1
<1>7. Eventful((first \o press) \o moves, 2 + n)
  BY <1>5, <1>6, EventfulJoined
<1>8. Eventful(((first \o press) \o moves) \o release, 2 + n + 1)
  <2>1. 2 + n \in Nat
    OBVIOUS
  <2> QED BY <1>4, <1>7, <2>1, EventfulJoined
<1>9. 2 + n + 1 = n + 3
  OBVIOUS
<1> QED BY <1>3, <1>8, <1>9

\* What is in an operation
LEMMA OpIs ==
  ASSUME Counts \subseteq Nat, Secs \subseteq Nat, NEW o \in D!Op
  PROVE  /\ o.kind \in {"rects", "press", "release", "key", "bad", "frame", "advance", "move",
                        "wheel", "drag"}
         /\ o.kind = "frame" => o.n \in Nat
         /\ o.kind = "advance" => o.secs \in Nat
         /\ o.kind \in {"move", "wheel"} => o.at \in Places
         /\ o.kind = "drag" => o.from \in Places /\ o.to \in Places /\ o.n \in Nat
<1>1. CASE o \in [kind : {"rects", "press", "release", "key", "bad"}]
  BY <1>1
<1>2. CASE o \in [kind : {"frame"}, n : Counts]
  BY <1>2
<1>3. CASE o \in [kind : {"advance"}, secs : Secs]
  BY <1>3
<1>4. CASE o \in [kind : {"move", "wheel"}, at : Places]
  BY <1>4
<1>5. CASE o \in [kind : {"drag"}, from : Places, to : Places, n : Counts]
  BY <1>5
<1> QED BY <1>1, <1>2, <1>3, <1>4, <1>5 DEF D!Op

LEMMA GestureScript ==
  ASSUME Counts \subseteq Nat, Secs \subseteq Nat,
         NEW o \in D!Op, o.kind \in Gesturing \ {"wheel"}
  PROVE  D!Frames(o) \in Nat /\ Eventful(D!Script(o), D!Frames(o))
<1>1. CASE o.kind = "drag"
  <2>1. PICK n \in Nat \ {0} : n = D!AtLeastOne(o.n)
    BY <1>1, OpIs DEF D!AtLeastOne
  <2>2. D!Frames(o) = n + 3 /\ D!Script(o) = D!Drag(o.from, o.to, n)
    BY <1>1, <2>1 DEF D!Frames, D!Script
  <2> QED BY <1>1, <2>2, OpIs, DragEventful
<1>2. CASE o.kind = "move"
  <2>1. D!Frames(o) = 1 /\ D!Script(o) = D!Event("move", o.at)
    BY <1>2 DEF D!Frames, D!Script, D!PointerMove
  <2> QED BY <1>2, <2>1, OpIs, EventEventful
<1>3. CASE o.kind \in {"press", "release", "key"}
  <2>1. D!Frames(o) = 1 /\ D!Script(o) = D!Event(o.kind, None)
    BY <1>3 DEF D!Frames, D!Script
  <2> QED BY <1>3, <2>1, EventEventful
<1> QED BY <1>1, <1>2, <1>3 DEF Gesturing

LEMMA WheelScript ==
  ASSUME Counts \subseteq Nat, Secs \subseteq Nat, NEW o \in D!Op, o.kind = "wheel"
  PROVE  /\ D!Script(o) \in Seq(DriverStep) /\ Len(D!Script(o)) = 5 /\ D!Frames(o) = 1
         /\ D!Script(o)[1] = D!Paint /\ D!Script(o)[2] = D!Spend(2)
         /\ D!Script(o)[3] = D!Spend(1) /\ D!Script(o)[4] = <<"move", o.at>>
         /\ D!Script(o)[5] = <<"wheel", None>>
<1> DEFINE s == <<D!Paint, D!Spend(2), D!Spend(1), <<"move", o.at>>>>
           t == <<<<"wheel", None>>>>
<1>1. D!Script(o) = s \o t /\ D!Frames(o) = 1
  BY EventIs DEF D!Script, D!Frames, D!PointerMove
<1>2. o.at \in Places
  BY OpIs
<1>3. InputStep(<<"move", o.at>>) /\ InputStep(<<"wheel", None>>)
  BY <1>2 DEF InputStep, InputKinds
<1>4. s \in Seq(DriverStep) /\ t \in Seq(DriverStep) /\ Len(s) = 4 /\ Len(t) = 1
  <2>1. /\ D!Paint \in DriverStep /\ D!Spend(2) \in DriverStep /\ D!Spend(1) \in DriverStep
        /\ <<"move", o.at>> \in DriverStep /\ <<"wheel", None>> \in DriverStep
    BY <1>3, StepsAre
  <2> QED BY <2>1
<1>5. /\ s \o t \in Seq(DriverStep) /\ Len(s \o t) = 5
      /\ \A k \in 1..5 : (s \o t)[k] = IF k <= 4 THEN s[k] ELSE t[k - 4]
  BY <1>4, ConcatProperties
<1>6. /\ s[1] = D!Paint /\ s[2] = D!Spend(2) /\ s[3] = D!Spend(1) /\ s[4] = <<"move", o.at>>
      /\ t[1] = <<"wheel", None>>
  OBVIOUS
<1> HIDE DEF s, t
<1>7. /\ (s \o t)[1] = s[1] /\ (s \o t)[2] = s[2] /\ (s \o t)[3] = s[3] /\ (s \o t)[4] = s[4]
      /\ (s \o t)[5] = t[1]
  BY <1>5
<1> QED BY <1>1, <1>5, <1>6, <1>7

-----------------------------------------------------------------------------

\* One step of an operation's script: a paint, time, or an input of a gesture,
\* which comes after a whole frame and its own time, or is the wheel after its move
StepIs(o, k, x) ==
  \/ /\ x = D!Paint /\ PaintsTo(o, k + 1) = PaintsTo(o, k) + 1 /\ TimeTo(o, k + 1) = TimeTo(o, k)
     /\ o.kind \in Gesturing => k % 4 = 0
  \/ /\ \E t \in Nat : x = D!Spend(t) /\ TimeTo(o, k + 1) = TimeTo(o, k) + t
     /\ PaintsTo(o, k + 1) = PaintsTo(o, k)
     /\ o.kind \in Gesturing => k % 4 \in {1, 2}
     /\ o.kind # "rects"
  \/ /\ InputStep(x) /\ PaintsTo(o, k + 1) = PaintsTo(o, k) /\ TimeTo(o, k + 1) = TimeTo(o, k)
     /\ o.kind \in Gesturing
     /\ IF x[1] = "wheel" THEN o.kind = "wheel" /\ k = 4 ELSE k % 4 = 3

ScriptIs(o) ==
  LET n == Len(D!Script(o))
  IN /\ D!Script(o) \in Seq(DriverStep)
     /\ PaintsTo(o, 0) = 0 /\ TimeTo(o, 0) = 0
     /\ PaintsTo(o, n) = D!Frames(o) /\ TimeTo(o, n) = D!Worth(o)
     /\ \A k \in 0..(n - 1) : StepIs(o, k, D!Script(o)[k + 1])
     /\ \A k \in 0..n : PaintsTo(o, k) \in Nat /\ TimeTo(o, k) \in Nat
     /\ o.kind = "rects" => n = 1

LEMMA GestureIs ==
  ASSUME Counts \subseteq Nat, Secs \subseteq Nat,
         NEW o \in D!Op, o.kind \in Gesturing \ {"wheel"}
  PROVE  ScriptIs(o)
<1>1. PICK f \in Nat : f = D!Frames(o) /\ Eventful(D!Script(o), f)
  BY GestureScript
<1>2. PICK s : s = D!Script(o)
  OBVIOUS
<1>3. s \in Seq(DriverStep) /\ Len(s) = 4 * f
  BY <1>1, <1>2 DEF Eventful
<1>4. o.kind \notin {"bad", "rects", "frame", "advance", "wheel"}
  BY DEF Gesturing
<1>5. ASSUME NEW k \in Nat
      PROVE  /\ PaintsTo(o, k) = (k + 3) \div 4
             /\ TimeTo(o, k) = 3 * (k \div 4) + (IF k % 4 = 2 THEN 2 ELSE IF k % 4 = 3 THEN 3 ELSE 0)
  BY <1>4 DEF PaintsTo, TimeTo
<1>6. D!Worth(o) = 3 * f
  <2>1. CASE o.kind = "drag"
    <3>1. f = D!AtLeastOne(o.n) + 3 /\ D!Worth(o) = (D!AtLeastOne(o.n) + 3) * 3
      BY <1>1, <2>1 DEF D!Worth, D!Frames, D!Refused, D!FRAME, D!POINTER
    <3> QED BY <3>1
  <2>2. CASE o.kind # "drag"
    BY <1>1, <1>4, <2>2 DEF D!Worth, D!Frames, D!Refused, D!FRAME, D!POINTER
  <2> QED BY <2>1, <2>2
<1>7. /\ PaintsTo(o, 0) = 0 /\ TimeTo(o, 0) = 0
      /\ PaintsTo(o, 4 * f) = f /\ TimeTo(o, 4 * f) = 3 * f
  <2>1. 4 * f \in Nat /\ (4 * f + 3) \div 4 = f /\ (4 * f) \div 4 = f /\ (4 * f) % 4 = 0
    OBVIOUS
  <2>2. 0 \in Nat /\ (0 + 3) \div 4 = 0 /\ 0 \div 4 = 0 /\ 0 % 4 = 0
    OBVIOUS
  <2> QED BY <1>5, <2>1, <2>2
<1>8. ASSUME NEW k \in Nat PROVE PaintsTo(o, k) \in Nat /\ TimeTo(o, k) \in Nat
  BY <1>5
<1>9. ASSUME NEW k \in 0..(4 * f - 1) PROVE StepIs(o, k, s[k + 1])
  <2>1. k \in Nat /\ k + 1 \in Nat /\ k + 1 \in 1..(4 * f)
    OBVIOUS
  <2>2. /\ PaintsTo(o, k + 1) = (k + 1 + 3) \div 4
        /\ TimeTo(o, k + 1) = 3 * ((k + 1) \div 4)
              + (IF (k + 1) % 4 = 2 THEN 2 ELSE IF (k + 1) % 4 = 3 THEN 3 ELSE 0)
    BY <1>5, <2>1
  <2>3. /\ PaintsTo(o, k) = (k + 3) \div 4
        /\ TimeTo(o, k) = 3 * (k \div 4) + (IF k % 4 = 2 THEN 2 ELSE IF k % 4 = 3 THEN 3 ELSE 0)
    BY <1>5, <2>1
  <2>4. k + 1 + 3 = k + 4
    BY <2>1
  <2>5. k % 4 = 0 \/ k % 4 = 1 \/ k % 4 = 2 \/ k % 4 = 3
    OBVIOUS
  <2>6. CASE k % 4 = 0
    <3>1. (k + 1) % 4 = 1 /\ (k + 1) \div 4 = k \div 4 /\ (k + 4) \div 4 = (k + 3) \div 4 + 1
      BY <2>6
    <3>2. s[k + 1] = D!Paint
      BY <1>1, <1>2, <2>1, <3>1 DEF Eventful
    <3>3. PaintsTo(o, k + 1) = PaintsTo(o, k) + 1 /\ TimeTo(o, k + 1) = TimeTo(o, k)
      BY <2>6, <2>2, <2>3, <2>4, <3>1
    <3> QED BY <2>6, <3>2, <3>3 DEF StepIs
  <2>7. CASE k % 4 = 1
    <3>1. (k + 1) % 4 = 2 /\ (k + 1) \div 4 = k \div 4 /\ (k + 4) \div 4 = (k + 3) \div 4
      BY <2>7
    <3>2. s[k + 1] = D!Spend(2)
      BY <1>1, <1>2, <2>1, <3>1 DEF Eventful
    <3>3. PaintsTo(o, k + 1) = PaintsTo(o, k) /\ TimeTo(o, k + 1) = TimeTo(o, k) + 2
      BY <2>7, <2>2, <2>3, <2>4, <3>1
    <3> QED BY <1>4, <2>7, <3>2, <3>3 DEF StepIs
  <2>8. CASE k % 4 = 2
    <3>1. (k + 1) % 4 = 3 /\ (k + 1) \div 4 = k \div 4 /\ (k + 4) \div 4 = (k + 3) \div 4
      BY <2>8
    <3>2. s[k + 1] = D!Spend(1)
      BY <1>1, <1>2, <2>1, <3>1 DEF Eventful
    <3>3. PaintsTo(o, k + 1) = PaintsTo(o, k) /\ TimeTo(o, k + 1) = TimeTo(o, k) + 1
      BY <2>8, <2>2, <2>3, <2>4, <3>1
    <3> QED BY <1>4, <2>8, <3>2, <3>3 DEF StepIs
  <2>9. CASE k % 4 = 3
    <3>1. (k + 1) % 4 = 0 /\ (k + 1) \div 4 = k \div 4 + 1 /\ (k + 4) \div 4 = (k + 3) \div 4
      BY <2>9
    <3>2. InputStep(s[k + 1]) /\ s[k + 1][1] # "wheel"
      BY <1>1, <1>2, <2>1, <3>1 DEF Eventful
    <3>3. PaintsTo(o, k + 1) = PaintsTo(o, k) /\ TimeTo(o, k + 1) = TimeTo(o, k)
      BY <2>9, <2>2, <2>3, <2>4, <3>1
    <3> QED BY <2>9, <3>2, <3>3 DEF StepIs
  <2> QED BY <2>5, <2>6, <2>7, <2>8, <2>9
<1>10. \A k \in 0..(4 * f) : k \in Nat
  OBVIOUS
<1> QED BY <1>1, <1>2, <1>3, <1>4, <1>6, <1>7, <1>8, <1>9, <1>10 DEF ScriptIs

LEMMA WheelIs ==
  ASSUME Counts \subseteq Nat, Secs \subseteq Nat, NEW o \in D!Op, o.kind = "wheel"
  PROVE  ScriptIs(o)
<1>1. PICK s : s = D!Script(o)
  OBVIOUS
<1>2. /\ s \in Seq(DriverStep) /\ Len(s) = 5 /\ D!Frames(o) = 1
      /\ s[1] = D!Paint /\ s[2] = D!Spend(2) /\ s[3] = D!Spend(1) /\ s[4] = <<"move", o.at>>
      /\ s[5] = <<"wheel", None>>
  BY <1>1, WheelScript
<1>3. D!Worth(o) = 3
  BY DEF D!Worth, D!Refused, D!FRAME, D!POINTER
<1>4. /\ PaintsTo(o, 0) = 0 /\ \A k \in 1..5 : PaintsTo(o, k) = 1
      /\ TimeTo(o, 0) = 0 /\ TimeTo(o, 1) = 0 /\ TimeTo(o, 2) = 2 /\ TimeTo(o, 3) = 3
      /\ TimeTo(o, 4) = 3 /\ TimeTo(o, 5) = 3
  BY DEF PaintsTo, TimeTo
<1>5. InputStep(s[4]) /\ InputStep(s[5]) /\ s[4][1] = "move" /\ s[5][1] = "wheel"
  BY <1>2, OpIs DEF InputStep, InputKinds
<1>6. StepIs(o, 0, s[1])
  BY <1>2, <1>4 DEF StepIs, Gesturing
<1>7. StepIs(o, 1, s[2])
  BY <1>2, <1>4 DEF StepIs, Gesturing
<1>8. StepIs(o, 2, s[3])
  BY <1>2, <1>4 DEF StepIs, Gesturing
<1>9. StepIs(o, 3, s[4])
  BY <1>4, <1>5 DEF StepIs, Gesturing
<1>10. StepIs(o, 4, s[5])
  BY <1>4, <1>5 DEF StepIs, Gesturing
<1>11. ASSUME NEW k \in 0..(5 - 1) PROVE StepIs(o, k, s[k + 1])
  <2>1. k = 0 \/ k = 1 \/ k = 2 \/ k = 3 \/ k = 4
    OBVIOUS
  <2> QED BY <1>6, <1>7, <1>8, <1>9, <1>10, <2>1
<1>12. ASSUME NEW k \in 0..5 PROVE PaintsTo(o, k) \in Nat /\ TimeTo(o, k) \in Nat
  <2>1. k = 0 \/ k = 1 \/ k = 2 \/ k = 3 \/ k = 4 \/ k = 5
    OBVIOUS
  <2> QED BY <1>4, <2>1
<1> QED BY <1>1, <1>2, <1>3, <1>4, <1>11, <1>12 DEF ScriptIs

\* The scripts without input
LEMMA FrameIs ==
  ASSUME Counts \subseteq Nat, Secs \subseteq Nat, NEW o \in D!Op, o.kind = "frame"
  PROVE  ScriptIs(o)
<1>1. PICK f \in Nat : f = o.n
  BY OpIs
<1> DEFINE t == <<D!Paint, D!Spend(2)>>
           s == [k \in 1..(f * 2) |-> t[1 + ((k - 1) % 2)]]
<1>2. D!Script(o) = s
  <2>1. D!Script(o) = [k \in 1..(f * Len(t)) |-> t[1 + ((k - 1) % Len(t))]]
    BY <1>1 DEF D!Script, D!Repeated, D!Tick, D!FRAME
  <2>2. Len(t) = 2
    OBVIOUS
  <2> HIDE DEF t
  <2> QED BY <2>1, <2>2
<1>3. ASSUME NEW k \in 1..(f * 2)
      PROVE  (k % 2 = 1 => s[k] = D!Paint) /\ (k % 2 = 0 => s[k] = D!Spend(2))
  <2>1. k % 2 = 1 => 1 + ((k - 1) % 2) = 1
    OBVIOUS
  <2>2. k % 2 = 0 => 1 + ((k - 1) % 2) = 2
    OBVIOUS
  <2> QED BY <2>1, <2>2
<1> HIDE DEF s
<1>4. s \in Seq(DriverStep) /\ Len(s) = 2 * f
  <2>1. \A k \in 1..(f * 2) : k % 2 = 1 \/ k % 2 = 0
    OBVIOUS
  <2>2. \A k \in 1..(f * 2) : s[k] \in DriverStep
    BY <1>3, <2>1, StepsAre
  <2>3. PICK m \in Nat : m = f * 2
    OBVIOUS
  <2>4. DOMAIN s = 1..m /\ s = [k \in 1..m |-> s[k]]
    BY <2>3 DEF s
  <2>5. s \in [1..m -> DriverStep]
    BY <2>2, <2>3, <2>4
  <2>6. s \in Seq(DriverStep) /\ Len(s) = m
    BY <2>5
  <2> QED BY <2>3, <2>6
<1>5. ASSUME NEW k \in Nat PROVE PaintsTo(o, k) = (k + 1) \div 2 /\ TimeTo(o, k) = 2 * (k \div 2)
  BY DEF PaintsTo, TimeTo
<1>6. D!Frames(o) = f /\ D!Worth(o) = 2 * f
  <2>1. D!Frames(o) = f /\ D!Worth(o) = f * 2
    BY <1>1 DEF D!Frames, D!Worth, D!Refused, D!FRAME
  <2> QED BY <2>1
<1>7. /\ PaintsTo(o, 0) = 0 /\ TimeTo(o, 0) = 0
      /\ PaintsTo(o, 2 * f) = f /\ TimeTo(o, 2 * f) = 2 * f
  <2>1. 2 * f \in Nat /\ (2 * f + 1) \div 2 = f /\ (2 * f) \div 2 = f
    OBVIOUS
  <2>2. 0 \in Nat /\ (0 + 1) \div 2 = 0 /\ 0 \div 2 = 0
    OBVIOUS
  <2> QED BY <1>5, <2>1, <2>2
<1>8. ASSUME NEW k \in 0..(2 * f) PROVE PaintsTo(o, k) \in Nat /\ TimeTo(o, k) \in Nat
  <2>1. k \in Nat /\ (k + 1) \div 2 \in Nat /\ 2 * (k \div 2) \in Nat
    OBVIOUS
  <2> QED BY <1>5, <2>1
<1>9. ASSUME NEW k \in 0..(2 * f - 1) PROVE StepIs(o, k, s[k + 1])
  <2>1. k \in Nat /\ k + 1 \in Nat /\ k + 1 \in 1..(f * 2)
    OBVIOUS
  <2>2. PaintsTo(o, k + 1) = (k + 1 + 1) \div 2 /\ TimeTo(o, k + 1) = 2 * ((k + 1) \div 2)
    BY <1>5, <2>1
  <2>3. PaintsTo(o, k) = (k + 1) \div 2 /\ TimeTo(o, k) = 2 * (k \div 2)
    BY <1>5, <2>1
  <2>4. k + 1 + 1 = k + 2
    BY <2>1
  <2>5. CASE k % 2 = 0
    <3>1. (k + 1) % 2 = 1 /\ (k + 2) \div 2 = (k + 1) \div 2 + 1 /\ (k + 1) \div 2 = k \div 2
      BY <2>5
    <3>2. s[k + 1] = D!Paint
      BY <1>3, <2>1, <3>1
    <3>3. PaintsTo(o, k + 1) = PaintsTo(o, k) + 1 /\ TimeTo(o, k + 1) = TimeTo(o, k)
      BY <2>2, <2>3, <2>4, <3>1
    <3> QED BY <3>2, <3>3 DEF StepIs, Gesturing
  <2>6. CASE k % 2 = 1
    <3>1. (k + 1) % 2 = 0 /\ (k + 2) \div 2 = (k + 1) \div 2 /\ (k + 1) \div 2 = k \div 2 + 1
      BY <2>6
    <3>2. s[k + 1] = D!Spend(2)
      BY <1>3, <2>1, <3>1
    <3>3. PaintsTo(o, k + 1) = PaintsTo(o, k) /\ TimeTo(o, k + 1) = TimeTo(o, k) + 2
      BY <2>2, <2>3, <2>4, <3>1
    <3> QED BY <3>2, <3>3 DEF StepIs, Gesturing
  <2>7. k % 2 = 0 \/ k % 2 = 1
    OBVIOUS
  <2> QED BY <2>5, <2>6, <2>7
<1> QED BY <1>2, <1>4, <1>6, <1>7, <1>8, <1>9 DEF ScriptIs

LEMMA OthersAre ==
  ASSUME Counts \subseteq Nat, Secs \subseteq Nat,
         NEW o \in D!Op, o.kind \in {"bad", "rects", "advance"}
  PROVE  ScriptIs(o)
<1>1. CASE o.kind = "bad"
  <2>1. D!Script(o) = <<>> /\ <<>> \in Seq(DriverStep) /\ Len(<<>>) = 0
    BY <1>1 DEF D!Script, D!Refusal
  <2>2. D!Frames(o) = 0 /\ D!Worth(o) = 0 /\ \A k : PaintsTo(o, k) = 0 /\ TimeTo(o, k) = 0
    BY <1>1 DEF D!Frames, D!Worth, D!Refused, PaintsTo, TimeTo
  <2>3. (\A k \in 0..(0 - 1) : FALSE) /\ 0 \in Nat
    OBVIOUS
  <2> QED BY <1>1, <2>1, <2>2, <2>3 DEF ScriptIs
<1>2. CASE o.kind = "rects"
  <2>1. PICK s : s = D!Script(o)
    OBVIOUS
  <2>2. s = <<D!Paint>>
    BY <1>2, <2>1 DEF D!Script
  <2>3. s \in Seq(DriverStep) /\ Len(s) = 1 /\ s[1] = D!Paint
    BY <2>2, StepsAre
  <2>4. /\ D!Frames(o) = 1 /\ D!Worth(o) = 0
        /\ \A k : PaintsTo(o, k) = k /\ TimeTo(o, k) = 0
    BY <1>2 DEF D!Frames, D!Worth, D!Refused, PaintsTo, TimeTo
  <2>5. StepIs(o, 0, s[1])
    BY <1>2, <2>3, <2>4 DEF StepIs, Gesturing
  <2>6. ASSUME NEW k \in 0..(1 - 1) PROVE StepIs(o, k, s[k + 1])
    <3>1. k = 0
      OBVIOUS
    <3> QED BY <2>5, <3>1
  <2>7. \A k \in 0..1 : k \in Nat
    OBVIOUS
  <2> QED BY <2>1, <2>3, <2>4, <2>6, <2>7 DEF ScriptIs
<1>3. CASE o.kind = "advance"
  <2>1. PICK t \in Nat : t = o.secs
    BY <1>3, OpIs
  <2>2. PICK s : s = D!Script(o) /\ t = o.secs
    BY <2>1
  <2>3. s = <<D!Spend(t), D!Paint>>
    BY <1>3, <2>2 DEF D!Script
  <2>4. s \in Seq(DriverStep) /\ Len(s) = 2 /\ s[1] = D!Spend(t) /\ s[2] = D!Paint
    BY <2>3, StepsAre
  <2>5. /\ D!Frames(o) = 1 /\ D!Worth(o) = t
        /\ PaintsTo(o, 0) = 0 /\ PaintsTo(o, 1) = 0 /\ PaintsTo(o, 2) = 1
        /\ TimeTo(o, 0) = 0 /\ TimeTo(o, 1) = t /\ TimeTo(o, 2) = t
    BY <1>3, <2>2 DEF D!Frames, D!Worth, D!Refused, PaintsTo, TimeTo
  <2>6. StepIs(o, 0, s[1]) /\ StepIs(o, 1, s[2])
    BY <1>3, <2>4, <2>5 DEF StepIs, Gesturing
  <2>7. ASSUME NEW k \in 0..(2 - 1) PROVE StepIs(o, k, s[k + 1])
    <3>1. k = 0 \/ k = 1
      OBVIOUS
    <3> QED BY <2>6, <3>1
  <2>8. ASSUME NEW k \in 0..2 PROVE PaintsTo(o, k) \in Nat /\ TimeTo(o, k) \in Nat
    <3>1. k = 0 \/ k = 1 \/ k = 2
      OBVIOUS
    <3> QED BY <2>5, <3>1
  <2> QED BY <1>3, <2>2, <2>4, <2>5, <2>7, <2>8 DEF ScriptIs
<1> QED BY <1>1, <1>2, <1>3

\* Every script's paints and time are what its operation asks for
LEMMA EveryScript ==
  ASSUME Counts \subseteq Nat, Secs \subseteq Nat, NEW o \in D!Op
  PROVE  ScriptIs(o)
<1>1. o.kind \in {"rects", "press", "release", "key", "bad", "frame", "advance", "move",
                  "wheel", "drag"}
  BY OpIs
<1> QED BY <1>1, GestureIs, WheelIs, FrameIs, OthersAre DEF Gesturing

-----------------------------------------------------------------------------

\* The records of input, in order and at the times they came
Recorded(es) ==
  /\ es \in Seq([what : InputKinds, at : Nat, fresh : BOOLEAN])
  /\ \A i \in DOMAIN es : es[i].what # "wheel" => es[i].fresh
  /\ \A i, j \in DOMAIN es : i < j /\ es[j].what # "wheel" => es[i].at < es[j].at

\* After k steps of an operation's script
After(k) ==
  /\ todo = SubSeq(D!Script(op), k + 1, Len(D!Script(op)))
  /\ painted = PaintsTo(op, k) /\ clock = asked + TimeTo(op, k)
  /\ op.kind \in Gesturing /\ k % 4 # 0 /\ (op.kind = "wheel" => k < 5) => ~due
  /\ op.kind = "rects" => /\ k = 0 => shown = requested
                          /\ k = 1 => hits = requested
  /\ op.kind \in Gesturing => \A i \in DOMAIN events : events[i].at <= asked + 3 * (k \div 4)
Underway == \E k \in 0..Len(D!Script(op)) : After(k)

DriverInv ==
  /\ D!TypeOK /\ Recorded(events)
  /\ op = None =>
       /\ todo = <<>> /\ clock = asked
       /\ report # None => /\ report.frames = painted
                           /\ report.op.kind = "rects" => report.rects = <<requested>>
  /\ op # None => report = None /\ Underway

LEMMA DriverStarts ==
  ASSUME D!DriverConstants, D!Init
  PROVE  DriverInv
<1>1. D!TypeOK
  BY DEF D!DriverConstants, D!Init, D!TypeOK
<1>2. Recorded(events)
  BY DEF D!Init, Recorded
<1> QED BY <1>1, <1>2 DEF D!Init, DriverInv

\* What messages made the app show is counted
LEMMA HandlesIs ==
  ASSUME D!DriverConstants, changes \in 0..MaxChanges, NEW n \in Nat, D!Handles(n)
  PROVE  changes' \in 0..MaxChanges
BY DEF D!Handles, D!DriverConstants

LEMMA TurnsAre ==
  ASSUME NEW from, NEW to PROVE D!Turns(from, to) \in Nat
BY DEF D!Turns

\* Where the script is when it goes on, and how
LEMMA ScriptGoesOn ==
  ASSUME D!DriverConstants, DriverInv, todo # <<>>
  PROVE  /\ op \in D!Op /\ op # None /\ report = None
         /\ \E k \in 0..(Len(D!Script(op)) - 1) :
              /\ After(k) /\ k + 1 \in 0..Len(D!Script(op))
              /\ StepIs(op, k, Head(todo))
              /\ Tail(todo) = SubSeq(D!Script(op), k + 1 + 1, Len(D!Script(op)))
<1>1. op # None /\ op \in D!Op /\ report = None
  BY DEF DriverInv, D!TypeOK
<1>2. Counts \subseteq Nat /\ Secs \subseteq Nat
  BY DEF D!DriverConstants
<1>3. PICK k \in 0..Len(D!Script(op)) : After(k)
  BY <1>1 DEF DriverInv, Underway
<1>4. ScriptIs(op)
  BY <1>1, <1>2, EveryScript
<1>5. PICK s \in Seq(DriverStep) : s = D!Script(op)
  BY <1>4 DEF ScriptIs
<1>6. todo = SubSeq(s, k + 1, Len(s)) /\ k \in 0..Len(s) /\ Len(s) \in Nat
  BY <1>3, <1>5 DEF After
<1>7. k # Len(s)
  <2>1. ASSUME k = Len(s) PROVE FALSE
    <3>1. k + 1 \in Int /\ Len(s) \in Int /\ Len(s) < k + 1
      BY <1>6, <2>1
    <3>2. SubSeq(s, k + 1, Len(s)) = <<>>
      BY <3>1, SubSeqEmpty
    <3> QED BY <1>6, <3>2
  <2> QED BY <2>1
<1>8. k \in 0..(Len(s) - 1) /\ k + 1 \in 0..Len(s) /\ k + 1 \in 1..Len(s) /\ Len(s) \in (k + 1)..Len(s)
  BY <1>6, <1>7
<1>9. Head(todo) = s[k + 1] /\ Tail(todo) = SubSeq(s, k + 1 + 1, Len(s))
  BY <1>6, <1>8, HeadTailOfSubSeq
<1>10. StepIs(op, k, Head(todo))
  BY <1>4, <1>5, <1>8, <1>9 DEF ScriptIs
<1> QED BY <1>1, <1>3, <1>5, <1>8, <1>9, <1>10

\* A step is what its name says
LEMMA StepKinds ==
  ASSUME NEW o, NEW k, NEW x, StepIs(o, k, x)
  PROVE  /\ x = D!Paint => /\ PaintsTo(o, k + 1) = PaintsTo(o, k) + 1
                           /\ TimeTo(o, k + 1) = TimeTo(o, k)
                           /\ o.kind \in Gesturing => k % 4 = 0
         /\ x[1] = "spend" => /\ x[2] \in Nat /\ TimeTo(o, k + 1) = TimeTo(o, k) + x[2]
                              /\ PaintsTo(o, k + 1) = PaintsTo(o, k)
                              /\ o.kind \in Gesturing => k % 4 \in {1, 2}
                              /\ o.kind # "rects"
         /\ x[1] \notin {"paint", "spend"} =>
              /\ InputStep(x) /\ PaintsTo(o, k + 1) = PaintsTo(o, k)
              /\ TimeTo(o, k + 1) = TimeTo(o, k) /\ o.kind \in Gesturing
              /\ IF x[1] = "wheel" THEN o.kind = "wheel" /\ k = 4 ELSE k % 4 = 3
<1>1. CASE x = D!Paint
  <2>1. x[1] = "paint" /\ ~ InputStep(x) /\ \A t : x # D!Spend(t)
    BY <1>1 DEF D!Paint, D!Spend, InputStep, InputKinds
  <2> QED BY <2>1 DEF StepIs
<1>2. CASE x # D!Paint /\ \E t \in Nat : x = D!Spend(t)
  <2>1. x[1] = "spend" /\ ~ InputStep(x)
    BY <1>2 DEF D!Spend, InputStep, InputKinds
  <2>2. PICK t \in Nat : x = D!Spend(t) /\ TimeTo(o, k + 1) = TimeTo(o, k) + t
    BY <1>2, <2>1 DEF StepIs
  <2>3. x[2] = t
    BY <2>2 DEF D!Spend
  <2> QED BY <1>2, <2>1, <2>2, <2>3 DEF StepIs
<1>3. CASE x # D!Paint /\ ~ \E t \in Nat : x = D!Spend(t)
  <2>1. InputStep(x)
    BY <1>3 DEF StepIs
  <2>2. x[1] # "spend" /\ x[1] # "paint"
    BY <2>1 DEF InputStep, InputKinds
  <2> QED BY <1>3, <2>2 DEF StepIs
<1> QED BY <1>1, <1>2, <1>3

LEMMA PaintingKeeps ==
  ASSUME D!DriverConstants, DriverInv, NEW s \in SUBSET Places, D!Painting(s)
  PROVE  DriverInv'
<1>1. PICK k \in 0..(Len(D!Script(op)) - 1) :
        /\ After(k) /\ k + 1 \in 0..Len(D!Script(op))
        /\ StepIs(op, k, Head(todo))
        /\ Tail(todo) = SubSeq(D!Script(op), k + 1 + 1, Len(D!Script(op)))
  BY ScriptGoesOn DEF D!Painting
<1>2. op \in D!Op /\ op # None /\ report = None
  BY ScriptGoesOn DEF D!Painting
<1>3. /\ hits' = shown /\ painted' = painted + 1 /\ todo' = Tail(todo) /\ Head(todo) = D!Paint
      /\ due' = FALSE /\ shown' = s
      /\ UNCHANGED <<pointer, clock, op, events, report, ops, asked, requested>>
  BY DEF D!Painting
<1>4. /\ PaintsTo(op, k + 1) = PaintsTo(op, k) + 1 /\ TimeTo(op, k + 1) = TimeTo(op, k)
      /\ op.kind \in Gesturing => k % 4 = 0
  BY <1>1, <1>3, StepKinds
<1>5. k \in Nat /\ (k % 4 = 0 => (k + 1) \div 4 = k \div 4)
  BY <1>1
<1>6. After(k + 1)'
  <2>1. todo' = SubSeq(D!Script(op), k + 1 + 1, Len(D!Script(op)))
    BY <1>1, <1>3
  <2>2. painted' = PaintsTo(op, k + 1) /\ clock' = asked + TimeTo(op, k + 1)
    BY <1>1, <1>3, <1>4 DEF After
  <2>3. op.kind \in Gesturing => \A i \in DOMAIN events : events[i].at <= asked + 3 * ((k + 1) \div 4)
    BY <1>1, <1>4, <1>5 DEF After
  <2>4. (D!Script(op))' = D!Script(op) /\ PaintsTo(op, k + 1)' = PaintsTo(op, k + 1)
        /\ TimeTo(op, k + 1)' = TimeTo(op, k + 1)
    BY <1>3 DEF PaintsTo, TimeTo, D!Script
  <2>5. op.kind = "rects" /\ k + 1 = 1 => hits' = requested
    <3>1. k + 1 = 1 => k = 0
      BY <1>5
    <3> QED BY <1>1, <1>3, <3>1 DEF After
  <2>6. k + 1 # 0
    BY <1>5
  <2> QED BY <1>3, <2>1, <2>2, <2>3, <2>4, <2>5, <2>6 DEF After
<1>7. Underway'
  <2>1. Len(D!Script(op))' = Len(D!Script(op))
    BY <1>3
  <2> QED BY <1>1, <1>6, <2>1 DEF Underway
<1>8. D!TypeOK'
  <2>1. D!Handles(D!Turns(shown, s)) /\ changes \in 0..MaxChanges
    BY DEF D!Painting, DriverInv, D!TypeOK
  <2>2. changes' \in 0..MaxChanges /\ painted' \in Nat
    BY <1>3, <2>1, HandlesIs, TurnsAre DEF DriverInv, D!TypeOK
  <2> QED BY <1>3, <2>2 DEF DriverInv, D!TypeOK
<1>9. Recorded(events)'
  BY <1>3 DEF DriverInv, Recorded
<1> QED BY <1>2, <1>3, <1>7, <1>8, <1>9 DEF DriverInv

LEMMA SpendingKeeps ==
  ASSUME D!DriverConstants, DriverInv, D!Spending
  PROVE  DriverInv'
<1>1. PICK k \in 0..(Len(D!Script(op)) - 1) :
        /\ After(k) /\ k + 1 \in 0..Len(D!Script(op))
        /\ StepIs(op, k, Head(todo))
        /\ Tail(todo) = SubSeq(D!Script(op), k + 1 + 1, Len(D!Script(op)))
  BY ScriptGoesOn DEF D!Spending
<1>2. op \in D!Op /\ op # None /\ report = None
  BY ScriptGoesOn DEF D!Spending
<1>3. /\ clock' = clock + Head(todo)[2] /\ todo' = Tail(todo) /\ Head(todo)[1] = "spend"
      /\ UNCHANGED <<shown, hits, pointer, op, painted, events, report, ops, changes, asked,
                     due, requested>>
  BY DEF D!Spending, D!history
<1>4. PICK t \in Nat : t = Head(todo)[2] /\ TimeTo(op, k + 1) = TimeTo(op, k) + t
  BY <1>1, <1>3, StepKinds
<1>5. /\ PaintsTo(op, k + 1) = PaintsTo(op, k) /\ op.kind # "rects"
      /\ op.kind \in Gesturing => k % 4 \in {1, 2}
  BY <1>1, <1>3, StepKinds
<1>6. k \in Nat /\ (k % 4 \in {1, 2} => (k + 1) \div 4 = k \div 4 /\ k % 4 # 0)
      /\ (k + 1 < 5 => k < 5)
  BY <1>1
<1>7. clock \in Nat /\ TimeTo(op, k) \in Nat /\ asked \in Nat
  <2>1. clock \in Nat /\ asked \in Nat
    BY DEF DriverInv, D!TypeOK
  <2>2. ScriptIs(op)
    BY <1>2, EveryScript DEF D!DriverConstants
  <2>3. k \in 0..Len(D!Script(op))
    BY <1>1, <2>2 DEF ScriptIs
  <2> QED BY <2>1, <2>2, <2>3 DEF ScriptIs
<1>8. After(k + 1)'
  <2>1. todo' = SubSeq(D!Script(op), k + 1 + 1, Len(D!Script(op)))
    BY <1>1, <1>3
  <2>2. painted' = PaintsTo(op, k + 1)
    BY <1>1, <1>3, <1>5 DEF After
  <2>3. clock' = asked + TimeTo(op, k + 1)
    <3>1. clock = asked + TimeTo(op, k) /\ clock' = clock + t
      BY <1>1, <1>3, <1>4 DEF After
    <3> QED BY <1>4, <1>7, <3>1
  <2>4. op.kind \in Gesturing => \A i \in DOMAIN events : events[i].at <= asked + 3 * ((k + 1) \div 4)
    BY <1>1, <1>5, <1>6 DEF After
  <2>5. op.kind \in Gesturing /\ (op.kind = "wheel" => k + 1 < 5) => ~due
    BY <1>1, <1>5, <1>6 DEF After
  <2>6. (D!Script(op))' = D!Script(op) /\ PaintsTo(op, k + 1)' = PaintsTo(op, k + 1)
        /\ TimeTo(op, k + 1)' = TimeTo(op, k + 1)
    BY <1>3 DEF PaintsTo, TimeTo, D!Script
  <2> QED BY <1>3, <1>5, <2>1, <2>2, <2>3, <2>4, <2>5, <2>6 DEF After
<1>9. Underway'
  <2>1. Len(D!Script(op))' = Len(D!Script(op))
    BY <1>3
  <2> QED BY <1>1, <1>8, <2>1 DEF Underway
<1>10. D!TypeOK'
  <2>1. clock' \in Nat
    BY <1>3, <1>4, <1>7
  <2> QED BY <1>3, <2>1 DEF DriverInv, D!TypeOK
<1>11. Recorded(events)'
  BY <1>3 DEF DriverInv, Recorded
<1> QED BY <1>2, <1>3, <1>9, <1>10, <1>11 DEF DriverInv

\* One input more: what was recorded came before it, and it meets its frame
LEMMA OneMore ==
  ASSUME NEW es, Recorded(es), NEW e \in [what : InputKinds, at : Nat, fresh : BOOLEAN],
         e.what # "wheel" => e.fresh /\ \A i \in DOMAIN es : es[i].at < e.at
  PROVE  /\ Recorded(Append(es, e)) /\ DOMAIN Append(es, e) = 1..(Len(es) + 1)
         /\ Len(es) \in Nat /\ DOMAIN es = 1..Len(es)
         /\ \A i \in DOMAIN es : Append(es, e)[i] = es[i]
         /\ Append(es, e)[Len(es) + 1] = e
<1> DEFINE S == [what : InputKinds, at : Nat, fresh : BOOLEAN]
           n == Len(es)
           t == Append(es, e)
<1>1. es \in Seq(S) /\ n \in Nat /\ DOMAIN es = 1..n
  BY DEF Recorded
<1>2. /\ t \in Seq(S) /\ DOMAIN t = 1..(n + 1) /\ t[n + 1] = e
      /\ \A i \in 1..n : t[i] = es[i]
  BY <1>1, AppendProperties
<1> HIDE DEF t, n
<1>3. ASSUME NEW i \in DOMAIN t PROVE i \in 1..n \/ i = n + 1
  BY <1>1, <1>2
<1>4. ASSUME NEW i \in DOMAIN t, t[i].what # "wheel" PROVE t[i].fresh
  <2>1. CASE i \in 1..n
    BY <1>1, <1>2, <1>4, <2>1 DEF Recorded
  <2>2. CASE i = n + 1
    BY <1>2, <1>4, <2>2
  <2> QED BY <1>3, <2>1, <2>2
<1>5. ASSUME NEW i \in DOMAIN t, NEW j \in DOMAIN t, i < j, t[j].what # "wheel"
      PROVE t[i].at < t[j].at
  <2>1. CASE j \in 1..n
    <3>1. i \in 1..n
      BY <1>1, <1>2, <1>5, <2>1
    <3> QED BY <1>1, <1>2, <1>5, <2>1, <3>1 DEF Recorded
  <2>2. CASE j = n + 1
    <3>1. i \in 1..n
      BY <1>1, <1>2, <1>5, <2>2
    <3> QED BY <1>1, <1>2, <1>5, <2>2, <3>1
  <2> QED BY <1>3, <2>1, <2>2
<1>6. Recorded(t)
  BY <1>2, <1>4, <1>5 DEF Recorded
<1> QED BY <1>1, <1>2, <1>6 DEF t, n

LEMMA DeliveringKeeps ==
  ASSUME D!DriverConstants, DriverInv, NEW s \in SUBSET Places, D!Delivering(s)
  PROVE  DriverInv'
<1>1. PICK k \in 0..(Len(D!Script(op)) - 1) :
        /\ After(k) /\ k + 1 \in 0..Len(D!Script(op))
        /\ StepIs(op, k, Head(todo))
        /\ Tail(todo) = SubSeq(D!Script(op), k + 1 + 1, Len(D!Script(op)))
  BY ScriptGoesOn DEF D!Delivering
<1>2. op \in D!Op /\ op # None /\ report = None
  BY ScriptGoesOn DEF D!Delivering
<1>3. PICK x, e : x = Head(todo) /\ e = [what |-> x[1], at |-> clock, fresh |-> ~due]
  OBVIOUS
<1>4. /\ pointer' = (IF x[1] = "move" THEN x[2] ELSE pointer)
      /\ events' = Append(events, e) /\ shown' = s /\ todo' = Tail(todo)
      /\ x[1] \notin {"paint", "spend"}
      /\ UNCHANGED <<hits, clock, op, painted, report, ops, asked, requested>>
  BY <1>3, Zenon DEF D!Delivering
<1>5. /\ InputStep(x) /\ PaintsTo(op, k + 1) = PaintsTo(op, k)
      /\ TimeTo(op, k + 1) = TimeTo(op, k) /\ op.kind \in Gesturing
      /\ IF x[1] = "wheel" THEN op.kind = "wheel" /\ k = 4 ELSE k % 4 = 3
  BY <1>1, <1>3, <1>4, StepKinds
<1>6. k \in Nat /\ clock \in Nat /\ asked \in Nat
  BY <1>1 DEF DriverInv, D!TypeOK
<1>7. x[1] # "wheel" => /\ k % 4 = 3 /\ (k + 1) \div 4 = k \div 4 + 1 /\ (k + 1) % 4 = 0
                        /\ TimeTo(op, k) = 3 * (k \div 4) + 3
                        /\ k < 5 \/ op.kind # "wheel"
  <2>1. ASSUME x[1] # "wheel" PROVE k % 4 = 3
    BY <1>5, <2>1
  <2>2. k % 4 = 3 => (k + 1) \div 4 = k \div 4 + 1 /\ (k + 1) % 4 = 0 /\ k # 5
    BY <1>6
  <2>3. op.kind \notin {"bad", "rects", "frame", "advance"}
    BY <1>5 DEF Gesturing
  <2>4. k % 4 = 3 => TimeTo(op, k) = 3 * (k \div 4) + 3
    BY <2>2, <2>3 DEF TimeTo
  <2>5. ASSUME op.kind = "wheel" PROVE k < 5
    <3>1. Counts \subseteq Nat /\ Secs \subseteq Nat
      BY DEF D!DriverConstants
    <3>2. Len(D!Script(op)) = 5
      BY <1>2, <2>5, <3>1, WheelScript
    <3> QED BY <1>1, <3>2
  <2> QED BY <2>1, <2>2, <2>4, <2>5
<1>8. /\ x[1] = "wheel" => TimeTo(op, k) = 3 /\ op.kind = "wheel" /\ k = 4
      /\ op.kind # "rects"
  <2>1. ASSUME x[1] = "wheel" PROVE TimeTo(op, k) = 3 /\ op.kind = "wheel" /\ k = 4
    <3>1. op.kind = "wheel" /\ k = 4
      BY <1>5, <2>1
    <3> QED BY <3>1 DEF TimeTo
  <2> QED BY <1>5, <2>1 DEF Gesturing
<1>9. /\ clock = asked + TimeTo(op, k) /\ painted = PaintsTo(op, k)
      /\ \A i \in DOMAIN events : events[i].at <= asked + 3 * (k \div 4)
      /\ op.kind \in Gesturing /\ k % 4 # 0 /\ (op.kind = "wheel" => k < 5) => ~due
  BY <1>1, <1>5 DEF After
<1>10. \A i \in DOMAIN events : events[i].at \in Nat
  <2>1. events \in Seq([what : InputKinds, at : Nat, fresh : BOOLEAN])
    BY DEF DriverInv, Recorded
  <2>2. \A i \in DOMAIN events : events[i] \in [what : InputKinds, at : Nat, fresh : BOOLEAN]
    <3>1. DOMAIN events = 1..Len(events)
      BY <2>1
    <3> QED BY <2>1, <3>1, ElementOfSeq
  <2> QED BY <2>2
<1>11. x[1] \in InputKinds /\ (x[1] = "move" => x[2] \in Places)
  <2>1. PICK what, at : /\ what \in InputKinds
                        /\ x = <<what, at>> /\ (what = "move" => at \in Places)
    BY <1>5 DEF InputStep, InputKinds
  <2> QED BY <2>1
<1>12. /\ e \in [what : InputKinds, at : Nat, fresh : BOOLEAN]
       /\ e.what = x[1] /\ e.at = clock /\ e.fresh = ~due
  <2>1. (~due) \in BOOLEAN
    OBVIOUS
  <2> QED BY <1>3, <1>6, <1>11, <2>1
<1>13. e.what # "wheel" => e.fresh
  BY <1>5, <1>7, <1>9, <1>12
<1>14. ASSUME e.what # "wheel", NEW i \in DOMAIN events PROVE events[i].at < e.at
  <2>1. e.at = asked + (3 * (k \div 4) + 3)
    BY <1>7, <1>9, <1>12, <1>14
  <2>2. events[i].at <= asked + 3 * (k \div 4) /\ events[i].at \in Nat
    BY <1>9, <1>10
  <2>3. k \div 4 \in Nat
    BY <1>6
  <2> QED BY <1>6, <2>1, <2>2, <2>3
<1>15. /\ Recorded(events') /\ DOMAIN events' = 1..(Len(events) + 1)
       /\ Len(events) \in Nat /\ DOMAIN events = 1..Len(events)
       /\ \A i \in DOMAIN events : events'[i] = events[i]
       /\ events'[Len(events) + 1] = e
  <2>1. Recorded(events)
    BY DEF DriverInv
  <2> QED BY <1>4, <1>12, <1>13, <1>14, <2>1, OneMore
<1>16. ASSUME NEW i \in DOMAIN events' PROVE events'[i].at <= asked + 3 * ((k + 1) \div 4)
  <2>1. i \in DOMAIN events \/ i = Len(events) + 1
    BY <1>15
  <2>2. k \div 4 \in Nat /\ (k + 1) \div 4 \in Nat /\ k \div 4 <= (k + 1) \div 4
    BY <1>6
  <2>3. CASE i \in DOMAIN events
    <3>1. events'[i].at <= asked + 3 * (k \div 4) /\ events'[i].at \in Nat
      BY <1>9, <1>10, <1>15, <2>3
    <3> QED BY <1>6, <2>2, <3>1
  <2>4. CASE i = Len(events) + 1
    <3>1. events'[i].at = asked + TimeTo(op, k)
      BY <1>9, <1>12, <1>15, <2>4
    <3>2. CASE x[1] = "wheel"
      <4>1. TimeTo(op, k) = 3 /\ (k + 1) \div 4 = 1
        BY <1>8, <3>2
      <4> QED BY <1>6, <3>1, <4>1
    <3>3. CASE x[1] # "wheel"
      <4>1. TimeTo(op, k) = 3 * (k \div 4) + 3 /\ (k + 1) \div 4 = k \div 4 + 1
        BY <1>7, <3>3
      <4> QED BY <1>6, <2>2, <3>1, <4>1
    <3> QED BY <3>2, <3>3
  <2> QED BY <2>1, <2>3, <2>4
<1>17. After(k + 1)'
  <2>1. todo' = SubSeq(D!Script(op), k + 1 + 1, Len(D!Script(op)))
    BY <1>1, <1>4
  <2>2. painted' = PaintsTo(op, k + 1) /\ clock' = asked + TimeTo(op, k + 1)
    BY <1>4, <1>5, <1>9
  <2>3. ~((k + 1) % 4 # 0 /\ (op.kind = "wheel" => k + 1 < 5))
    BY <1>7, <1>8
  <2>4. (D!Script(op))' = D!Script(op) /\ PaintsTo(op, k + 1)' = PaintsTo(op, k + 1)
        /\ TimeTo(op, k + 1)' = TimeTo(op, k + 1)
    BY <1>4 DEF PaintsTo, TimeTo, D!Script
  <2> QED BY <1>4, <1>8, <1>16, <2>1, <2>2, <2>3, <2>4 DEF After
<1>18. Underway'
  <2>1. Len(D!Script(op))' = Len(D!Script(op))
    BY <1>4
  <2> QED BY <1>1, <1>17, <2>1 DEF Underway
<1>19. D!TypeOK'
  <2>1. D!Handles(D!Turns(shown, s)) /\ changes \in 0..MaxChanges
    BY Zenon DEF D!Delivering, DriverInv, D!TypeOK
  <2>2. changes' \in 0..MaxChanges
    BY <2>1, HandlesIs, TurnsAre
  <2>3. pointer' \in Places \cup {None}
    BY <1>4, <1>11 DEF DriverInv, D!TypeOK
  <2>4. due' \in BOOLEAN
    <3>1. due' = (due \/ s # shown)
      BY Zenon DEF D!Delivering
    <3> QED BY <3>1
  <2> QED BY <1>4, <2>2, <2>3, <2>4 DEF DriverInv, D!TypeOK
<1>20. Recorded(events)'
  BY <1>15
<1> QED BY <1>2, <1>4, <1>18, <1>19, <1>20 DEF DriverInv

LEMMA MessageKeeps ==
  ASSUME D!DriverConstants, DriverInv, NEW s \in SUBSET Places,
         NEW t \in SUBSET Places, D!Message(s, t)
  PROVE  DriverInv'
<1>1. /\ op = None /\ shown' = t /\ clock' = clock + 0
      /\ report' = None /\ painted' = 0 /\ events' = <<>>
      /\ UNCHANGED <<pointer, op, todo, ops, asked, requested>>
      /\ hits' \subseteq Places /\ due' \in BOOLEAN
  BY DEF D!Message, D!OwedAFrame, D!ClockOfMessage
<1>2. todo = <<>> /\ clock = asked /\ clock \in Nat /\ asked \in Nat
  BY <1>1 DEF DriverInv, D!TypeOK
<1>3. clock' = clock
  BY <1>1, <1>2
<1>4. changes' \in 0..MaxChanges
  <2>1. D!Handles(D!Turns(shown, s) + D!Turns(s, t)) /\ changes \in 0..MaxChanges
    BY DEF D!Message, DriverInv, D!TypeOK
  <2>2. D!Turns(shown, s) + D!Turns(s, t) \in Nat
    BY TurnsAre
  <2> QED BY <2>1, <2>2, HandlesIs
<1>5. D!TypeOK'
  BY <1>1, <1>3, <1>4 DEF DriverInv, D!TypeOK
<1>6. Recorded(events)'
  BY <1>1 DEF Recorded
<1> QED BY <1>1, <1>2, <1>3, <1>5, <1>6 DEF DriverInv

LEMMA AskKeeps ==
  ASSUME D!DriverConstants, DriverInv, NEW o \in D!Op,
         NEW s \in SUBSET Places, D!Ask(o, s)
  PROVE  DriverInv'
<1>1. /\ op = None /\ ops < MaxOps /\ ops' = ops + 1
      /\ op' = o /\ todo' = D!Script(o) /\ painted' = 0 /\ events' = <<>> /\ report' = None
      /\ shown' = s /\ requested' = s /\ due' \in BOOLEAN
      /\ UNCHANGED <<hits, pointer, clock, asked>>
  BY DEF D!Ask
<1>2. clock = asked /\ clock \in Nat /\ asked \in Nat
  BY <1>1 DEF DriverInv, D!TypeOK
<1>3. o # None /\ Counts \subseteq Nat /\ Secs \subseteq Nat /\ MaxOps \in Nat
  BY DEF D!DriverConstants
<1>4. ScriptIs(o)
  BY <1>3, EveryScript
<1>5. PICK sc \in Seq(DriverStep) : sc = D!Script(o)
  BY <1>4 DEF ScriptIs
<1>6. sc = SubSeq(sc, 0 + 1, Len(sc)) /\ Len(sc) \in Nat
  <2>1. sc = SubSeq(sc, 1, Len(sc))
    BY SubSeqFull
  <2> QED BY <2>1
<1>7. PaintsTo(o, 0) = 0 /\ TimeTo(o, 0) = 0
  BY <1>4 DEF ScriptIs
<1>8. After(0)'
  <2>1. (D!Script(op))' = sc /\ PaintsTo(op, 0)' = 0 /\ TimeTo(op, 0)' = 0
    BY <1>1, <1>5, <1>7 DEF PaintsTo, TimeTo, D!Script
  <2>2. todo' = SubSeq(sc, 0 + 1, Len(sc)) /\ 0 % 4 = 0
    BY <1>1, <1>5, <1>6
  <2>3. DOMAIN events' = {} /\ painted' = 0 /\ clock' = asked' + 0
    BY <1>1, <1>2
  <2> QED BY <1>1, <2>1, <2>2, <2>3 DEF After
<1>9. Underway'
  <2>1. Len(D!Script(op))' = Len(sc)
    BY <1>1, <1>5
  <2>2. 0 \in 0..Len(sc)
    BY <1>6
  <2> QED BY <1>8, <2>1, <2>2 DEF Underway
<1>10. D!TypeOK'
  <2>1. ops' \in 0..MaxOps
    BY <1>1, <1>3 DEF DriverInv, D!TypeOK
  <2>2. D!Handles(D!Turns(shown, s)) /\ changes \in 0..MaxChanges
    BY DEF D!Ask, DriverInv, D!TypeOK
  <2>3. changes' \in 0..MaxChanges
    BY <2>2, HandlesIs, TurnsAre
  <2> QED BY <1>1, <2>1, <2>3 DEF DriverInv, D!TypeOK
<1>11. Recorded(events)'
  BY <1>1 DEF Recorded
<1> QED BY <1>1, <1>2, <1>3, <1>9, <1>10, <1>11 DEF DriverInv

LEMMA DoneKeeps ==
  ASSUME D!DriverConstants, DriverInv, NEW t \in SUBSET Places, D!Done(t)
  PROVE  DriverInv'
<1>1. /\ op # None /\ todo = <<>> /\ op' = None /\ asked' = asked + D!Worth(op)
      /\ report' = [op |-> op, frames |-> D!Frames(op), rects |-> D!Rects(op)]
      /\ shown' = t /\ due' \in BOOLEAN
      /\ UNCHANGED <<hits, pointer, clock, todo, painted, events, ops, requested>>
  BY DEF D!Done, D!OwedAFrame
<1>2. op \in D!Op /\ asked \in Nat
  BY <1>1 DEF DriverInv, D!TypeOK
<1>3. ScriptIs(op)
  BY <1>2, EveryScript DEF D!DriverConstants
<1>4. PICK s \in Seq(DriverStep) : s = D!Script(op)
  BY <1>3 DEF ScriptIs
<1>5. PICK k \in 0..Len(s) : After(k)
  BY <1>1, <1>4 DEF DriverInv, Underway
<1>6. k = Len(s)
  <2>1. ASSUME k # Len(s) PROVE FALSE
    <3>1. k + 1 \in Int /\ Len(s) \in Int /\ k + 1 <= Len(s)
          /\ \A i \in (k + 1)..Len(s) : s[i] \in DriverStep
      BY <2>1
    <3>2. Len(SubSeq(s, k + 1, Len(s))) = Len(s) - (k + 1) + 1
      BY <3>1, SubSeqProperties
    <3>3. Len(<<>>) = Len(s) - (k + 1) + 1
      BY <1>1, <1>4, <1>5, <3>2 DEF After
    <3> QED BY <3>1, <3>3
  <2> QED BY <2>1
<1>7. /\ painted = D!Frames(op) /\ clock = asked + D!Worth(op)
      /\ op.kind = "rects" => k = 1
  BY <1>3, <1>4, <1>5, <1>6 DEF ScriptIs, After
<1>8. op.kind = "rects" => D!Rects(op) = <<requested>>
  <2>1. ASSUME op.kind = "rects" PROVE D!Rects(op) = <<requested>>
    <3>1. hits = requested
      BY <1>5, <1>7, <2>1 DEF After
    <3> QED BY <2>1, <3>1 DEF D!Rects
  <2> QED BY <2>1
<1>9. report'.op.kind = op.kind /\ report'.frames = D!Frames(op) /\ report'.rects = D!Rects(op)
  BY <1>1
<1>10. asked' \in Nat
  <2>1. Len(s) \in 0..Len(s)
    OBVIOUS
  <2>2. D!Worth(op) \in Nat
    BY <1>3, <1>4, <2>1 DEF ScriptIs
  <2> QED BY <1>1, <1>2, <2>2
<1>11. D!TypeOK'
  <2>1. D!Handles(D!Turns(shown, t)) /\ changes \in 0..MaxChanges
    BY DEF D!Done, DriverInv, D!TypeOK
  <2>2. changes' \in 0..MaxChanges
    BY <2>1, HandlesIs, TurnsAre
  <2> QED BY <1>1, <1>10, <2>2 DEF DriverInv, D!TypeOK
<1>12. Recorded(events)'
  BY <1>1 DEF DriverInv, Recorded
<1> QED BY <1>1, <1>7, <1>8, <1>9, <1>10, <1>11, <1>12 DEF DriverInv

LEMMA DriverInvariant ==
  ASSUME D!DriverConstants PROVE D!Spec => []DriverInv
<1>1. D!Init => DriverInv
  BY DriverStarts
<1>2. DriverInv /\ [D!Next]_D!vars => DriverInv'
  <2> SUFFICES ASSUME DriverInv, [D!Next]_D!vars PROVE DriverInv'
    OBVIOUS
  <2>1. CASE \E s \in SUBSET Places : D!Painting(s)
    BY <2>1, PaintingKeeps
  <2>2. CASE D!Spending
    BY <2>2, SpendingKeeps
  <2>3. CASE \E s \in SUBSET Places : D!Done(s)
    BY <2>3, DoneKeeps
  <2>4. CASE \E s, t \in SUBSET Places : D!Message(s, t)
    BY <2>4, MessageKeeps
  <2>5. CASE \E s \in SUBSET Places : D!Delivering(s)
    BY <2>5, DeliveringKeeps
  <2>6. CASE \E o \in D!Op, s \in SUBSET Places : D!Ask(o, s)
    BY <2>6, AskKeeps
  <2>7. CASE UNCHANGED D!vars
    <3>1. UNCHANGED <<shown, hits, pointer, clock, op, todo, painted, events, report, ops,
                      changes, asked, due, requested>>
      BY <2>7 DEF D!vars
    <3>2. D!TypeOK' /\ Recorded(events)'
      BY <3>1 DEF DriverInv, D!TypeOK, Recorded
    <3>3. ASSUME op # None PROVE Underway'
      <4>1. PICK k \in 0..Len(D!Script(op)) : After(k)
        BY <3>3 DEF DriverInv, Underway
      <4>2. (D!Script(op))' = D!Script(op) /\ PaintsTo(op, k)' = PaintsTo(op, k)
            /\ TimeTo(op, k)' = TimeTo(op, k)
        BY <3>1 DEF PaintsTo, TimeTo, D!Script
      <4>3. After(k)'
        BY <3>1, <4>1, <4>2 DEF After
      <4>4. Len(D!Script(op))' = Len(D!Script(op))
        BY <3>1
      <4> QED BY <4>1, <4>3, <4>4 DEF Underway
    <3> QED BY <3>1, <3>2, <3>3 DEF DriverInv
  <2> QED BY <2>1, <2>2, <2>3, <2>4, <2>5, <2>6, <2>7 DEF D!Next
<1> QED BY <1>1, <1>2, PTL DEF D!Spec

\* What the driver keeps has its types, whatever its clients ask for.
THEOREM DriverTypeCorrect ==
  ASSUME D!DriverConstants PROVE D!Spec => []D!TypeOK
<1>1. DriverInv => D!TypeOK
  BY DEF DriverInv
<1>2. D!Spec => []DriverInv
  BY DriverInvariant
<1> QED BY <1>1, <1>2, PTL

\* What an operation reports was painted for it, and a readback answers the regions
\* of the view its request found, though the frame it paints may end past it.
THEOREM ReportsCorrect ==
  ASSUME D!DriverConstants PROVE D!Spec => [](D!FramesArePainted /\ D!ReadbackIsTrue)
<1>1. DriverInv => D!FramesArePainted /\ D!ReadbackIsTrue
  BY DEF DriverInv, D!FramesArePainted, D!ReadbackIsTrue
<1>2. D!Spec => []DriverInv
  BY DriverInvariant
<1> QED BY <1>1, <1>2, PTL

\* Between operations the clock stands at the time they asked for.
THEOREM ClockCorrect ==
  ASSUME D!DriverConstants PROVE D!Spec => []D!ClockIsAsked
<1>1. DriverInv => D!ClockIsAsked
  BY DEF DriverInv, D!ClockIsAsked
<1>2. D!Spec => []DriverInv
  BY DriverInvariant
<1> QED BY <1>1, <1>2, PTL

\* Every event but the wheel is tested against a frame of all that the messages and
\* events before it changed, only that frame's own messages excepted, and no two
\* share a time.
THEOREM EventsCorrect ==
  ASSUME D!DriverConstants PROVE D!Spec => [](D!EventsSeeTheFrame /\ D!StampsDiffer)
<1>1. DriverInv => D!EventsSeeTheFrame /\ D!StampsDiffer
  BY DEF DriverInv, Recorded, D!EventsSeeTheFrame, D!StampsDiffer
<1>2. D!Spec => []DriverInv
  BY DriverInvariant
<1> QED BY <1>1, <1>2, PTL

\* The bridge's operations and the headless driver's are the same, step by step.
THEOREM DriversAlike == D!Spec => []D!DriversAgree
<1>1. D!DriversAgree
  <2>1. ASSUME op.kind \in D!Pointing \cup {"rects"} PROVE D!Script(op) = D!Headless(op)
    <3>1. op.kind \in {"move", "press", "release", "drag", "wheel", "rects"}
      BY <2>1 DEF D!Pointing
    <3>2. CASE op.kind = "drag"
      BY <3>2, Zenon DEF D!Script, D!Headless, D!Drag, D!PointerMove, D!Event
    <3>3. CASE op.kind = "rects"
      BY <3>3 DEF D!Script, D!Headless
    <3>4. CASE op.kind = "move"
      BY <3>4 DEF D!Script, D!Headless, D!PointerMove, D!Event
    <3>5. CASE op.kind \in {"press", "release"}
      BY <3>5 DEF D!Script, D!Headless, D!Event
    <3>6. CASE op.kind = "wheel"
      BY <3>6 DEF D!Script, D!Headless, D!PointerMove, D!Event
    <3> QED BY <3>1, <3>2, <3>3, <3>4, <3>5, <3>6
  <2> QED BY <2>1 DEF D!DriversAgree
<1> QED BY <1>1, PTL
=============================================================================
