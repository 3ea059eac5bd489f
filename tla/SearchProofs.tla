----------------------------- MODULE SearchProofs -----------------------------
(***************************************************************************)
(* Proofs about Search for any listings, instances, changes, failures and  *)
(* mixes, any lookups and places, any searches to remember.                *)
(***************************************************************************)
EXTENDS Search, FiniteSetTheorems, WellFoundedInduction, TLAPS

(* Some natural numbers have a least.                                      *)
LEMMA LeastIsOne ==
    ASSUME NEW S \in SUBSET Nat, S # {}
    PROVE  \E x \in S : \A y \in S : x <= y
<1> DEFINE R == OpToRel(<, Nat)
<1>1. PICK x \in S : \A y \in S : <<y, x>> \notin R
  <2> HIDE DEF R
  <2> QED
    BY NatLessThanWellFounded, WFMin DEF R
<1>2. \A y \in S : ~(y < x)
  BY <1>1 DEF OpToRel
<1> QED
  BY <1>2

(* What acts on one part leaves the others alone.                          *)
LEMMA PartsStay ==
    ASSUME [Next]_vars
    PROVE  [IndexNext]_indexVars /\ [NearbyNext]_nearbyVars /\ [HistoryNext]_historyVars
BY DEF Next, vars

-----------------------------------------------------------------------------
(* Search history.  As long as nobody has still to look for what is too    *)
(* much, all of it is among what somebody is about to forget.              *)

Underway(r) == recording[r] # NoRecord

Forgotten(t) == \E r \in Records : Underway(r) /\ t \in recording[r].old

LaterThan(t) == {u \in Texts : searchedAt[u] > searchedAt[t]}

(* What was searched later than it is enough to forget t.                  *)
HistoryStep ==
    /\ \A t \in Texts : searchedAt[t] <= now /\ entries[t] \in {0, searchedAt[t]}
    /\ \A t, u \in Texts : searchedAt[t] = searchedAt[u] => t = u \/ searchedAt[t] = 0
    /\ \A r \in Records : Underway(r) =>
         /\ recording[r].at <= now
         /\ ~again => \A t \in recording[r].old : Cardinality(LaterThan(t)) >= Keep

SoonFew ==
    \/ \E r \in Records : Underway(r) /\ recording[r].step = "find"
    \/ Cardinality({t \in There : ~Forgotten(t)}) <= Keep

HistoryInv == HistoryTypeOK /\ HistoryStep /\ SoonFew /\ NewestAreThere

LEMMA TextsAreFinite ==
    ASSUME NEW S \in SUBSET Texts
    PROVE  IsFiniteSet(S) /\ Cardinality(S) \in Nat
BY HistoryAssumption, FS_Subset, FS_CardinalityType

LEMMA FewerTexts ==
    ASSUME NEW T \in SUBSET Texts, NEW S \in SUBSET T
    PROVE  Cardinality(S) <= Cardinality(T)
BY TextsAreFinite, FS_Subset

(* Of what is there, no more than Keep have fewer than Keep newer ones.    *)
LEMMA TheNewestAreFew ==
    ASSUME HistoryTypeOK, HistoryStep
    PROVE  Cardinality(There \ BeyondKept) <= Keep
<1> DEFINE S == There \ BeyondKept
<1>0. Keep \in Nat /\ Keep >= 1
  BY HistoryAssumption
<1>1. CASE S = {}
  BY <1>0, <1>1, FS_EmptySet
<1>2. CASE S # {}
  <2> DEFINE times == {entries[t] : t \in S}
  <2>1. times \in SUBSET Nat /\ times # {}
    BY <1>2 DEF HistoryTypeOK, There
  <2>2. PICK x \in times : \A y \in times : x <= y
    <3> HIDE DEF times
    <3> QED
      BY <2>1, LeastIsOne
  <2>3. PICK t \in S : x = entries[t]
    BY <2>2
  <2>4. S \ {t} \subseteq Newer(t)
    <3>1. ASSUME NEW u \in S \ {t} PROVE entries[u] > entries[t]
      <4>1. /\ entries[t] <= entries[u] /\ entries[u] \in Nat /\ entries[t] \in Nat
            /\ entries[u] # 0 /\ entries[t] # 0
        BY <2>2, <2>3 DEF HistoryTypeOK, There
      <4>2. entries[u] # entries[t]
        BY <4>1, <2>3 DEF HistoryStep, There
      <4> QED
        BY <4>1, <4>2
    <3> QED
      BY <3>1 DEF Newer, There
  <2>5. Newer(t) \in SUBSET Texts /\ S \in SUBSET Texts /\ S \ {t} \in SUBSET Texts
    BY DEF Newer, There
  <2>6. Cardinality(Newer(t)) < Keep /\ Cardinality(Newer(t)) \in Nat
    <3>1. ~(Cardinality(Newer(t)) >= Keep)
      BY <2>3 DEF BeyondKept
    <3> QED
      BY <1>0, <2>5, <3>1, TextsAreFinite
  <2>7. Cardinality(S \ {t}) <= Cardinality(Newer(t))
    BY <2>4, <2>5, FewerTexts
  <2>8. Cardinality(S \ {t}) = Cardinality(S) - 1
    BY <2>3, <2>5, TextsAreFinite, FS_RemoveElement
  <2>9. Cardinality(S) \in Nat /\ Cardinality(S \ {t}) \in Nat
    BY <2>5, TextsAreFinite
  <2> QED
    <3> HIDE DEF S
    <3>1. Cardinality(S) - 1 < Keep
      BY <1>0, <2>6, <2>7, <2>8, <2>9
    <3>2. Cardinality(S) <= Keep
      BY <1>0, <2>9, <3>1
    <3> QED
      BY <3>2 DEF S
<1> QED
  BY <1>1, <1>2

LEMMA HistoryInits == HistoryInit => HistoryInv
<1> SUFFICES ASSUME HistoryInit PROVE HistoryInv
  OBVIOUS
<1>1. There = {} /\ \A r \in Records : ~Underway(r)
  BY DEF HistoryInit, There, Underway
<1>2. SoonFew
  <2>1. {t \in There : ~Forgotten(t)} = {}
    BY <1>1
  <2> QED
    BY <2>1, FS_EmptySet, HistoryAssumption DEF SoonFew
<1>3. HistoryTypeOK
  <2>1. 1 \in 1..MaxTime /\ 0 \in 0..MaxTime
    BY HistoryAssumption
  <2>2. entries \in [Texts -> 0..MaxTime] /\ searchedAt \in [Texts -> 0..MaxTime]
    BY <2>1 DEF HistoryInit
  <2>3. recording \in [Records -> Recording \cup {NoRecord}]
    BY DEF HistoryInit
  <2> QED
    BY <2>1, <2>2, <2>3 DEF HistoryInit, HistoryTypeOK
<1>4. HistoryStep
  BY <1>1 DEF HistoryInit, HistoryStep
<1> QED
  BY <1>2, <1>3, <1>4 DEF HistoryInv, HistoryInit, NewestAreThere

LEMMA UpsertKeeps ==
    ASSUME HistoryInv, NEW r \in Records, NEW t \in Texts, Upsert(r, t)
    PROVE  HistoryInv'
<1> USE DEF HistoryInv
<1> DEFINE new == [step |-> "find", at |-> now', old |-> {}]
<1>0. now \in Nat /\ now' = now + 1 /\ now' \in 1..MaxTime /\ MaxTime \in Nat
  BY HistoryAssumption DEF HistoryTypeOK, Upsert
<1>1. /\ recording'[r] = new /\ \A q \in Records \ {r} : recording'[q] = recording[q]
      /\ recording' = [recording EXCEPT ![r] = new]
  BY DEF HistoryTypeOK, Upsert
<1>2. /\ entries'[t] = now' /\ searchedAt'[t] = now'
      /\ \A u \in Texts \ {t} : entries'[u] = entries[u] /\ searchedAt'[u] = searchedAt[u]
  BY DEF HistoryTypeOK, Upsert
<1>3. new \in Recording /\ new # NoRecord
  BY <1>0, NoRecordIsNone DEF Recording
<1>4. HistoryTypeOK'
  BY <1>0, <1>1, <1>3 DEF HistoryTypeOK, Upsert
<1>5. SoonFew'
  BY <1>1, <1>3 DEF SoonFew, Underway
<1>6. \A u \in Texts : searchedAt[u] <= now /\ searchedAt[u] \in Nat
  BY DEF HistoryStep, HistoryTypeOK
<1>7. \A u \in Texts \ {t} : LaterThan(u) \subseteq LaterThan(u)'
  BY <1>0, <1>2, <1>6 DEF LaterThan
<1>8. \A u \in Texts \ {t} : Cardinality(LaterThan(u)) <= Cardinality(LaterThan(u)')
  <2>1. \A u \in Texts : LaterThan(u)' \in SUBSET Texts
    BY DEF LaterThan
  <2> QED
    BY <1>7, <2>1, FewerTexts
<1>9. \A u \in Texts : Cardinality(LaterThan(u)) \in Nat /\ Cardinality(LaterThan(u)') \in Nat
  <2>1. \A u \in Texts : LaterThan(u)' \in SUBSET Texts /\ LaterThan(u) \in SUBSET Texts
    BY DEF LaterThan
  <2> QED
    BY <2>1, TextsAreFinite
<1>10. HistoryStep'
  <2>1. \A u \in Texts : searchedAt'[u] <= now' /\ entries'[u] \in {0, searchedAt'[u]}
    BY <1>0, <1>2, <1>6 DEF HistoryStep
  <2>2. \A u, v \in Texts : searchedAt'[u] = searchedAt'[v] => u = v \/ searchedAt'[u] = 0
    BY <1>0, <1>2, <1>6 DEF HistoryStep
  <2>3. ASSUME NEW q \in Records, Underway(q)'
        PROVE  /\ recording'[q].at <= now'
               /\ ~again' => \A u \in recording'[q].old : Cardinality(LaterThan(u)') >= Keep
    <3>1. CASE q = r
      BY <1>0, <1>1, <3>1
    <3>2. CASE q # r
      <4>1. recording'[q] = recording[q] /\ Underway(q) /\ recording[q] \in Recording
        BY <1>1, <2>3, <3>2 DEF Underway, HistoryTypeOK
      <4>2. recording[q].at <= now /\ recording[q].at \in Nat
        BY <4>1 DEF HistoryStep, Recording
      <4>3. ~again' => ~again /\ t \notin recording[q].old
        BY <4>1 DEF Upsert, Underway
      <4>4. recording[q].old \in SUBSET Texts
        BY <4>1 DEF Recording
      <4>5. ASSUME ~again', NEW u \in recording[q].old
            PROVE  Cardinality(LaterThan(u)') >= Keep
        <5>1. Cardinality(LaterThan(u)) >= Keep /\ u \in Texts \ {t}
          BY <4>1, <4>3, <4>4, <4>5 DEF HistoryStep
        <5> QED
          BY <5>1, <1>8, <1>9, HistoryAssumption
      <4> QED
        BY <1>0, <4>1, <4>2, <4>5
    <3> QED
      BY <3>1, <3>2
  <2> QED
    BY <2>1, <2>2, <2>3 DEF HistoryStep
<1>11. NewestAreThere'
  <2> SUFFICES ASSUME ~again', NEW u \in Texts \ removed',
                      searchedAt'[u] # 0, searchedAt'[u] >= now' - Retention,
                      Cardinality(LaterThan(u)') < Keep
               PROVE  entries'[u] = searchedAt'[u]
    BY DEF NewestAreThere, LaterThan
  <2>1. CASE u # t
    <3>1. ~again /\ u \in Texts \ removed
      BY <2>1 DEF Upsert
    <3>2. /\ searchedAt[u] # 0 /\ searchedAt[u] >= now - Retention
      BY <1>0, <1>2, <1>6, <2>1, HistoryAssumption
    <3>3. Cardinality(LaterThan(u)) < Keep
      BY <1>8, <1>9, <2>1, HistoryAssumption
    <3> QED
      BY <1>2, <2>1, <3>1, <3>2, <3>3 DEF NewestAreThere, LaterThan
  <2> QED
    BY <1>2, <2>1
<1> QED
  BY <1>4, <1>5, <1>10, <1>11

LEMMA FindKeeps ==
    ASSUME HistoryInv, NEW r \in Records, FindBeyondKept(r)
    PROVE  HistoryInv'
<1> USE DEF HistoryInv
<1> DEFINE new == [recording[r] EXCEPT !.old = BeyondKept, !.step = "delete"]
<1>0. Underway(r) /\ recording[r] \in Recording /\ BeyondKept \subseteq There
  BY DEF FindBeyondKept, Underway, HistoryTypeOK, BeyondKept
<1>1. /\ recording'[r] = new /\ \A q \in Records \ {r} : recording'[q] = recording[q]
      /\ recording' = [recording EXCEPT ![r] = new]
  BY DEF HistoryTypeOK, FindBeyondKept
<1>2. /\ new \in Recording /\ new.old = BeyondKept /\ new.step = "delete"
      /\ new.at = recording[r].at
  BY <1>0 DEF Recording, There
<1> HIDE DEF new
<1>3. new # NoRecord
  BY <1>2, NoRecordIsNone
<1>4. UNCHANGED <<now, entries, searchedAt, removed, again>>
  BY DEF FindBeyondKept
<1>5. HistoryTypeOK'
  BY <1>1, <1>2, <1>4 DEF HistoryTypeOK
<1>6. NewestAreThere'
  BY <1>4 DEF NewestAreThere
<1>7. SoonFew'
  <2>1. \A t \in BeyondKept : Forgotten(t)'
    BY <1>1, <1>2, <1>3 DEF Forgotten, Underway
  <2>2. {t \in There : ~Forgotten(t)}' \subseteq There \ BeyondKept
    BY <1>4, <2>1 DEF There
  <2>3. There \ BeyondKept \in SUBSET Texts
    BY DEF There
  <2>4. /\ Cardinality({t \in There : ~Forgotten(t)}') <= Cardinality(There \ BeyondKept)
        /\ {t \in There : ~Forgotten(t)}' \in SUBSET Texts
    BY <2>2, <2>3, FewerTexts
  <2> QED
    BY <2>3, <2>4, TheNewestAreFew, TextsAreFinite, HistoryAssumption DEF SoonFew
<1>8. HistoryStep'
  <2>1. \A u \in Texts : LaterThan(u)' = LaterThan(u)
    BY <1>4 DEF LaterThan
  <2>2. ASSUME NEW t \in BeyondKept
        PROVE  Cardinality(LaterThan(t)) >= Keep
    <3>1. Newer(t) \subseteq LaterThan(t)
      BY <1>0 DEF Newer, LaterThan, There, HistoryStep
    <3>2. LaterThan(t) \in SUBSET Texts /\ Newer(t) \in SUBSET Texts
      BY <3>1 DEF LaterThan
    <3>3. Cardinality(Newer(t)) >= Keep /\ Cardinality(Newer(t)) <= Cardinality(LaterThan(t))
      BY <3>1, <3>2, FewerTexts DEF BeyondKept
    <3> QED
      BY <3>2, <3>3, TextsAreFinite, HistoryAssumption
  <2>3. ASSUME NEW q \in Records, Underway(q)'
        PROVE  /\ recording'[q].at <= now'
               /\ ~again' => \A u \in recording'[q].old : Cardinality(LaterThan(u)') >= Keep
    <3>1. CASE q = r
      <4>1. recording[r].at <= now
        BY <1>0 DEF HistoryStep
      <4>2. BeyondKept \subseteq Texts
        BY <1>0 DEF There
      <4> QED
        BY <1>1, <1>2, <1>4, <2>1, <2>2, <3>1, <4>1, <4>2
    <3>2. CASE q # r
      <4>1. recording'[q] = recording[q] /\ Underway(q) /\ recording[q] \in Recording
        BY <1>1, <2>3, <3>2 DEF Underway, HistoryTypeOK
      <4>2. recording[q].old \subseteq Texts
        BY <4>1 DEF Recording
      <4> QED
        BY <1>4, <2>1, <4>1, <4>2 DEF HistoryStep
    <3> QED
      BY <3>1, <3>2
  <2> QED
    BY <1>4, <2>3 DEF HistoryStep
<1> QED
  BY <1>5, <1>6, <1>7, <1>8

LEMMA ForgetKeeps ==
    ASSUME HistoryInv, NEW r \in Records, ForgetOld(r)
    PROVE  HistoryInv'
<1> USE DEF HistoryInv
<1>0. Underway(r) /\ recording[r] \in Recording /\ recording[r].step = "delete"
  BY DEF ForgetOld, Underway, HistoryTypeOK
<1>1. /\ recording'[r] = NoRecord /\ \A q \in Records \ {r} : recording'[q] = recording[q]
      /\ recording' = [recording EXCEPT ![r] = NoRecord]
  BY DEF HistoryTypeOK, ForgetOld
<1>2. UNCHANGED <<now, searchedAt, removed, again>>
  BY DEF ForgetOld
<1>3. \A t \in Texts :
        /\ entries'[t] \in {0, entries[t]}
        /\ t \in recording[r].old => entries'[t] = 0
        /\ entries'[t] # entries[t] =>
             t \in recording[r].old \/ entries[t] < recording[r].at - Retention
  BY DEF ForgetOld
<1>4. HistoryTypeOK'
  <2>1. entries' \in [Texts -> 0..MaxTime]
    BY HistoryAssumption DEF ForgetOld, HistoryTypeOK
  <2> QED
    BY <1>1, <1>2, <2>1 DEF HistoryTypeOK
<1>5. \A u \in Texts : LaterThan(u)' = LaterThan(u)
  BY <1>2 DEF LaterThan
<1>6. HistoryStep'
  <2>1. \A q \in Records : Underway(q)' => Underway(q) /\ recording'[q] = recording[q]
    BY <1>1 DEF Underway
  <2>2. \A q \in Records : Underway(q) => recording[q].old \subseteq Texts
    BY DEF HistoryTypeOK, Underway, Recording
  <2>3. ASSUME NEW q \in Records, Underway(q)'
        PROVE  /\ recording'[q].at <= now'
               /\ ~again' => \A u \in recording'[q].old : Cardinality(LaterThan(u)') >= Keep
    BY <1>2, <1>5, <2>1, <2>2, <2>3 DEF HistoryStep
  <2> QED
    BY <1>2, <1>3, <2>3 DEF HistoryStep
<1>7. SoonFew'
  <2>1. CASE \E q \in Records : Underway(q) /\ recording[q].step = "find"
    BY <1>0, <1>1, <2>1 DEF SoonFew, Underway
  <2>2. CASE Cardinality({t \in There : ~Forgotten(t)}) <= Keep
    <3>1. {t \in There : ~Forgotten(t)}' \subseteq {t \in There : ~Forgotten(t)}
      <4> SUFFICES ASSUME NEW t \in Texts, entries'[t] # 0, ~Forgotten(t)'
                   PROVE  entries[t] # 0 /\ ~Forgotten(t)
        BY DEF There
      <4>1. t \notin recording[r].old /\ entries[t] # 0
        BY <1>3
      <4>2. ~Forgotten(t)
        BY <1>1, <4>1 DEF Forgotten, Underway
      <4> QED
        BY <4>1, <4>2
    <3>2. {t \in There : ~Forgotten(t)} \in SUBSET Texts
      BY DEF There
    <3>3. /\ Cardinality({t \in There : ~Forgotten(t)}') <= Cardinality({t \in There : ~Forgotten(t)})
          /\ {t \in There : ~Forgotten(t)}' \in SUBSET Texts
      BY <3>1, <3>2, FewerTexts
    <3> QED
      BY <2>2, <3>2, <3>3, TextsAreFinite, HistoryAssumption DEF SoonFew
  <2> QED
    BY <2>1, <2>2 DEF SoonFew
<1>8. NewestAreThere'
  <2> SUFFICES ASSUME ~again, NEW u \in Texts \ removed,
                      searchedAt[u] # 0, searchedAt[u] >= now - Retention,
                      Cardinality(LaterThan(u)) < Keep
               PROVE  entries'[u] = searchedAt[u]
    BY <1>2 DEF NewestAreThere, LaterThan
  <2>1. entries[u] = searchedAt[u]
    BY DEF NewestAreThere, LaterThan
  <2>2. u \notin recording[r].old
    <3>1. LaterThan(u) \in SUBSET Texts
      BY DEF LaterThan
    <3>2. Cardinality(LaterThan(u)) \in Nat /\ Keep \in Nat
      BY <3>1, TextsAreFinite, HistoryAssumption
    <3> QED
      BY <1>0, <3>2 DEF HistoryStep
  <2>3. ~(entries[u] < recording[r].at - Retention)
    <3>1. recording[r].at <= now /\ recording[r].at \in Int /\ now \in Int /\ Retention \in Int
      BY <1>0, HistoryAssumption DEF HistoryStep, Recording, HistoryTypeOK
    <3>2. entries[u] \in Int
      BY DEF HistoryTypeOK
    <3> QED
      BY <2>1, <3>1, <3>2
  <2> QED
    BY <1>3, <2>1, <2>2, <2>3
<1> QED
  BY <1>4, <1>6, <1>7, <1>8

LEMMA RemoveKeeps ==
    ASSUME HistoryInv, NEW t \in Texts, Remove(t)
    PROVE  HistoryInv'
<1> USE DEF HistoryInv
<1>1. /\ UNCHANGED <<now, recording, searchedAt, again>> /\ removed' = removed \cup {t}
      /\ entries'[t] = 0 /\ \A u \in Texts \ {t} : entries'[u] = entries[u]
  BY DEF Remove, HistoryTypeOK
<1>2. HistoryTypeOK'
  BY <1>1, HistoryAssumption DEF HistoryTypeOK, Remove
<1>3. \A u \in Texts : LaterThan(u)' = LaterThan(u) /\ (Forgotten(u)' <=> Forgotten(u))
  BY <1>1 DEF LaterThan, Forgotten, Underway
<1>4. HistoryStep'
  <2>1. \A q \in Records : Underway(q) => recording[q].old \subseteq Texts
    BY DEF HistoryTypeOK, Underway, Recording
  <2>2. \A q \in Records : Underway(q)' <=> Underway(q)
    BY <1>1 DEF Underway
  <2> QED
    BY <1>1, <1>3, <2>1, <2>2 DEF HistoryStep
<1>5. SoonFew'
  <2>1. {u \in There : ~Forgotten(u)}' \subseteq {u \in There : ~Forgotten(u)}
    BY <1>1, <1>3 DEF There
  <2>2. {u \in There : ~Forgotten(u)} \in SUBSET Texts
    BY DEF There
  <2>3. /\ Cardinality({u \in There : ~Forgotten(u)}') <= Cardinality({u \in There : ~Forgotten(u)})
        /\ {u \in There : ~Forgotten(u)}' \in SUBSET Texts
    BY <2>1, <2>2, FewerTexts
  <2> QED
    BY <1>1, <2>2, <2>3, TextsAreFinite, HistoryAssumption DEF SoonFew, Underway
<1>6. NewestAreThere'
  BY <1>1 DEF NewestAreThere
<1> QED
  BY <1>2, <1>4, <1>5, <1>6

LEMMA HistoryStays == Spec => []HistoryInv
<1>1. Init => HistoryInv
  BY HistoryInits DEF Init
<1>2. HistoryInv /\ [Next]_vars => HistoryInv'
  <2> SUFFICES ASSUME HistoryInv, [HistoryNext]_historyVars PROVE HistoryInv'
    BY PartsStay
  <2>1. CASE UNCHANGED historyVars
    BY <2>1 DEF historyVars, HistoryInv, HistoryTypeOK, HistoryStep, Underway, SoonFew, There,
                Forgotten, LaterThan, NewestAreThere
  <2> QED
    BY <2>1, UpsertKeeps, FindKeeps, ForgetKeeps, RemoveKeeps DEF HistoryNext
<1> QED
  BY <1>1, <1>2, PTL DEF Spec

(* However many searches are remembered at once, and whatever is removed   *)
(* meanwhile, the newest are kept and no more                              *)
(* (SearchHistoryService.record, forgetOld).                               *)
THEOREM NewestAreKept == Spec => []HistoryIsRight
<1>1. HistoryInv => HistoryIsRight
  <2> SUFFICES ASSUME HistoryInv, \A r \in Records : ~Underway(r)
               PROVE  Cardinality(There) <= Keep
    BY DEF HistoryInv, HistoryIsRight, FewAreKept, Underway
  <2>1. {t \in There : ~Forgotten(t)} = There
    BY DEF Forgotten
  <2> QED
    BY <2>1 DEF HistoryInv, SoonFew
<1> QED
  BY <1>1, HistoryStays, PTL

-----------------------------------------------------------------------------
(* Nearby places.  While what is stored is not of where the listing is,    *)
(* there is a lookup that has read where it is, or has it still to read:   *)
(* and when the listing moved while one of them writes, that is another.   *)

Looking(l) == \/ lookup[l].step \in {"changed", "target"}
              \/ lookup[l].step \in {"find", "save", "commit"} /\ lookup[l].target = TargetOf(home)

OfHere == stored = PlacesOf(TargetOf(home)) /\ searched = (home.tags # {})

Undisturbed == ~lookupLost /\ ~editsMet /\ home.place # Nowhere

StoredOrLooking == Undisturbed => OfHere \/ \E l \in Lookups : Looking(l)

MovedIsLooking ==
    Undisturbed =>
      \A l \in Lookups : lookup[l].step = "commit" /\ lookup[l].target # TargetOf(home)
                           => \E k \in Lookups : Looking(k)

OneSaves == \A k, l \in Lookups : lookup[k].step = "commit" /\ lookup[l].step = "commit" => k = l

LookupInv == NearbyTypeOK /\ StoredOrLooking /\ MovedIsLooking /\ OneSaves

(* A page, or a reader's copy of one, that is not what is stored will be   *)
(* dropped, unless it was overtaken; of a hidden listing there is none.    *)
Drops(l) == \/ lookup[l].step = "show"
            \/ lookup[l].step \in {"changed", "edited"} /\ lookup[l].active

ToBeDropped == lookupLost \/ missed \/ flipped \/ \E l \in Lookups : Drops(l)

FreshPage == page \in {Nowhere, stored} \/ late \/ ToBeDropped

FreshReaders ==
    \A r \in Readers : reader[r].step = "store" =>
                         reader[r].places = stored \/ reader[r].overtaken \/ ToBeDropped

HiddenIsDropped ==
    ~home.active => \/ ToBeDropped
                    \/ /\ page = Nowhere \/ late
                       /\ \A r \in Readers : reader[r].step = "store" => reader[r].overtaken

PageInv == FreshPage /\ FreshReaders /\ HiddenIsDropped

NearbyInv == LookupInv /\ PageInv

Changes == {Idle, Done} \cup [step : Steps, target : Target, active : BOOLEAN]
Copies == {Away, NotFound} \cup [step : {"store"}, places : SUBSET Around, overtaken : BOOLEAN]

LEMMA NearbyInits == NearbyInit => NearbyInv
<1> SUFFICES ASSUME NearbyInit PROVE NearbyInv
  OBVIOUS
<1>1. NearbyTypeOK
  BY NearbyAssumption DEF NearbyInit, NearbyTypeOK
<1>2. \A l \in Lookups : lookup[l].step = "new"
  BY DEF NearbyInit, Idle
<1>3. \A r \in Readers : reader[r].step = "away"
  BY DEF NearbyInit, Away
<1> QED
  BY <1>1, <1>2, <1>3 DEF NearbyInit, NearbyInv, LookupInv, PageInv, StoredOrLooking, Undisturbed,
     MovedIsLooking, OneSaves, FreshPage, FreshReaders, HiddenIsDropped

(* A change that was begun and is not over has read the listing.           *)
LEMMA LookupIs ==
    ASSUME NearbyTypeOK, NEW l \in Lookups, lookup[l].step \notin {"new", "done"}
    PROVE  /\ lookup[l] \in [step : Steps, target : Target, active : BOOLEAN]
           /\ lookup[l].step \in Steps /\ lookup[l].target \in Target /\ lookup[l].active \in BOOLEAN
BY DEF NearbyTypeOK, Idle, Done

LEMMA TargetIs ==
    ASSUME NearbyTypeOK
    PROVE  TargetOf(home) \in Target
BY DEF NearbyTypeOK, TargetOf, Target

(* The type goes on with a change of one lookup.                           *)
LEMMA OneChanges ==
    ASSUME NearbyTypeOK, NEW l \in Lookups, NEW next \in Changes, lookup' = [lookup EXCEPT ![l] = next]
    PROVE  /\ lookup' \in [Lookups -> Changes] /\ lookup'[l] = next
           /\ \A k \in Lookups \ {l} : lookup'[k] = lookup[k]
BY DEF NearbyTypeOK, Changes

LEMMA LookupTyped ==
    ASSUME NEW s \in Steps, NEW t \in Target, NEW a \in BOOLEAN
    PROVE  /\ Lookup(s, t, a) \in Changes
           /\ Lookup(s, t, a).step = s /\ Lookup(s, t, a).target = t /\ Lookup(s, t, a).active = a
BY DEF Lookup, Changes

LEMMA PlainLookupTyped ==
    ASSUME NEW s \in Steps, NEW t \in Target
    PROVE  /\ Lookup(s, t, FALSE) \in Changes
           /\ Lookup(s, t, FALSE).step = s /\ Lookup(s, t, FALSE).target = t
BY DEF Lookup, Changes

LEMMA CopyTyped ==
    ASSUME NEW copy \in Copies, copy.step = "store"
    PROVE  /\ copy.places \in SUBSET Around /\ copy.overtaken \in BOOLEAN
           /\ Found(copy.places, TRUE) \in Copies
           /\ Found(copy.places, TRUE).overtaken = TRUE
BY DEF Found, Copies, Away, NotFound

(* What is pending stays pending, with nothing stored or dropped.          *)
LEMMA PageWaits ==
    ASSUME PageInv, UNCHANGED <<page, reader, stored, late>>, home'.active = home.active,
           ToBeDropped => ToBeDropped'
    PROVE  PageInv'
BY DEF PageInv, FreshPage, FreshReaders, HiddenIsDropped

(* The page was dropped: nobody holds a copy that would be taken for new.  *)
LEMMA DroppedIsFresh ==
    ASSUME DropPage, NearbyTypeOK
    PROVE  PageInv' /\ page' = Nowhere /\ reader' \in [Readers -> Copies] /\ late' = FALSE /\ missed' = FALSE
<1>1. \A r \in Readers : reader'[r] = IF reader[r].step = "store" THEN Found(reader[r].places, TRUE)
                                      ELSE reader[r]
  BY DEF DropPage
<1>2. \A r \in Readers : reader[r] \in Copies
  BY DEF NearbyTypeOK, Copies
<1>3. ASSUME NEW r \in Readers, reader[r].step = "store"
      PROVE  reader'[r] \in Copies /\ reader'[r].overtaken = TRUE
  <2>1. reader'[r] = Found(reader[r].places, TRUE)
    BY <1>1, <1>3
  <2> QED
    BY <1>2, <1>3, <2>1, CopyTyped
<1>4. \A r \in Readers : reader'[r] \in Copies
  BY <1>1, <1>2, <1>3
<1>5. \A r \in Readers : reader'[r].step = "store" => reader'[r].overtaken
  BY <1>1, <1>3
<1>6. reader' \in [Readers -> Copies]
  BY <1>4 DEF DropPage
<1> QED
  BY <1>5, <1>6 DEF DropPage, PageDropped, PageInv, FreshPage, FreshReaders, HiddenIsDropped

LEMMA NearbyKeeps ==
    ASSUME NearbyInv, NearbyNext
    PROVE  NearbyInv'
<1> USE DEF NearbyInv, LookupInv
<1>t. lookup \in [Lookups -> Changes] /\ reader \in [Readers -> Copies] /\ Idle \in Changes /\ Done \in Changes
  BY DEF NearbyTypeOK, Changes, Copies
<1>s. \A s \in {"edit", "changed", "edited", "target", "find", "save", "commit", "show"} : s \in Steps
  BY DEF Steps
<1>d. Done.step = "done" /\ Idle.step = "new"
  BY DEF Done, Idle
<1>1. ASSUME NEW l \in Lookups, BeginEdit(l)
      PROVE  NearbyInv'
  <2>0. lookup[l].step = "new"
        /\ UNCHANGED <<home, stored, searched, flipped, page, reader, lookupLost, editsMet, late, missed>>
    BY <1>1 DEF BeginEdit, nearbyHistory, Idle
  <2> DEFINE next == Lookup("edit", TargetOf(home), home.active)
  <2>1. next \in Changes /\ next.step = "edit"
    BY <1>s, TargetIs, LookupTyped DEF NearbyTypeOK
  <2>2. lookup' = [lookup EXCEPT ![l] = next]
    BY <1>1 DEF BeginEdit
  <2> HIDE DEF next
  <2>3. /\ lookup' \in [Lookups -> Changes] /\ lookup'[l] = next
        /\ \A k \in Lookups \ {l} : lookup'[k] = lookup[k]
    BY <2>1, <2>2, OneChanges
  <2>4. NearbyTypeOK'
    BY <2>0, <2>3 DEF NearbyTypeOK, Changes
  <2>5. \A k \in Lookups : Looking(k) => Looking(k)'
    BY <2>0, <2>3 DEF Looking, TargetOf
  <2>6. StoredOrLooking' /\ MovedIsLooking' /\ OneSaves'
    BY <2>0, <2>1, <2>3, <2>5 DEF StoredOrLooking, MovedIsLooking, OneSaves, Undisturbed, OfHere, TargetOf, PlacesOf
  <2>7. ToBeDropped => ToBeDropped'
    BY <2>0, <2>3 DEF ToBeDropped, Drops
  <2> QED
    BY <2>0, <2>4, <2>6, <2>7, PageWaits
<1>2. ASSUME NEW l \in Lookups, NEW x \in Spots, LocationChanged(l, x)
      PROVE  NearbyInv'
  <2>0. /\ lookup[l].step = "edit" /\ home' = [home EXCEPT !.place = x]
        /\ UNCHANGED <<stored, searched, flipped, page, reader, lookupLost, editsMet, late, missed>>
    BY <1>2 DEF LocationChanged, nearbyHistory
  <2> DEFINE next == [lookup[l] EXCEPT !.step = "changed"]
  <2>1. next \in Changes /\ next.step = "changed"
    BY <1>s, <2>0, LookupIs DEF Changes
  <2>2. lookup' = [lookup EXCEPT ![l] = next]
    BY <1>2 DEF LocationChanged
  <2> HIDE DEF next
  <2>3. /\ lookup' \in [Lookups -> Changes] /\ lookup'[l] = next
        /\ \A k \in Lookups \ {l} : lookup'[k] = lookup[k]
    BY <2>1, <2>2, OneChanges
  <2>4. /\ home' \in [place : Spots \cup {Nowhere}, tags : SUBSET Categories, active : BOOLEAN]
        /\ home'.active = home.active
    BY <2>0 DEF NearbyTypeOK
  <2>5. NearbyTypeOK'
    BY <2>0, <2>3, <2>4 DEF NearbyTypeOK, Changes
  <2>6. Looking(l)'
    BY <2>1, <2>3 DEF Looking
  <2>7. StoredOrLooking' /\ MovedIsLooking' /\ OneSaves'
    BY <2>0, <2>1, <2>3, <2>6 DEF StoredOrLooking, MovedIsLooking, OneSaves
  <2>8. ToBeDropped => ToBeDropped'
    BY <2>0, <2>3 DEF ToBeDropped, Drops
  <2> QED
    BY <2>0, <2>4, <2>5, <2>7, <2>8, PageWaits
<1>3. ASSUME NEW l \in Lookups, NEW tags \in SUBSET Categories, KeywordsChanged(l, tags)
      PROVE  NearbyInv'
  <2>0. /\ lookup[l].step = "edit" /\ home' = [home EXCEPT !.tags = tags]
        /\ UNCHANGED <<stored, searched, flipped, page, reader, lookupLost, late, missed>>
        /\ editsMet' = (editsMet \/ home.tags # lookup[l].target.tags)
    BY <1>3 DEF KeywordsChanged
  <2> DEFINE next == [lookup[l] EXCEPT !.step = IF tags # lookup[l].target.tags THEN "changed" ELSE "edited"]
  <2>1. /\ next \in Changes /\ next.step \in {"changed", "edited"}
        /\ tags # lookup[l].target.tags => next.step = "changed"
    BY <1>s, <2>0, LookupIs DEF Changes
  <2>2. lookup' = [lookup EXCEPT ![l] = next]
    BY <1>3 DEF KeywordsChanged
  <2> HIDE DEF next
  <2>3. /\ lookup' \in [Lookups -> Changes] /\ lookup'[l] = next
        /\ \A k \in Lookups \ {l} : lookup'[k] = lookup[k]
    BY <2>1, <2>2, OneChanges
  <2>4. /\ home' \in [place : Spots \cup {Nowhere}, tags : SUBSET Categories, active : BOOLEAN]
        /\ home'.active = home.active
    BY <2>0 DEF NearbyTypeOK
  <2>5. NearbyTypeOK'
    BY <2>0, <2>3, <2>4 DEF NearbyTypeOK, Changes
  <2>6. StoredOrLooking' /\ MovedIsLooking'
    <3>1. CASE tags # lookup[l].target.tags
      <4>1. Looking(l)'
        BY <2>1, <2>3, <3>1 DEF Looking
      <4> QED
        BY <4>1 DEF StoredOrLooking, MovedIsLooking
    <3>2. CASE tags = lookup[l].target.tags
      <4>1. ~editsMet' => home' = home /\ ~editsMet
        BY <2>0, <3>2 DEF NearbyTypeOK
      <4>2. ~editsMet' => \A k \in Lookups : Looking(k) => Looking(k)'
        BY <2>0, <2>3, <4>1 DEF Looking, TargetOf
      <4> QED
        BY <2>0, <2>1, <2>3, <4>1, <4>2 DEF StoredOrLooking, MovedIsLooking, Undisturbed, OfHere, TargetOf, PlacesOf
    <3> QED
      BY <3>1, <3>2
  <2>7. OneSaves'
    BY <2>0, <2>1, <2>3 DEF OneSaves
  <2>8. ToBeDropped => ToBeDropped'
    BY <2>0, <2>3 DEF ToBeDropped, Drops
  <2> QED
    BY <2>0, <2>4, <2>5, <2>6, <2>7, <2>8, PageWaits
<1>4. ASSUME NEW l \in Lookups, RefreshPublicView(l)
      PROVE  NearbyInv'
  <2>0. /\ lookup[l].step \in {"changed", "edited"}
        /\ UNCHANGED <<home, stored, searched, flipped, lookupLost, editsMet>>
        /\ IF lookup[l].active THEN DropPage ELSE UNCHANGED <<page, reader, late, missed>>
    BY <1>4 DEF RefreshPublicView, pageVars
  <2>1. PICK next : /\ lookup' = [lookup EXCEPT ![l] = next]
                    /\ next = IF lookup[l].step = "changed" THEN Lookup("target", lookup[l].target, FALSE)
                              ELSE Done
    BY <1>4 DEF RefreshPublicView
  <2>2. /\ next \in Changes /\ next.step \in {"target", "done"}
        /\ lookup[l].step = "changed" => next.step = "target"
    BY <1>t, <1>s, <1>d, <2>0, <2>1, LookupIs, PlainLookupTyped
  <2>3. /\ lookup' \in [Lookups -> Changes] /\ lookup'[l] = next
        /\ \A k \in Lookups \ {l} : lookup'[k] = lookup[k]
    BY <2>1, <2>2, OneChanges
  <2>4. PageInv' /\ reader' \in [Readers -> Copies] /\ page' \in (SUBSET Around) \cup {Nowhere}
        /\ late' \in BOOLEAN /\ missed' \in BOOLEAN
    <3>1. CASE lookup[l].active
      BY <2>0, <3>1, DroppedIsFresh
    <3>2. CASE ~lookup[l].active
      <4>1. ToBeDropped => ToBeDropped'
        BY <2>0, <2>3, <3>2 DEF ToBeDropped, Drops
      <4> QED
        BY <1>t, <2>0, <3>2, <4>1, PageWaits DEF NearbyTypeOK
    <3> QED
      BY <3>1, <3>2
  <2>5. NearbyTypeOK'
    BY <2>0, <2>3, <2>4 DEF NearbyTypeOK, Changes, Copies
  <2>6. \A k \in Lookups : Looking(k) => Looking(k)'
    BY <2>0, <2>2, <2>3 DEF Looking, TargetOf
  <2>7. StoredOrLooking' /\ MovedIsLooking' /\ OneSaves'
    BY <2>0, <2>2, <2>3, <2>6 DEF StoredOrLooking, MovedIsLooking, OneSaves, Undisturbed, OfHere, TargetOf, PlacesOf
  <2> QED
    BY <2>4, <2>5, <2>7
<1>5. CASE StatusChanged
  <2>1. /\ home' = [home EXCEPT !.active = ~@] /\ flipped' = TRUE
        /\ UNCHANGED <<stored, searched, lookup, page, reader, lookupLost, editsMet, late, missed>>
    BY <1>5 DEF StatusChanged, nearbyHistory
  <2>2. /\ home' \in [place : Spots \cup {Nowhere}, tags : SUBSET Categories, active : BOOLEAN]
        /\ home'.place = home.place /\ home'.tags = home.tags
    BY <2>1 DEF NearbyTypeOK
  <2>3. NearbyTypeOK'
    BY <2>1, <2>2 DEF NearbyTypeOK
  <2>4. \A k \in Lookups : Looking(k) => Looking(k)'
    BY <2>1, <2>2 DEF Looking, TargetOf
  <2>5. StoredOrLooking' /\ MovedIsLooking' /\ OneSaves'
    BY <2>1, <2>2, <2>4 DEF StoredOrLooking, MovedIsLooking, OneSaves, Undisturbed, OfHere, TargetOf, PlacesOf
  <2>6. PageInv'
    BY <2>1 DEF PageInv, FreshPage, FreshReaders, HiddenIsDropped, ToBeDropped
  <2> QED
    BY <2>3, <2>5, <2>6
<1>6. CASE StatusRefreshed
  <2>1. /\ UNCHANGED <<home, stored, searched, lookup, editsMet>> /\ flipped' = FALSE
        /\ \/ DropPage /\ UNCHANGED lookupLost
           \/ lookupLost' = TRUE /\ UNCHANGED <<page, reader, late, missed>>
    BY <1>6 DEF StatusRefreshed, pageVars
  <2>2. PageInv' /\ reader' \in [Readers -> Copies] /\ page' \in (SUBSET Around) \cup {Nowhere}
        /\ late' \in BOOLEAN /\ missed' \in BOOLEAN /\ lookupLost' \in BOOLEAN
    <3>1. CASE DropPage /\ UNCHANGED lookupLost
      BY <3>1, DroppedIsFresh DEF NearbyTypeOK
    <3>2. CASE lookupLost' = TRUE /\ UNCHANGED <<page, reader, late, missed>>
      BY <1>t, <2>1, <3>2 DEF NearbyTypeOK, PageInv, FreshPage, FreshReaders, HiddenIsDropped, ToBeDropped
    <3> QED
      BY <2>1, <3>1, <3>2
  <2>3. NearbyTypeOK'
    BY <2>1, <2>2 DEF NearbyTypeOK, Copies
  <2>4. \A k \in Lookups : Looking(k) => Looking(k)'
    BY <2>1 DEF Looking, TargetOf
  <2>5. ~lookupLost' => ~lookupLost
    BY <2>1
  <2>6. StoredOrLooking' /\ MovedIsLooking' /\ OneSaves'
    BY <2>1, <2>4, <2>5 DEF StoredOrLooking, MovedIsLooking, OneSaves, Undisturbed, OfHere, TargetOf, PlacesOf
  <2> QED
    BY <2>2, <2>3, <2>6
<1>7. ASSUME NEW r \in Readers, LookUpPage(r) \/ LoadPage(r) \/ StorePage(r)
      PROVE  NearbyInv'
  <2>1. UNCHANGED <<home, stored, searched, lookup, flipped, lookupLost, editsMet, missed>>
    BY <1>7 DEF LookUpPage, LoadPage, StorePage, nearbyHistory
  <2>2. reader[r] \in Copies /\ (ToBeDropped => ToBeDropped')
    BY <1>t, <2>1 DEF ToBeDropped, Drops
  <2>3. PageInv' /\ reader' \in [Readers -> Copies] /\ page' \in (SUBSET Around) \cup {Nowhere} /\ late' \in BOOLEAN
    <3>1. CASE LookUpPage(r)
      <4>1. reader' = [reader EXCEPT ![r] = NotFound] /\ UNCHANGED <<page, late>>
        BY <3>1 DEF LookUpPage, nearbyHistory
      <4>2. \A q \in Readers : reader'[q].step = "store" => reader'[q] = reader[q]
        BY <1>t, <4>1 DEF NotFound
      <4>3. reader' \in [Readers -> Copies]
        BY <1>t, <4>1 DEF Copies
      <4> QED
        BY <2>1, <2>2, <4>1, <4>2, <4>3 DEF NearbyTypeOK, PageInv, FreshPage, FreshReaders, HiddenIsDropped
    <3>2. CASE LoadPage(r)
      <4>1. UNCHANGED <<page, late>>
        BY <3>2 DEF LoadPage, nearbyHistory
      <4>2. PICK copy : /\ reader' = [reader EXCEPT ![r] = copy]
                        /\ copy = IF home.active THEN Found(stored, FALSE) ELSE Away
        BY <3>2 DEF LoadPage
      <4>3. copy \in Copies /\ (copy.step = "store" => home.active /\ copy.places = stored)
        BY <4>2 DEF NearbyTypeOK, Found, Away, Copies
      <4>4. /\ reader' \in [Readers -> Copies] /\ reader'[r] = copy
            /\ \A q \in Readers \ {r} : reader'[q] = reader[q]
        BY <1>t, <4>2, <4>3
      <4>5. FreshReaders' /\ HiddenIsDropped'
        BY <2>1, <2>2, <4>1, <4>3, <4>4 DEF PageInv, FreshReaders, HiddenIsDropped
      <4> QED
        BY <2>1, <2>2, <4>1, <4>4, <4>5 DEF NearbyTypeOK, PageInv, FreshPage
    <3>3. CASE StorePage(r)
      <4>1. /\ reader[r].step = "store" /\ page' = reader[r].places /\ late' = reader[r].overtaken
            /\ reader' = [reader EXCEPT ![r] = Away]
        BY <3>3 DEF StorePage
      <4>2. reader[r].places \in SUBSET Around /\ reader[r].overtaken \in BOOLEAN
        BY <2>2, <4>1 DEF Copies, Away, NotFound
      <4>3. \A q \in Readers : reader'[q].step = "store" => reader'[q] = reader[q]
        BY <1>t, <4>1 DEF Away
      <4>4. reader' \in [Readers -> Copies]
        BY <1>t, <4>1 DEF Copies
      <4>5. PageInv'
        BY <2>1, <2>2, <4>1, <4>3 DEF PageInv, FreshPage, FreshReaders, HiddenIsDropped
      <4> QED
        BY <4>1, <4>2, <4>4, <4>5
    <3> QED
      BY <1>7, <3>1, <3>2, <3>3
  <2>4. NearbyTypeOK'
    BY <2>1, <2>3 DEF NearbyTypeOK, Copies
  <2>5. StoredOrLooking' /\ MovedIsLooking' /\ OneSaves'
    BY <2>1 DEF StoredOrLooking, MovedIsLooking, OneSaves, Undisturbed, Looking, OfHere, TargetOf, PlacesOf
  <2> QED
    BY <2>3, <2>4, <2>5
<1>8. ASSUME NEW l \in Lookups, CurrentTarget(l) \/ FindNearest(l)
      PROVE  NearbyInv'
  <2>0. /\ lookup[l].step \in {"target", "find"}
        /\ UNCHANGED <<home, stored, searched, flipped, page, reader, editsMet, late, missed>>
    BY <1>8 DEF CurrentTarget, FindNearest, nearbyHistory
  <2>1. PICK next \in Changes :
           /\ lookup' = [lookup EXCEPT ![l] = next] /\ next.step \in {"find", "save", "done"}
           /\ lookupLost' = lookupLost \/ lookupLost'
           /\ Undisturbed' => Undisturbed /\ (Looking(l) => next.step # "done" /\ next.target = TargetOf(home))
    <3>1. CASE CurrentTarget(l)
      <4> DEFINE s == IF home.tags = {} THEN "save" ELSE "find"
                 look == Lookup(s, TargetOf(home), FALSE)
                 next == IF home.place = Nowhere THEN Done ELSE look
      <4>1. lookup' = [lookup EXCEPT ![l] = next] /\ UNCHANGED lookupLost
        BY <3>1 DEF CurrentTarget, nearbyHistory
      <4>0. s \in Steps /\ s \in {"find", "save"}
        BY <1>s
      <4> HIDE DEF s
      <4>l. look \in Changes /\ look.step \in {"find", "save"} /\ look.target = TargetOf(home)
        BY <4>0, TargetIs, PlainLookupTyped
      <4> HIDE DEF look
      <4>2. next \in Changes /\ next.step \in {"find", "save", "done"}
        BY <1>t, <1>d, <4>l
      <4>3. home.place # Nowhere => next.step # "done" /\ next.target = TargetOf(home)
        BY <4>l
      <4> HIDE DEF next
      <4> QED
        BY <2>0, <4>1, <4>2, <4>3 DEF Undisturbed
    <3>2. CASE FindNearest(l)
      <4>1. lookup[l].step = "find"
        BY <3>2 DEF FindNearest
      <4>2. CASE lookup' = [lookup EXCEPT ![l].step = "save"] /\ UNCHANGED lookupLost
        <5> DEFINE next == [lookup[l] EXCEPT !.step = "save"]
        <5>1. next \in Changes /\ next.step = "save" /\ next.target = lookup[l].target
          BY <1>s, <4>1, LookupIs DEF Changes
        <5>2. lookup' = [lookup EXCEPT ![l] = next]
          BY <4>2
        <5> HIDE DEF next
        <5> QED
          BY <2>0, <4>1, <4>2, <5>1, <5>2 DEF Undisturbed, Looking
      <4>3. CASE lookup' = [lookup EXCEPT ![l] = Done] /\ lookupLost' = TRUE
        BY <1>t, <1>d, <4>3 DEF Undisturbed
      <4> QED
        BY <3>2, <4>2, <4>3 DEF FindNearest
    <3> QED
      BY <1>8, <3>1, <3>2
  <2>2. /\ lookup' \in [Lookups -> Changes] /\ lookup'[l] = next
        /\ \A k \in Lookups \ {l} : lookup'[k] = lookup[k]
    BY <2>1, OneChanges
  <2>3. lookupLost' \in BOOLEAN /\ (lookupLost => lookupLost')
    BY <1>8 DEF CurrentTarget, FindNearest, nearbyHistory, NearbyTypeOK
  <2>4. NearbyTypeOK'
    BY <2>0, <2>2, <2>3 DEF NearbyTypeOK, Changes
  <2>5. Undisturbed' => \A k \in Lookups : Looking(k) => Looking(k)'
    <3>1. Undisturbed' /\ Looking(l) => Looking(l)'
      BY <2>0, <2>1, <2>2 DEF Looking, TargetOf
    <3>2. \A k \in Lookups \ {l} : Looking(k) => Looking(k)'
      BY <2>0, <2>2 DEF Looking, TargetOf
    <3> QED
      BY <3>1, <3>2
  <2>6. StoredOrLooking'
    BY <2>0, <2>1, <2>5 DEF StoredOrLooking, OfHere, TargetOf, PlacesOf
  <2>7. MovedIsLooking' /\ OneSaves'
    BY <2>0, <2>1, <2>2, <2>5 DEF MovedIsLooking, OneSaves, TargetOf
  <2>8. ToBeDropped => ToBeDropped'
    BY <2>0, <2>2, <2>3 DEF ToBeDropped, Drops
  <2> QED
    BY <2>0, <2>4, <2>6, <2>7, <2>8, PageWaits
<1>9. ASSUME NEW l \in Lookups, ReadCurrent(l)
      PROVE  NearbyInv'
  <2>0. /\ lookup[l].step = "save" /\ \A k \in Lookups : lookup[k].step # "commit"
        /\ UNCHANGED <<home, stored, searched, flipped, page, reader, lookupLost, editsMet, late, missed>>
    BY <1>9 DEF ReadCurrent, nearbyHistory
  <2>1. PICK next : /\ lookup' = [lookup EXCEPT ![l] = next]
                    /\ next = IF StillCurrent(l) THEN Lookup("commit", lookup[l].target, home.active) ELSE Done
    BY <1>9 DEF ReadCurrent
  <2>2. /\ next \in Changes /\ next.step \in {"commit", "done"}
        /\ StillCurrent(l) => next.step = "commit" /\ next.target = lookup[l].target
        /\ ~StillCurrent(l) => next.step = "done"
    BY <1>t, <1>s, <1>d, <2>0, <2>1, LookupIs, LookupTyped DEF NearbyTypeOK
  <2>3. /\ lookup' \in [Lookups -> Changes] /\ lookup'[l] = next
        /\ \A k \in Lookups \ {l} : lookup'[k] = lookup[k]
    BY <2>1, <2>2, OneChanges
  <2>4. NearbyTypeOK'
    BY <2>0, <2>3 DEF NearbyTypeOK, Changes
  <2>5. \A k \in Lookups : Looking(k) => Looking(k)'
    BY <2>0, <2>2, <2>3 DEF Looking, TargetOf, StillCurrent
  <2>6. StoredOrLooking' /\ OneSaves'
    BY <2>0, <2>3, <2>5 DEF StoredOrLooking, OneSaves, Undisturbed, OfHere, TargetOf, PlacesOf
  <2>7. MovedIsLooking'
    BY <2>0, <2>2, <2>3 DEF MovedIsLooking, StillCurrent, TargetOf
  <2>8. ToBeDropped => ToBeDropped'
    BY <2>0, <2>3 DEF ToBeDropped, Drops
  <2> QED
    BY <2>0, <2>4, <2>6, <2>7, <2>8, PageWaits
<1>10. ASSUME NEW l \in Lookups, Save(l)
       PROVE  NearbyInv'
  <2>0. /\ lookup[l].step = "commit" /\ UNCHANGED <<home, flipped, page, reader, lookupLost, editsMet, late>>
        /\ stored' = PlacesOf(lookup[l].target) /\ searched' = (lookup[l].target.tags # {})
        /\ missed' = (missed \/ (home.active /\ ~lookup[l].active))
    BY <1>10 DEF Save
  <2>1. PICK next : /\ lookup' = [lookup EXCEPT ![l] = next]
                    /\ next = IF lookup[l].active THEN Lookup("show", lookup[l].target, FALSE) ELSE Done
    BY <1>10 DEF Save
  <2>2. next \in Changes /\ next.step \in {"show", "done"} /\ (lookup[l].active => next.step = "show")
    BY <1>t, <1>s, <1>d, <2>0, <2>1, LookupIs, PlainLookupTyped
  <2>3. /\ lookup' \in [Lookups -> Changes] /\ lookup'[l] = next
        /\ \A k \in Lookups \ {l} : lookup'[k] = lookup[k]
    BY <2>1, <2>2, OneChanges
  <2>4. NearbyTypeOK'
    <3>1. missed' \in BOOLEAN /\ searched' \in BOOLEAN /\ stored' \subseteq Around
      BY <2>0 DEF PlacesOf
    <3> QED
      BY <2>0, <2>3, <3>1 DEF NearbyTypeOK, Changes
  <2>5. \A k \in Lookups \ {l} : Looking(k) => Looking(k)'
    BY <2>0, <2>3 DEF Looking, TargetOf
  <2>6. \A k \in Lookups \ {l} : lookup[k].step # "commit"
    BY <2>0 DEF OneSaves
  <2>7. OneSaves' /\ MovedIsLooking'
    BY <2>2, <2>3, <2>6 DEF OneSaves, MovedIsLooking
  <2>8. StoredOrLooking'
    <3>1. CASE lookup[l].target = TargetOf(home)
      BY <2>0, <3>1 DEF StoredOrLooking, OfHere, TargetOf, PlacesOf
    <3>2. CASE lookup[l].target # TargetOf(home)
      <4>1. ~Looking(l)
        BY <2>0, <3>2 DEF Looking
      <4>2. Undisturbed => \E k \in Lookups \ {l} : Looking(k)
        BY <2>0, <3>2, <4>1 DEF MovedIsLooking
      <4>3. Undisturbed' => Undisturbed
        BY <2>0 DEF Undisturbed
      <4> QED
        BY <2>5, <4>2, <4>3 DEF StoredOrLooking
    <3> QED
      BY <3>1, <3>2
  <2>9. PageInv'
    <3>1. CASE lookup[l].active \/ home.active
      <4>1. ToBeDropped'
        BY <2>0, <2>2, <2>3, <3>1 DEF ToBeDropped, Drops
      <4> QED
        BY <4>1 DEF PageInv, FreshPage, FreshReaders, HiddenIsDropped
    <3>2. CASE ~lookup[l].active /\ ~home.active
      <4>1. ToBeDropped => ToBeDropped'
        BY <2>0, <2>3 DEF ToBeDropped, Drops
      <4> QED
        BY <2>0, <3>2, <4>1 DEF PageInv, FreshPage, FreshReaders, HiddenIsDropped
    <3> QED
      BY <3>1, <3>2
  <2> QED
    BY <2>4, <2>7, <2>8, <2>9
<1>11. ASSUME NEW l \in Lookups, DetailChanged(l)
       PROVE  NearbyInv'
  <2>0. /\ lookup[l].step = "show" /\ UNCHANGED <<home, stored, searched, flipped, lookupLost, editsMet>>
        /\ lookup' = [lookup EXCEPT ![l] = Done] /\ DropPage
    BY <1>11 DEF DetailChanged
  <2>1. /\ lookup' \in [Lookups -> Changes] /\ lookup'[l] = Done
        /\ \A k \in Lookups \ {l} : lookup'[k] = lookup[k]
    BY <1>t, <2>0, OneChanges
  <2>2. PageInv' /\ page' = Nowhere /\ reader' \in [Readers -> Copies] /\ late' = FALSE /\ missed' = FALSE
    BY <2>0, DroppedIsFresh
  <2>3. NearbyTypeOK'
    BY <2>0, <2>1, <2>2 DEF NearbyTypeOK, Changes, Copies
  <2>4. \A k \in Lookups : Looking(k) => Looking(k)'
    BY <2>0, <2>1 DEF Looking, TargetOf
  <2>5. StoredOrLooking' /\ MovedIsLooking' /\ OneSaves'
    BY <1>d, <2>0, <2>1, <2>4 DEF StoredOrLooking, MovedIsLooking, OneSaves, Undisturbed, OfHere, TargetOf, PlacesOf
  <2> QED
    BY <2>2, <2>3, <2>5
<1>12. ASSUME NEW l \in Lookups, LookupLost(l)
       PROVE  NearbyInv'
  <2>1. /\ lookupLost' = TRUE /\ lookup' = [lookup EXCEPT ![l] = Done]
        /\ UNCHANGED <<home, stored, searched, flipped, page, reader, editsMet, late, missed>>
    BY <1>12 DEF LookupLost
  <2>2. /\ lookup' \in [Lookups -> Changes] /\ lookup'[l] = Done
        /\ \A k \in Lookups \ {l} : lookup'[k] = lookup[k]
    BY <1>t, <2>1, OneChanges
  <2>3. NearbyTypeOK'
    BY <2>1, <2>2 DEF NearbyTypeOK, Changes
  <2>4. StoredOrLooking' /\ MovedIsLooking' /\ OneSaves'
    BY <1>d, <2>1, <2>2 DEF StoredOrLooking, MovedIsLooking, OneSaves, Undisturbed
  <2>5. PageInv'
    BY <2>1 DEF PageInv, FreshPage, FreshReaders, HiddenIsDropped, ToBeDropped
  <2> QED
    BY <2>3, <2>4, <2>5
<1> QED
  BY <1>1, <1>2, <1>3, <1>4, <1>5, <1>6, <1>7, <1>8, <1>9, <1>10, <1>11, <1>12 DEF NearbyNext

LEMMA NearbyStays == Spec => []NearbyInv
<1>1. Init => NearbyInv
  BY NearbyInits DEF Init
<1>2. NearbyInv /\ [Next]_vars => NearbyInv'
  <2> SUFFICES ASSUME NearbyInv, [NearbyNext]_nearbyVars PROVE NearbyInv'
    BY PartsStay
  <2>1. CASE UNCHANGED nearbyVars
    <3>1. UNCHANGED <<home, stored, searched, lookup, flipped, page, reader, lookupLost, editsMet, late, missed>>
      BY <2>1 DEF nearbyVars, nearbyHistory
    <3>2. LookupInv'
      BY <3>1 DEF NearbyInv, LookupInv, NearbyTypeOK, StoredOrLooking, MovedIsLooking, OneSaves,
                  Undisturbed, Looking, OfHere, TargetOf, PlacesOf
    <3>3. PageInv'
      BY <3>1 DEF NearbyInv, PageInv, FreshPage, FreshReaders, HiddenIsDropped, ToBeDropped, Drops
    <3> QED
      BY <3>2, <3>3 DEF NearbyInv
  <2> QED
    BY <2>1, NearbyKeeps
<1> QED
  BY <1>1, <1>2, PTL DEF Spec

(* In whatever order lookups run, and wherever the listing moves while     *)
(* they do, what is stored when they are done is near where it is, unless  *)
(* a lookup was lost or edits of the tags met; and the page shows what is  *)
(* stored, unless it was read before it was last dropped, or a lookup was  *)
(* lost or saved for a hidden listing while it was published               *)
(* (PropertyNearbyService.refresh, save).                                  *)
THEOREM NearbyIsOfThisPlace == Spec => []NearbyIsRight
<1>1. NearbyInv => NearbyIsRight
  BY DEF NearbyInv, LookupInv, PageInv, NearbyIsRight, NearbyIsOfHere, PageShowsNearby, Settled, StoredOrLooking,
         Undisturbed, FreshPage, ToBeDropped, Drops, Looking, OfHere
<1> QED
  BY <1>1, NearbyStays, PTL

-----------------------------------------------------------------------------
(* The search index.  What keeps it in step is on its way in one of three  *)
(* forms: a change still to be read, one a rebuild applies again, or what  *)
(* was read last is or will be written.                                    *)

Writing(s, k) == s.step = "write" /\ s.key = k

(* s was read before the last change of what it writes.                    *)
Stale(s) == s.step = "write" /\ s.doc # Document(s.key)

Unread(k) ==
    \E s \in syncs : IF s.step = "write" THEN k = Owner /\ s.key # Owner
                     ELSE k \in {s.key, Owner}

ToApply(k) ==
    \E i \in Instances :
         \/ noted[i] # None /\ (IF k = Owner THEN noted[i] # {} ELSE k \in noted[i])
         \/ rebuild[i].step = "replay"
            /\ (IF k = Owner THEN rebuild[i].todo # {} ELSE k \in rebuild[i].todo)

(* What is stale was overtaken, or will be.                                *)
Kept(k) ==
    /\ live[k].doc = Document(k) \/ \E c \in syncs : Writing(c, k) /\ c.doc = Document(k)
    /\ \A s \in syncs : Writing(s, k) /\ s.doc # Document(k) =>
         \/ s.at < live[k].at
         \/ \E c \in syncs : Writing(c, k) /\ c.doc = Document(k) /\ c.at > s.at

LiveFollows ==
    "live" \notin astray /\ ~foreign => \A k \in Keys : Unread(k) \/ ToApply(k) \/ Kept(k)

(* A change that no rebuild has noted yet.                                 *)
Unnoted(k) ==
    \E s \in syncs : s.by \notin Instances /\ s.step # "write" /\ s.key # Owner
                     /\ k \in {s.key, Owner}

NotedBy(i, k) == noted[i] # None /\ (IF k = Owner THEN noted[i] # {} ELSE k \in noted[i])

Filled(i) ==
    {k \in Keys : \/ rebuild[i].step = "fill" /\ k # Owner /\ k <= rebuild[i].after
                  \/ rebuild[i].step = "people" /\ k # Owner
                  \/ rebuild[i].step = "swap"}

(* What an index that is being filled says, and nobody noted, is so.       *)
FilledRight(i, k) ==
    /\ temp[i][k].doc = Document(k)
    /\ \A s \in syncs : Writing(s, k) /\ s.doc # Document(k) => s.at < temp[i][k].at

TempFollows ==
    ~foreign => \A i \in Instances : i \notin astray =>
        \A k \in Filled(i) : Unnoted(k) \/ NotedBy(i, k) \/ FilledRight(i, k)

SyncSound(s) ==
    /\ s.at <= made /\ (Stale(s) => s.at < made)
    /\ s.key \in {s.id, Owner}
    /\ s.by \in Instances =>
         /\ s.on = s.by /\ rebuild[s.by].step = "replay"
         /\ \A c \in syncs : c.by = s.by => c = s

IndexSound ==
    /\ \A s \in syncs : SyncSound(s)
    /\ \A i \in Rebuilding : temp[i] \in Index

Answered ==
    /\ "find" \notin mix => answer = None /\ \A f \in Finders : finding[f] = None
    /\ (\A s \in syncs : s.step # "outdate") /\ "answer" \notin astray =>
         /\ answer # None => \A id \in answer : IsSearchable(id)
         /\ \A f \in Finders : finding[f] # None /\ finding[f].step = "store" /\ finding[f].current =>
              \A id \in finding[f].ids : IsSearchable(id)

IndexInv ==
    IndexTypeOK /\ IndexSound /\ TempFollows /\ LiveFollows /\ Answered /\ NothingIsLeft

LEMMA KeysAre ==
    /\ Owner \notin Ids /\ Owner \in Keys /\ Keys = Ids \cup {Owner} /\ Owner = 0
    /\ \A id \in Ids : id \in Nat /\ id >= 1 /\ id <= Cardinality(Ids)
    /\ Cardinality(Ids) \in Nat /\ IsFiniteSet(Ids)
<1>1. Cardinality(Ids) \in Nat /\ IsFiniteSet(Ids)
  BY IndexAssumption, FS_CardinalityType
<1>2. \A id \in Ids : id \in Nat /\ id >= 1 /\ id <= Cardinality(Ids)
  <2>1. Ids = 1..Cardinality(Ids)
    BY IndexAssumption
  <2> QED
    BY <1>1, <2>1
<1> QED
  BY <1>1, <1>2 DEF Owner, Keys

LEMMA DocumentIs ==
    ASSUME IndexTypeOK, NEW k \in Keys
    PROVE  Document(k) \in Nat
<1>1. {id \in Ids : row.active[id]} \in SUBSET Ids
  OBVIOUS
<1>2. PublisherDocument \in Nat
  BY <1>1, KeysAre, FS_Subset, FS_CardinalityType DEF PublisherDocument
<1>3. \A id \in Ids : ListingDocument(id) \in Nat
  BY DEF ListingDocument, IndexTypeOK
<1> QED
  BY <1>2, <1>3, KeysAre DEF Document

LEMMA SameDocuments ==
    ASSUME row' = row
    PROVE  /\ \A k \in Keys : Document(k)' = Document(k)
           /\ \A id \in Ids : IsSearchable(id)' = IsSearchable(id)
BY DEF Document, ListingDocument, PublisherDocument, IsSearchable

LEMMA SyncIs ==
    ASSUME IndexTypeOK, IndexSound, NEW s \in syncs
    PROVE  /\ s \in Sync /\ s.key \in Keys /\ s.id \in Ids /\ s.on \in Instances
           /\ s.at \in Nat /\ s.doc \in Nat /\ s.step \in {"outdate", "read", "write"}
           /\ s.key \in {s.id, Owner} /\ SyncSound(s)
<1>1. s \in Sync /\ SyncSound(s)
  BY DEF IndexTypeOK, IndexSound
<1> QED
  BY <1>1 DEF Sync, SyncSound

LEMMA IndexInits == Init => IndexInv
<1> SUFFICES ASSUME Init PROVE IndexInv
  OBVIOUS
<1> USE DEF Init, IndexInit
<1>1. PICK first \in FirstActive[mix] :
         row = [active |-> [id \in Ids |-> id \in first], text |-> [id \in Ids |-> 1], hidden |-> FALSE]
  OBVIOUS
<1>2. row \in [active : [Ids -> BOOLEAN], text : [Ids -> Nat], hidden : BOOLEAN]
  BY <1>1
<1>3. \A k \in Keys : Document(k) \in Nat
  <2>1. {id \in Ids : row.active[id]} \in SUBSET Ids
    OBVIOUS
  <2>2. PublisherDocument \in Nat
    BY <2>1, KeysAre, FS_Subset, FS_CardinalityType DEF PublisherDocument
  <2>3. \A id \in Ids : ListingDocument(id) \in Nat
    BY <1>2 DEF ListingDocument
  <2> QED
    BY <2>2, <2>3, KeysAre DEF Document
<1>4. live \in Index
  BY <1>3 DEF Index, Entry, Empty
<1>5. /\ \A i \in Instances : rebuild[i] = [step |-> "none"] /\ noted[i] = None /\ temp[i] = None
      /\ rebuild \in [Instances -> Rebuild] /\ Rebuilding = {}
  BY DEF Rebuild, Rebuilding
<1>6. IndexTypeOK
  BY <1>2, <1>4, <1>5 DEF IndexTypeOK
<1>7. LiveFollows
  BY DEF LiveFollows, Kept
<1>8. TempFollows
  BY <1>5 DEF TempFollows, Filled
<1>9. IndexSound /\ Answered /\ NothingIsLeft
  BY <1>5 DEF IndexSound, Answered, NothingIsLeft
<1> QED
  BY <1>6, <1>7, <1>8, <1>9 DEF IndexInv

-----------------------------------------------------------------------------
(* Changes of the database.                                                *)

(* The listings a change is told of are all it concerns.                   *)
LEMMA ChangeIs ==
    ASSUME IndexTypeOK, NEW i \in Running[mix],
           ChangeVisibility(i) \/ \E id \in Ids : ChangeListing(i, id)
    PROVE  \E ids \in SUBSET Ids :
             /\ syncs' = syncs \cup Changed(made + 1, i, ids)
             /\ made' = made + 1
             /\ row' \in [active : [Ids -> BOOLEAN], text : [Ids -> Nat], hidden : BOOLEAN]
             /\ \A id \in Ids \ ids : /\ Document(id)' = Document(id)
                                      /\ IsSearchable(id)' = IsSearchable(id)
             /\ ids = {} => Document(Owner)' = Document(Owner)
             /\ UNCHANGED <<index, found, mix, indexHistory>>
<1>1. ASSUME NEW id \in Ids, ChangeListing(i, id)
      PROVE  /\ row' \in [active : [Ids -> BOOLEAN], text : [Ids -> Nat], hidden : BOOLEAN]
             /\ \A d \in Ids \ {id} : /\ Document(d)' = Document(d)
                                      /\ IsSearchable(d)' = IsSearchable(d)
  <2>1. \/ row' = [row EXCEPT !.text[id] = made + 2]
        \/ row' = [row EXCEPT !.active[id] = ~@]
    BY <1>1 DEF ChangeListing
  <2>2. CASE row' = [row EXCEPT !.text[id] = made + 2]
    <3>1. /\ row' \in [active : [Ids -> BOOLEAN], text : [Ids -> Nat], hidden : BOOLEAN]
          /\ row'.active = row.active /\ row'.hidden = row.hidden
          /\ \A d \in Ids \ {id} : row'.text[d] = row.text[d]
      BY <2>2 DEF IndexTypeOK
    <3> QED
      BY <3>1, KeysAre DEF Document, ListingDocument, IsSearchable
  <2>3. CASE row' = [row EXCEPT !.active[id] = ~@]
    <3>1. /\ row' \in [active : [Ids -> BOOLEAN], text : [Ids -> Nat], hidden : BOOLEAN]
          /\ row'.text = row.text /\ row'.hidden = row.hidden
          /\ \A d \in Ids \ {id} : row'.active[d] = row.active[d]
      BY <2>3 DEF IndexTypeOK
    <3> QED
      BY <3>1, KeysAre DEF Document, ListingDocument, IsSearchable
  <2> QED
    BY <2>1, <2>2, <2>3
<1>2. ASSUME NEW id \in Ids, ChangeListing(i, id)
      PROVE  /\ syncs' = syncs \cup Changed(made + 1, i, {id}) /\ made' = made + 1
             /\ UNCHANGED <<index, found, mix, indexHistory>>
  BY <1>2 DEF ChangeListing
<1>3. CASE ChangeVisibility(i)
  <2> DEFINE ids == {id \in Ids : row.active[id]}
  <2>1. /\ syncs' = syncs \cup Changed(made + 1, i, ids) /\ made' = made + 1
        /\ UNCHANGED <<index, found, mix, indexHistory>>
        /\ row' = [row EXCEPT !.hidden = ~@]
    BY <1>3 DEF ChangeVisibility
  <2>2. /\ row' \in [active : [Ids -> BOOLEAN], text : [Ids -> Nat], hidden : BOOLEAN]
        /\ row'.active = row.active
    BY <2>1 DEF IndexTypeOK
  <2>3. \A id \in Ids \ ids : ~IsSearchable(id) /\ ~IsSearchable(id)'
    BY <2>2 DEF IsSearchable
  <2>4. \A id \in Ids \ ids : Document(id) = 0 /\ Document(id)' = 0
    BY <2>3, KeysAre DEF Document, ListingDocument
  <2>5. ids = {} => Document(Owner) = 0 /\ Document(Owner)' = 0
    <3>1. Cardinality({}) = 0
      BY FS_EmptySet
    <3> QED
      BY <2>2, <3>1 DEF Document, PublisherDocument
  <2>6. \A id \in Ids \ ids : IsSearchable(id)' = IsSearchable(id)
    <3>1. \A id \in Ids \ ids : IsSearchable(id) = FALSE /\ IsSearchable(id)' = FALSE
      BY <2>3 DEF IsSearchable
    <3> QED
      BY <3>1
  <2> QED
    BY <2>1, <2>2, <2>4, <2>5, <2>6
<1> DEFINE Concerns(ids) ==
             /\ syncs' = syncs \cup Changed(made + 1, i, ids)
             /\ made' = made + 1
             /\ row' \in [active : [Ids -> BOOLEAN], text : [Ids -> Nat], hidden : BOOLEAN]
             /\ \A id \in Ids \ ids : /\ Document(id)' = Document(id)
                                      /\ IsSearchable(id)' = IsSearchable(id)
             /\ ids = {} => Document(Owner)' = Document(Owner)
             /\ UNCHANGED <<index, found, mix, indexHistory>>
<1>4. ASSUME NEW id \in Ids, ChangeListing(i, id)
      PROVE  Concerns({id}) /\ {id} \in SUBSET Ids
  BY <1>1, <1>2, <1>4
<1>5. CASE \E id \in Ids : ChangeListing(i, id)
  <2>1. PICK id \in Ids : ChangeListing(i, id)
    BY <1>5
  <2>2. Concerns({id}) /\ {id} \in SUBSET Ids
    BY <1>4, <2>1
  <2> QED
    BY <2>2
<1> QED
  BY <1>3, <1>5

LEMMA ChangedAre ==
    ASSUME NEW who, NEW i, NEW ids \in SUBSET Ids
    PROVE  /\ \A s \in Changed(who, i, ids) :
                /\ s.by = who /\ s.on = i /\ s.id \in ids /\ s.key = s.id /\ s.step = First
                /\ s.doc = 0 /\ s.at = 0
                /\ s = [by |-> who, on |-> i, id |-> s.id, key |-> s.id, step |-> First,
                        doc |-> 0, at |-> 0]
           /\ \A id \in ids : \E s \in Changed(who, i, ids) : s.key = id
<1>1. \A s \in Changed(who, i, ids) : \E id \in ids :
         s = [by |-> who, on |-> i, id |-> id, key |-> id, step |-> First, doc |-> 0, at |-> 0]
  BY DEF Changed
<1>2. \A id \in ids :
         [by |-> who, on |-> i, id |-> id, key |-> id, step |-> First, doc |-> 0, at |-> 0]
            \in Changed(who, i, ids)
  BY DEF Changed
<1>3. ASSUME NEW s \in Changed(who, i, ids)
      PROVE  /\ s.by = who /\ s.on = i /\ s.id \in ids /\ s.key = s.id /\ s.step = First
             /\ s.doc = 0 /\ s.at = 0
             /\ s = [by |-> who, on |-> i, id |-> s.id, key |-> s.id, step |-> First,
                     doc |-> 0, at |-> 0]
  <2>1. PICK id \in ids :
          s = [by |-> who, on |-> i, id |-> id, key |-> id, step |-> First, doc |-> 0, at |-> 0]
    BY <1>1
  <2> QED
    BY <2>1
<1>4. ASSUME NEW id \in ids
      PROVE  \E s \in Changed(who, i, ids) : s.key = id
  <2> DEFINE s == [by |-> who, on |-> i, id |-> id, key |-> id, step |-> First, doc |-> 0, at |-> 0]
  <2>1. s \in Changed(who, i, ids) /\ s.key = id
    BY <1>2
  <2> QED
    BY <2>1
<1> QED
  BY <1>3, <1>4

LEMMA ChangeKeeps ==
    ASSUME IndexInv, NEW i \in Running[mix],
           ChangeVisibility(i) \/ \E id \in Ids : ChangeListing(i, id)
    PROVE  IndexInv'
<1> USE DEF IndexInv
<1>0. PICK ids \in SUBSET Ids :
        /\ syncs' = syncs \cup Changed(made + 1, i, ids)
        /\ made' = made + 1
        /\ row' \in [active : [Ids -> BOOLEAN], text : [Ids -> Nat], hidden : BOOLEAN]
        /\ \A id \in Ids \ ids : /\ Document(id)' = Document(id)
                                 /\ IsSearchable(id)' = IsSearchable(id)
        /\ ids = {} => Document(Owner)' = Document(Owner)
        /\ UNCHANGED <<index, found, mix, indexHistory>>
  BY ChangeIs
<1> DEFINE new == Changed(made + 1, i, ids)
<1>1. /\ UNCHANGED <<live, temp, noted, rebuild, answer, finding, mix, astray, foreign, litter>>
      /\ syncs' = syncs \cup new /\ made \in Nat /\ made' = made + 1 /\ i \in Instances
  BY <1>0, IndexAssumption DEF index, found, indexHistory, IndexTypeOK
<1>2. made + 1 \notin Instances /\ made + 1 \in Nat
  BY <1>1, IndexAssumption
<1>3. First \in {"outdate", "read"} /\ ("find" \in mix => First = "outdate")
  BY DEF First
<1>4. /\ \A s \in new : /\ s.by = made + 1 /\ s.on = i /\ s.id \in ids /\ s.key = s.id
                        /\ s.step = First /\ s.doc = 0 /\ s.at = 0 /\ s \in Sync
      /\ \A id \in ids : \E s \in new : s.key = id
  <2>1. \A s \in new :
          /\ s.by = made + 1 /\ s.on = i /\ s.id \in ids /\ s.key = s.id
          /\ s.step = First /\ s.doc = 0 /\ s.at = 0
          /\ s = [by |-> made + 1, on |-> i, id |-> s.id, key |-> s.id, step |-> First,
                  doc |-> 0, at |-> 0]
    BY ChangedAre
  <2>2. \A s \in new : s \in Sync
    BY <1>1, <1>2, <1>3, <2>1, KeysAre DEF Sync
  <2>3. \A id \in ids : \E s \in new : s.key = id
    BY ChangedAre
  <2> QED
    BY <2>1, <2>2, <2>3
<1> HIDE DEF new
<1>5. \A k \in Keys : k \in ids \/ (k = Owner /\ ids # {}) => Unread(k)' /\ Unnoted(k)'
  <2>1. \A s \in new : s \in syncs' /\ s.by \notin Instances /\ s.step # "write" /\ s.key # Owner
    BY <1>1, <1>2, <1>3, <1>4, KeysAre
  <2>2. \A k \in Keys : k \in ids \/ (k = Owner /\ ids # {}) =>
          \E s \in new : k \in {s.key, Owner}
    BY <1>4
  <2> QED
    BY <2>1, <2>2 DEF Unread, Unnoted
<1>6. \A k \in Keys : ~(k \in ids \/ (k = Owner /\ ids # {})) => Document(k)' = Document(k)
  BY <1>0, KeysAre
<1>7. /\ \A s \in syncs : s \in syncs'
      /\ \A s \in syncs' : s.step = "write" => s \in syncs
  BY <1>1, <1>3, <1>4
<1>8. IndexTypeOK'
  <2>1. syncs' \subseteq Sync
    BY <1>1, <1>4 DEF IndexTypeOK
  <2> QED
    BY <1>0, <1>1, <2>1 DEF IndexTypeOK
<1>9. IndexSound'
  <2>1. ASSUME NEW s \in syncs' PROVE SyncSound(s)'
    <3>1. CASE s \in syncs
      <4>1. SyncSound(s) /\ s.at \in Nat
        BY <3>1, SyncIs
      <4>2. s.at <= made' /\ s.at < made'
        BY <1>1, <4>1 DEF SyncSound
      <4>3. s.by \in Instances => \A c \in syncs' : c.by = s.by => c = s
        BY <1>1, <1>2, <1>4, <4>1 DEF SyncSound
      <4> QED
        BY <1>1, <4>1, <4>2, <4>3 DEF SyncSound
    <3>2. CASE s \in new
      <4>1. ~Stale(s)'
        BY <1>3, <1>4, <3>2 DEF Stale
      <4> QED
        BY <1>1, <1>2, <1>4, <3>2, <4>1 DEF SyncSound
    <3> QED
      BY <1>1, <3>1, <3>2
  <2> QED
    BY <1>1, <2>1 DEF IndexSound, Rebuilding
<1>10. TempFollows'
  <2> SUFFICES ASSUME ~foreign', NEW j \in Instances, j \notin astray', NEW k \in Filled(j)'
               PROVE  Unnoted(k)' \/ NotedBy(j, k)' \/ FilledRight(j, k)'
    BY DEF TempFollows
  <2>1. k \in Filled(j) /\ k \in Keys /\ ~foreign /\ j \notin astray
    BY <1>1 DEF Filled
  <2>2. Unnoted(k) => Unnoted(k)'
    BY <1>1 DEF Unnoted
  <2>3. NotedBy(j, k) => NotedBy(j, k)'
    BY <1>1 DEF NotedBy
  <2>4. FilledRight(j, k) /\ Document(k)' = Document(k) => FilledRight(j, k)'
    BY <1>1, <1>7 DEF FilledRight, Writing
  <2> QED
    BY <1>5, <1>6, <2>1, <2>2, <2>3, <2>4 DEF TempFollows
<1>11. LiveFollows'
  <2> SUFFICES ASSUME "live" \notin astray', ~foreign', NEW k \in Keys
               PROVE  Unread(k)' \/ ToApply(k)' \/ Kept(k)'
    BY DEF LiveFollows
  <2>1. Unread(k) => Unread(k)'
    BY <1>1 DEF Unread
  <2>2. ToApply(k) => ToApply(k)'
    BY <1>1 DEF ToApply
  <2>3. Kept(k) /\ Document(k)' = Document(k) => Kept(k)'
    BY <1>1, <1>7 DEF Kept, Writing
  <2> QED
    BY <1>1, <1>5, <1>6, <2>1, <2>2, <2>3 DEF LiveFollows
<1>12. Answered'
  <2>1. CASE "find" \notin mix
    BY <1>1, <2>1 DEF Answered
  <2>2. CASE "find" \in mix /\ ids # {}
    <3>1. \E s \in syncs' : s.step = "outdate"
      BY <1>1, <1>3, <1>4, <2>2
    <3> QED
      BY <1>1, <2>2, <3>1 DEF Answered
  <2>3. CASE ids = {}
    <3>1. syncs' = syncs
      BY <1>1, <1>4, <2>3
    <3>2. \A id \in Ids : IsSearchable(id)' = IsSearchable(id)
      BY <1>0, <2>3
    <3>3. answer # None => answer \subseteq Ids
      BY DEF IndexTypeOK
    <3>4. \A f \in Finders : finding[f] # None => finding[f].ids \subseteq Ids
      BY DEF IndexTypeOK, Finding
    <3> QED
      BY <1>1, <3>1, <3>2, <3>3, <3>4 DEF Answered
  <2> QED
    BY <2>1, <2>2, <2>3
<1>13. NothingIsLeft'
  BY <1>1 DEF NothingIsLeft
<1> QED
  BY <1>8, <1>9, <1>10, <1>11, <1>12, <1>13

-----------------------------------------------------------------------------
(* Steps that leave the database alone.                                    *)

LEMMA OutdateKeeps ==
    ASSUME IndexInv, NEW s \in syncs, OutdateText(s)
    PROVE  IndexInv'
<1> USE DEF IndexInv
<1> DEFINE t == [s EXCEPT !.step = "read"]
<1>1. /\ syncs' = (syncs \ {s}) \cup {t} /\ s.step = "outdate" /\ answer' = None
      /\ finding' = [f \in Finders |-> IF finding[f] = None THEN None
                                       ELSE [finding[f] EXCEPT !.current = FALSE]]
      /\ astray' = astray \ {"answer"}
      /\ UNCHANGED <<row, made, live, temp, noted, rebuild, mix, foreign, litter>>
  BY DEF OutdateText, database, index
<1>2. /\ t \in Sync /\ t.step = "read" /\ t.by = s.by /\ t.on = s.on /\ t.id = s.id
      /\ t.key = s.key /\ t.at = s.at
  BY SyncIs DEF Sync
<1> HIDE DEF t
<1>3. /\ \A k \in Keys : Document(k)' = Document(k)
      /\ \A id \in Ids : IsSearchable(id)' = IsSearchable(id)
  BY <1>1, SameDocuments
<1>4. \A c \in syncs' : c.step = "write" => c \in syncs
  BY <1>1, <1>2
<1>5. \A c \in syncs : c.step = "write" => c \in syncs'
  BY <1>1
<1>6. IndexTypeOK'
  <2>1. finding' \in [Finders -> Finding \cup {None}]
    <3>1. \A f \in Finders : finding[f] # None =>
             [finding[f] EXCEPT !.current = FALSE] \in Finding
      BY DEF IndexTypeOK, Finding
    <3> QED
      BY <1>1, <3>1
  <2>2. syncs' \subseteq Sync
    BY <1>1, <1>2 DEF IndexTypeOK
  <2> QED
    BY <1>1, <2>1, <2>2 DEF IndexTypeOK
<1>7. IndexSound'
  <2>1. ASSUME NEW c \in syncs' PROVE SyncSound(c)'
    <3>1. CASE c = t
      <4>1. SyncSound(s) /\ ~Stale(t)'
        BY <1>2, SyncIs DEF Stale
      <4> QED
        BY <1>1, <1>2, <3>1, <4>1 DEF SyncSound
    <3>2. CASE c \in syncs \ {s}
      <4>1. SyncSound(c) /\ c.key \in Keys
        BY <3>2, SyncIs
      <4>2. Stale(c)' <=> Stale(c)
        BY <1>3, <4>1 DEF Stale
      <4>3. c.by \in Instances => c.by # s.by
        BY <3>2, <4>1 DEF SyncSound
      <4> QED
        BY <1>1, <1>2, <4>1, <4>2, <4>3 DEF SyncSound
    <3> QED
      BY <1>1, <3>1, <3>2
  <2> QED
    BY <1>1, <2>1 DEF IndexSound, Rebuilding
<1>8. TempFollows'
  <2> SUFFICES ASSUME ~foreign', NEW j \in Instances, j \notin astray', NEW k \in Filled(j)'
               PROVE  Unnoted(k)' \/ NotedBy(j, k)' \/ FilledRight(j, k)'
    BY DEF TempFollows
  <2>1. k \in Filled(j) /\ k \in Keys /\ ~foreign /\ j \notin astray
    BY <1>1, IndexAssumption DEF Filled
  <2>2. Unnoted(k) => Unnoted(k)'
    BY <1>1, <1>2 DEF Unnoted
  <2>3. NotedBy(j, k) => NotedBy(j, k)'
    BY <1>1 DEF NotedBy
  <2>4. FilledRight(j, k) => FilledRight(j, k)'
    BY <1>1, <1>3, <1>4, <2>1 DEF FilledRight, Writing
  <2> QED
    BY <2>1, <2>2, <2>3, <2>4 DEF TempFollows
<1>9. LiveFollows'
  <2> SUFFICES ASSUME "live" \notin astray', ~foreign', NEW k \in Keys
               PROVE  Unread(k)' \/ ToApply(k)' \/ Kept(k)'
    BY DEF LiveFollows
  <2>1. Unread(k) => Unread(k)'
    BY <1>1, <1>2 DEF Unread
  <2>2. ToApply(k) => ToApply(k)'
    BY <1>1 DEF ToApply
  <2>3. Kept(k) => Kept(k)'
    BY <1>1, <1>3, <1>4, <1>5 DEF Kept, Writing
  <2> QED
    BY <1>1, <2>1, <2>2, <2>3 DEF LiveFollows
<1>10. Answered'
  <2>1. \A f \in Finders : /\ finding[f] = None => finding'[f] = None
                           /\ finding'[f] # None => finding'[f].current = FALSE
    <3>1. \A f \in Finders : finding[f] # None =>
             [finding[f] EXCEPT !.current = FALSE].current = FALSE
      BY DEF IndexTypeOK, Finding
    <3> QED
      BY <1>1, <3>1
  <2> QED
    BY <1>1, <2>1 DEF Answered
<1>11. NothingIsLeft'
  BY <1>1 DEF NothingIsLeft
<1> QED
  BY <1>6, <1>7, <1>8, <1>9, <1>10, <1>11

(* What noting a change says of a rebuild that goes on.                    *)
LEMMA NoteIs ==
    ASSUME IndexInv, NEW s \in syncs, s.step = "read", Note(s)
    PROVE  /\ \A j \in Instances : /\ noted[j] = None => noted'[j] = None
                                   /\ noted[j] # None => noted'[j] # None /\ noted[j] \subseteq noted'[j]
           /\ noted' \in [Instances -> (SUBSET Ids) \cup {None}]
           /\ foreign => foreign'
           /\ ~foreign' /\ s.key # Owner /\ s.by \notin Instances =>
                \A j \in Rebuilding : NotedBy(j, s.key)' /\ NotedBy(j, Owner)'
<1> USE DEF IndexInv
<1>1. CASE s.key = Owner \/ s.by \in Instances
  BY <1>1 DEF Note, IndexTypeOK
<1>2. CASE ~(s.key = Owner \/ s.by \in Instances)
  <2>1. /\ noted' = [noted EXCEPT ![s.on] = IF @ = None THEN None ELSE @ \cup {s.id}]
        /\ foreign' = (foreign \/ (Rebuilding \ {s.on} # {}))
    BY <1>2 DEF Note
  <2>2. s.id \in Ids /\ s.on \in Instances /\ s.key = s.id
    BY <1>2, SyncIs
  <2>3. \A j \in Instances : noted[j] # None => noted[j] \in SUBSET Ids /\ noted[j] \cup {s.id} \in SUBSET Ids
    BY <2>2 DEF IndexTypeOK
  <2>4. \A j \in Instances : noted[j] # None => noted[j] \cup {s.id} # None
    BY <2>3, IndexAssumption
  <2>5. noted' \in [Instances -> (SUBSET Ids) \cup {None}]
    BY <2>1, <2>3 DEF IndexTypeOK
  <2>6. \A j \in Instances : /\ noted[j] = None => noted'[j] = None
                             /\ noted[j] # None => noted'[j] # None /\ noted[j] \subseteq noted'[j]
    BY <2>1, <2>4 DEF IndexTypeOK
  <2>7. ASSUME ~foreign', NEW j \in Rebuilding
        PROVE  NotedBy(j, s.key)' /\ NotedBy(j, Owner)'
    <3>1. j = s.on /\ noted[j] # None
      BY <2>1, <2>7 DEF Rebuilding, IndexTypeOK
    <3>2. noted'[j] = noted[j] \cup {s.id} /\ noted'[j] # None
      BY <2>1, <2>2, <2>6, <3>1 DEF IndexTypeOK
    <3> QED
      BY <2>2, <3>2, KeysAre DEF NotedBy
  <2> QED
    BY <2>1, <2>5, <2>6, <2>7
<1> QED
  BY <1>1, <1>2

LEMMA ReadKeeps ==
    ASSUME IndexInv, NEW s \in syncs, ReadForIndex(s)
    PROVE  IndexInv'
<1> USE DEF IndexInv
<1>0. /\ s \in Sync /\ s.key \in Keys /\ s.id \in Ids /\ s.key \in {s.id, Owner} /\ SyncSound(s)
      /\ Document(s.key) \in Nat /\ made \in Nat
  BY SyncIs, DocumentIs DEF IndexTypeOK
<1>1. /\ s.step = "read" /\ Note(s)
      /\ UNCHANGED <<row, made, live, temp, rebuild, answer, finding, mix, failures, astray, litter>>
  BY DEF ReadForIndex, database, found
<1>2. PICK t \in Sync :
        /\ syncs' = (syncs \ {s}) \cup {t}
        /\ t.step = "write" /\ t.by = s.by /\ t.on = s.on /\ t.id = s.id
        /\ t.key = s.key /\ t.at = made /\ t.doc = Document(s.key)
  <2> DEFINE t == [s EXCEPT !.step = "write", !.doc = Document(s.key), !.at = made]
  <2>1. syncs' = (syncs \ {s}) \cup {t}
    BY DEF ReadForIndex
  <2>2. /\ t \in Sync /\ t.step = "write" /\ t.by = s.by /\ t.on = s.on /\ t.id = s.id
        /\ t.key = s.key /\ t.at = made /\ t.doc = Document(s.key)
    BY <1>0 DEF Sync
  <2> QED
    BY <2>1, <2>2
<1>3. /\ \A k \in Keys : Document(k)' = Document(k)
      /\ \A id \in Ids : IsSearchable(id)' = IsSearchable(id)
  BY <1>1, SameDocuments
<1>4. \A c \in syncs' : c.step = "write" => c \in syncs \/ c = t
  BY <1>1, <1>2
<1>5. \A c \in syncs : c.step = "write" => c \in syncs'
  BY <1>1, <1>2
<1>n. /\ \A j \in Instances : /\ noted[j] = None => noted'[j] = None
                              /\ noted[j] # None => noted'[j] # None /\ noted[j] \subseteq noted'[j]
      /\ noted' \in [Instances -> (SUBSET Ids) \cup {None}]
      /\ foreign => foreign'
      /\ ~foreign' /\ s.key # Owner /\ s.by \notin Instances =>
           \A j \in Rebuilding : NotedBy(j, s.key)' /\ NotedBy(j, Owner)'
  BY <1>1, NoteIs
<1>6. IndexTypeOK'
  <2>1. syncs' \subseteq Sync
    BY <1>1, <1>2 DEF IndexTypeOK
  <2>2. \A j \in Instances : noted'[j] # None <=> rebuild'[j].step \in {"fill", "people", "swap", "delete"}
    BY <1>1, <1>n DEF IndexTypeOK
  <2> QED
    BY <1>1, <1>n, <2>1, <2>2 DEF IndexTypeOK
<1>7. IndexSound'
  <2>1. ASSUME NEW c \in syncs' PROVE SyncSound(c)'
    <3>1. CASE c = t
      <4>1. ~Stale(t)'
        BY <1>0, <1>2, <1>3 DEF Stale
      <4> QED
        BY <1>0, <1>1, <1>2, <3>1, <4>1 DEF SyncSound
    <3>2. CASE c \in syncs \ {s}
      <4>1. SyncSound(c) /\ c.key \in Keys
        BY <3>2, SyncIs
      <4>2. Stale(c)' <=> Stale(c)
        BY <1>3, <4>1 DEF Stale
      <4>3. c.by \in Instances => c.by # s.by
        BY <3>2, <4>1 DEF SyncSound
      <4> QED
        BY <1>1, <1>2, <4>1, <4>2, <4>3 DEF SyncSound
    <3> QED
      BY <1>2, <3>1, <3>2
  <2> QED
    BY <1>1, <2>1 DEF IndexSound, Rebuilding
<1>8. TempFollows'
  <2> SUFFICES ASSUME ~foreign', NEW j \in Instances, j \notin astray', NEW k \in Filled(j)'
               PROVE  Unnoted(k)' \/ NotedBy(j, k)' \/ FilledRight(j, k)'
    BY DEF TempFollows
  <2>1. k \in Filled(j) /\ k \in Keys /\ ~foreign /\ j \notin astray /\ j \in Rebuilding
    BY <1>1, <1>n DEF Filled, Rebuilding
  <2>2. Unnoted(k) => Unnoted(k)' \/ NotedBy(j, k)'
    <3> SUFFICES ASSUME NEW c \in syncs, c.by \notin Instances, c.step # "write", c.key # Owner,
                        k \in {c.key, Owner}
                 PROVE  Unnoted(k)' \/ NotedBy(j, k)'
      BY DEF Unnoted
    <3>1. CASE c = s
      BY <1>n, <2>1, <3>1
    <3>2. CASE c # s
      BY <1>2, <3>2 DEF Unnoted
    <3> QED
      BY <3>1, <3>2
  <2>3. NotedBy(j, k) => NotedBy(j, k)'
    BY <1>n DEF NotedBy
  <2>4. FilledRight(j, k) => FilledRight(j, k)'
    BY <1>1, <1>2, <1>3, <1>4, <2>1 DEF FilledRight, Writing
  <2> QED
    BY <2>1, <2>2, <2>3, <2>4 DEF TempFollows
<1>9. LiveFollows'
  <2> SUFFICES ASSUME "live" \notin astray', ~foreign', NEW k \in Keys
               PROVE  Unread(k)' \/ ToApply(k)' \/ Kept(k)'
    BY DEF LiveFollows
  <2>1. CASE k = s.key
    <3>1. t \in syncs' /\ Writing(t, k)' /\ t.doc = Document(k)'
      BY <1>1, <1>2, <1>3, <2>1 DEF Writing
    <3>2. ASSUME NEW c \in syncs', Writing(c, k), c.doc # Document(k)'
          PROVE  c.at < t.at
      <4>1. c \in syncs /\ Stale(c)
        BY <1>3, <1>4, <3>1, <3>2 DEF Writing, Stale
      <4>2. SyncSound(c)
        BY <4>1 DEF IndexSound
      <4> QED
        BY <1>2, <4>1, <4>2 DEF SyncSound
    <3>3. \A c \in syncs' : c.at \in Nat /\ t.at \in Nat
      BY <1>0, <1>2, <1>6 DEF IndexTypeOK, Sync
    <3>4. \A c \in syncs' : Writing(c, k) /\ c.doc # Document(k)' => t.at > c.at
      BY <3>2, <3>3
    <3> QED
      BY <3>1, <3>4 DEF Kept, Writing
  <2>2. CASE k # s.key /\ k = Owner
    BY <1>1, <1>2, <2>2 DEF Unread
  <2>3. CASE k # s.key /\ k # Owner
    <3>1. Unread(k) => Unread(k)'
      BY <1>1, <1>2, <2>3 DEF Unread
    <3>2. ToApply(k) => ToApply(k)'
      BY <1>1, <1>n, <2>3 DEF ToApply
    <3>3. \A c : c \in syncs' /\ Writing(c, k) <=> c \in syncs /\ Writing(c, k)
      BY <1>1, <1>2, <2>3 DEF Writing
    <3>4. Kept(k) => Kept(k)'
      BY <1>1, <1>3, <3>3 DEF Kept, Writing
    <3> QED
      BY <1>1, <1>n, <3>1, <3>2, <3>4 DEF LiveFollows
  <2> QED
    BY <2>1, <2>2, <2>3
<1>10. Answered'
  <2>1. (\A c \in syncs' : c.step # "outdate") => \A c \in syncs : c.step # "outdate"
    BY <1>1, <1>2
  <2>2. \A f \in Finders : finding[f] # None => finding[f].ids \subseteq Ids
    BY DEF IndexTypeOK, Finding
  <2>3. answer # None => answer \subseteq Ids
    BY DEF IndexTypeOK
  <2> QED
    BY <1>1, <1>3, <2>1, <2>2, <2>3 DEF Answered
<1>11. NothingIsLeft'
  BY <1>1 DEF NothingIsLeft
<1> QED
  BY <1>6, <1>7, <1>8, <1>9, <1>10, <1>11

LEMMA WriteKeeps ==
    ASSUME IndexInv, NEW s \in syncs, WriteToIndex(s)
    PROVE  IndexInv'
<1> USE DEF IndexInv
<1> DEFINE t == [s EXCEPT !.key = Owner, !.step = "read", !.doc = 0, !.at = 0]
           more == IF s.key = Owner THEN {} ELSE {t}
<1>1. /\ syncs' = (syncs \ {s}) \cup more /\ s.step = "write"
      /\ live' = [live EXCEPT ![s.key] = [doc |-> s.doc, at |-> s.at]]
      /\ UNCHANGED <<row, made, temp, noted, rebuild, answer, finding, mix, foreign, litter>>
  BY DEF WriteToIndex, database, found
<1>0. /\ s \in Sync /\ s.key \in Keys /\ s.id \in Ids /\ s.on \in Instances /\ s.at \in Nat
      /\ s.doc \in Nat /\ s.key \in {s.id, Owner} /\ SyncSound(s) /\ made \in Nat
  BY SyncIs DEF IndexTypeOK
<1>2. /\ t \in Sync /\ t.step = "read" /\ t.by = s.by /\ t.on = s.on /\ t.id = s.id
      /\ t.key = Owner /\ t.at = 0
  BY <1>0, KeysAre DEF Sync
<1> HIDE DEF t
<1>m. /\ s.at < live[s.key].at => astray' = astray \cup {"live"} \cup Rebuilding
      /\ ~(s.at < live[s.key].at) => astray' = astray
  BY DEF WriteToIndex, Missed
<1>a. astray \subseteq astray'
  BY <1>m
<1>3. /\ \A k \in Keys : Document(k)' = Document(k)
      /\ \A id \in Ids : IsSearchable(id)' = IsSearchable(id)
  BY <1>1, SameDocuments
<1>4. /\ \A c \in syncs' : c.step = "write" => c \in syncs /\ c # s
      /\ \A c \in syncs \ {s} : c \in syncs'
      /\ \A c \in more : c = t /\ s.key # Owner
  BY <1>1, <1>2
<1>5. /\ live'[s.key] = [doc |-> s.doc, at |-> s.at]
      /\ \A k \in Keys \ {s.key} : live'[k] = live[k]
      /\ live' \in Index /\ \A k \in Keys : live[k].at \in Nat
  BY <1>0, <1>1 DEF IndexTypeOK, Index, Entry
<1>6. IndexTypeOK'
  <2>1. syncs' \subseteq Sync
    BY <1>1, <1>2 DEF IndexTypeOK
  <2> QED
    BY <1>1, <1>5, <2>1 DEF IndexTypeOK
<1>7. IndexSound'
  <2>1. ASSUME NEW c \in syncs' PROVE SyncSound(c)'
    <3>1. CASE c \in more
      <4>1. ~Stale(c)' /\ c = t
        BY <1>2, <1>4, <3>1 DEF Stale
      <4>2. c.by \in Instances => \A d \in syncs' : d.by = c.by => d = c
        BY <1>0, <1>1, <1>2, <4>1, <1>4 DEF SyncSound
      <4> QED
        BY <1>0, <1>1, <1>2, <3>1, <4>1, <4>2 DEF SyncSound
    <3>2. CASE c \in syncs \ {s}
      <4>1. SyncSound(c) /\ c.key \in Keys
        BY <3>2, SyncIs
      <4>2. Stale(c)' <=> Stale(c)
        BY <1>3, <4>1 DEF Stale
      <4>3. c.by \in Instances => c.by # s.by
        BY <3>2, <4>1 DEF SyncSound
      <4>4. c.by \in Instances => \A d \in syncs' : d.by = c.by => d = c
        BY <1>1, <1>2, <1>4, <4>1, <4>3 DEF SyncSound
      <4> QED
        BY <1>1, <4>1, <4>2, <4>4 DEF SyncSound
    <3> QED
      BY <1>1, <3>1, <3>2
  <2> QED
    BY <1>1, <2>1 DEF IndexSound, Rebuilding
<1>8. TempFollows'
  <2> SUFFICES ASSUME ~foreign', NEW j \in Instances, j \notin astray', NEW k \in Filled(j)'
               PROVE  Unnoted(k)' \/ NotedBy(j, k)' \/ FilledRight(j, k)'
    BY DEF TempFollows
  <2>1. k \in Filled(j) /\ k \in Keys /\ ~foreign /\ j \notin astray
    BY <1>1, <1>a DEF Filled
  <2>2. Unnoted(k) => Unnoted(k)'
    BY <1>1, <1>4 DEF Unnoted
  <2>3. NotedBy(j, k) => NotedBy(j, k)'
    BY <1>1 DEF NotedBy
  <2>4. FilledRight(j, k) => FilledRight(j, k)'
    BY <1>1, <1>3, <1>4, <2>1 DEF FilledRight, Writing
  <2> QED
    BY <2>1, <2>2, <2>3, <2>4 DEF TempFollows
<1>9. LiveFollows'
  <2> SUFFICES ASSUME "live" \notin astray', ~foreign', NEW k \in Keys
               PROVE  Unread(k)' \/ ToApply(k)' \/ Kept(k)'
    BY DEF LiveFollows
  <2>0. ~(s.at < live[s.key].at)
    BY <1>m
  <2>1. ToApply(k) => ToApply(k)'
    BY <1>1 DEF ToApply
  <2>2. Unread(k) => Unread(k)'
    <3> SUFFICES ASSUME NEW c \in syncs, IF c.step = "write" THEN k = Owner /\ c.key # Owner
                                         ELSE k \in {c.key, Owner}
                 PROVE  Unread(k)'
      BY DEF Unread
    <3>1. CASE c = s
      <4>1. t \in syncs' /\ k = Owner
        BY <1>1, <3>1
      <4> QED
        BY <1>2, <4>1 DEF Unread
    <3>2. CASE c # s
      BY <1>4, <3>2 DEF Unread
    <3> QED
      BY <3>1, <3>2
  <2>3. ASSUME Kept(k) PROVE Kept(k)'
    <3>0. \A c \in syncs : c.at \in Nat
      BY SyncIs
    <3>1. CASE k # s.key
      <4>1. \A c : c \in syncs' /\ Writing(c, k) <=> c \in syncs /\ Writing(c, k)
        BY <1>1, <1>2, <1>4, <3>1 DEF Writing
      <4> QED
        BY <1>3, <1>5, <2>3, <3>1, <4>1 DEF Kept, Writing
    <3>2. CASE k = s.key /\ s.doc = Document(k)
      <4>1. live'[k].doc = Document(k)' /\ live'[k].at = s.at /\ live[k].at <= s.at
        BY <1>0, <1>3, <1>5, <2>0, <3>2
      <4>2. ASSUME NEW c \in syncs', Writing(c, k), c.doc # Document(k)'
            PROVE  \/ c.at < live'[k].at
                   \/ \E d \in syncs' : Writing(d, k) /\ d.doc = Document(k)' /\ d.at > c.at
        <5>1. c \in syncs /\ c.doc # Document(k)
          BY <1>3, <1>4, <4>2 DEF Writing
        <5>2. CASE c.at < live[k].at
          BY <1>0, <1>5, <3>0, <4>1, <5>1, <5>2
        <5>3. CASE \E d \in syncs : Writing(d, k) /\ d.doc = Document(k) /\ d.at > c.at
          <6>1. PICK d \in syncs : Writing(d, k) /\ d.doc = Document(k) /\ d.at > c.at
            BY <5>3
          <6>2. CASE d = s
            BY <1>0, <3>0, <4>1, <5>1, <6>1, <6>2
          <6>3. CASE d # s
            BY <1>3, <1>4, <6>1, <6>3
          <6> QED
            BY <6>2, <6>3
        <5> QED
          BY <2>3, <4>2, <5>1, <5>2, <5>3 DEF Kept
      <4> QED
        BY <4>1, <4>2 DEF Kept, Writing
    <3>3. CASE k = s.key /\ s.doc # Document(k)
      <4>1. PICK d \in syncs : Writing(d, k) /\ d.doc = Document(k) /\ d.at > s.at
        BY <1>1, <2>0, <2>3, <3>3 DEF Kept, Writing
      <4>2. d \in syncs' /\ d.doc = Document(k)'
        BY <1>3, <1>4, <3>3, <4>1
      <4>3. live'[k].at = s.at /\ live[k].at <= s.at
        BY <1>0, <1>5, <2>0, <3>3
      <4>4. ASSUME NEW c \in syncs', Writing(c, k), c.doc # Document(k)'
            PROVE  \/ c.at < live'[k].at
                   \/ \E e \in syncs' : Writing(e, k) /\ e.doc = Document(k)' /\ e.at > c.at
        <5>1. c \in syncs /\ c.doc # Document(k)
          BY <1>3, <1>4, <4>4 DEF Writing
        <5>2. CASE c.at < live[k].at
          BY <1>0, <1>5, <3>0, <4>3, <5>1, <5>2
        <5>3. CASE \E e \in syncs : Writing(e, k) /\ e.doc = Document(k) /\ e.at > c.at
          <6>1. PICK e \in syncs : Writing(e, k) /\ e.doc = Document(k) /\ e.at > c.at
            BY <5>3
          <6>2. e \in syncs'
            BY <1>4, <3>3, <6>1
          <6> QED
            BY <1>3, <6>1, <6>2
        <5> QED
          BY <2>3, <4>4, <5>1, <5>2, <5>3 DEF Kept
      <4> QED
        BY <4>1, <4>2, <4>4 DEF Kept, Writing
    <3> QED
      BY <3>1, <3>2, <3>3
  <2> QED
    BY <1>1, <1>a, <2>1, <2>2, <2>3 DEF LiveFollows
<1>10. Answered'
  <2>1. (\A c \in syncs' : c.step # "outdate") => \A c \in syncs : c.step # "outdate"
    BY <1>1
  <2>2. \A f \in Finders : finding[f] # None => finding[f].ids \subseteq Ids
    BY DEF IndexTypeOK, Finding
  <2>3. answer # None => answer \subseteq Ids
    BY DEF IndexTypeOK
  <2> QED
    BY <1>1, <1>3, <1>a, <2>1, <2>2, <2>3 DEF Answered
<1>11. NothingIsLeft'
  BY <1>1 DEF NothingIsLeft
<1> QED
  BY <1>6, <1>7, <1>8, <1>9, <1>10, <1>11

(* Calls that are lost: what they missed may be astray.                    *)
LEMMA WriteFailsKeeps ==
    ASSUME IndexInv, NEW s \in syncs, WriteFails(s)
    PROVE  IndexInv'
<1> USE DEF IndexInv
<1>1. /\ syncs' = syncs \ {s} /\ s.step = "write"
      /\ astray' = astray \cup {"live"} \cup Rebuilding
      /\ UNCHANGED <<row, made, live, temp, noted, answer, finding, mix, foreign, litter>>
      /\ rebuild' = IF s.by \in Instances THEN [rebuild EXCEPT ![s.by] = [step |-> "none"]] ELSE rebuild
  BY DEF WriteFails, Missed, database, found
<1>0. SyncSound(s)
  BY SyncIs
<1>2. [step |-> "none"] \in Rebuild
  BY DEF Rebuild
<1>3. /\ \A k \in Keys : Document(k)' = Document(k)
      /\ \A id \in Ids : IsSearchable(id)' = IsSearchable(id)
  BY <1>1, SameDocuments
<1>4. /\ rebuild' \in [Instances -> Rebuild]
      /\ \A j \in Instances : j # s.by => rebuild'[j] = rebuild[j]
      /\ s.by \in Instances => rebuild'[s.by].step = "none" /\ rebuild[s.by].step = "replay"
  BY <1>0, <1>1, <1>2 DEF IndexTypeOK, SyncSound
<1>5. IndexTypeOK'
  <2>1. \A j \in Instances : noted'[j] # None <=> rebuild'[j].step \in {"fill", "people", "swap", "delete"}
    BY <1>1, <1>4 DEF IndexTypeOK
  <2> QED
    BY <1>1, <1>4, <2>1 DEF IndexTypeOK
<1>6. Rebuilding' = Rebuilding
  BY <1>4 DEF Rebuilding
<1>7. IndexSound'
  <2>1. ASSUME NEW c \in syncs' PROVE SyncSound(c)'
    <3>1. SyncSound(c) /\ c.key \in Keys /\ c \in syncs /\ c # s
      BY <1>1, SyncIs
    <3>2. Stale(c)' <=> Stale(c)
      BY <1>3, <3>1 DEF Stale
    <3>3. c.by \in Instances => c.by # s.by
      BY <3>1 DEF SyncSound
    <3> QED
      BY <1>1, <1>4, <3>1, <3>2, <3>3 DEF SyncSound
  <2> QED
    BY <1>1, <1>6, <2>1 DEF IndexSound
<1>8. TempFollows'
  <2> SUFFICES ASSUME ~foreign', NEW j \in Instances, j \notin astray', NEW k \in Filled(j)'
               PROVE  FALSE
    BY DEF TempFollows
  <2>1. j \in Rebuilding'
    BY <1>5 DEF Filled, Rebuilding
  <2> QED
    BY <1>1, <1>6, <2>1
<1>9. LiveFollows'
  BY <1>1 DEF LiveFollows
<1>10. Answered'
  <2>1. (\A c \in syncs' : c.step # "outdate") => \A c \in syncs : c.step # "outdate"
    BY <1>1
  <2>2. \A f \in Finders : finding[f] # None => finding[f].ids \subseteq Ids
    BY DEF IndexTypeOK, Finding
  <2>3. answer # None => answer \subseteq Ids
    BY DEF IndexTypeOK
  <2> QED
    BY <1>1, <1>3, <2>1, <2>2, <2>3 DEF Answered
<1>11. NothingIsLeft'
  BY <1>1, <1>4 DEF NothingIsLeft
<1> QED
  BY <1>5, <1>7, <1>8, <1>9, <1>10, <1>11

LEMMA RestartKeeps ==
    ASSUME IndexInv, NEW i \in Instances, Restart(i)
    PROVE  IndexInv'
<1> USE DEF IndexInv
<1>1. /\ syncs' = {s \in syncs : s.on # i}
      /\ rebuild' = [rebuild EXCEPT ![i] = [step |-> "none"]]
      /\ noted' = [noted EXCEPT ![i] = None] /\ litter' = TRUE
      /\ UNCHANGED <<row, made, live, temp, answer, finding, mix, foreign>>
  BY DEF Restart, database, found
<1>2. /\ "live" \in astray' /\ Rebuilding \subseteq astray' /\ astray \subseteq astray'
      /\ (\E s \in syncs : s.on = i /\ s.step = "outdate") => "answer" \in astray'
  BY DEF Restart
<1>3. /\ \A k \in Keys : Document(k)' = Document(k)
      /\ \A id \in Ids : IsSearchable(id)' = IsSearchable(id)
  BY <1>1, SameDocuments
<1>4. /\ rebuild' \in [Instances -> Rebuild] /\ rebuild'[i].step = "none"
      /\ \A j \in Instances \ {i} : rebuild'[j] = rebuild[j]
  <2>1. [step |-> "none"] \in Rebuild
    BY DEF Rebuild
  <2> QED
    BY <1>1, <2>1 DEF IndexTypeOK
<1>5. Rebuilding' \subseteq Rebuilding \ {i}
  BY <1>4 DEF Rebuilding
<1>6. IndexTypeOK'
  <2>1. noted' \in [Instances -> (SUBSET Ids) \cup {None}]
    BY <1>1 DEF IndexTypeOK
  <2>2. \A j \in Instances : noted'[j] # None <=> rebuild'[j].step \in {"fill", "people", "swap", "delete"}
    BY <1>1, <1>4 DEF IndexTypeOK
  <2> QED
    BY <1>1, <1>4, <2>1, <2>2 DEF IndexTypeOK
<1>7. IndexSound'
  <2>1. ASSUME NEW c \in syncs' PROVE SyncSound(c)'
    <3>1. SyncSound(c) /\ c.key \in Keys /\ c \in syncs /\ c.on # i
      BY <1>1, SyncIs
    <3>2. Stale(c)' <=> Stale(c)
      BY <1>3, <3>1 DEF Stale
    <3> QED
      BY <1>1, <1>4, <3>1, <3>2 DEF SyncSound
  <2> QED
    BY <1>1, <1>5, <2>1 DEF IndexSound
<1>8. TempFollows'
  <2> SUFFICES ASSUME ~foreign', NEW j \in Instances, j \notin astray', NEW k \in Filled(j)'
               PROVE  FALSE
    BY DEF TempFollows
  <2>1. j \in Rebuilding'
    BY <1>6 DEF Filled, Rebuilding
  <2> QED
    BY <1>2, <1>5, <2>1
<1>9. LiveFollows'
  BY <1>2 DEF LiveFollows
<1>10. Answered'
  <2>1. (\A c \in syncs' : c.step # "outdate") /\ "answer" \notin astray' =>
           "answer" \notin astray /\ \A c \in syncs : c.step # "outdate"
    BY <1>1, <1>2
  <2>2. \A f \in Finders : finding[f] # None => finding[f].ids \subseteq Ids
    BY DEF IndexTypeOK, Finding
  <2>3. answer # None => answer \subseteq Ids
    BY DEF IndexTypeOK
  <2> QED
    BY <1>1, <1>3, <2>1, <2>2, <2>3 DEF Answered
<1>11. NothingIsLeft'
  BY <1>1 DEF NothingIsLeft
<1> QED
  BY <1>6, <1>7, <1>8, <1>9, <1>10, <1>11

-----------------------------------------------------------------------------
(* A rebuild.                                                              *)

LEMMA SyncsStaySound ==
    ASSUME IndexInv, NEW i \in Instances, rebuild[i].step # "replay",
           UNCHANGED <<row, made, syncs>>, \A j \in Instances \ {i} : rebuild'[j] = rebuild[j]
    PROVE  \A c \in syncs' : SyncSound(c)'
<1>1. \A k \in Keys : Document(k)' = Document(k)
  BY SameDocuments
<1>2. ASSUME NEW c \in syncs PROVE SyncSound(c)'
  <2>1. SyncSound(c) /\ c.key \in Keys
    BY SyncIs DEF IndexInv
  <2>2. Stale(c)' <=> Stale(c)
    BY <1>1, <2>1 DEF Stale
  <2> QED
    BY <2>1, <2>2 DEF SyncSound
<1> QED
  BY <1>2

LEMMA AnswersStay ==
    ASSUME IndexInv, UNCHANGED <<row, syncs, answer, finding, mix>>,
           "answer" \in astray => "answer" \in astray'
    PROVE  Answered'
<1>1. \A id \in Ids : IsSearchable(id)' = IsSearchable(id)
  BY SameDocuments
<1>2. \A f \in Finders : finding[f] # None => finding[f].ids \subseteq Ids
  BY DEF IndexInv, IndexTypeOK, Finding
<1>3. answer # None => answer \subseteq Ids
  BY DEF IndexInv, IndexTypeOK
<1> QED
  BY <1>1, <1>2, <1>3 DEF IndexInv, Answered

(* The other instances go on as they were, i with nothing filled, or with  *)
(* what is filled right.                                                   *)
LEMMA OthersFill ==
    ASSUME IndexInv, NEW i \in Instances, UNCHANGED <<row, syncs, foreign>>,
           \A j \in Instances \ {i} : /\ rebuild'[j] = rebuild[j] /\ noted'[j] = noted[j]
                                      /\ temp'[j] = temp[j] /\ (j \in astray => j \in astray'),
           ~foreign /\ i \notin astray' =>
             \A k \in Filled(i)' : Unnoted(k) \/ NotedBy(i, k)' \/ FilledRight(i, k)'
    PROVE  TempFollows'
<1>1. \A k \in Keys : Document(k)' = Document(k)
  BY SameDocuments
<1> SUFFICES ASSUME ~foreign', NEW j \in Instances, j \notin astray', NEW k \in Filled(j)'
             PROVE  Unnoted(k)' \/ NotedBy(j, k)' \/ FilledRight(j, k)'
  BY DEF TempFollows
<1>2. Unnoted(k) => Unnoted(k)'
  BY DEF Unnoted
<1>3. CASE j = i
  BY <1>2, <1>3
<1>4. CASE j # i
  <2>1. k \in Filled(j) /\ k \in Keys /\ j \notin astray /\ ~foreign
    BY <1>4 DEF Filled
  <2>2. NotedBy(j, k) => NotedBy(j, k)'
    BY <1>4 DEF NotedBy
  <2>3. FilledRight(j, k) => FilledRight(j, k)'
    BY <1>1, <1>4, <2>1 DEF FilledRight
  <2> QED
    BY <1>2, <2>1, <2>2, <2>3 DEF IndexInv, TempFollows
<1> QED
  BY <1>3, <1>4

(* The index that is searched is not touched, nor what is to be applied.   *)
LEMMA LiveStays ==
    ASSUME IndexInv, UNCHANGED <<row, syncs, live, foreign>>,
           "live" \in astray => "live" \in astray',
           \A k \in Keys : ToApply(k) => ToApply(k)'
    PROVE  LiveFollows'
<1>1. \A k \in Keys : Document(k)' = Document(k)
  BY SameDocuments
<1>2. \A k \in Keys : (Unread(k) => Unread(k)') /\ (Kept(k) => Kept(k)')
  BY <1>1 DEF Unread, Kept
<1> QED
  BY <1>2 DEF IndexInv, LiveFollows

LEMMA ReindexKeeps ==
    ASSUME IndexInv, NEW i \in Instances, Reindex(i)
    PROVE  IndexInv'
<1> USE DEF IndexInv
<1> DEFINE new == [step |-> "fill", after |-> 0]
<1>1. /\ rebuild[i].step = "none" /\ rebuild' = [rebuild EXCEPT ![i] = new]
      /\ noted' = [noted EXCEPT ![i] = {}] /\ temp' = [temp EXCEPT ![i] = Empty]
      /\ astray' = astray \ {i}
      /\ UNCHANGED <<row, made, syncs, live, answer, finding, mix, foreign, litter>>
  BY DEF Reindex, NewMap, database, found
<1>2. new \in Rebuild /\ Empty \in Index /\ {} \in SUBSET Ids /\ {} # None
  BY IndexAssumption DEF Rebuild, Index, Entry, Empty
<1>3. /\ rebuild'[i] = new /\ noted'[i] = {} /\ temp'[i] = Empty /\ noted[i] = None
      /\ \A j \in Instances \ {i} :
           rebuild'[j] = rebuild[j] /\ noted'[j] = noted[j] /\ temp'[j] = temp[j]
  BY <1>1 DEF IndexTypeOK
<1>4. IndexTypeOK'
  <2>1. /\ rebuild' \in [Instances -> Rebuild] /\ noted' \in [Instances -> (SUBSET Ids) \cup {None}]
        /\ temp' \in [Instances -> Index \cup {None}]
    BY <1>1, <1>2 DEF IndexTypeOK
  <2>2. \A j \in Instances : noted'[j] # None <=> rebuild'[j].step \in {"fill", "people", "swap", "delete"}
    BY <1>2, <1>3 DEF IndexTypeOK
  <2> QED
    BY <1>1, <2>1, <2>2 DEF IndexTypeOK
<1>5. IndexSound'
  <2>1. \A j \in Rebuilding' : temp'[j] \in Index
    BY <1>2, <1>3 DEF IndexSound, Rebuilding
  <2> QED
    BY <1>1, <1>3, <2>1, SyncsStaySound DEF IndexSound
<1>6. TempFollows'
  <2>0. rebuild'[i].step = "fill" /\ rebuild'[i].after = 0
    BY <1>3
  <2> HIDE DEF new
  <2>1. Filled(i)' = {}
    <3>1. ASSUME NEW k \in Keys, k # Owner PROVE k \in Nat /\ ~(k <= 0)
      BY <3>1, KeysAre
    <3>2. Filled(i)' \subseteq {k \in Keys : k # Owner /\ k <= 0}
      BY <2>0 DEF Filled
    <3> QED
      BY <3>1, <3>2
  <2> QED
    BY <1>1, <1>3, <2>1, OthersFill
<1>7. LiveFollows'
  <2>1. \A k \in Keys : ToApply(k) => ToApply(k)'
    BY <1>1, <1>3 DEF ToApply
  <2> QED
    BY <1>1, <2>1, LiveStays, IndexAssumption
<1>8. Answered'
  BY <1>1, AnswersStay, IndexAssumption
<1>9. NothingIsLeft'
  BY <1>1, <1>3 DEF NothingIsLeft
<1> QED
  BY <1>4, <1>5, <1>6, <1>7, <1>8, <1>9

(* A step of the rebuild on i that fills its index.                        *)
LEMMA FillStep ==
    ASSUME IndexInv, NEW i \in Instances, i \in Rebuilding,
           NEW next \in Rebuild, rebuild' = [rebuild EXCEPT ![i] = next],
           next.step \in {"fill", "people", "swap"},
           temp' \in [Instances -> Index \cup {None}], temp'[i] \in Index,
           \A j \in Instances \ {i} : temp'[j] = temp[j],
           UNCHANGED <<row, made, syncs, live, noted, answer, finding, mix, astray, foreign, litter>>,
           \A k \in Filled(i)' : /\ k \notin Filled(i) => temp'[i][k] = [doc |-> Document(k), at |-> made]
                                 /\ k \in Filled(i) => temp'[i][k] = temp[i][k]
    PROVE  IndexInv'
<1> USE DEF IndexInv
<1>1. /\ rebuild'[i] = next /\ rebuild' \in [Instances -> Rebuild] /\ rebuild[i].step # "replay"
      /\ \A j \in Instances \ {i} : rebuild'[j] = rebuild[j]
  BY DEF IndexTypeOK, Rebuilding
<1>2. \A k \in Keys : Document(k)' = Document(k)
  BY SameDocuments
<1>3. IndexTypeOK'
  <2>1. \A j \in Instances : noted'[j] # None <=> rebuild'[j].step \in {"fill", "people", "swap", "delete"}
    BY <1>1 DEF IndexTypeOK, Rebuilding
  <2> QED
    BY <1>1, <2>1 DEF IndexTypeOK
<1>4. IndexSound'
  <2>1. \A j \in Rebuilding' : temp'[j] \in Index
    BY <1>1 DEF IndexSound, Rebuilding
  <2> QED
    BY <1>1, <2>1, SyncsStaySound DEF IndexSound
<1>5. TempFollows'
  <2>1. ASSUME ~foreign, i \notin astray', NEW k \in Filled(i)'
        PROVE  Unnoted(k) \/ NotedBy(i, k)' \/ FilledRight(i, k)'
    <3>0. k \in Keys
      BY DEF Filled
    <3>1. CASE k \in Filled(i)
      <4>1. Unnoted(k) \/ NotedBy(i, k) \/ FilledRight(i, k)
        BY <2>1, <3>1 DEF TempFollows
      <4>2. NotedBy(i, k) => NotedBy(i, k)'
        BY DEF NotedBy
      <4>3. FilledRight(i, k) => FilledRight(i, k)'
        BY <1>2, <2>1, <3>0, <3>1 DEF FilledRight
      <4> QED
        BY <4>1, <4>2, <4>3
    <3>2. CASE k \notin Filled(i)
      <4>0. temp'[i][k] = [doc |-> Document(k), at |-> made]
        BY <2>1, <3>2
      <4>1. temp'[i][k].doc = Document(k) /\ temp'[i][k].at = made
        BY <4>0
      <4>2. ASSUME NEW s \in syncs, Writing(s, k), s.doc # Document(k)
            PROVE  s.at < made
        BY <4>2, SyncIs DEF SyncSound, Stale, Writing
      <4>3. FilledRight(i, k)'
        BY <1>2, <3>0, <4>1, <4>2 DEF FilledRight, Writing
      <4> QED
        BY <4>3
    <3> QED
      BY <3>1, <3>2
  <2> QED
    BY <1>1, <2>1, OthersFill
<1>6. LiveFollows'
  <2>1. \A k \in Keys : ToApply(k) => ToApply(k)'
    BY <1>1 DEF ToApply
  <2> QED
    BY <2>1, LiveStays
<1>7. Answered'
  BY AnswersStay
<1>8. NothingIsLeft'
  BY <1>1 DEF NothingIsLeft
<1> QED
  BY <1>3, <1>4, <1>5, <1>6, <1>7, <1>8

LEMMA FillKeeps ==
    ASSUME IndexInv, NEW i \in Instances, Fill(i)
    PROVE  IndexInv'
<1> USE DEF IndexInv
<1> DEFINE after == rebuild[i].after
           rest == Beyond(after)
           last == IF rest = {} THEN Cardinality(Ids)
                   ELSE CHOOSE id \in rest : \A x \in rest : id <= x
           full == [k \in Keys |-> IF k > after /\ k <= last
                                   THEN [doc |-> IF k \in rest THEN Document(k) ELSE 0, at |-> made]
                                   ELSE temp[i][k]]
           next == IF rest = {} THEN [step |-> "people"] ELSE [step |-> "fill", after |-> last]
<1>1. rebuild[i].step = "fill" /\ i \in Rebuilding
  BY DEF Fill, Rebuilding
<1>2. after \in Nat
  BY <1>1 DEF IndexTypeOK, Rebuild
<1>3. rest \subseteq Ids /\ \A k \in Ids : k \in rest <=> k > after /\ IsSearchable(k)
  BY DEF Beyond
<1>4. /\ last \in Nat
      /\ rest # {} => last \in rest /\ \A x \in rest : last <= x
  <2>1. CASE rest = {}
    BY <2>1, KeysAre
  <2>2. CASE rest # {}
    <3>1. rest \in SUBSET Nat
      BY <1>3, KeysAre
    <3>2. \E id \in rest : \A x \in rest : id <= x
      <4> HIDE DEF rest
      <4> QED
        BY <2>2, <3>1, LeastIsOne
    <3>3. last \in rest /\ \A x \in rest : last <= x
      <4> HIDE DEF rest
      <4> QED
        BY <2>2, <3>2
    <3> QED
      BY <2>2, <3>1, <3>3
  <2> QED
    BY <2>1, <2>2
<1>5. rebuild' = [rebuild EXCEPT ![i] = next] /\ temp' = [temp EXCEPT ![i] = full]
  <2>1. temp' = [temp EXCEPT ![i] =
                   [k \in Keys |-> IF k > after /\ k <= last
                                   THEN [doc |-> IF k \in rest THEN Document(k) ELSE 0, at |-> made]
                                   ELSE @[k]]]
    BY Zenon DEF Fill
  <2>2. rebuild' = [rebuild EXCEPT ![i] = next]
    BY Zenon DEF Fill
  <2> QED
    BY <2>1, <2>2
<1>6. UNCHANGED <<row, made, syncs, live, noted, answer, finding, mix, astray, foreign, litter>>
  BY DEF Fill, database, found, indexHistory
<1>7. ASSUME NEW k \in Keys, k > after, k <= last
      PROVE  (IF k \in rest THEN Document(k) ELSE 0) = Document(k)
  <2>1. k \in Ids
    BY <1>2, <1>7, KeysAre
  <2>2. CASE k \notin rest
    <3>1. ~IsSearchable(k)
      BY <1>3, <1>7, <2>1, <2>2
    <3>2. Document(k) = 0
      BY <2>1, <3>1, KeysAre DEF Document, ListingDocument
    <3> QED
      BY <2>2, <3>2
  <2> QED
    BY <2>2
<1>8. temp[i] \in Index
  BY <1>1 DEF IndexSound
<1> HIDE DEF rest, last
<1>9. /\ \A k \in Keys : IF k > after /\ k <= last THEN full[k] = [doc |-> Document(k), at |-> made]
                         ELSE full[k] = temp[i][k]
      /\ full \in Index
  <2>1. \A k \in Keys : IF k > after /\ k <= last THEN full[k] = [doc |-> Document(k), at |-> made]
                        ELSE full[k] = temp[i][k]
    BY <1>7
  <2>2. \A k \in Keys : full[k] \in Entry
    BY <1>8, <2>1, DocumentIs DEF Index, Entry, IndexTypeOK
  <2> QED
    BY <2>1, <2>2 DEF Index
<1>10. next \in Rebuild /\ next.step \in {"fill", "people", "swap"}
  BY <1>4 DEF Rebuild
<1>11. /\ temp' \in [Instances -> Index \cup {None}] /\ temp'[i] = full
       /\ \A j \in Instances \ {i} : temp'[j] = temp[j] /\ rebuild'[i] = next
  <2> HIDE DEF full, next
  <2> QED
    BY <1>5, <1>9 DEF IndexTypeOK
<1>12. ASSUME NEW k \in Filled(i)'
       PROVE  /\ k \notin Filled(i) => temp'[i][k] = [doc |-> Document(k), at |-> made]
              /\ k \in Filled(i) => temp'[i][k] = temp[i][k]
  <2>0. rebuild'[i] = next
    <3> HIDE DEF next
    <3> QED
      BY <1>5 DEF IndexTypeOK
  <2>1. k \in Ids /\ k \in Keys /\ k \in Nat /\ k # Owner /\ k <= last
    <3>1. CASE rest = {}
      <4>1. rebuild'[i].step = "people"
        BY <2>0, <3>1
      <4>2. last = Cardinality(Ids)
        BY <3>1 DEF last
      <4> QED
        BY <1>12, <4>1, <4>2, KeysAre DEF Filled
    <3>2. CASE rest # {}
      <4>1. rebuild'[i].step = "fill" /\ rebuild'[i].after = last
        BY <2>0, <3>2
      <4> QED
        BY <1>12, <4>1, KeysAre DEF Filled
    <3> QED
      BY <3>1, <3>2
  <2>2. k \in Filled(i) <=> k <= after
    BY <1>1, <2>1 DEF Filled
  <2>3. k <= after \/ k > after
    BY <1>2, <2>1
  <2>4. ~(k <= after /\ k > after)
    BY <1>2, <2>1
  <2> HIDE DEF full, after
  <2> QED
    BY <1>9, <1>11, <2>1, <2>2, <2>3, <2>4
<1> HIDE DEF full, next
<1> QED
  BY <1>1, <1>5, <1>6, <1>9, <1>10, <1>11, <1>12, FillStep

LEMMA FillPublishersKeeps ==
    ASSUME IndexInv, NEW i \in Instances, FillPublishers(i)
    PROVE  IndexInv'
<1> USE DEF IndexInv
<1> DEFINE entry == [doc |-> Document(Owner), at |-> made]
           full == [temp[i] EXCEPT ![Owner] = entry]
           next == [step |-> "swap"]
<1>1. /\ rebuild[i].step = "people" /\ i \in Rebuilding
      /\ rebuild' = [rebuild EXCEPT ![i] = next]
      /\ UNCHANGED <<row, made, syncs, live, noted, answer, finding, mix, astray, foreign, litter>>
  BY DEF FillPublishers, Rebuilding, database, found, indexHistory
<1>2. temp' = [temp EXCEPT ![i] = full]
  BY DEF FillPublishers
<1>3. temp[i] \in Index /\ next \in Rebuild
  BY <1>1 DEF IndexSound, Rebuild
<1>4. /\ full \in Index /\ full[Owner] = entry
      /\ \A k \in Keys \ {Owner} : full[k] = temp[i][k]
  BY <1>3, KeysAre, DocumentIs DEF Index, Entry, IndexTypeOK
<1> HIDE DEF full
<1>5. /\ temp' \in [Instances -> Index \cup {None}] /\ temp'[i] = full
      /\ \A j \in Instances \ {i} : temp'[j] = temp[j]
      /\ rebuild'[i] = next
  BY <1>1, <1>2, <1>4 DEF IndexTypeOK
<1>6. \A k \in Filled(i)' : /\ k \notin Filled(i) => temp'[i][k] = entry /\ k = Owner
                            /\ k \in Filled(i) => temp'[i][k] = temp[i][k]
  BY <1>1, <1>4, <1>5 DEF Filled
<1>7. \A k \in Filled(i)' : /\ k \notin Filled(i) => temp'[i][k] = [doc |-> Document(k), at |-> made]
                            /\ k \in Filled(i) => temp'[i][k] = temp[i][k]
  BY <1>6
<1>8. next.step \in {"fill", "people", "swap"}
  OBVIOUS
<1> HIDE DEF next
<1> QED
  BY <1>1, <1>3, <1>4, <1>5, <1>7, <1>8, FillStep

LEMMA SwapKeeps ==
    ASSUME IndexInv, NEW i \in Instances, SwapIndexes(i)
    PROVE  IndexInv'
<1> USE DEF IndexInv
<1> DEFINE next == [step |-> "delete"]
<1>1. /\ rebuild[i].step = "swap" /\ i \in Rebuilding
      /\ live' = temp[i] /\ temp' = [temp EXCEPT ![i] = live]
      /\ rebuild' = [rebuild EXCEPT ![i] = next]
      /\ UNCHANGED <<row, made, syncs, noted, answer, finding, mix, foreign, litter>>
  BY DEF SwapIndexes, Rebuilding, database, found
<1>2. /\ astray \ {i, "live"} \subseteq astray'
      /\ i \in astray => "live" \in astray'
  BY DEF SwapIndexes
<1>3. temp[i] \in Index /\ next \in Rebuild
  BY <1>1 DEF IndexSound, Rebuild
<1>4. /\ rebuild'[i] = next /\ rebuild' \in [Instances -> Rebuild]
      /\ \A j \in Instances \ {i} : rebuild'[j] = rebuild[j] /\ temp'[j] = temp[j]
      /\ temp' \in [Instances -> Index \cup {None}]
  BY <1>1, <1>3 DEF IndexTypeOK
<1>5. \A k \in Keys : Document(k)' = Document(k)
  BY <1>1, SameDocuments
<1>6. IndexTypeOK'
  <2>1. \A j \in Instances : noted'[j] # None <=> rebuild'[j].step \in {"fill", "people", "swap", "delete"}
    BY <1>1, <1>4 DEF IndexTypeOK
  <2> QED
    BY <1>1, <1>3, <1>4, <2>1 DEF IndexTypeOK
<1>7. IndexSound'
  <2>1. \A j \in Rebuilding' : temp'[j] \in Index
    BY <1>4 DEF IndexSound, Rebuilding
  <2> QED
    BY <1>1, <1>4, <2>1, SyncsStaySound DEF IndexSound
<1>8. TempFollows'
  <2>1. Filled(i)' = {}
    BY <1>4 DEF Filled
  <2> QED
    BY <1>1, <1>2, <1>4, <2>1, OthersFill, IndexAssumption
<1>9. LiveFollows'
  <2> SUFFICES ASSUME "live" \notin astray', ~foreign', NEW k \in Keys
               PROVE  Unread(k)' \/ ToApply(k)' \/ Kept(k)'
    BY DEF LiveFollows
  <2>1. k \in Filled(i) /\ i \notin astray /\ ~foreign
    BY <1>1, <1>2 DEF Filled
  <2>2. CASE Unnoted(k)
    BY <1>1, <2>2 DEF Unnoted, Unread
  <2>3. CASE NotedBy(i, k)
    BY <1>1, <2>3 DEF NotedBy, ToApply
  <2>4. CASE FilledRight(i, k)
    BY <1>1, <1>5, <2>4 DEF FilledRight, Kept
  <2> QED
    BY <2>1, <2>2, <2>3, <2>4 DEF TempFollows
<1>10. Answered'
  BY <1>1, <1>2, AnswersStay, IndexAssumption
<1>11. NothingIsLeft'
  BY <1>1, <1>4 DEF NothingIsLeft
<1> QED
  BY <1>6, <1>7, <1>8, <1>9, <1>10, <1>11

LEMMA RebuildFailsKeeps ==
    ASSUME IndexInv, NEW i \in Instances, RebuildFails(i)
    PROVE  IndexInv'
<1> USE DEF IndexInv
<1> DEFINE next == [step |-> "delete"]
<1>1. /\ i \in Rebuilding /\ rebuild[i].step # "replay" /\ rebuild' = [rebuild EXCEPT ![i] = next]
      /\ UNCHANGED <<row, made, syncs, live, temp, noted, answer, finding, mix, astray, foreign, litter>>
  BY DEF RebuildFails, Rebuilding, AfterFailure, database, found
<1>2. next \in Rebuild
  BY DEF Rebuild
<1>3. /\ rebuild'[i] = next /\ rebuild' \in [Instances -> Rebuild]
      /\ \A j \in Instances \ {i} : rebuild'[j] = rebuild[j]
  BY <1>1, <1>2 DEF IndexTypeOK
<1>4. IndexTypeOK'
  <2>1. \A j \in Instances : noted'[j] # None <=> rebuild'[j].step \in {"fill", "people", "swap", "delete"}
    BY <1>1, <1>3 DEF IndexTypeOK, Rebuilding
  <2> QED
    BY <1>1, <1>3, <2>1 DEF IndexTypeOK
<1>5. IndexSound'
  <2>1. \A j \in Rebuilding' : temp'[j] \in Index
    BY <1>1, <1>3 DEF IndexSound, Rebuilding
  <2> QED
    BY <1>1, <1>3, <2>1, SyncsStaySound DEF IndexSound
<1>6. TempFollows'
  <2>1. Filled(i)' = {}
    BY <1>3 DEF Filled
  <2> QED
    BY <1>1, <1>3, <2>1, OthersFill
<1>7. LiveFollows'
  <2>1. \A k \in Keys : ToApply(k) => ToApply(k)'
    BY <1>1, <1>3 DEF ToApply
  <2> QED
    BY <1>1, <2>1, LiveStays
<1>8. Answered'
  BY <1>1, AnswersStay
<1>9. NothingIsLeft'
  BY <1>1, <1>3 DEF NothingIsLeft
<1> QED
  BY <1>4, <1>5, <1>6, <1>7, <1>8, <1>9

LEMMA DeleteKeeps ==
    ASSUME IndexInv, NEW i \in Instances, DeleteQuietly(i)
    PROVE  IndexInv'
<1> USE DEF IndexInv
<1> DEFINE next == [step |-> "replay", todo |-> noted[i]]
<1>1. /\ rebuild[i].step = "delete" /\ rebuild' = [rebuild EXCEPT ![i] = next]
      /\ noted' = [noted EXCEPT ![i] = None]
      /\ UNCHANGED <<row, made, syncs, live, answer, finding, mix, astray, foreign>>
  BY DEF DeleteQuietly, ChangedMeanwhile, database, found
<1>2. \/ temp' = [temp EXCEPT ![i] = None] /\ litter' = litter
      \/ litter' = TRUE /\ temp' = temp
  BY DEF DeleteQuietly
<1>3. noted[i] # None /\ noted[i] \in SUBSET Ids
  BY <1>1 DEF IndexTypeOK
<1>4. next \in Rebuild
  BY <1>3 DEF Rebuild
<1>5. /\ rebuild'[i] = next /\ rebuild' \in [Instances -> Rebuild] /\ noted'[i] = None
      /\ noted' \in [Instances -> (SUBSET Ids) \cup {None}]
      /\ \A j \in Instances \ {i} : rebuild'[j] = rebuild[j] /\ noted'[j] = noted[j]
  BY <1>1, <1>4 DEF IndexTypeOK
<1>6. /\ temp' \in [Instances -> Index \cup {None}]
      /\ \A j \in Instances \ {i} : temp'[j] = temp[j]
      /\ litter' \/ (temp'[i] = None /\ litter' = litter)
  BY <1>2 DEF IndexTypeOK
<1>7. IndexTypeOK'
  <2>1. \A j \in Instances : noted'[j] # None <=> rebuild'[j].step \in {"fill", "people", "swap", "delete"}
    BY <1>1, <1>5 DEF IndexTypeOK
  <2> QED
    BY <1>1, <1>5, <1>6, <2>1 DEF IndexTypeOK
<1>8. IndexSound'
  <2>1. \A j \in Rebuilding' : temp'[j] \in Index
    BY <1>5, <1>6 DEF IndexSound, Rebuilding
  <2> QED
    BY <1>1, <1>5, <2>1, SyncsStaySound DEF IndexSound
<1>9. TempFollows'
  <2>1. Filled(i)' = {}
    BY <1>5 DEF Filled
  <2> QED
    BY <1>1, <1>5, <1>6, <2>1, OthersFill
<1>10. LiveFollows'
  <2>1. ASSUME NEW k \in Keys, ToApply(k) PROVE ToApply(k)'
    <3>1. PICK j \in Instances :
            \/ noted[j] # None /\ (IF k = Owner THEN noted[j] # {} ELSE k \in noted[j])
            \/ rebuild[j].step = "replay"
               /\ (IF k = Owner THEN rebuild[j].todo # {} ELSE k \in rebuild[j].todo)
      BY <2>1 DEF ToApply
    <3>2. CASE j = i
      <4>1. IF k = Owner THEN noted[i] # {} ELSE k \in noted[i]
        BY <1>1, <3>1, <3>2
      <4>2. rebuild'[i].step = "replay" /\ rebuild'[i].todo = noted[i]
        BY <1>5
      <4> QED
        BY <4>1, <4>2 DEF ToApply
    <3>3. CASE j # i
      BY <1>5, <3>1, <3>3 DEF ToApply
    <3> QED
      BY <3>2, <3>3
  <2> QED
    BY <1>1, <2>1, LiveStays
<1>11. Answered'
  BY <1>1, AnswersStay
<1>12. NothingIsLeft'
  BY <1>5, <1>6 DEF NothingIsLeft
<1> QED
  BY <1>7, <1>8, <1>9, <1>10, <1>11, <1>12

LEMMA ApplyKeeps ==
    ASSUME IndexInv, NEW i \in Instances, ApplyAgain(i)
    PROVE  IndexInv'
<1> USE DEF IndexInv
<1>1. /\ rebuild[i].step = "replay" /\ \A s \in syncs : s.by # i
      /\ UNCHANGED <<row, made, live, temp, noted, answer, finding, mix, astray, foreign, litter>>
  BY DEF ApplyAgain, database, found, indexHistory
<1>2. rebuild[i].todo \in SUBSET Ids /\ rebuild[i] \in Rebuild /\ made \in Nat
  BY <1>1 DEF IndexTypeOK, Rebuild
<1>3. \A k \in Keys : Document(k)' = Document(k)
  BY <1>1, SameDocuments
<1>4. CASE rebuild[i].todo = {}
  <2> DEFINE next == [step |-> "none"]
  <2>1. rebuild' = [rebuild EXCEPT ![i] = next] /\ UNCHANGED syncs /\ next \in Rebuild
    BY <1>4 DEF ApplyAgain, Rebuild
  <2>2. /\ rebuild'[i] = next /\ rebuild' \in [Instances -> Rebuild]
        /\ \A j \in Instances \ {i} : rebuild'[j] = rebuild[j]
    BY <2>1 DEF IndexTypeOK
  <2>3. IndexTypeOK'
    <3>1. \A j \in Instances : noted'[j] # None <=> rebuild'[j].step \in {"fill", "people", "swap", "delete"}
      BY <1>1, <2>2 DEF IndexTypeOK
    <3> QED
      BY <1>1, <2>1, <2>2, <3>1 DEF IndexTypeOK
  <2>4. IndexSound'
    <3>1. \A j \in Rebuilding' : temp'[j] \in Index
      BY <1>1, <2>2 DEF IndexSound, Rebuilding
    <3>2. ASSUME NEW c \in syncs PROVE SyncSound(c)'
      <4>1. SyncSound(c) /\ c.key \in Keys /\ c.by # i
        BY <1>1, SyncIs
      <4>2. Stale(c)' <=> Stale(c)
        BY <1>3, <4>1 DEF Stale
      <4> QED
        BY <1>1, <2>1, <2>2, <4>1, <4>2 DEF SyncSound
    <3> QED
      BY <2>1, <3>1, <3>2 DEF IndexSound
  <2>5. TempFollows'
    <3>1. Filled(i)' = {}
      BY <2>2 DEF Filled
    <3> QED
      BY <1>1, <2>1, <2>2, <3>1, OthersFill
  <2>6. LiveFollows'
    <3>1. \A k \in Keys : ToApply(k) => ToApply(k)'
      BY <1>1, <1>4, <2>2 DEF ToApply, IndexTypeOK
    <3> QED
      BY <1>1, <2>1, <3>1, LiveStays
  <2>7. Answered'
    BY <1>1, <2>1, AnswersStay
  <2>8. NothingIsLeft'
    BY <1>1, <2>2 DEF NothingIsLeft
  <2> QED
    BY <2>3, <2>4, <2>5, <2>6, <2>7, <2>8
<1>5. CASE rebuild[i].todo # {}
  <2>0. PICK id \in rebuild[i].todo :
          /\ syncs' = syncs \cup {[s EXCEPT !.step = "read"] : s \in Changed(i, i, {id})}
          /\ rebuild' = [rebuild EXCEPT ![i].todo = @ \ {id}]
    BY <1>5 DEF ApplyAgain
  <2> DEFINE todo == rebuild[i].todo \ {id}
             next == [rebuild[i] EXCEPT !.todo = todo]
             new == [by |-> i, on |-> i, id |-> id, key |-> id, step |-> "read", doc |-> 0, at |-> 0]
  <2>1. id \in Ids /\ id # Owner
    BY <1>2, KeysAre
  <2>2. syncs' = syncs \cup {new}
    <3>1. Changed(i, i, {id}) =
             {[by |-> i, on |-> i, id |-> id, key |-> id, step |-> First, doc |-> 0, at |-> 0]}
      BY DEF Changed
    <3> DEFINE c == [by |-> i, on |-> i, id |-> id, key |-> id, step |-> First, doc |-> 0, at |-> 0]
    <3>2. [c EXCEPT !.step = "read"] = new
      OBVIOUS
    <3> HIDE DEF c, new
    <3>3. {[s EXCEPT !.step = "read"] : s \in {c}} = {new}
      BY <3>2
    <3>4. Changed(i, i, {id}) = {c}
      BY <3>1 DEF c
    <3> QED
      BY <2>0, <3>3, <3>4
  <2>3. /\ new \in Sync /\ new.by = i /\ new.on = i /\ new.step = "read" /\ new.key = id
        /\ new.id = id /\ new.at = 0
    BY <2>1, KeysAre DEF Sync
  <2>4. next \in Rebuild /\ next.step = "replay" /\ next.todo = todo
    BY <1>1, <1>2 DEF Rebuild
  <2>5. rebuild' = [rebuild EXCEPT ![i] = next]
    BY <2>0
  <2> HIDE DEF new, next
  <2>6. /\ rebuild'[i] = next /\ rebuild' \in [Instances -> Rebuild]
        /\ \A j \in Instances \ {i} : rebuild'[j] = rebuild[j]
    BY <2>4, <2>5 DEF IndexTypeOK
  <2>7. IndexTypeOK'
    <3>1. \A j \in Instances : noted'[j] # None <=> rebuild'[j].step \in {"fill", "people", "swap", "delete"}
      BY <1>1, <2>4, <2>6 DEF IndexTypeOK
    <3>2. syncs' \subseteq Sync
      BY <2>2, <2>3 DEF IndexTypeOK
    <3> QED
      BY <1>1, <2>6, <3>1, <3>2 DEF IndexTypeOK
  <2>8. IndexSound'
    <3>1. \A j \in Rebuilding' : temp'[j] \in Index
      BY <1>1, <2>4, <2>6 DEF IndexSound, Rebuilding
    <3>2. ASSUME NEW c \in syncs' PROVE SyncSound(c)'
      <4>1. CASE c \in syncs
        <5>1. SyncSound(c) /\ c.key \in Keys /\ c.by # i
          BY <1>1, <4>1, SyncIs
        <5>2. Stale(c)' <=> Stale(c)
          BY <1>3, <5>1 DEF Stale
        <5> QED
          BY <1>1, <2>2, <2>3, <2>6, <5>1, <5>2 DEF SyncSound
      <4>2. CASE c = new
        <5>1. ~Stale(c)'
          BY <2>3, <4>2 DEF Stale
        <5> QED
          BY <1>1, <1>2, <2>2, <2>3, <2>4, <2>6, <4>2, <5>1 DEF SyncSound
      <4> QED
        BY <2>2, <4>1, <4>2
    <3> QED
      BY <3>1, <3>2 DEF IndexSound
  <2>9. TempFollows'
    <3> SUFFICES ASSUME ~foreign', NEW j \in Instances, j \notin astray', NEW k \in Filled(j)'
                 PROVE  Unnoted(k)' \/ NotedBy(j, k)' \/ FilledRight(j, k)'
      BY DEF TempFollows
    <3>1. k \in Filled(j) /\ k \in Keys /\ ~foreign /\ j \notin astray
      BY <1>1, <2>4, <2>6 DEF Filled
    <3>2. Unnoted(k) => Unnoted(k)'
      BY <2>2 DEF Unnoted
    <3>3. NotedBy(j, k) => NotedBy(j, k)'
      BY <1>1 DEF NotedBy
    <3>4. FilledRight(j, k) => FilledRight(j, k)'
      BY <1>1, <1>3, <2>2, <2>3, <3>1 DEF FilledRight, Writing
    <3> QED
      BY <3>1, <3>2, <3>3, <3>4 DEF TempFollows
  <2>10. LiveFollows'
    <3> SUFFICES ASSUME "live" \notin astray', ~foreign', NEW k \in Keys
                 PROVE  Unread(k)' \/ ToApply(k)' \/ Kept(k)'
      BY DEF LiveFollows
    <3>1. Unread(k) => Unread(k)'
      BY <2>2 DEF Unread
    <3>2. k \in {id, Owner} => Unread(k)'
      BY <2>2, <2>3 DEF Unread
    <3>3. k \notin {id, Owner} /\ ToApply(k) => ToApply(k)'
      BY <1>1, <2>4, <2>6 DEF ToApply
    <3>4. Kept(k) => Kept(k)'
      <4>1. \A c : c \in syncs' /\ Writing(c, k) <=> c \in syncs /\ Writing(c, k)
        BY <2>2, <2>3 DEF Writing
      <4> QED
        BY <1>1, <1>3, <4>1 DEF Kept, Writing
    <3> QED
      BY <1>1, <3>1, <3>2, <3>3, <3>4 DEF LiveFollows
  <2>11. Answered'
    <3>1. (\A c \in syncs' : c.step # "outdate") => \A c \in syncs : c.step # "outdate"
      BY <2>2
    <3>2. \A f \in Finders : finding[f] # None => finding[f].ids \subseteq Ids
      BY DEF IndexTypeOK, Finding
    <3>3. answer # None => answer \subseteq Ids
      BY DEF IndexTypeOK
    <3>4. \A d \in Ids : IsSearchable(d)' = IsSearchable(d)
      BY <1>1, SameDocuments
    <3> QED
      BY <1>1, <3>1, <3>2, <3>3, <3>4 DEF Answered
  <2>12. NothingIsLeft'
    BY <1>1, <2>6 DEF NothingIsLeft
  <2> QED
    BY <2>7, <2>8, <2>9, <2>10, <2>11, <2>12
<1> QED
  BY <1>4, <1>5

-----------------------------------------------------------------------------
(* A search.                                                               *)

LEMMA FindersKeep ==
    ASSUME IndexInv, NEW f \in Finders, FindListings(f) \/ ReadFound(f) \/ StoreFound(f)
    PROVE  IndexInv'
<1> USE DEF IndexInv
<1>1. UNCHANGED <<row, made, syncs, live, temp, noted, rebuild, mix, astray, foreign, litter>>
  BY DEF FindListings, ReadFound, StoreFound, database, index, indexHistory
<1>2. /\ \A k \in Keys : Document(k)' = Document(k)
      /\ \A id \in Ids : IsSearchable(id)' = IsSearchable(id)
  BY <1>1, SameDocuments
<1>3. /\ \A g \in Finders : finding[g] # None => finding[g] \in Finding
      /\ answer # None => answer \subseteq Ids
  BY DEF IndexTypeOK
<1>4. /\ answer' \in (SUBSET Ids) \cup {None} /\ finding' \in [Finders -> Finding \cup {None}]
      /\ Answered'
  <2>1. CASE FindListings(f)
    <3>1. PICK ids \in SUBSET Ids :
            finding' = [finding EXCEPT ![f] = [ids |-> ids, step |-> "read", current |-> TRUE]]
      BY <2>1 DEF FindListings
    <3> DEFINE new == [ids |-> ids, step |-> "read", current |-> TRUE]
    <3>2. new \in Finding /\ new.step = "read" /\ answer' = answer /\ "find" \in mix
      BY <2>1 DEF FindListings, Finding
    <3> HIDE DEF new
    <3>3. /\ finding' \in [Finders -> Finding \cup {None}] /\ finding'[f] = new
          /\ \A g \in Finders \ {f} : finding'[g] = finding[g]
      BY <3>1, <3>2 DEF IndexTypeOK, new
    <3>4. \A g \in Finders : finding'[g] # None /\ finding'[g].step = "store" =>
             finding'[g] = finding[g] /\ finding[g].ids \subseteq Ids
      BY <1>3, <3>2, <3>3 DEF Finding
    <3> QED
      BY <1>1, <1>2, <1>3, <3>2, <3>3, <3>4 DEF Answered, IndexTypeOK
  <2>2. CASE ReadFound(f)
    <3>0. finding[f] # None /\ finding[f] \in Finding /\ answer' = answer
      BY <1>3, <2>2 DEF ReadFound
    <3>1. PICK ids \in {ByIds(finding[f].ids), ByIds(finding[f].ids) \cup {id \in Ids : IsSearchable(id)}} :
            finding' = [finding EXCEPT ![f] = [@ EXCEPT !.ids = ids, !.step = "store"]]
      BY <2>2 DEF ReadFound
    <3>6. ids \in SUBSET Ids /\ \A id \in ids : IsSearchable(id)
      <4>1. finding[f].ids \subseteq Ids
        BY <3>0 DEF Finding
      <4> QED
        BY <3>1, <4>1 DEF ByIds
    <3> DEFINE new == [finding[f] EXCEPT !.ids = ids, !.step = "store"]
    <3>2. new \in Finding /\ new.ids = ids
      BY <3>0, <3>6 DEF Finding
    <3> HIDE DEF new
    <3>3. /\ finding' \in [Finders -> Finding \cup {None}] /\ finding'[f] = new
          /\ \A g \in Finders \ {f} : finding'[g] = finding[g]
      BY <3>1, <3>2 DEF IndexTypeOK, new
    <3>4. \A g \in Finders : finding[g] # None => finding[g].ids \subseteq Ids
      BY <1>3 DEF Finding
    <3>5. "find" \in mix
      BY <3>0 DEF Answered
    <3> QED
      BY <1>1, <1>2, <1>3, <3>0, <3>6, <3>2, <3>3, <3>4, <3>5 DEF Answered, IndexTypeOK
  <2>3. CASE StoreFound(f)
    <3>0. /\ finding[f] # None /\ finding[f] \in Finding /\ finding[f].step = "store"
          /\ answer' = IF finding[f].current THEN finding[f].ids ELSE answer
          /\ finding' = [finding EXCEPT ![f] = None]
      BY <1>3, <2>3 DEF StoreFound
    <3>1. /\ finding' \in [Finders -> Finding \cup {None}] /\ finding'[f] = None
          /\ \A g \in Finders \ {f} : finding'[g] = finding[g]
      BY <3>0 DEF IndexTypeOK
    <3>2. finding[f].ids \subseteq Ids
      BY <3>0 DEF Finding
    <3>3. answer' \in (SUBSET Ids) \cup {None}
      BY <3>0, <3>2 DEF IndexTypeOK
    <3>4. \A g \in Finders : finding[g] # None => finding[g].ids \subseteq Ids
      BY <1>3 DEF Finding
    <3>5. "find" \in mix
      BY <3>0 DEF Answered
    <3>6. ASSUME \A s \in syncs : s.step # "outdate", "answer" \notin astray
          PROVE  /\ answer' # None => \A id \in answer' : IsSearchable(id)'
                 /\ \A g \in Finders :
                      finding'[g] # None /\ finding'[g].step = "store" /\ finding'[g].current =>
                        \A id \in finding'[g].ids : IsSearchable(id)'
      BY <1>2, <1>3, <3>0, <3>1, <3>2, <3>4, <3>6 DEF Answered
    <3> QED
      BY <1>1, <3>1, <3>3, <3>5, <3>6 DEF Answered
  <2> QED
    BY <2>1, <2>2, <2>3
<1>5. IndexTypeOK'
  BY <1>1, <1>4 DEF IndexTypeOK
<1>6. IndexSound'
  BY <1>1, <1>2, SyncIs DEF IndexSound, SyncSound, Stale, Rebuilding
<1>7. TempFollows'
  BY <1>1, <1>2 DEF TempFollows, Filled, Unnoted, NotedBy, FilledRight
<1>8. LiveFollows'
  <2>1. \A k \in Keys : ToApply(k) => ToApply(k)'
    BY <1>1 DEF ToApply
  <2> QED
    BY <1>1, <2>1, LiveStays
<1>9. NothingIsLeft'
  BY <1>1 DEF NothingIsLeft
<1> QED
  BY <1>4, <1>5, <1>6, <1>7, <1>8, <1>9

LEMMA IndexStutters ==
    ASSUME IndexInv, UNCHANGED indexVars
    PROVE  IndexInv'
<1> USE DEF IndexInv
<1>1. UNCHANGED <<row, made, syncs, live, temp, noted, rebuild, answer, finding, mix, astray,
                  foreign, litter>>
  BY DEF indexVars, database, index, found, indexHistory
<1>2. \A k \in Keys : Document(k)' = Document(k)
  BY <1>1, SameDocuments
<1>3. IndexTypeOK'
  BY <1>1 DEF IndexTypeOK
<1>4. IndexSound'
  BY <1>1, <1>2, SyncIs DEF IndexSound, SyncSound, Stale, Rebuilding
<1>5. TempFollows'
  BY <1>1, <1>2 DEF TempFollows, Filled, Unnoted, NotedBy, FilledRight
<1>6. LiveFollows'
  <2>1. \A k \in Keys : ToApply(k) => ToApply(k)'
    BY <1>1 DEF ToApply
  <2> QED
    BY <1>1, <2>1, LiveStays
<1>7. Answered'
  BY <1>1, AnswersStay
<1>8. NothingIsLeft'
  BY <1>1 DEF NothingIsLeft
<1> QED
  BY <1>3, <1>4, <1>5, <1>6, <1>7, <1>8

LEMMA IndexStays == Spec => []IndexInv
<1>1. IndexInv /\ [Next]_vars => IndexInv'
  <2> SUFFICES ASSUME IndexInv, [IndexNext]_indexVars PROVE IndexInv'
    BY PartsStay
  <2>1. \A i \in Running[mix] : i \in Instances
    BY IndexAssumption DEF IndexInv, IndexTypeOK
  <2>2. ASSUME NEW s \in syncs, SyncStep(s) \/ WriteFails(s) PROVE IndexInv'
    BY <2>2, OutdateKeeps, ReadKeeps, WriteKeeps, WriteFailsKeeps DEF SyncStep
  <2>3. ASSUME NEW i \in Instances, RebuildStep(i) \/ RebuildFails(i) \/ Restart(i)
        PROVE  IndexInv'
    BY <2>3, ReindexKeeps, FillKeeps, FillPublishersKeeps, SwapKeeps, DeleteKeeps, ApplyKeeps,
       RebuildFailsKeeps, RestartKeeps DEF RebuildStep
  <2>4. ASSUME NEW i \in Running[mix],
               ChangeVisibility(i) \/ \E id \in Ids : ChangeListing(i, id)
        PROVE  IndexInv'
    BY <2>4, ChangeKeeps
  <2> QED
    BY <2>1, <2>2, <2>3, <2>4, FindersKeep, IndexStutters DEF IndexNext
<1> QED
  BY <1>1, IndexInits, PTL DEF Spec

(* Every state of the three parts is well typed.                           *)
THEOREM TypeInvariant == Spec => []TypeOK
<1>1. IndexInv /\ NearbyInv /\ HistoryInv => TypeOK
  BY DEF IndexInv, NearbyInv, LookupInv, HistoryInv, TypeOK
<1> QED
  BY <1>1, IndexStays, NearbyStays, HistoryStays, PTL

(* Whatever the index says that the database does not is on its way to it, *)
(* also while it is rebuilt and swapped, unless a change was lost,         *)
(* overtaken, or made on another instance than one that was rebuilding; no *)
(* temporary index stays, unless it could not be deleted or an instance    *)
(* stopped; a cached answer holds only what is published, unless its       *)
(* outdating was lost (SearchIndexSync, MeilisearchEngine.replaceAll,      *)
(* TextSearchService).                                                     *)
THEOREM IndexIsInStep == Spec => []SearchIsInStep
<1>1. IndexInv => SearchIsInStep
  <2> SUFFICES ASSUME IndexInv PROVE SearchIsInStep
    OBVIOUS
  <2>1. IndexFollows
    <3> SUFFICES ASSUME "live" \notin astray, ~foreign, NEW k \in Keys
                 PROVE  live[k].doc = Document(k) \/ OnItsWay(k)
      BY DEF IndexFollows
    <3>1. Unread(k) => OnItsWay(k)
      BY DEF Unread, OnItsWay
    <3>2. ToApply(k) => OnItsWay(k)
      BY DEF ToApply, OnItsWay
    <3>3. Kept(k) => live[k].doc = Document(k) \/ OnItsWay(k)
      BY DEF Kept, OnItsWay, Writing
    <3> QED
      BY <3>1, <3>2, <3>3 DEF IndexInv, LiveFollows
  <2>2. FoundIsPublished
    BY DEF IndexInv, FoundIsPublished, Answered
  <2> QED
    BY <2>1, <2>2 DEF IndexInv, SearchIsInStep
<1> QED
  BY <1>1, IndexStays, PTL
=============================================================================
