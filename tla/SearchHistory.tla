---------------------------- MODULE SearchHistory ----------------------------
(***************************************************************************)
(* What a person searched for (property/src/search/history): one entry for *)
(* each text, the oldest and those past the retention forgotten as others  *)
(* come in.  One person; the expired entries of everyone go with theirs.   *)
(***************************************************************************)
EXTENDS Integers, FiniteSets

CONSTANTS
    Texts,     \* normalized
    Records,   \* requests to remember a search
    Keep,      \* HISTORY_KEEP
    Retention, \* HISTORY_RETENTION_DAYS, in moments
    MaxTime,   \* bound: moments
    NoRecord

ASSUME HistoryAssumption ==
    /\ Keep \in Nat \ {0} /\ Retention \in Nat /\ MaxTime \in Nat \ {0}
    /\ IsFiniteSet(Texts)

VARIABLES
    now,
    entries,    \* when each text was searched, 0 for no entry
    recording,  \* requests under way
    searchedAt, \* when it was searched last
    removed,    \* those removed since
    again       \* a text was searched while it was being forgotten

(* The last three only remember.                                           *)
historyVars == <<now, entries, recording, searchedAt, removed, again>>

Recording == [step : {"find", "delete"}, at : 1..MaxTime, old : SUBSET Texts]

ASSUME NoRecordIsNone == NoRecord \notin Recording

HistoryTypeOK ==
    /\ now \in 1..MaxTime
    /\ entries \in [Texts -> 0..MaxTime] /\ searchedAt \in [Texts -> 0..MaxTime]
    /\ recording \in [Records -> Recording \cup {NoRecord}]
    /\ removed \subseteq Texts /\ again \in BOOLEAN

HistoryInit ==
    /\ now = 1
    /\ entries = [t \in Texts |-> 0] /\ searchedAt = entries
    /\ recording = [r \in Records |-> NoRecord]
    /\ removed = {} /\ again = FALSE

There == {t \in Texts : entries[t] # 0}
Newer(t) == {u \in There : entries[u] > entries[t]}

Upsert(r, t) ==
    /\ recording[r] = NoRecord /\ now < MaxTime
    /\ now' = now + 1
    /\ entries' = [entries EXCEPT ![t] = now'] /\ searchedAt' = [searchedAt EXCEPT ![t] = now']
    /\ recording' = [recording EXCEPT ![r] = [step |-> "find", at |-> now', old |-> {}]]
    /\ removed' = removed \ {t}
    /\ again' = (again \/ \E q \in Records : recording[q] # NoRecord /\ t \in recording[q].old)

(* A fault: the oldest are kept.                                           *)
KeptOldest == {t \in There : Cardinality(There \ Newer(t)) > Keep}

(* A fault: one more is kept.                                              *)
BeyondOneMore == {t \in There : Cardinality(Newer(t)) > Keep}

BeyondKept == {t \in There : Cardinality(Newer(t)) >= Keep}

FindBeyondKept(r) ==
    /\ recording[r] # NoRecord /\ recording[r].step = "find"
    /\ recording' = [recording EXCEPT ![r].old = BeyondKept, ![r].step = "delete"]
    /\ UNCHANGED <<now, entries, searchedAt, removed, again>>

ForgetOld(r) ==
    /\ recording[r] # NoRecord /\ recording[r].step = "delete"
    /\ entries' = [t \in Texts |-> IF t \in recording[r].old \/ entries[t] < recording[r].at - Retention
                                   THEN 0 ELSE entries[t]]
    /\ recording' = [recording EXCEPT ![r] = NoRecord]
    /\ UNCHANGED <<now, searchedAt, removed, again>>

Remove(t) ==
    /\ t \in There
    /\ entries' = [entries EXCEPT ![t] = 0] /\ removed' = removed \cup {t}
    /\ UNCHANGED <<now, recording, searchedAt, again>>

HistoryNext ==
    \/ \E r \in Records : FindBeyondKept(r) \/ ForgetOld(r) \/ \E t \in Texts : Upsert(r, t)
    \/ \E t \in Texts : Remove(t)

-----------------------------------------------------------------------------
(* "Deletes ... this user's beyond the newest 50" (forgetOld): by however  *)
(* many requests at once, no more are kept.                                *)
FewAreKept == (\A r \in Records : recording[r] = NoRecord) => Cardinality(There) <= Keep

(* "Searching it again moves it to the top" (SearchHistoryService): what   *)
(* is among the newest that were searched and not removed is there, unless *)
(* it was searched again while it was being forgotten.                     *)
NewestAreThere ==
    ~again => \A t \in Texts \ removed :
      /\ searchedAt[t] # 0 /\ searchedAt[t] >= now - Retention
      /\ Cardinality({u \in Texts : searchedAt[u] > searchedAt[t]}) < Keep
      => entries[t] = searchedAt[t]

(* The newest searches are kept, and no more.                              *)
HistoryIsRight == FewAreKept /\ NewestAreThere

=============================================================================
